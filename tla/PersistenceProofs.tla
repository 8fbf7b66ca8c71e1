-------------------------- MODULE PersistenceProofs -------------------------
(***************************************************************************)
(* Persistence for any cache configuration, number of starts and moment of *)
(* a crash: types, that a start restores exactly what is still good of the *)
(* last save that was completed, and how long an answer can outlive its    *)
(* resolution by being saved and loaded again.                             *)
(***************************************************************************)
EXTENDS Persistence, WellFoundedInduction, TLAPS

(* TTLs and places in a file have a smallest. *)
LEMMA NatHasLeast ==
  ASSUME NEW T \in SUBSET Nat, T # {} PROVE \E x \in T : \A y \in T : x <= y
<1> DEFINE R == OpToRel(<, Nat)
<1>1. \A i, j \in Nat : i < j => <<i, j>> \in R
  BY Zenon DEF OpToRel
<1>2. IsWellFoundedOn(R, Nat)
  BY NatLessThanWellFounded
<1> HIDE DEF R
<1>3. PICK x \in T : \A y \in T : ~ (<<y, x>> \in R)
  BY <1>2, WFMin
<1>4. \A y \in T : ~ (y < x)
  BY <1>1, <1>3
<1>5. \A y \in T : x <= y
  BY <1>4
<1> QED BY <1>5

(* Every message has a lifetime. *)
LEMMA EntryTTLType == ASSUME NEW m \in Responses PROVE EntryTTL(m) \in Nat
<1> DEFINE TTLs == m.answer \cup m.ns \cup {DefaultTTL}
<1>3. TTLs \subseteq Nat /\ TTLs # {}
  BY ResponsesAssumption, TimesAssumption
<1> HIDE DEF TTLs
<1>5. \E x \in TTLs : \A y \in TTLs : x <= y
  BY <1>3, NatHasLeast
<1>6. SmallestOf(TTLs) \in Nat
  BY <1>3, <1>5 DEF SmallestOf
<1>7. extractTTL(m) \in Nat
  BY <1>6, TimesAssumption DEF extractTTL, TTLs
<1>8. TicksPerSecond * extractTTL(m) \in Nat
  BY <1>7, TimesAssumption
<1> QED BY <1>8, TimesAssumption DEF EntryTTL

(* Set makes an entry. *)
LEMMA NewEntryType ==
  ASSUME NEW Ids, NEW q \in Question, NEW m \in Responses, NEW id \in Ids, NEW at \in Nat
  PROVE  NewEntry(q, m, id, at) \in EntryWith(Ids)
<1>1. EntryTTL(m) \in Nat /\ IsNegative(m) \in BOOLEAN
  BY EntryTTLType DEF IsNegative
<1> QED BY <1>1 DEF NewEntry, EntryWith

LEMMA KeptIsSubset ==
  ASSUME NEW es, NEW at, NEW kept \in KeptBySet(es, at) PROVE kept \subseteq DOMAIN es
BY DEF KeptBySet, evictOldest, LiveKeys

-----------------------------------------------------------------------------
(* What is in memory and in the files. *)

Records ==
  [asked : Question, msg : Responses, expires : Int, id : Nat, after : Nat]

(* The latest an answer to m resolved at t may expire after n starts. *)
Limit(m, t, n) == t + n * EntryTTL(m)

States == {"absent", "partial", "whole"}

(* A part of what the cache may hold in the n-th run of the process. *)
IsSaved(f, n) ==
  /\ DOMAIN f \subseteq Keys
  /\ \A k \in DOMAIN f : /\ f[k] \in Records /\ cacheKey(f[k].asked) = InClassIN(k)
                         /\ f[k].expires <= Limit(f[k].msg, f[k].id, n)

EntriesInv ==
  /\ DOMAIN entries \subseteq Keys
  /\ \A k \in DOMAIN entries :
       /\ entries[k] \in Entry /\ cacheKey(entries[k].question) = InClassIN(k)
       /\ entries[k].expires <= Limit(entries[k].msg, entries[k].id, boots)

ControlInv ==
  /\ up \in {"down", "serving", "closing", "stopped"}
  /\ now \in Nat /\ boots \in Nat /\ (up # "down" => boots # 0)
  /\ saver \in {"off", "idle", "encode", "rename"}
  /\ final \in BOOLEAN

(* The file of the last completed save is never touched by one that is not *)
(* completed: until it is renamed, a save has only the temporary file.     *)
FilesInv ==
  /\ IsSaved(batch, boots) /\ IsSaved(lastSave, boots)
  /\ tmp.state \in States /\ IsSaved(tmp.records, boots)
  /\ saver = "rename" => tmp = Whole(batch)
  /\ disk.state \in States /\ disk.records = lastSave

PersistenceInv == ControlInv /\ EntriesInv /\ FilesInv

(* The question in a message, and the class of a key. *)
LEMMA ClassIsIN ==
  /\ \A q \in Question : /\ NewRootQuery(q) \in Question
                        /\ cacheKey(NewRootQuery(q)) = InClassIN(cacheKey(q))
  /\ \A k : InClassIN(InClassIN(k)) = InClassIN(k)
BY QuestionAssumption DEF NewRootQuery, Question, cacheKey, InClassIN

LEMMA OneBootMore ==
  ASSUME NEW m \in Responses, NEW t \in Nat, NEW n \in Nat
  PROVE  /\ Limit(m, t, n) \in Nat /\ Limit(m, t, n + 1) = Limit(m, t, n) + EntryTTL(m)
         /\ n # 0 => t + EntryTTL(m) <= Limit(m, t, n)
<1> DEFINE ttl == EntryTTL(m)
<1>1. ttl \in Nat
  BY EntryTTLType
<1> HIDE DEF ttl
<1>2. n * ttl \in Nat /\ (n + 1) * ttl = n * ttl + ttl
  BY <1>1
<1>3. n # 0 => ttl <= n * ttl
  <2>1. n # 0 => n - 1 \in Nat
    OBVIOUS
  <2>2. n # 0 => n * ttl = (n - 1) * ttl + ttl /\ (n - 1) * ttl \in Nat
    BY <1>1, <2>1
  <2> QED BY <1>1, <2>2
<1>4. Limit(m, t, n) = t + n * ttl /\ Limit(m, t, n + 1) = t + (n + 1) * ttl
  BY DEF Limit, ttl
<1> DEFINE all == n * ttl
<1>5. all \in Nat /\ (n + 1) * ttl = all + ttl /\ (n # 0 => ttl <= all)
  BY <1>2, <1>3
<1>6. Limit(m, t, n) = t + all /\ Limit(m, t, n + 1) = t + (all + ttl)
  BY <1>4, <1>5
<1> HIDE DEF all
<1>7. /\ Limit(m, t, n) \in Nat /\ Limit(m, t, n + 1) = Limit(m, t, n) + ttl
      /\ n # 0 => t + ttl <= Limit(m, t, n)
  BY <1>1, <1>5, <1>6
<1> QED BY <1>7 DEF ttl

(* What was saved in one run is within the limits of the next. *)
LEMMA SavedStaysSaved ==
  ASSUME NEW n \in Nat, NEW f, IsSaved(f, n) PROVE IsSaved(f, n + 1)
<1>1. ASSUME NEW k \in DOMAIN f PROVE f[k].expires <= Limit(f[k].msg, f[k].id, n + 1)
  <2>1. f[k].msg \in Responses /\ f[k].id \in Nat /\ f[k].expires \in Int
    BY DEF IsSaved, Records
  <2>2. f[k].expires <= Limit(f[k].msg, f[k].id, n)
    BY DEF IsSaved
  <2>3. EntryTTL(f[k].msg) \in Nat
    BY <2>1, EntryTTLType
  <2>4. /\ Limit(f[k].msg, f[k].id, n) \in Nat
        /\ Limit(f[k].msg, f[k].id, n + 1) = Limit(f[k].msg, f[k].id, n) + EntryTTL(f[k].msg)
    BY <2>1, OneBootMore
  <2> QED BY <2>1, <2>2, <2>3, <2>4
<1> QED BY <1>1 DEF IsSaved

LEMMA FileFields ==
  /\ NoFile.state \in States /\ NoFile.records = NoRecords
  /\ Partial.state \in States /\ Partial.records = NoRecords
  /\ \A f : Whole(f).state \in States /\ Whole(f).records = f
BY DEF NoFile, Partial, Whole, States

LEMMA NothingIsSaved == \A n : IsSaved(NoRecords, n)
BY DEF NoRecords, IsSaved

(* Export, in whatever order. *)
LEMMA ExportIsSaved ==
  ASSUME EntriesInv, NEW f \in ToSave(entries, now) PROVE IsSaved(f, boots)
<1> DEFINE saved == {k \in LiveKeys(entries, now) : entries[k].expires > now}
<1>1. PICK after \in Injection(saved, 0 .. Cardinality(saved) - 1) :
        f = [k \in saved |-> Record(entries[k], after[k])]
  BY DEF ToSave
<1>2. \A k \in saved : after[k] \in Nat
  <2>1. ASSUME NEW c, NEW i \in 0 .. c PROVE i \in Nat
    BY <2>1
  <2>2. \A k \in saved : after[k] \in 0 .. Cardinality(saved) - 1
    BY Zenon DEF Injection
  <2> QED BY <2>1, <2>2
<1>3. saved \subseteq DOMAIN entries
  BY DEF LiveKeys
<1> HIDE DEF saved
<1>4. ASSUME NEW e \in Entry, NEW n \in Nat
      PROVE  /\ Record(e, n) \in Records /\ Record(e, n).asked = e.question
             /\ Record(e, n).msg = e.msg /\ Record(e, n).expires = e.expires
             /\ Record(e, n).id = e.id
  BY DEF Record, Records, Entry, EntryWith
<1>5. DOMAIN f = saved /\ \A k \in saved : f[k] = Record(entries[k], after[k])
  BY <1>1
<1> QED BY <1>2, <1>3, <1>4, <1>5 DEF IsSaved, EntriesInv

LEMMA NewEntryFields ==
  ASSUME NEW q, NEW m, NEW id, NEW at
  PROVE  /\ NewEntry(q, m, id, at).question = q /\ NewEntry(q, m, id, at).msg = m
         /\ NewEntry(q, m, id, at).id = id
         /\ NewEntry(q, m, id, at).expires = at + EntryTTL(m)
BY DEF NewEntry

LEMMA LoadedEntry ==
  ASSUME NEW x \in Records, NEW n \in Nat, x.expires <= Limit(x.msg, x.id, n),
         now \in Nat, x.expires > now
  PROVE  LET e == NewEntry(x.asked, x.msg, x.id, now)
         IN  e \in Entry /\ e.expires <= Limit(e.msg, e.id, n + 1)
<1> DEFINE e == NewEntry(x.asked, x.msg, x.id, now)
<1>1. x.asked \in Question /\ x.msg \in Responses /\ x.id \in Nat /\ x.expires \in Int
  BY DEF Records
<1>2. e \in Entry
  BY <1>1, NewEntryType DEF Entry
<1>3. e.msg = x.msg /\ e.id = x.id /\ e.expires = now + EntryTTL(x.msg)
  BY NewEntryFields
<1> HIDE DEF e
<1>4. EntryTTL(x.msg) \in Nat
  BY <1>1, EntryTTLType
<1>5. /\ Limit(x.msg, x.id, n) \in Nat
      /\ Limit(x.msg, x.id, n + 1) = Limit(x.msg, x.id, n) + EntryTTL(x.msg)
  BY <1>1, OneBootMore
<1>6. e.expires <= Limit(e.msg, e.id, n + 1)
  BY <1>1, <1>3, <1>4, <1>5
<1> QED BY <1>2, <1>6 DEF e

(* Of the records with one key there is a last one. *)
LEMMA LastOfIsOne ==
  ASSUME NEW f, NEW S, \A j \in S : f[j] \in Records,
         NEW k \in {cacheKey(f[j].asked) : j \in S}
  PROVE  LastOf(f, S, k) \in S /\ cacheKey(f[LastOf(f, S, k)].asked) = k
<1> DEFINE U == {j \in S : cacheKey(f[j].asked) = k}
           T == {f[j].after : j \in U}
<1>1. T \in SUBSET Nat /\ T # {}
  BY DEF Records
<1> HIDE DEF T
<1>2. PICK x \in T : \A y \in T : x <= y
  BY <1>1, NatHasLeast
<1>3. PICK j \in U : f[j].after = x
  BY <1>2 DEF T
<1>4. \A i \in U : f[i].after \in T
  BY DEF T
<1>5. /\ j \in S /\ cacheKey(f[j].asked) = k
      /\ \A i \in S : cacheKey(f[i].asked) = k => f[j].after <= f[i].after
  BY <1>2, <1>3, <1>4
<1> QED BY <1>5 DEF LastOf

(* What a start makes of what a save of the n-th run has left. *)
LEMMA LoadRestores ==
  ASSUME NEW f, NEW n \in Nat, IsSaved(f, n), now \in Nat,
         NEW es, es = Restored(f, Good(f, now), now)
  PROVE  /\ DOMAIN es = {InClassIN(j) : j \in Good(f, now)}
         /\ \A k \in DOMAIN es : \E j \in Good(f, now) :
              InClassIN(j) = k /\ es[k] = NewEntry(f[j].asked, f[j].msg, f[j].id, now)
<1> DEFINE S == Good(f, now)
<1>1. \A j \in S : f[j] \in Records /\ cacheKey(f[j].asked) = InClassIN(j)
  BY DEF Good, IsSaved
<1> HIDE DEF S
<1>2. DOMAIN es = {cacheKey(f[j].asked) : j \in S}
  BY DEF Restored, S
<1>3. DOMAIN es = {InClassIN(j) : j \in S}
  BY <1>1, <1>2
<1>4. ASSUME NEW k \in DOMAIN es
      PROVE  \E j \in S : InClassIN(j) = k /\ es[k] = NewEntry(f[j].asked, f[j].msg, f[j].id, now)
  <2> DEFINE j == LastOf(f, S, k)
  <2>1. es[k] = NewEntry(f[j].asked, f[j].msg, f[j].id, now)
    BY DEF Restored, S
  <2>2. j \in S /\ cacheKey(f[j].asked) = k
    BY <1>1, <1>2, LastOfIsOne
  <2> HIDE DEF j
  <2> QED BY <1>1, <2>1, <2>2
<1> QED BY <1>3, <1>4 DEF S

-----------------------------------------------------------------------------
(* The steps. *)

LEMMA PersistenceInit == Init => PersistenceInv
<1> SUFFICES ASSUME Init PROVE PersistenceInv
  OBVIOUS
<1>1. EntriesInv
  BY DEF Init, NoRecords, EntriesInv
<1>2. FilesInv
  BY NothingIsSaved, FileFields DEF Init, FilesInv
<1>3. ControlInv
  BY DEF Init, ControlInv
<1> QED BY <1>1, <1>2, <1>3 DEF PersistenceInv

LEMMA BootRestores ==
  ASSUME PersistenceInv, Boot
  PROVE  /\ DOMAIN entries' = {InClassIN(j) : j \in Good(lastSave, now)}
         /\ \A k \in DOMAIN entries' : \E j \in Good(lastSave, now) :
              /\ InClassIN(j) = k
              /\ entries'[k] = NewEntry(lastSave[j].asked, lastSave[j].msg, lastSave[j].id, now)
<1>1. /\ IsSaved(lastSave, boots) /\ boots \in Nat /\ now \in Nat
      /\ entries' = Restored(lastSave, Good(lastSave, now), now)
  BY DEF Boot, Load, PersistenceInv, FilesInv, ControlInv
<1> QED BY <1>1, LoadRestores

LEMMA BootStep == ASSUME PersistenceInv, Boot PROVE PersistenceInv'
<1>1. /\ boots' = boots + 1 /\ boots \in Nat /\ now \in Nat /\ UNCHANGED <<now, batch, tmp, disk, lastSave>>
      /\ up' = "serving" /\ saver' = "idle" /\ final' = FALSE
  BY DEF Boot, PersistenceInv, ControlInv
<1>2. ControlInv'
  <2>1. boots + 1 \in Nat /\ boots + 1 # 0
    BY <1>1
  <2> QED BY <1>1, <2>1 DEF ControlInv
<1>3. EntriesInv'
  <2>2. IsSaved(lastSave, boots)
    BY DEF PersistenceInv, FilesInv
  <2>3. \A k \in DOMAIN entries' : \E j \in Good(lastSave, now) :
          /\ InClassIN(j) = k
          /\ entries'[k] = NewEntry(lastSave[j].asked, lastSave[j].msg, lastSave[j].id, now)
    BY BootRestores
  <2>4. ASSUME NEW k \in DOMAIN entries'
        PROVE  /\ k \in Keys
               /\ entries'[k] \in Entry /\ cacheKey(entries'[k].question) = InClassIN(k)
               /\ entries'[k].expires <= Limit(entries'[k].msg, entries'[k].id, boots + 1)
    <3>1. PICK j \in Good(lastSave, now) :
            /\ InClassIN(j) = k
            /\ entries'[k] = NewEntry(lastSave[j].asked, lastSave[j].msg, lastSave[j].id, now)
      BY <2>3
    <3>2. /\ lastSave[j] \in Records /\ cacheKey(lastSave[j].asked) = InClassIN(j)
          /\ lastSave[j].expires <= Limit(lastSave[j].msg, lastSave[j].id, boots)
          /\ lastSave[j].expires > now
      BY <2>2 DEF IsSaved, Good
    <3>3. /\ entries'[k] \in Entry
          /\ entries'[k].expires <= Limit(entries'[k].msg, entries'[k].id, boots + 1)
      BY <1>1, <3>1, <3>2, LoadedEntry
    <3>4. entries'[k].question = lastSave[j].asked /\ lastSave[j].asked \in Question
      BY <3>1, <3>2, NewEntryFields DEF Records
    <3> QED BY <3>1, <3>2, <3>3, <3>4, ClassIsIN DEF Keys
  <2> QED BY <1>1, <2>4 DEF EntriesInv
<1>4. FilesInv'
  <2>1. ASSUME NEW f, IsSaved(f, boots) PROVE IsSaved(f, boots + 1)
    BY <1>1, <2>1, SavedStaysSaved
  <2>2. \A f \in {batch, lastSave, tmp.records} : IsSaved(f, boots + 1)
    BY <2>1 DEF PersistenceInv, FilesInv
  <2> QED BY <1>1, <2>2, NothingIsSaved DEF PersistenceInv, FilesInv
<1> QED BY <1>2, <1>3, <1>4 DEF PersistenceInv

LEMMA CacheAnswerStep ==
  ASSUME PersistenceInv, NEW q \in Asked, NEW m \in Responses, CacheAnswer(q, m)
  PROVE  PersistenceInv'
<1> DEFINE e == NewEntry(NewRootQuery(q), m, now, now)
<1>1. /\ now \in Nat /\ boots \in Nat /\ boots # 0
      /\ UNCHANGED <<up, now, saver, final, batch, tmp, disk, lastSave, boots>>
  BY DEF CacheAnswer, saveVars, PersistenceInv, ControlInv
<1>2. PICK kept \in KeptBySet(entries, now) :
        entries' = Stored(entries, kept, cacheKey(q), e)
  BY DEF CacheAnswer
<1>3. kept \subseteq DOMAIN entries
  BY KeptIsSubset
<1>4. q \in Question /\ e \in Entry
  BY <1>1, PersistenceAssumption, ClassIsIN, NewEntryType DEF Entry
<1>5. e.question = NewRootQuery(q) /\ e.msg = m /\ e.id = now /\ e.expires = now + EntryTTL(m)
  BY NewEntryFields
<1> HIDE DEF e
<1>6. cacheKey(q) \in Keys /\ e.expires <= Limit(e.msg, e.id, boots)
  BY <1>1, <1>4, <1>5, OneBootMore DEF Keys
<1>7. /\ DOMAIN entries' = kept \cup {cacheKey(q)}
      /\ \A k \in DOMAIN entries' : entries'[k] = IF k = cacheKey(q) THEN e ELSE entries[k]
  BY <1>2 DEF Stored
<1>8. EntriesInv'
  BY <1>1, <1>3, <1>4, <1>5, <1>6, <1>7, ClassIsIN DEF EntriesInv, PersistenceInv
<1>9. FilesInv' /\ ControlInv'
  BY <1>1 DEF FilesInv, ControlInv, PersistenceInv
<1> QED BY <1>8, <1>9 DEF PersistenceInv

LEMMA CleanupStep == ASSUME PersistenceInv, Cleanup PROVE PersistenceInv'
<1>1. UNCHANGED <<up, now, saver, final, batch, tmp, disk, lastSave, boots>>
  BY DEF Cleanup, saveVars
<1>2. /\ DOMAIN entries' \subseteq DOMAIN entries
      /\ \A k \in DOMAIN entries' : entries'[k] = entries[k]
  BY DEF Cleanup, cleanup, Restrict, LiveKeys
<1>3. EntriesInv'
  BY <1>1, <1>2 DEF EntriesInv, PersistenceInv
<1>4. FilesInv' /\ ControlInv'
  BY <1>1 DEF FilesInv, ControlInv, PersistenceInv
<1> QED BY <1>3, <1>4 DEF PersistenceInv

(* The steps of a save and of the shutdown leave the cache alone. *)
LEMMA SaveStep ==
  ASSUME PersistenceInv,
         (\E last \in BOOLEAN : BeginSave(last)) \/ SkipFinalSave \/ Encode \/ Rename \/ SaveFails
  PROVE  PersistenceInv'
<1>1. UNCHANGED <<up, entries, now, boots>>
  BY DEF BeginSave, SkipFinalSave, Encode, Rename, SaveFails
<1>2. EntriesInv'
  BY <1>1 DEF EntriesInv, PersistenceInv
<1>3. FilesInv /\ ControlInv /\ EntriesInv
  BY DEF PersistenceInv
<1>4. ASSUME NEW last \in BOOLEAN, BeginSave(last) PROVE FilesInv' /\ ControlInv'
  <2>1. IsSaved(batch', boots) /\ tmp' = Partial /\ saver' = "encode"
        /\ UNCHANGED <<disk, lastSave>> /\ final' \in BOOLEAN
    BY <1>3, <1>4, ExportIsSaved DEF BeginSave
  <2> QED BY <1>1, <1>3, <2>1, NothingIsSaved, FileFields DEF FilesInv, ControlInv
<1>5. ASSUME SkipFinalSave PROVE FilesInv' /\ ControlInv'
  BY <1>1, <1>3, <1>5 DEF SkipFinalSave, FilesInv, ControlInv
<1>6. ASSUME Encode PROVE FilesInv' /\ ControlInv'
  BY <1>1, <1>3, <1>6, FileFields DEF Encode, FilesInv, ControlInv
<1>7. ASSUME Rename PROVE FilesInv' /\ ControlInv'
  BY <1>1, <1>3, <1>7, NothingIsSaved, FileFields DEF Rename, AfterSave, FilesInv, ControlInv
<1>8. ASSUME SaveFails PROVE FilesInv' /\ ControlInv'
  BY <1>1, <1>3, <1>8, NothingIsSaved, FileFields
     DEF SaveFails, AfterSave, FilesInv, ControlInv
<1> QED BY <1>2, <1>4, <1>5, <1>6, <1>7, <1>8 DEF PersistenceInv

LEMMA EndStep == ASSUME PersistenceInv, Exit \/ Crash PROVE PersistenceInv'
<1>1. /\ up' = "down" /\ entries' = NoRecords /\ batch' = NoRecords /\ saver' = "off"
      /\ final' = FALSE /\ UNCHANGED <<now, tmp, disk, lastSave, boots>>
  BY DEF Exit, Crash, MemoryIsLost
<1>2. EntriesInv'
  BY <1>1 DEF NoRecords, EntriesInv
<1>3. FilesInv' /\ ControlInv'
  BY <1>1, NothingIsSaved DEF FilesInv, ControlInv, PersistenceInv
<1> QED BY <1>2, <1>3 DEF PersistenceInv

LEMMA OtherStep ==
  ASSUME PersistenceInv, CloseListeners \/ StopPersistence \/ Tick \/ UNCHANGED vars
  PROVE  PersistenceInv'
<1>1. UNCHANGED <<entries, saver, final, batch, tmp, disk, lastSave, boots>>
  BY DEF CloseListeners, StopPersistence, Tick, vars, saveVars
<1>2. now' \in {now, now + 1} /\ up' \in {"closing", "stopped", up}
      /\ (up = "down" => up' = "down")
  BY DEF CloseListeners, StopPersistence, Tick, vars, saveVars
<1>3. EntriesInv' /\ FilesInv'
  BY <1>1 DEF EntriesInv, FilesInv, PersistenceInv
<1>4. ControlInv'
  BY <1>1, <1>2 DEF ControlInv, PersistenceInv
<1> QED BY <1>3, <1>4 DEF PersistenceInv

LEMMA PersistenceInvHolds == Spec => []PersistenceInv
<1>1. PersistenceInv /\ [Next]_vars => PersistenceInv'
  BY BootStep, CacheAnswerStep, CleanupStep, SaveStep, EndStep, OtherStep DEF Next
<1> QED BY <1>1, PersistenceInit, PTL DEF Spec

-----------------------------------------------------------------------------
(* In memory and in the files there are only entries and records under     *)
(* keys of the cache, and a file that is not whole has none.               *)
THEOREM TypeCorrect == Spec => []TypeOK
<1>1. PersistenceInv => TypeOK
  <2> SUFFICES ASSUME PersistenceInv PROVE TypeOK
    OBVIOUS
  <2>1. ASSUME NEW f, IsSaved(f, boots) PROVE DOMAIN f \subseteq Keys
    BY <2>1 DEF IsSaved
  <2>2. tmp.state \in States /\ DOMAIN tmp.records \subseteq Keys
    BY <2>1 DEF PersistenceInv, FilesInv
  <2>3. disk.state \in States /\ DOMAIN disk.records \subseteq Keys
    BY <2>1 DEF PersistenceInv, FilesInv
  <2>4. DOMAIN batch \subseteq Keys /\ DOMAIN lastSave \subseteq Keys
    BY <2>1 DEF PersistenceInv, FilesInv
  <2> QED BY <2>2, <2>3, <2>4 DEF TypeOK, States, PersistenceInv, ControlInv, EntriesInv
<1> QED BY <1>1, PersistenceInvHolds, PTL

(* What was resolved at t is gone n of its TTLs after t if it came through *)
(* n starts: only what has not expired is loaded, and for one TTL.         *)
THEOREM LifetimePerBootHolds == Spec => []LifetimePerBoot
<1>1. PersistenceInv => LifetimePerBoot
  BY DEF PersistenceInv, EntriesInv, LifetimePerBoot, Limit
<1> QED BY <1>1, PersistenceInvHolds, PTL

(* However many saves were cut short, a start restores the answers of the  *)
(* last completed one that are still good, under their names and types in  *)
(* class IN, one where several have the same, and no others.               *)
THEOREM RestartRestoresLastSaveHolds == Spec => RestartRestoresLastSave
<1> DEFINE Restores ==
      (up = "down" /\ up' = "serving") =>
        LET good == {j \in DOMAIN lastSave : lastSave[j].expires > now}
        IN  /\ DOMAIN entries' = {InClassIN(j) : j \in good}
            /\ \A k \in DOMAIN entries' : \E j \in good :
                 /\ InClassIN(j) = k
                 /\ entries'[k].msg = lastSave[j].msg
                 /\ entries'[k].id = lastSave[j].id
<1>1. PersistenceInv /\ [Next]_vars => [Restores]_vars
  <2> SUFFICES ASSUME PersistenceInv, [Next]_vars, up = "down", up' = "serving"
               PROVE  Restores
    OBVIOUS
  <2>1. Boot
    BY DEF Next, vars, Cleanup, Tick, CacheAnswer, BeginSave, SkipFinalSave, Encode, Rename,
           SaveFails, CloseListeners, StopPersistence, Exit, Crash, MemoryIsLost
  <2>3. /\ DOMAIN entries' = {InClassIN(j) : j \in Good(lastSave, now)}
        /\ \A k \in DOMAIN entries' : \E j \in Good(lastSave, now) :
             /\ InClassIN(j) = k
             /\ entries'[k] = NewEntry(lastSave[j].asked, lastSave[j].msg, lastSave[j].id, now)
    BY <2>1, BootRestores
  <2> QED BY <2>3, NewEntryFields DEF Good
<1> QED BY <1>1, PersistenceInvHolds, PTL DEF Spec, RestartRestoresLastSave
=============================================================================
