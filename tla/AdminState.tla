----------------------------- MODULE AdminState -----------------------------
(***************************************************************************)
(* What an administrator configures over HTTP (internal/dashboard): the    *)
(* manual lists (here the whitelist; the blacklist has the same handlers), *)
(* the switch of the filter, and the local records.  Each is kept twice,   *)
(* live and in the database (internal/database), and the handlers change   *)
(* one after the other, or one of them only; errors of the database are    *)
(* mostly ignored.  The process may die at any moment: the database stays, *)
(* and Server.New makes the live state anew from it and from the files of  *)
(* the config, before the dashboard serves; what it cannot open or read it *)
(* does without.  The config is taken to name no local records.            *)
(*                                                                         *)
(* SetEnabled is one step here; Filter has its own steps.                  *)
(***************************************************************************)
EXTENDS LocalRecords

CONSTANTS
  Spellings,   \* the ways the administrator writes domains
  Canonical,   \* spelling |-> the domain, as the filter keeps it
  FileDomains, \* the domains of the whitelist file
  Records,     \* the local records the administrator may post
  Requests,    \* bound: HTTP requests at a time
  MaxRestarts  \* bound: restarts of the process

ASSUME AdminAssumption ==
  /\ DOMAIN Canonical = Spellings
  /\ FileDomains \subseteq Range(Canonical)
  /\ Records \subseteq [name : Names, type : Types, value : Values]
  /\ MaxRestarts \in Nat

VARIABLES
  dbOpen,      \* the dashboard has the database
  whitelist,   \* the domains the live filter exempts
  listRows,    \* table whitelist: domains as they were written
  enabled,     \* the live filter is on
  setting,     \* table settings: filter_enabled
  recordRows,  \* table local_records (its column enabled, which nothing reads, left out)
  job,         \* request |-> what it has still to do
  listed,      \* (history) spellings the API added, to which nothing was done since
  unread,      \* (history) rows the last start did not read, not exempted since
  added,       \* (history) local records added since the start, and not dropped
  present,     \* (history) handler |-> those that were there all through its last Lookup
  alone,       \* (history) the requests under way that did all they say so far, with
               \* no other about the same matter at the same time
  apart,       \* (history) what may differ from the database until the next start;
               \* of local records, which always may, it says nothing
  restarts     \* (history) restarts so far

listVars == <<whitelist, listRows, listed, unread>>
switchVars == <<enabled, setting>>
rowVars == <<recordRows, added, present>>
requestVars == <<job, alone, apart>>
startVars == <<dbOpen, restarts>>
vars == <<recordVars, listVars, switchVars, rowVars, requestVars, startVars>>

Domains == Range(Canonical)
Entry(d) == <<d, "whitelist">>
Switch == <<"filter_enabled", "settings">>
Matter == {Entry(d) : d \in Domains} \cup {Switch}

(* What the table may say of the switch: the empty value, which the API    *)
(* stores like any other, counts for nothing at the start.                 *)
Setting == {"true", "false", ""}

(* A request under way is about some matters. *)
NoJob == [todo |-> "nothing", about |-> {}]

SpellingsOf(d) == {s \in Spellings : Canonical[s] = d}
CanonicalOf(rows) == {Canonical[s] : s \in rows}

-----------------------------------------------------------------------------
(* Server.New, for what it could read: the rows `got', the lines `file',   *)
(* the setting if `known', the config for the rest.                        *)

Switched(known, config) ==
  IF known /\ setting # "" THEN setting = "true" ELSE config

PartedAtStart(file, got, known) ==
  {Entry(d) : d \in file \ CanonicalOf(listRows)}
    \cup {Entry(d) : d \in CanonicalOf(listRows \ got)}
    \cup (IF known THEN {} ELSE {Switch})

Init ==
  /\ RecordsInit
  /\ listRows = {} /\ listed = {} /\ unread = {}
  /\ dbOpen \in BOOLEAN /\ setting \in Setting
  /\ \E known \in {b \in BOOLEAN : b => dbOpen}, config \in BOOLEAN,
        file \in SUBSET FileDomains :
       /\ enabled = Switched(known, config)
       /\ whitelist = file
       /\ apart = PartedAtStart(file, {}, known)
  /\ recordRows = {} /\ added = {} /\ present = [h \in Handlers |-> {}]
  /\ job = [r \in Requests |-> NoJob]
  /\ alone = {}
  /\ restarts = 0

-----------------------------------------------------------------------------
UnderWay(m) == \E r \in Requests : m \in job[r].about

OthersAlone(about) == {r \in alone : job[r].about \cap about = {}}

(* r goes on with `todo' later; `whole' when so far it did what it says. *)
Begin(r, todo, about, what, whole) ==
  /\ job[r] = NoJob
  /\ job' = [job EXCEPT ![r] = [todo |-> todo, about |-> about, what |-> what]]
  /\ IF whole /\ ~\E m \in about : UnderWay(m)
     THEN alone' = OthersAlone(about) \cup {r} /\ UNCHANGED apart
     ELSE alone' = OthersAlone(about) /\ apart' = apart \cup about

End(r) ==
  /\ job' = [job EXCEPT ![r] = NoJob]
  /\ alone' = alone \ {r}

(* A request of one step, that may leave live and stored state different. *)
AtOnce(m) ==
  /\ alone' = OthersAlone({m})
  /\ apart' = apart \cup {m}
  /\ UNCHANGED job

-----------------------------------------------------------------------------
(* The whitelist.  The handlers of the tables need the database. *)

(* Mutant: a domain is stored once, in whatever spelling came first. *)
PostDomainOnce(r, s) ==
  /\ dbOpen
  /\ listRows' = IF SpellingsOf(Canonical[s]) \cap listRows = {} THEN listRows \cup {s}
                 ELSE listRows
  /\ Begin(r, "list", {Entry(Canonical[s])}, s, TRUE)
  /\ UNCHANGED <<whitelist, listed, unread>>

(* handleAdminWhitelist, POST: INSERT OR IGNORE, which may fail unnoticed. *)
PostDomain(r, s) ==
  /\ dbOpen
  /\ \E ok \in BOOLEAN :
       /\ listRows' = IF ok THEN listRows \cup {s} ELSE listRows
       /\ Begin(r, "list", {Entry(Canonical[s])}, s, ok)
  /\ UNCHANGED <<whitelist, listed, unread>>

ListDomain(r) ==
  /\ job[r].todo = "list"
  /\ whitelist' = whitelist \cup {Canonical[job[r].what]}
  /\ unread' = unread \ SpellingsOf(Canonical[job[r].what])
  /\ listed' = IF r \in alone THEN listed \cup {job[r].what} ELSE listed
  /\ End(r)
  /\ UNCHANGED <<listRows, apart>>

(* DELETE with a domain: its row goes -- or, when the request names an id  *)
(* too, the row x of that id, whosever it is.  Another spelling of the     *)
(* domain keeps its row.                                                   *)
DeleteDomain(r, s, x) ==
  LET d == Canonical[s]
  IN  /\ dbOpen
      /\ \E ok \in BOOLEAN : listRows' = IF ok THEN listRows \ {x} ELSE listRows
      /\ Begin(r, "unlist", {Entry(d), Entry(Canonical[x])}, s,
               Canonical[x] = d /\ SpellingsOf(d) \cap listRows' = {})
      /\ listed' = listed \ (SpellingsOf(d) \cup {x})
      /\ UNCHANGED <<whitelist, unread>>

(* Mutant: the live entry is removed as it was written. *)
UnlistRaw(r) ==
  /\ job[r].todo = "unlist"
  /\ whitelist' = whitelist \ {job[r].what}
  /\ End(r)
  /\ UNCHANGED <<listRows, listed, unread, apart>>

UnlistDomain(r) ==
  /\ job[r].todo = "unlist"
  /\ whitelist' = whitelist \ {Canonical[job[r].what]}
  /\ End(r)
  /\ UNCHANGED <<listRows, listed, unread, apart>>

(* DELETE with an id only: the row goes, the live entry stays. *)
DeleteRow(s) ==
  /\ dbOpen
  /\ s \in listRows
  /\ listRows' = listRows \ {s}
  /\ listed' = listed \ {s}
  /\ AtOnce(Entry(Canonical[s]))
  /\ UNCHANGED <<whitelist, unread>>

(* handleFilterWhitelist, the one the page uses: the live filter only. *)
LiveWhitelist(d) ==
  /\ \/ /\ whitelist' = whitelist \cup {d}
        /\ unread' = unread \ SpellingsOf(d)
        /\ UNCHANGED listed
     \/ /\ whitelist' = whitelist \ {d}
        /\ listed' = listed \ SpellingsOf(d)
        /\ UNCHANGED unread
  /\ AtOnce(Entry(d))
  /\ UNCHANGED listRows

ListRequest(r) ==
  /\ \/ \E s \in Spellings : PostDomain(r, s)
     \/ \E s \in Spellings : \E x \in listRows \cup {s} : DeleteDomain(r, s, x)
     \/ ListDomain(r) \/ UnlistDomain(r)
  /\ UNCHANGED <<recordVars, switchVars, rowVars, startVars>>

ListAtOnce ==
  /\ (\E s \in Spellings : DeleteRow(s)) \/ (\E d \in Domains : LiveWhitelist(d))
  /\ UNCHANGED <<recordVars, switchVars, rowVars, startVars>>

-----------------------------------------------------------------------------
(* The switch of the filter. *)

(* handleFilterToggle: the filter, then the database, if there is one *)
Toggle(r, v) ==
  /\ enabled' = (v = "true")
  /\ Begin(r, "persist", {Switch}, v, TRUE)
  /\ UNCHANGED setting

PersistToggle(r) ==
  /\ job[r].todo = "persist"
  /\ \E ok \in {b \in BOOLEAN : b => dbOpen} :
       /\ setting' = IF ok THEN job[r].what ELSE setting
       /\ apart' = IF ok THEN apart ELSE apart \cup {Switch}
  /\ End(r)
  /\ UNCHANGED enabled

(* handleAdminSettings: the database, then the filter *)
SaveSetting(r, v) ==
  /\ dbOpen
  /\ setting' = v
  /\ Begin(r, "apply", {Switch}, v, TRUE)
  /\ UNCHANGED enabled

(* The same, when another setting of the request cannot be saved: nothing  *)
(* of the request is applied.                                              *)
SaveSettingOnly(v) ==
  /\ dbOpen
  /\ setting' = v
  /\ AtOnce(Switch)
  /\ UNCHANGED enabled

applySettings(r) ==
  /\ job[r].todo = "apply"
  /\ enabled' = (job[r].what = "true")
  /\ End(r)
  /\ UNCHANGED <<setting, apart>>

SwitchRequest(r) ==
  /\ \/ \E v \in {"true", "false"} : Toggle(r, v)
     \/ \E v \in Setting : SaveSetting(r, v)
     \/ PersistToggle(r) \/ applySettings(r)
  /\ UNCHANGED <<recordVars, listVars, rowVars, startVars>>

SwitchAtOnce ==
  /\ \E v \in Setting : SaveSettingOnly(v)
  /\ UNCHANGED <<recordVars, listVars, rowVars, startVars>>

-----------------------------------------------------------------------------
(* The local records. *)

(* handleAdminLocalRecords, POST: a row that is there already is refused. *)
PostRecord(r, rec) ==
  /\ dbOpen
  /\ rec \notin recordRows
  /\ recordRows' = recordRows \cup {rec}
  /\ Begin(r, "answer", {}, rec, TRUE)
  /\ UNCHANGED <<recordVars, added, present>>

Adds(rec) ==
  /\ AddRecord(rec)
  /\ added' = IF Parses(rec) THEN added \cup {rec} ELSE added
  /\ UNCHANGED present

AnswerRecord(r) ==
  /\ job[r].todo = "answer"
  /\ Adds(job[r].what)
  /\ End(r)
  /\ UNCHANGED <<recordRows, apart>>

(* DELETE: the table only, which no start of the process reads. *)
DeleteRecordRow(rec) ==
  /\ dbOpen
  /\ rec \in recordRows
  /\ recordRows' = recordRows \ {rec}
  /\ UNCHANGED <<recordVars, added, present, requestVars>>

(* handleLocalRecords, the one the page uses: the live records only. *)
LiveRecord(rec) ==
  /\ Adds(rec)
  /\ UNCHANGED <<recordRows, requestVars>>

LiveRemove(k) ==
  LET Kept(recs) == {rec \in recs : KeyOf(rec) # k}
  IN  /\ RemoveRecord(k)
      /\ added' = Kept(added)
      /\ present' = [h \in Handlers |-> Kept(present[h])]
      /\ UNCHANGED <<recordRows, requestVars>>

RecordRequest(r) ==
  /\ (\E rec \in Records : PostRecord(r, rec)) \/ AnswerRecord(r)
  /\ UNCHANGED <<listVars, switchVars, startVars>>

RecordAtOnce ==
  /\ \/ \E rec \in Records : DeleteRecordRow(rec) \/ LiveRecord(rec)
     \/ \E k \in Key : LiveRemove(k)
  /\ UNCHANGED <<listVars, switchVars, startVars>>

Resolve(h) ==
  /\ \/ /\ \E n \in Names, t \in Types : Lookup(h, n, t)
        /\ present' = [present EXCEPT ![h] = added]
     \/ LookupCNAME(h) /\ UNCHANGED present
  /\ UNCHANGED <<listVars, switchVars, recordRows, added, requestVars, startVars>>

-----------------------------------------------------------------------------
(* The process dies, and Server.New makes the next one.  The database may  *)
(* not open, a query fail at once or between two rows, the whitelist file  *)
(* be unreadable, each without notice; local_records is never read.        *)
Restart ==
  /\ restarts < MaxRestarts
  /\ restarts' = restarts + 1
  /\ dbOpen' \in BOOLEAN /\ serving' \in BOOLEAN
  /\ \E got \in {rows \in SUBSET listRows : rows # {} => dbOpen'},
        known \in {b \in BOOLEAN : b => dbOpen'}, config \in BOOLEAN,
        file \in SUBSET FileDomains :
       /\ enabled' = Switched(known, config)
       /\ whitelist' = file \cup CanonicalOf(got)
       /\ unread' = listRows \ got
       /\ apart' = PartedAtStart(file, got, known)
  /\ records' = NoRecords
  /\ lookup' = [h \in Handlers |-> NoLookup]
  /\ job' = [r \in Requests |-> NoJob]
  /\ alone' = {}
  /\ added' = {} /\ present' = [h \in Handlers |-> {}]
  /\ UNCHANGED <<listRows, listed, setting, recordRows>>

Next ==
  \/ \E r \in Requests : ListRequest(r) \/ SwitchRequest(r) \/ RecordRequest(r)
  \/ ListAtOnce \/ SwitchAtOnce \/ RecordAtOnce
  \/ \E h \in Handlers : Resolve(h)
  \/ Restart

Spec == Init /\ [][Next]_vars

-----------------------------------------------------------------------------
Job(todo, about, what) == [todo : {todo}, about : about, what : what]
Entries == SUBSET {Entry(d) : d \in Domains}

TypeOK ==
  /\ serving \in BOOLEAN /\ dbOpen \in BOOLEAN
  /\ records \in [Key -> Seq(Values)]
  /\ \A h \in Handlers : lookup[h].at \in {"start", "cname", "end"}
  /\ whitelist \subseteq Domains
  /\ listRows \subseteq Spellings /\ listed \subseteq listRows /\ unread \subseteq Spellings
  /\ enabled \in BOOLEAN /\ setting \in Setting
  /\ recordRows \subseteq Records /\ added \subseteq Records
  /\ present \in [Handlers -> SUBSET Records]
  /\ \A r \in Requests : job[r] \in {NoJob} \cup Job("list", Entries, Spellings)
       \cup Job("unlist", Entries, Spellings) \cup Job("persist", {{Switch}}, Setting)
       \cup Job("apply", {{Switch}}, Setting) \cup Job("answer", {{}}, Records)
  /\ alone \subseteq Requests /\ apart \subseteq Matter

(***************************************************************************)
(* A domain that the API has listed stays exempt, across crashes, restarts *)
(* and every other request, until a request removes it, in this or another *)
(* spelling or by its row's id -- if the database took it and no other     *)
(* request about it ran at the same time.  The one gap is a start that     *)
(* could not read its row: the domain is then not exempt until it is added *)
(* again, or until a later start reads the row, which is still there.      *)
(***************************************************************************)
ListedStaysListed ==
  \A s \in listed : s \in listRows /\ (Canonical[s] \in whitelist \/ s \in unread)

(***************************************************************************)
(* Live and stored state agree on what no request is changing, in spite of *)
(* handlers that change one before the other and of crashes in between.    *)
(* They part only by requests that overlap, a failing write, a row deleted *)
(* by its id or left under another spelling, a request that changes one of *)
(* the two, or a start that took a domain from the whitelist file or could *)
(* not read a row; and a start that reads everything brings them together. *)
(***************************************************************************)
LiveAgreesWithDatabase ==
  /\ \A d \in Domains :
       Entry(d) \in apart \/ UnderWay(Entry(d)) \/
         (d \in whitelist <=> SpellingsOf(d) \cap listRows # {})
  /\ Switch \in apart \/ UnderWay(Switch) \/ setting = "" \/
       enabled = (setting = "true")

(***************************************************************************)
(* With local records enabled, a record that is there from before a Lookup *)
(* takes its first lock until after it released its second is answered: it *)
(* is in the answer, if it is of the type asked; and if it is a CNAME of a *)
(* name asked for an address, the answer is not empty and has it, or the   *)
(* records of the type asked.  Editing the tables changes nothing of that. *)
(***************************************************************************)
Answered(h, rec) ==
  LET call == lookup[h]
  IN  /\ rec.type = call.qtype => rec.value \in Range(call.answer)
      /\ rec.type = "CNAME" /\ call.qtype \in Addresses =>
           /\ call.answer # <<>>
           /\ call.list = "CNAME" => rec.value \in Range(call.answer)

AddedIsAnswered ==
  \A h \in Handlers : serving /\ lookup[h].at = "end" =>
    \A rec \in present[h] : rec.name = lookup[h].name => Answered(h, rec)
=============================================================================
