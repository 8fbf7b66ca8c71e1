---------------------------- MODULE LocalRecords ----------------------------
(***************************************************************************)
(* internal/localrecords: the names this server answers by itself, a map   *)
(* from name and type to a list of records.  AddRecord appends to a list,  *)
(* RemoveRecord drops a whole list.  Lookup takes the read lock twice, for *)
(* the type it is asked and then for a CNAME; the map may change between.  *)
(* With the feature off, records are kept all the same, and nothing is     *)
(* answered.                                                               *)
(***************************************************************************)
EXTENDS Integers, Sequences, Functions

CONSTANTS
  Names,      \* the (canonical) names that may have local records
  Types,      \* the types of records, "CNAME" among them
  Values,     \* what a record may say
  Malformed,  \* the pairs <<type, value>> that AddRecord cannot parse
  Handlers,   \* the goroutines of handleDNS that look names up
  MaxCopies   \* bound: the length of a list

ASSUME RecordsAssumption ==
  /\ "CNAME" \in Types
  /\ Malformed \subseteq Types \X Values
  /\ MaxCopies \in Nat

VARIABLES
  serving,    \* the field enabled: local_records.enabled of the config, set by New
  records,    \* name and type |-> the list under it, empty when there is none
  lookup      \* handler |-> the call of Lookup it is in, or the last one's result

recordVars == <<serving, records, lookup>>

Key == Names \X Types
KeyOf(rec) == <<rec.name, rec.type>>
Parses(rec) == <<rec.type, rec.value>> \notin Malformed

Addresses == {"A", "AAAA"}

NoRecords == [k \in Key |-> <<>>]

(* A call for name and qtype: under way, and over with the list of a type. *)
Asking(n, qtype) == [at |-> "cname", name |-> n, qtype |-> qtype]
Answer(n, qtype, t, rrs) ==
  [at |-> "end", name |-> n, qtype |-> qtype, list |-> t, answer |-> rrs]
NoLookup == [at |-> "start"]

RecordsInit ==
  /\ serving \in BOOLEAN
  /\ records = NoRecords
  /\ lookup = [h \in Handlers |-> NoLookup]

-----------------------------------------------------------------------------
AddRecord(rec) ==
  /\ Len(records[KeyOf(rec)]) < MaxCopies
  /\ records' = IF Parses(rec)
                THEN [records EXCEPT ![KeyOf(rec)] = Append(@, rec.value)]
                ELSE records
  /\ UNCHANGED <<serving, lookup>>

RemoveRecord(k) ==
  /\ records' = [records EXCEPT ![k] = <<>>]
  /\ UNCHANGED <<serving, lookup>>

(* The first lock; a question for an address goes on to look for a CNAME.  *)
(* No answer is an empty one: the query then goes to the cache.            *)
Lookup(h, n, qtype) ==
  LET rrs == IF serving THEN records[<<n, qtype>>] ELSE <<>>
  IN  /\ lookup[h].at # "cname"
      /\ lookup' = [lookup EXCEPT ![h] =
           IF serving /\ rrs = <<>> /\ qtype \in Addresses THEN Asking(n, qtype)
           ELSE Answer(n, qtype, qtype, rrs)]
      /\ UNCHANGED <<serving, records>>

(* Mutant: the second look is for both lists, and the CNAMEs are answered  *)
(* only when there is still nothing of the type asked.                     *)
LookupBothAgain(h) ==
  /\ lookup[h].at = "cname"
  /\ lookup' = [lookup EXCEPT ![h] =
       Answer(@.name, @.qtype, "CNAME",
              IF records[<<@.name, @.qtype>>] = <<>> THEN records[<<@.name, "CNAME">>]
              ELSE <<>>)]
  /\ UNCHANGED <<serving, records>>

(* The second lock, whatever became of the first list since. *)
LookupCNAME(h) ==
  /\ lookup[h].at = "cname"
  /\ lookup' = [lookup EXCEPT ![h] =
       Answer(@.name, @.qtype, "CNAME", records[<<@.name, "CNAME">>])]
  /\ UNCHANGED <<serving, records>>
=============================================================================
