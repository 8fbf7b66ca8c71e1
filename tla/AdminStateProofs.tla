-------------------------- MODULE AdminStateProofs --------------------------
(***************************************************************************)
(* That what the API listed stays listed, and that live and stored state   *)
(* agree but for the requests AdminState names, for any domains, spellings *)
(* and numbers of requests and restarts.  The requests in flight are the   *)
(* difficulty: the invariant says what each of them finds when it goes on. *)
(***************************************************************************)
EXTENDS AdminState, TLAPS

(* What a request under way is about, and that it is the only one. *)
JobsInv ==
  /\ \A r \in Requests :
       /\ job[r].todo = "nothing" => job[r].about = {} /\ r \notin alone
       /\ job[r].todo \in {"list", "unlist"} =>
            /\ job[r].what \in Spellings
            /\ Entry(Canonical[job[r].what]) \in job[r].about
            /\ \A m \in job[r].about : m[2] = "whitelist"
            /\ r \in alone \/ job[r].todo = "list" =>
                 job[r].about = {Entry(Canonical[job[r].what])}
       /\ job[r].todo \in {"persist", "apply"} => job[r].about = {Switch}
       /\ job[r].todo = "answer" => job[r].about = {}
       /\ job[r].todo \in {"nothing", "list", "unlist", "persist", "apply", "answer"}
  /\ \A r \in alone : \A q \in Requests \ {r} : job[r].about \cap job[q].about = {}
  /\ \A r \in Requests : r \in alone \/ job[r].about \subseteq apart
  /\ alone \subseteq Requests
  /\ job = [r \in Requests |-> job[r]]

(* A listed spelling has its row and is live but for what a start did not  *)
(* read, and nothing is about to end that.                                 *)
ListedInv ==
  /\ \A r \in alone : job[r].todo = "list" => job[r].what \in listRows
  /\ \A s \in listed :
       /\ s \in listRows /\ s \in Spellings
       /\ Canonical[s] \in whitelist \/ s \in unread
       /\ \A r \in Requests : job[r].todo = "unlist" =>
            Canonical[s] # Canonical[job[r].what]

Agree(d) == d \in whitelist <=> SpellingsOf(d) \cap listRows # {}

AgreeInv ==
  /\ \A d \in Domains : Entry(d) \in apart \/ UnderWay(Entry(d)) \/ Agree(d)
  /\ \A r \in alone : job[r].todo = "unlist" =>
       SpellingsOf(Canonical[job[r].what]) \cap listRows = {}

SwitchAgrees == setting = "" \/ enabled = (setting = "true")

SwitchInv ==
  /\ Switch \in apart \/ UnderWay(Switch) \/ SwitchAgrees
  /\ \A r \in alone : /\ job[r].todo = "persist" => enabled = (job[r].what = "true")
                      /\ job[r].todo = "apply" => setting = job[r].what

RowsInv == listRows \subseteq Spellings

IInv == JobsInv /\ RowsInv /\ ListedInv /\ AgreeInv /\ SwitchInv

(* Of the local records only, which the rest does not depend on. *)
AddedInv ==
  /\ records \in [Key -> Seq(Values)]
  /\ added \subseteq Records
  /\ \A rec \in added : rec.value \in Range(records[KeyOf(rec)])
  /\ \A r \in Requests : job[r].todo = "answer" => job[r].what \in Records

(* A Lookup between its locks found nothing of the type asked. *)
PresentInv ==
  /\ lookup = [h \in Handlers |-> lookup[h]]
  /\ present = [h \in Handlers |-> present[h]]
  /\ \A h \in Handlers :
       /\ present[h] \subseteq added
       /\ lookup[h].at = "cname" =>
            /\ lookup[h].qtype \in Addresses
            /\ \A rec \in present[h] : rec.name = lookup[h].name =>
                 rec.type # lookup[h].qtype
  /\ AddedIsAnswered

-----------------------------------------------------------------------------
(* The three ways in which requests come and go. *)

Kind(todo, about, what, whole) ==
  \/ /\ todo \in {"list", "unlist"} /\ what \in Spellings
     /\ Entry(Canonical[what]) \in about /\ \A m \in about : m[2] = "whitelist"
     /\ whole \/ todo = "list" => about = {Entry(Canonical[what])}
  \/ todo \in {"persist", "apply"} /\ about = {Switch}
  \/ todo = "answer" /\ about = {}

LEMMA BeginJobs ==
  ASSUME NEW r \in Requests, NEW todo, NEW about, NEW what, NEW whole \in BOOLEAN,
         JobsInv, Kind(todo, about, what, whole), Begin(r, todo, about, what, whole)
  PROVE  /\ JobsInv'
         /\ \A q \in Requests \ {r} : job'[q] = job[q]
         /\ job'[r].todo = todo /\ job'[r].what = what /\ job'[r].about = about
         /\ \A q \in alone' \ {r} : q \in alone /\ job[q].about \cap about = {}
         /\ r \in alone' => whole
         /\ apart \subseteq apart' /\ (about \subseteq apart' \/ r \in alone')
<1>1. /\ job'[r] = [todo |-> todo, about |-> about, what |-> what]
      /\ \A q \in Requests \ {r} : job'[q] = job[q]
      /\ job' = [q \in Requests |-> job'[q]]
  BY DEF JobsInv, Begin
<1>2. /\ alone' \subseteq Requests
      /\ \A q \in alone' \ {r} : q \in alone /\ job[q].about \cap about = {}
      /\ r \in alone' => whole /\ \A q \in Requests : job[q].about \cap about = {}
      /\ \A q \in alone : q \in alone' \/ job[q].about \cap about # {}
      /\ apart \subseteq apart' /\ (about \subseteq apart' \/ r \in alone')
  <2>1. r \notin alone
    BY DEF JobsInv, Begin, NoJob
  <2>2. /\ OthersAlone(about) \subseteq alone
        /\ \A q \in alone : q \in OthersAlone(about) <=> job[q].about \cap about = {}
    BY DEF OthersAlone
  <2>3. alone \subseteq Requests
    BY DEF JobsInv
  <2>4. CASE whole /\ ~\E m \in about : UnderWay(m)
    <3>1. alone' = OthersAlone(about) \cup {r} /\ apart' = apart
      BY <2>4 DEF Begin
    <3>2. \A q \in Requests : job[q].about \cap about = {}
      BY <2>4 DEF UnderWay
    <3> QED
      BY <2>1, <2>2, <2>3, <2>4, <3>1, <3>2
  <2>5. CASE ~(whole /\ ~\E m \in about : UnderWay(m))
    <3>1. alone' = OthersAlone(about) /\ apart' = apart \cup about
      BY <2>5 DEF Begin
    <3> QED
      BY <2>1, <2>2, <2>3, <3>1
  <2> QED
    BY <2>4, <2>5
<1>3. \A q \in alone' : \A p \in Requests \ {q} : job'[q].about \cap job'[p].about = {}
  <2> SUFFICES ASSUME NEW q \in alone', NEW p \in Requests \ {q}
               PROVE  job'[q].about \cap job'[p].about = {}
    OBVIOUS
  <2>1. CASE q = r
    BY <1>1, <1>2, <2>1
  <2>2. CASE q # r /\ p = r
    BY <1>1, <1>2, <2>2
  <2>3. CASE q # r /\ p # r
    BY <1>1, <1>2, <2>3 DEF JobsInv
  <2> QED
    BY <2>1, <2>2, <2>3
<1>4. \A q \in Requests : q \in alone' \/ job'[q].about \subseteq apart'
  <2> SUFFICES ASSUME NEW q \in Requests, q \notin alone'
               PROVE  job'[q].about \subseteq apart'
    OBVIOUS
  <2>1. CASE q = r
    BY <1>1, <1>2, <2>1
  <2>2. CASE q # r /\ q \notin alone
    BY <1>1, <1>2, <2>2 DEF JobsInv
  <2>3. CASE q # r /\ q \in alone
    <3>1. job[q].about \cap about # {} /\ job'[q] = job[q] /\ r \notin alone'
      BY <1>1, <1>2, <2>3
    <3>2. apart' = apart \cup about /\ \E m : job[q].about = {m}
      <4>1. apart' = apart \cup about
        <5>1. \E m \in about : UnderWay(m)
          BY <3>1 DEF UnderWay
        <5> QED
          BY <5>1 DEF Begin
      <4>2. \E m : job[q].about = {m}
        BY <2>3, <3>1 DEF JobsInv
      <4> QED
        BY <4>1, <4>2
    <3> QED
      BY <3>1, <3>2
  <2> QED
    BY <2>1, <2>2, <2>3
<1>5. \A q \in Requests :
        /\ job'[q].todo = "nothing" => job'[q].about = {} /\ q \notin alone'
        /\ job'[q].todo \in {"list", "unlist"} =>
             /\ job'[q].what \in Spellings
             /\ Entry(Canonical[job'[q].what]) \in job'[q].about
             /\ \A m \in job'[q].about : m[2] = "whitelist"
             /\ q \in alone' \/ job'[q].todo = "list" =>
                  job'[q].about = {Entry(Canonical[job'[q].what])}
        /\ job'[q].todo \in {"persist", "apply"} => job'[q].about = {Switch}
        /\ job'[q].todo = "answer" => job'[q].about = {}
        /\ job'[q].todo \in {"nothing", "list", "unlist", "persist", "apply", "answer"}
  <2> SUFFICES ASSUME NEW q \in Requests
               PROVE  <1>5!(q)
    OBVIOUS
  <2>1. CASE q = r
    BY <1>1, <1>2, <2>1 DEF Kind
  <2>2. CASE q # r
    BY <1>1, <1>2, <2>2 DEF JobsInv
  <2> QED
    BY <2>1, <2>2
<1>6. JobsInv'
  BY <1>1, <1>2, <1>3, <1>4, <1>5 DEF JobsInv, Entry, Switch
<1> QED
  BY <1>1, <1>2, <1>6

LEMMA EndJobs ==
  ASSUME NEW r \in Requests, JobsInv, End(r), apart \subseteq apart',
         r \in alone \/ job[r].about \subseteq apart'
  PROVE  /\ JobsInv'
         /\ job'[r] = NoJob
         /\ \A q \in Requests \ {r} : job'[q] = job[q]
         /\ alone' = alone \ {r}
<1>1. /\ job'[r] = NoJob
      /\ \A q \in Requests \ {r} : job'[q] = job[q]
      /\ job' = [q \in Requests |-> job'[q]]
      /\ alone' = alone \ {r}
  BY DEF JobsInv, End
<1>2. NoJob.todo = "nothing" /\ NoJob.about = {}
  BY DEF NoJob
<1> QED
  BY <1>1, <1>2 DEF JobsInv

LEMMA AtOnceJobs ==
  ASSUME NEW m, JobsInv, AtOnce(m)
  PROVE  /\ JobsInv'
         /\ job' = job /\ m \in apart' /\ apart \subseteq apart'
         /\ alone' \subseteq alone /\ \A r \in alone' : m \notin job[r].about
<1>1. /\ job' = job /\ m \in apart' /\ apart \subseteq apart'
      /\ alone' \subseteq alone /\ \A r \in alone' : m \notin job[r].about
      /\ \A r \in alone \ alone' : m \in job[r].about
  BY DEF AtOnce, OthersAlone
<1>2. \A r \in Requests : r \in alone' \/ job'[r].about \subseteq apart'
  <2> SUFFICES ASSUME NEW r \in Requests, r \notin alone'
               PROVE  job[r].about \subseteq apart'
    BY <1>1
  <2>1. CASE r \in alone
    <3>1. job[r].about = {m}
      BY <1>1, <2>1 DEF JobsInv
    <3> QED
      BY <1>1, <3>1
  <2>2. CASE r \notin alone
    BY <1>1, <2>2 DEF JobsInv
  <2> QED
    BY <2>1, <2>2
<1> QED
  BY <1>1, <1>2 DEF JobsInv, Entry, Switch

(* The matters of the whitelist and the switch differ. *)
LEMMA MattersDiffer ==
  /\ \A d, e : (Entry(d) = Entry(e) => d = e) /\ Entry(d) # Switch
  /\ \A d : Entry(d)[2] = "whitelist"
  /\ Switch[2] # "whitelist"
BY DEF Entry, Switch

-----------------------------------------------------------------------------
(* What a step leaves alone, when it changes neither the requests about it *)
(* nor its variables.                                                      *)

Untouched(q, todos) ==
  \/ job'[q] = job[q] /\ (q \in alone' => q \in alone)
  \/ job[q].todo \notin todos /\ job'[q].todo \notin todos

LEMMA ListFrame ==
  ASSUME IInv, JobsInv', UNCHANGED listVars, apart \subseteq apart',
         \A q \in Requests : Untouched(q, {"list", "unlist"})
  PROVE  RowsInv' /\ ListedInv' /\ AgreeInv'
<1>1. \A q \in Requests :
        /\ job'[q].todo \in {"list", "unlist"} =>
             job'[q] = job[q] /\ (q \in alone' => q \in alone)
        /\ job[q].todo \in {"list", "unlist"} => job'[q] = job[q]
  BY DEF Untouched
<1>2. alone' \subseteq Requests
  BY DEF JobsInv
<1>3. \A d : UnderWay(Entry(d)) => UnderWay(Entry(d))'
  <2> SUFFICES ASSUME NEW d, NEW q \in Requests, Entry(d) \in job[q].about
               PROVE  Entry(d) \in job'[q].about
    BY DEF UnderWay, Entry
  <2>1. job[q].todo \in {"list", "unlist"}
    BY MattersDiffer DEF IInv, JobsInv
  <2> QED
    BY <1>1, <2>1
<1>4. RowsInv'
  BY DEF IInv, RowsInv, listVars
<1>5. ListedInv'
  BY <1>1, <1>2 DEF IInv, ListedInv, listVars, Entry
<1>6. AgreeInv'
  BY <1>1, <1>2, <1>3 DEF IInv, AgreeInv, Agree, SpellingsOf, listVars, Entry
<1> QED
  BY <1>4, <1>5, <1>6

LEMMA SwitchFrame ==
  ASSUME IInv, JobsInv', UNCHANGED switchVars, apart \subseteq apart',
         \A q \in Requests : Untouched(q, {"persist", "apply"})
  PROVE  SwitchInv'
<1>1. \A q \in Requests :
        /\ job'[q].todo \in {"persist", "apply"} =>
             job'[q] = job[q] /\ (q \in alone' => q \in alone)
        /\ job[q].todo \in {"persist", "apply"} => job'[q] = job[q]
  BY DEF Untouched
<1>2. alone' \subseteq Requests
  BY DEF JobsInv
<1>3. UnderWay(Switch) => UnderWay(Switch)'
  <2> SUFFICES ASSUME NEW q \in Requests, Switch \in job[q].about
               PROVE  Switch \in job'[q].about
    BY DEF UnderWay, Switch
  <2>1. job[q].todo \in {"persist", "apply"}
    BY MattersDiffer DEF IInv, JobsInv
  <2> QED
    BY <1>1, <2>1
<1> QED
  BY <1>1, <1>2, <1>3 DEF IInv, SwitchInv, SwitchAgrees, switchVars, Switch

-----------------------------------------------------------------------------
(* The whitelist. *)

LEMMA PostDomainKeeps ==
  ASSUME IInv, NEW r \in Requests, NEW s \in Spellings, PostDomain(r, s),
         UNCHANGED switchVars
  PROVE  IInv'
<1> DEFINE m == Entry(Canonical[s])
<1>1. PICK ok \in BOOLEAN :
        /\ listRows' = IF ok THEN listRows \cup {s} ELSE listRows
        /\ Begin(r, "list", {m}, s, ok)
  BY DEF PostDomain
<1>2. /\ JobsInv'
      /\ \A q \in Requests \ {r} : job'[q] = job[q]
      /\ job'[r].todo = "list" /\ job'[r].what = s /\ job'[r].about = {m}
      /\ \A q \in alone' \ {r} : q \in alone /\ job[q].about \cap {m} = {}
      /\ r \in alone' => ok
      /\ apart \subseteq apart'
  <2>1. Kind("list", {m}, s, ok) /\ JobsInv
    BY <1>1, MattersDiffer DEF Kind, IInv
  <2> QED
    BY <1>1, <2>1, BeginJobs
<1>3. job[r].todo = "nothing"
  BY <1>1 DEF Begin, NoJob
<1>4. whitelist' = whitelist /\ listed' = listed /\ unread' = unread
  BY DEF PostDomain
<1>5. alone' \subseteq Requests
  BY <1>2 DEF JobsInv
<1>6. RowsInv'
  BY <1>1 DEF IInv, RowsInv
<1>7. ListedInv'
  BY <1>1, <1>2, <1>4, <1>5 DEF IInv, ListedInv, Entry
<1>8. AgreeInv'
  <2>1. \A d \in Domains : Entry(d)' \in apart' \/ UnderWay(Entry(d))' \/ Agree(d)'
    <3> SUFFICES ASSUME NEW d \in Domains
                 PROVE  Entry(d) \in apart' \/ UnderWay(Entry(d))' \/ Agree(d)'
      BY DEF Entry
    <3>1. CASE d = Canonical[s]
      BY <1>2, <3>1 DEF UnderWay, Entry
    <3>2. CASE d # Canonical[s]
      <4>1. SpellingsOf(d) \cap listRows' = SpellingsOf(d) \cap listRows
        BY <1>1, <3>2 DEF SpellingsOf
      <4>2. UnderWay(Entry(d)) => UnderWay(Entry(d))'
        BY <1>2, <1>3 DEF UnderWay, IInv, JobsInv, Entry
      <4> QED
        BY <1>2, <1>4, <4>1, <4>2 DEF IInv, AgreeInv, Agree, SpellingsOf
    <3> QED
      BY <3>1, <3>2
  <2>2. \A q \in alone' : job'[q].todo = "unlist" =>
          SpellingsOf(Canonical[job'[q].what]) \cap listRows' = {}
    <3> SUFFICES ASSUME NEW q \in alone', job'[q].todo = "unlist"
                 PROVE  SpellingsOf(Canonical[job'[q].what]) \cap listRows' = {}
      OBVIOUS
    <3>1. q # r /\ q \in alone /\ job'[q] = job[q] /\ m \notin job[q].about
      BY <1>2, <1>5
    <3>2. Canonical[job[q].what] # Canonical[s]
      BY <1>5, <3>1 DEF IInv, JobsInv
    <3> QED
      BY <1>1, <3>1, <3>2 DEF IInv, AgreeInv, SpellingsOf
  <2> QED
    BY <2>1, <2>2 DEF AgreeInv, SpellingsOf
<1>9. SwitchInv'
  BY <1>2, <1>3, SwitchFrame DEF Untouched
<1> QED
  BY <1>2, <1>6, <1>7, <1>8, <1>9 DEF IInv

LEMMA ListDomainKeeps ==
  ASSUME IInv, NEW r \in Requests, ListDomain(r), UNCHANGED switchVars
  PROVE  IInv'
<1> DEFINE s == job[r].what
           m == Entry(Canonical[s])
<1>1. /\ job[r].todo = "list" /\ s \in Spellings /\ job[r].about = {m}
      /\ r \in alone => s \in listRows
  BY DEF ListDomain, IInv, JobsInv, ListedInv
<1>2. /\ JobsInv' /\ job'[r] = NoJob /\ alone' = alone \ {r}
      /\ \A q \in Requests \ {r} : job'[q] = job[q]
  <2>1. r \in alone \/ job[r].about \subseteq apart'
    BY DEF ListDomain, IInv, JobsInv
  <2> QED
    BY <2>1, EndJobs DEF ListDomain, IInv
<1>3. /\ whitelist' = whitelist \cup {Canonical[s]}
      /\ listed' = IF r \in alone THEN listed \cup {s} ELSE listed
      /\ listRows' = listRows /\ apart' = apart
      /\ unread' = unread \ SpellingsOf(Canonical[s])
  BY DEF ListDomain
<1>4. NoJob.todo = "nothing" /\ NoJob.about = {} /\ alone \subseteq Requests
  BY DEF NoJob, IInv, JobsInv
<1>5. RowsInv'
  BY <1>3 DEF IInv, RowsInv
<1>6. ListedInv'
  <2>1. r \in alone => \A q \in Requests \ {r} : m \notin job[q].about
    BY <1>1 DEF IInv, JobsInv
  <2>2. \A x \in listed' :
          /\ x \in listRows' /\ x \in Spellings
          /\ Canonical[x] \in whitelist' \/ x \in unread'
    BY <1>1, <1>3 DEF IInv, ListedInv, SpellingsOf
  <2>4. ASSUME NEW x \in listed', NEW q \in Requests, job'[q].todo = "unlist"
        PROVE  Canonical[x] # Canonical[job'[q].what]
    <3>1. q # r /\ job'[q] = job[q]
      BY <1>2, <1>4, <2>4
    <3>2. CASE x \in listed
      BY <2>4, <3>1, <3>2 DEF IInv, ListedInv
    <3>3. CASE x = s /\ r \in alone
      BY <2>1, <2>4, <3>1, <3>3 DEF IInv, JobsInv
    <3> QED
      BY <1>3, <3>2, <3>3
  <2>3. \A q \in alone' : job'[q].todo = "list" => job'[q].what \in listRows'
    BY <1>2, <1>3, <1>4 DEF IInv, ListedInv
  <2> QED
    BY <2>2, <2>3, <2>4 DEF ListedInv
<1>7. AgreeInv'
  <2>1. \A d \in Domains : Entry(d)' \in apart' \/ UnderWay(Entry(d))' \/ Agree(d)'
    <3> SUFFICES ASSUME NEW d \in Domains, Entry(d) \notin apart
                 PROVE  UnderWay(Entry(d))' \/ Agree(d)'
      BY <1>3 DEF Entry
    <3>1. CASE d = Canonical[s]
      <4>1. r \in alone
        BY <1>1, <3>1, MattersDiffer DEF IInv, JobsInv
      <4> QED
        BY <1>1, <1>3, <3>1, <4>1 DEF Agree, SpellingsOf
    <3>2. CASE d # Canonical[s]
      <4>1. UnderWay(Entry(d)) => UnderWay(Entry(d))'
        BY <1>1, <1>2, <3>2 DEF UnderWay, Entry
      <4> QED
        BY <1>3, <3>2, <4>1 DEF IInv, AgreeInv, Agree, SpellingsOf
    <3> QED
      BY <3>1, <3>2
  <2>2. \A q \in alone' : job'[q].todo = "unlist" =>
          SpellingsOf(Canonical[job'[q].what]) \cap listRows' = {}
    BY <1>2, <1>3, <1>4 DEF IInv, AgreeInv
  <2> QED
    BY <2>1, <2>2 DEF AgreeInv, SpellingsOf
<1>8. SwitchInv'
  BY <1>1, <1>2, <1>3, <1>4, SwitchFrame DEF Untouched
<1> QED
  BY <1>2, <1>5, <1>6, <1>7, <1>8 DEF IInv

LEMMA DeleteDomainKeeps ==
  ASSUME IInv, NEW r \in Requests, NEW s \in Spellings, NEW x \in listRows \cup {s},
         DeleteDomain(r, s, x), UNCHANGED switchVars
  PROVE  IInv'
<1> DEFINE d == Canonical[s]
           about == {Entry(d), Entry(Canonical[x])}
           clean == Canonical[x] = d /\ SpellingsOf(d) \cap listRows' = {}
<1>1. /\ listRows' = listRows \/ listRows' = listRows \ {x}
      /\ Begin(r, "unlist", about, s, clean)
      /\ whitelist' = whitelist /\ unread' = unread
      /\ listed' = listed \ (SpellingsOf(d) \cup {x})
  BY DEF DeleteDomain
<1>2. /\ JobsInv'
      /\ \A q \in Requests \ {r} : job'[q] = job[q]
      /\ job'[r].todo = "unlist" /\ job'[r].what = s /\ job'[r].about = about
      /\ \A q \in alone' \ {r} : q \in alone /\ job[q].about \cap about = {}
      /\ r \in alone' => clean
      /\ apart \subseteq apart'
  <2>1. clean \in BOOLEAN /\ Kind("unlist", about, s, clean) /\ JobsInv
    BY MattersDiffer DEF Kind, IInv
  <2> HIDE DEF clean, about
  <2> QED
    BY <1>1, <2>1, BeginJobs
<1>3. job[r].todo = "nothing"
  BY <1>1 DEF Begin, NoJob
<1>4. alone' \subseteq Requests
  BY <1>2 DEF JobsInv
<1>5. RowsInv'
  BY <1>1 DEF IInv, RowsInv
<1>6. \A q \in alone' : q # r /\ job'[q].todo \in {"list", "unlist"} =>
        /\ q \in alone /\ job'[q] = job[q] /\ job[q].what \in Spellings
        /\ Canonical[job[q].what] # d /\ Canonical[job[q].what] # Canonical[x]
  BY <1>2, <1>4 DEF IInv, JobsInv
<1>7. ListedInv'
  <2>1. \A q \in alone' : job'[q].todo = "list" => job'[q].what \in listRows'
    BY <1>1, <1>2, <1>6 DEF IInv, ListedInv
  <2>2. \A y \in listed' :
          /\ y \in listed /\ Canonical[y] # d /\ y \in Spellings
          /\ y \in listRows' /\ (Canonical[y] \in whitelist' \/ y \in unread')
    BY <1>1 DEF IInv, ListedInv, SpellingsOf
  <2>3. \A y \in listed' : \A q \in Requests :
          job'[q].todo = "unlist" => Canonical[y] # Canonical[job'[q].what]
    <3> SUFFICES ASSUME NEW y \in listed', NEW q \in Requests, job'[q].todo = "unlist"
                 PROVE  Canonical[y] # Canonical[job'[q].what]
      OBVIOUS
    <3>1. CASE q = r
      BY <1>2, <2>2, <3>1
    <3>2. CASE q # r
      BY <1>2, <2>2, <3>2 DEF IInv, ListedInv
    <3> QED
      BY <3>1, <3>2
  <2> QED
    BY <2>1, <2>2, <2>3 DEF ListedInv
<1>8. AgreeInv'
  <2>1. \A e \in Domains : Entry(e)' \in apart' \/ UnderWay(Entry(e))' \/ Agree(e)'
    <3> SUFFICES ASSUME NEW e \in Domains
                 PROVE  Entry(e) \in apart' \/ UnderWay(Entry(e))' \/ Agree(e)'
      BY DEF Entry
    <3>1. CASE e = d \/ e = Canonical[x]
      BY <1>2, <3>1 DEF UnderWay, Entry
    <3>2. CASE e # d /\ e # Canonical[x]
      <4>1. SpellingsOf(e) \cap listRows' = SpellingsOf(e) \cap listRows
        BY <1>1, <3>2 DEF SpellingsOf
      <4>2. UnderWay(Entry(e)) => UnderWay(Entry(e))'
        BY <1>2, <1>3 DEF UnderWay, IInv, JobsInv, Entry
      <4> QED
        BY <1>1, <1>2, <4>1, <4>2 DEF IInv, AgreeInv, Agree, SpellingsOf
    <3> QED
      BY <3>1, <3>2
  <2>2. \A q \in alone' : job'[q].todo = "unlist" =>
          SpellingsOf(Canonical[job'[q].what]) \cap listRows' = {}
    <3> SUFFICES ASSUME NEW q \in alone', job'[q].todo = "unlist"
                 PROVE  SpellingsOf(Canonical[job'[q].what]) \cap listRows' = {}
      OBVIOUS
    <3>1. CASE q = r
      BY <1>2, <3>1
    <3>2. CASE q # r
      BY <1>1, <1>6, <3>2 DEF IInv, AgreeInv, SpellingsOf
    <3> QED
      BY <3>1, <3>2
  <2> QED
    BY <2>1, <2>2 DEF AgreeInv, SpellingsOf
<1>9. SwitchInv'
  BY <1>2, <1>3, SwitchFrame DEF Untouched
<1> QED
  BY <1>2, <1>5, <1>7, <1>8, <1>9 DEF IInv

LEMMA UnlistDomainKeeps ==
  ASSUME IInv, NEW r \in Requests, UnlistDomain(r), UNCHANGED switchVars
  PROVE  IInv'
<1> DEFINE s == job[r].what
           m == Entry(Canonical[s])
<1>1. /\ job[r].todo = "unlist" /\ s \in Spellings /\ m \in job[r].about
      /\ r \in alone =>
           job[r].about = {m} /\ SpellingsOf(Canonical[s]) \cap listRows = {}
  BY DEF UnlistDomain, IInv, JobsInv, AgreeInv
<1>2. /\ JobsInv' /\ job'[r] = NoJob /\ alone' = alone \ {r}
      /\ \A q \in Requests \ {r} : job'[q] = job[q]
  <2>1. r \in alone \/ job[r].about \subseteq apart'
    BY DEF UnlistDomain, IInv, JobsInv
  <2> QED
    BY <2>1, EndJobs DEF UnlistDomain, IInv
<1>3. /\ whitelist' = whitelist \ {Canonical[s]}
      /\ listed' = listed /\ listRows' = listRows /\ apart' = apart
      /\ unread' = unread
  BY DEF UnlistDomain
<1>4. NoJob.todo = "nothing" /\ NoJob.about = {} /\ alone \subseteq Requests
  BY DEF NoJob, IInv, JobsInv
<1>5. RowsInv'
  BY <1>3 DEF IInv, RowsInv
<1>6. ListedInv'
  <2>1. \A x \in listed : Canonical[x] # Canonical[s]
    BY <1>1 DEF IInv, ListedInv
  <2> QED
    BY <1>2, <1>3, <1>4, <2>1 DEF IInv, ListedInv, Entry
<1>7. AgreeInv'
  <2>1. \A d \in Domains : Entry(d)' \in apart' \/ UnderWay(Entry(d))' \/ Agree(d)'
    <3> SUFFICES ASSUME NEW d \in Domains, Entry(d) \notin apart
                 PROVE  UnderWay(Entry(d))' \/ Agree(d)'
      BY <1>3 DEF Entry
    <3>1. CASE d = Canonical[s]
      <4>1. r \in alone
        BY <1>1, <3>1, MattersDiffer DEF IInv, JobsInv
      <4> QED
        BY <1>1, <1>3, <3>1, <4>1 DEF Agree, SpellingsOf
    <3>2. CASE d # Canonical[s]
      <4>1. UnderWay(Entry(d)) => UnderWay(Entry(d))'
        <5>1. r \in alone \/ job[r].about \subseteq apart
          BY DEF IInv, JobsInv
        <5> QED
          BY <1>1, <1>2, <3>2, <5>1, MattersDiffer DEF UnderWay, Entry
      <4> QED
        BY <1>3, <3>2, <4>1 DEF IInv, AgreeInv, Agree, SpellingsOf
    <3> QED
      BY <3>1, <3>2
  <2>2. \A q \in alone' : job'[q].todo = "unlist" =>
          SpellingsOf(Canonical[job'[q].what]) \cap listRows' = {}
    BY <1>2, <1>3, <1>4 DEF IInv, AgreeInv
  <2> QED
    BY <2>1, <2>2 DEF AgreeInv, SpellingsOf
<1>8. SwitchInv'
  BY <1>1, <1>2, <1>3, <1>4, SwitchFrame DEF Untouched
<1> QED
  BY <1>2, <1>5, <1>6, <1>7, <1>8 DEF IInv

LEMMA ListAtOnceKeeps ==
  ASSUME IInv, NEW d \in Domains, AtOnce(Entry(d)), UNCHANGED switchVars,
         listRows' \subseteq listRows,
         \A x \in (listRows \ listRows') \cup (listed \ listed') :
           x \in SpellingsOf(d),
         listed' \subseteq listed \cap listRows',
         \A e : e # d => (e \in whitelist' <=> e \in whitelist),
         \A x \in listed' : Canonical[x] \in whitelist' \/ x \in unread'
  PROVE  IInv'
<1>1. /\ JobsInv' /\ job' = job
      /\ Entry(d) \in apart' /\ apart \subseteq apart'
      /\ alone' \subseteq alone /\ \A q \in alone' : Entry(d) \notin job[q].about
  BY AtOnceJobs DEF IInv
<1>2. alone \subseteq Requests
  BY DEF IInv, JobsInv
<1>3. RowsInv'
  BY DEF IInv, RowsInv
<1>4. \A q \in alone' : job[q].todo \in {"list", "unlist"} =>
        job[q].what \in Spellings /\ Canonical[job[q].what] # d
  BY <1>1, <1>2 DEF IInv, JobsInv
<1>5. ListedInv'
  <2>1. \A q \in alone' : job'[q].todo = "list" => job'[q].what \in listRows'
    BY <1>1, <1>4 DEF IInv, ListedInv, SpellingsOf
  <2>2. \A x \in listed' :
          /\ x \in listRows' /\ x \in Spellings
          /\ Canonical[x] \in whitelist' \/ x \in unread'
          /\ \A q \in Requests : job'[q].todo = "unlist" =>
               Canonical[x] # Canonical[job'[q].what]
    BY <1>1 DEF IInv, ListedInv, SpellingsOf
  <2> QED
    BY <2>1, <2>2 DEF ListedInv, Entry
<1>6. AgreeInv'
  <2>1. \A e \in Domains : Entry(e)' \in apart' \/ UnderWay(Entry(e))' \/ Agree(e)'
    <3> SUFFICES ASSUME NEW e \in Domains, Entry(e) \notin apart', ~UnderWay(Entry(e))'
                 PROVE  Agree(e)'
      BY DEF Entry
    <3>1. e # d /\ Entry(e) \notin apart /\ ~UnderWay(Entry(e))
      BY <1>1 DEF UnderWay, Entry
    <3>2. SpellingsOf(e) \cap listRows' = SpellingsOf(e) \cap listRows
      BY <3>1 DEF SpellingsOf
    <3> QED
      BY <3>1, <3>2 DEF IInv, AgreeInv, Agree, SpellingsOf
  <2>2. \A q \in alone' : job'[q].todo = "unlist" =>
          SpellingsOf(Canonical[job'[q].what]) \cap listRows' = {}
    BY <1>1 DEF IInv, AgreeInv
  <2> QED
    BY <2>1, <2>2 DEF AgreeInv, SpellingsOf
<1>7. SwitchInv'
  BY <1>1, SwitchFrame DEF Untouched
<1> QED
  BY <1>1, <1>3, <1>5, <1>6, <1>7 DEF IInv

LEMMA DeleteRowKeeps ==
  ASSUME IInv, NEW s \in Spellings, DeleteRow(s), UNCHANGED switchVars
  PROVE  IInv'
<1>1. /\ Canonical[s] \in Domains /\ s \in SpellingsOf(Canonical[s])
      /\ listRows' = listRows \ {s} /\ listed' = listed \ {s} /\ whitelist' = whitelist
      /\ unread' = unread
  BY AdminAssumption DEF Domains, Range, SpellingsOf, DeleteRow
<1>2. \A x \in listed :
        x \in Spellings /\ x \in listRows /\ (Canonical[x] \in whitelist \/ x \in unread)
  BY DEF IInv, ListedInv
<1> QED
  BY <1>1, <1>2, ListAtOnceKeeps DEF DeleteRow, SpellingsOf

LEMMA LiveWhitelistKeeps ==
  ASSUME IInv, NEW d \in Domains, LiveWhitelist(d), UNCHANGED switchVars
  PROVE  IInv'
<1>1. \A x \in listed :
        x \in Spellings /\ x \in listRows /\ (Canonical[x] \in whitelist \/ x \in unread)
  BY DEF IInv, ListedInv
<1>2. listRows' = listRows
  BY DEF LiveWhitelist
<1>3. CASE /\ whitelist' = whitelist \cup {d} /\ UNCHANGED listed
             /\ unread' = unread \ SpellingsOf(d)
  BY <1>1, <1>2, <1>3, ListAtOnceKeeps DEF LiveWhitelist, SpellingsOf
<1>4. CASE /\ whitelist' = whitelist \ {d} /\ listed' = listed \ SpellingsOf(d)
             /\ UNCHANGED unread
  BY <1>1, <1>2, <1>4, ListAtOnceKeeps DEF LiveWhitelist, SpellingsOf
<1> QED
  BY <1>3, <1>4 DEF LiveWhitelist

-----------------------------------------------------------------------------
(* The switch. *)

(* With the switch in hand, no other request is alone about it. *)
LEMMA SwitchBegins ==
  ASSUME IInv, NEW r \in Requests, NEW todo \in {"persist", "apply"}, NEW v,
         Begin(r, todo, {Switch}, v, TRUE), UNCHANGED listVars,
         todo = "persist" => enabled' = (v = "true"), todo = "apply" => setting' = v
  PROVE  IInv'
<1>1. /\ JobsInv'
      /\ \A q \in Requests \ {r} : job'[q] = job[q]
      /\ job'[r].todo = todo /\ job'[r].what = v /\ job'[r].about = {Switch}
      /\ \A q \in alone' \ {r} : q \in alone /\ job[q].about \cap {Switch} = {}
      /\ apart \subseteq apart'
  <2>1. JobsInv /\ Kind(todo, {Switch}, v, TRUE)
    BY DEF IInv, Kind
  <2> QED BY <2>1, BeginJobs, ZenonT(60)
<1>2. job[r].todo = "nothing" /\ alone' \subseteq Requests
  BY <1>1 DEF Begin, NoJob, JobsInv
<1>3. \A q \in Requests : Untouched(q, {"list", "unlist"})
  BY <1>1, <1>2 DEF Untouched
<1>4. RowsInv' /\ ListedInv' /\ AgreeInv'
  BY <1>1, <1>3, ListFrame
<1>5. SwitchInv'
  <2>1. UnderWay(Switch)'
    BY <1>1 DEF UnderWay, Switch
  <2>2. \A q \in alone' \ {r} : job'[q].todo \notin {"persist", "apply"}
    BY <1>1, <1>2 DEF IInv, JobsInv
  <2> QED
    BY <1>1, <1>2, <2>1, <2>2 DEF SwitchInv
<1> QED
  BY <1>1, <1>4, <1>5 DEF IInv

LEMMA SwitchEnds ==
  ASSUME IInv, NEW r \in Requests, job[r].todo \in {"persist", "apply"}, End(r),
         UNCHANGED listVars, apart \subseteq apart',
         r \in alone => (Switch \in apart' \/ SwitchAgrees')
  PROVE  IInv'
<1>1. /\ JobsInv' /\ job'[r] = NoJob /\ alone' = alone \ {r}
      /\ \A q \in Requests \ {r} : job'[q] = job[q]
  <2>1. r \in alone \/ job[r].about \subseteq apart'
    BY DEF IInv, JobsInv
  <2> QED
    BY <2>1, EndJobs DEF IInv
<1>2. NoJob.todo = "nothing" /\ alone \subseteq Requests /\ job[r].about = {Switch}
  BY DEF NoJob, IInv, JobsInv
<1>3. RowsInv' /\ ListedInv' /\ AgreeInv'
  <2>1. \A q \in Requests : Untouched(q, {"list", "unlist"})
    BY <1>1, <1>2 DEF Untouched
  <2> QED
    BY <1>1, <2>1, ListFrame
<1>4. SwitchInv'
  <2>1. \A q \in alone' : job'[q].todo \notin {"persist", "apply"}
    BY <1>1, <1>2 DEF IInv, JobsInv
  <2>2. r \notin alone => Switch \in apart
    BY <1>2, MattersDiffer DEF IInv, JobsInv
  <2> QED
    BY <2>1, <2>2 DEF SwitchInv, Switch
<1> QED
  BY <1>1, <1>3, <1>4 DEF IInv

LEMMA SwitchKeeps ==
  ASSUME IInv, NEW r \in Requests, SwitchRequest(r)
  PROVE  IInv'
<1>1. UNCHANGED listVars
  BY DEF SwitchRequest
<1>2. ASSUME NEW v \in {"true", "false"}, Toggle(r, v)
      PROVE  IInv'
  BY <1>1, <1>2, SwitchBegins DEF Toggle
<1>3. ASSUME NEW v \in Setting, SaveSetting(r, v)
      PROVE  IInv'
  BY <1>1, <1>3, SwitchBegins DEF SaveSetting
<1>4. CASE PersistToggle(r)
  <2>1. r \in alone => enabled = (job[r].what = "true")
    BY <1>4 DEF PersistToggle, IInv, SwitchInv
  <2> QED
    BY <1>1, <1>4, <2>1, SwitchEnds DEF PersistToggle, SwitchAgrees
<1>5. CASE applySettings(r)
  <2>1. r \in alone => setting = job[r].what
    BY <1>5 DEF applySettings, IInv, SwitchInv
  <2> QED
    BY <1>1, <1>5, <2>1, SwitchEnds DEF applySettings, SwitchAgrees
<1> QED
  BY <1>2, <1>3, <1>4, <1>5 DEF SwitchRequest

LEMMA SwitchAtOnceKeeps ==
  ASSUME IInv, SwitchAtOnce
  PROVE  IInv'
<1>1. AtOnce(Switch) /\ UNCHANGED listVars
  BY DEF SwitchAtOnce, SaveSettingOnly
<1>2. /\ JobsInv' /\ job' = job
      /\ Switch \in apart' /\ apart \subseteq apart'
      /\ alone' \subseteq alone /\ \A q \in alone' : Switch \notin job[q].about
  BY <1>1, AtOnceJobs DEF IInv
<1>3. RowsInv' /\ ListedInv' /\ AgreeInv'
  BY <1>1, <1>2, ListFrame DEF Untouched
<1>4. SwitchInv'
  <2>1. \A q \in alone' : job'[q].todo \notin {"persist", "apply"}
    BY <1>2 DEF IInv, JobsInv
  <2> QED
    BY <1>2, <2>1, MattersDiffer DEF SwitchInv, Switch
<1> QED
  BY <1>2, <1>3, <1>4 DEF IInv

-----------------------------------------------------------------------------
(* The rest, and the invariant. *)

LEMMA RecordsKeep ==
  ASSUME IInv, (\E r \in Requests : RecordRequest(r)) \/ RecordAtOnce
  PROVE  IInv'
<1>1. UNCHANGED <<listVars, switchVars>>
  BY DEF RecordRequest, RecordAtOnce
<1>2. ASSUME NEW r \in Requests, NEW rec \in Records, PostRecord(r, rec)
      PROVE  IInv'
  <2>1. Kind("answer", {}, rec, TRUE)
    BY DEF Kind
  <2>2. /\ JobsInv' /\ apart \subseteq apart' /\ job'[r].todo = "answer"
        /\ \A q \in Requests \ {r} : job'[q] = job[q]
        /\ \A q \in alone' \ {r} : q \in alone
    BY <1>2, <2>1, BeginJobs DEF PostRecord, IInv
  <2>3. job[r].todo = "nothing"
    BY <1>2 DEF PostRecord, Begin, NoJob
  <2>4. \A q \in Requests : Untouched(q, {"list", "unlist"}) /\ Untouched(q, {"persist", "apply"})
    BY <2>2, <2>3 DEF Untouched
  <2> QED
    BY <1>1, <2>2, <2>4, ListFrame, SwitchFrame DEF IInv
<1>3. ASSUME NEW r \in Requests, AnswerRecord(r)
      PROVE  IInv'
  <2>1. job[r].todo = "answer" /\ End(r) /\ apart' = apart
    BY <1>3 DEF AnswerRecord
  <2>2. /\ JobsInv' /\ job'[r] = NoJob /\ alone' = alone \ {r}
        /\ \A q \in Requests \ {r} : job'[q] = job[q]
    <3>1. r \in alone \/ job[r].about \subseteq apart'
      BY <2>1 DEF IInv, JobsInv
    <3> QED
      BY <2>1, <3>1, EndJobs DEF IInv
  <2>3. \A q \in Requests : Untouched(q, {"list", "unlist"}) /\ Untouched(q, {"persist", "apply"})
    BY <2>1, <2>2 DEF Untouched, NoJob
  <2> QED
    BY <1>1, <2>1, <2>2, <2>3, ListFrame, SwitchFrame DEF IInv
<1>4. ASSUME UNCHANGED requestVars
      PROVE  IInv'
  <2>1. job' = job /\ alone' = alone /\ apart' = apart
    BY <1>4 DEF requestVars
  <2>2. JobsInv'
    BY <2>1 DEF IInv, JobsInv, Entry, Switch
  <2> QED
    BY <1>1, <2>1, <2>2, ListFrame, SwitchFrame DEF IInv, Untouched
<1>5. CASE RecordAtOnce
  BY <1>4, <1>5 DEF RecordAtOnce, DeleteRecordRow, LiveRecord, LiveRemove
<1>6. CASE \E r \in Requests : RecordRequest(r)
  BY <1>2, <1>3, <1>6 DEF RecordRequest
<1> QED
  BY <1>5, <1>6

(* What a start makes of what it could read. *)
LEMMA StartAgrees ==
  ASSUME NEW file, NEW got \in SUBSET listRows, NEW known \in BOOLEAN, NEW config \in BOOLEAN,
         NEW d, Entry(d) \notin PartedAtStart(file, got, known), RowsInv
  PROVE  d \in file \cup CanonicalOf(got) <=> SpellingsOf(d) \cap listRows # {}
<1>1. d \in file => d \in CanonicalOf(listRows)
  BY DEF PartedAtStart
<1>2. d \notin CanonicalOf(listRows \ got)
  BY DEF PartedAtStart
<1>3. d \in CanonicalOf(listRows) <=> SpellingsOf(d) \cap listRows # {}
  BY DEF CanonicalOf, SpellingsOf, RowsInv
<1>4. d \in CanonicalOf(listRows) <=> d \in CanonicalOf(got) \cup CanonicalOf(listRows \ got)
  BY DEF CanonicalOf
<1> QED
  BY <1>1, <1>2, <1>3, <1>4

LEMMA StartSwitches ==
  ASSUME NEW file, NEW got, NEW known \in BOOLEAN, NEW config \in BOOLEAN,
         Switch \notin PartedAtStart(file, got, known)
  PROVE  setting = "" \/ Switched(known, config) = (setting = "true")
<1>1. known
  BY DEF PartedAtStart
<1> QED
  BY <1>1 DEF Switched

LEMMA RestartKeeps ==
  ASSUME IInv, Restart
  PROVE  IInv'
<1>1. PICK got \in SUBSET listRows, known \in BOOLEAN, config \in BOOLEAN, file \in SUBSET FileDomains :
        /\ enabled' = Switched(known, config)
        /\ whitelist' = file \cup CanonicalOf(got)
        /\ unread' = listRows \ got
        /\ apart' = PartedAtStart(file, got, known)
  BY DEF Restart
<1>2. /\ job' = [r \in Requests |-> NoJob] /\ alone' = {}
      /\ setting' = setting /\ listRows' = listRows /\ listed' = listed
  BY DEF Restart
<1>3. NoJob.todo = "nothing" /\ NoJob.about = {}
  BY DEF NoJob
<1>4. JobsInv' /\ RowsInv'
  BY <1>2, <1>3 DEF IInv, JobsInv, RowsInv
<1>5. SwitchInv'
  BY <1>1, <1>2, StartSwitches DEF SwitchInv, SwitchAgrees, Switch
<1>6. ListedInv'
  <2>1. \A s \in got : Canonical[s] \in whitelist'
    BY <1>1 DEF CanonicalOf
  <2> QED
    BY <1>1, <1>2, <1>3, <2>1 DEF IInv, ListedInv
<1>7. AgreeInv'
  <2>1. ASSUME NEW d \in Domains, Entry(d) \notin apart'
        PROVE  Agree(d)'
    <3>1. d \in file \cup CanonicalOf(got) <=> SpellingsOf(d) \cap listRows # {}
      BY <1>1, <2>1, StartAgrees DEF IInv
    <3> QED
      BY <1>1, <1>2, <3>1 DEF Agree, SpellingsOf
  <2> QED
    BY <1>2, <2>1 DEF AgreeInv, Entry
<1> QED
  BY <1>4, <1>5, <1>6, <1>7 DEF IInv

LEMMA InitHolds ==
  ASSUME Init
  PROVE  IInv /\ AddedInv /\ PresentInv
<1>1. NoJob.todo = "nothing" /\ NoJob.about = {}
  BY DEF NoJob
<1>2. PICK known \in BOOLEAN, config \in BOOLEAN, file \in SUBSET FileDomains :
        /\ enabled = Switched(known, config)
        /\ whitelist = file
        /\ apart = PartedAtStart(file, {}, known)
  BY DEF Init
<1>3. JobsInv /\ RowsInv /\ ListedInv
  BY <1>1 DEF Init, JobsInv, RowsInv, ListedInv
<1>4. SwitchInv
  BY <1>2, StartSwitches DEF Init, SwitchInv, SwitchAgrees
<1>5. AgreeInv
  <2>1. \A d \in Domains : Entry(d) \in apart \/ (d \in file <=> SpellingsOf(d) \cap listRows # {})
    <3>1. CanonicalOf({}) = {}
      BY DEF CanonicalOf
    <3> QED
      BY <1>2, <1>3, <3>1, StartAgrees DEF Init
  <2> QED
    BY <1>2, <2>1 DEF Init, AgreeInv, Agree
<1>6. AddedInv
  BY <1>1 DEF Init, AddedInv, RecordsInit, NoRecords
<1>7. PresentInv
  BY DEF Init, PresentInv, RecordsInit, NoLookup, AddedIsAnswered
<1> QED
  BY <1>3, <1>4, <1>5, <1>6, <1>7 DEF IInv

LEMMA Inductive == IInv /\ [Next]_vars => IInv'
<1> SUFFICES ASSUME IInv, [Next]_vars
             PROVE  IInv'
  OBVIOUS
<1>1. ASSUME NEW r \in Requests, ListRequest(r)
      PROVE  IInv'
  <2>1. UNCHANGED switchVars
    BY <1>1 DEF ListRequest
  <2> QED
    BY <1>1, <2>1, PostDomainKeeps, ListDomainKeeps, DeleteDomainKeeps, UnlistDomainKeeps
    DEF ListRequest
<1>2. CASE ListAtOnce
  <2>1. UNCHANGED switchVars
    BY <1>2 DEF ListAtOnce
  <2> QED
    BY <1>2, <2>1, DeleteRowKeeps, LiveWhitelistKeeps DEF ListAtOnce
<1>3. ASSUME UNCHANGED <<listVars, switchVars, requestVars>>
      PROVE  IInv'
  <2>1. /\ job' = job /\ alone' = alone /\ apart' = apart
        /\ enabled' = enabled /\ setting' = setting
        /\ listRows' = listRows
    BY <1>3 DEF listVars, switchVars, requestVars
  <2>2. JobsInv' /\ SwitchInv'
    BY <2>1 DEF IInv, JobsInv, SwitchInv, SwitchAgrees, UnderWay, Entry, Switch
  <2>3. RowsInv' /\ ListedInv' /\ AgreeInv'
    BY <1>3, <2>1, <2>2, ListFrame DEF Untouched
  <2> QED
    BY <2>2, <2>3 DEF IInv
<1>4. CASE \E h \in Handlers : Resolve(h)
  BY <1>3, <1>4 DEF Resolve
<1>5. CASE UNCHANGED vars
  BY <1>3, <1>5 DEF vars
<1> QED
  BY <1>1, <1>2, <1>4, <1>5, SwitchKeeps, SwitchAtOnceKeeps, RecordsKeep, RestartKeeps
  DEF Next

(***************************************************************************)
(* A domain listed through the API stays exempt until a request removes    *)
(* it, but for starts that could not read its row.                         *)
(***************************************************************************)
THEOREM ListedStaysListedHolds == Spec => []ListedStaysListed
<1>1. IInv => ListedStaysListed
  BY DEF IInv, ListedInv, ListedStaysListed
<1> QED
  BY <1>1, InitHolds, Inductive, PTL DEF Spec

(***************************************************************************)
(* Live and stored state agree but for what AdminState!apart says.         *)
(***************************************************************************)
THEOREM LiveAgreesHolds == Spec => []LiveAgreesWithDatabase
<1>1. IInv => LiveAgreesWithDatabase
  BY DEF IInv, AgreeInv, Agree, SwitchInv, SwitchAgrees, LiveAgreesWithDatabase
<1> QED
  BY <1>1, InitHolds, Inductive, PTL DEF Spec

-----------------------------------------------------------------------------
(* The local records: what was added is in its list. *)

LEMMA AppendRange ==
  ASSUME NEW seq \in Seq(Values), NEW v
  PROVE  Range(Append(seq, v)) = Range(seq) \cup {v}
<1>1. /\ DOMAIN Append(seq, v) = 1 .. Len(seq) + 1 /\ DOMAIN seq = 1 .. Len(seq)
      /\ Len(seq) \in Nat
      /\ \A i \in 1 .. Len(seq) : Append(seq, v)[i] = seq[i]
      /\ Append(seq, v)[Len(seq) + 1] = v
  OBVIOUS
<1> QED
  BY <1>1 DEF Range

LEMMA AddRecordAdds ==
  ASSUME AddedInv, NEW rec \in Records, AddRecord(rec)
  PROVE  /\ records' \in [Key -> Seq(Values)]
         /\ \A k \in Key : Range(records[k]) \subseteq Range(records'[k])
         /\ Parses(rec) => rec.value \in Range(records'[KeyOf(rec)])
<1>1. KeyOf(rec) \in Key /\ rec.value \in Values /\ records[KeyOf(rec)] \in Seq(Values)
  BY AdminAssumption DEF KeyOf, Key, AddedInv
<1>2. Append(records[KeyOf(rec)], rec.value) \in Seq(Values)
  BY <1>1
<1>3. Range(Append(records[KeyOf(rec)], rec.value))
        = Range(records[KeyOf(rec)]) \cup {rec.value}
  BY <1>1, AppendRange
<1> QED
  BY <1>1, <1>2, <1>3 DEF AddRecord, AddedInv

LEMMA AddsKeep ==
  ASSUME AddedInv, NEW rec \in Records, Adds(rec),
         \A r \in Requests : job'[r].todo = "answer" => job'[r].what \in Records
  PROVE  AddedInv' /\ added \subseteq added'
<1>1. AddRecord(rec) /\ added' = IF Parses(rec) THEN added \cup {rec} ELSE added
  BY DEF Adds
<1>2. \A x \in Records : KeyOf(x) \in Key
  BY AdminAssumption DEF KeyOf, Key
<1> QED
  BY <1>1, <1>2, AddRecordAdds DEF AddedInv, Key, KeyOf

LEMMA AddedInductive ==
  ASSUME AddedInv, IInv, [Next]_vars
  PROVE  AddedInv'
<1>1. ASSUME UNCHANGED <<records, added>>,
             \A r \in Requests : job'[r].todo = "answer" => job'[r].what \in Records
      PROVE  AddedInv'
  BY <1>1 DEF AddedInv, Key, KeyOf
<1>2. NoJob.todo = "nothing"
  BY DEF NoJob
<1>3. \A r \in Requests : \A todo, about, what, whole :
        (Begin(r, todo, about, what, whole) /\ (todo = "answer" => what \in Records)) =>
          \A q \in Requests : job'[q].todo = "answer" => job'[q].what \in Records
  BY DEF Begin, AddedInv, IInv, JobsInv
<1>4. \A r \in Requests : End(r) =>
        \A q \in Requests : job'[q].todo = "answer" => job'[q].what \in Records
  BY <1>2 DEF End, AddedInv, IInv, JobsInv
<1>5. job' = job => \A q \in Requests : job'[q].todo = "answer" => job'[q].what \in Records
  BY DEF AddedInv
<1>6. ASSUME NEW r \in Requests, ListRequest(r) \/ SwitchRequest(r)
      PROVE  AddedInv'
  <2>1. \A q \in Requests : job'[q].todo = "answer" => job'[q].what \in Records
    BY <1>3, <1>4, <1>6
    DEF ListRequest, SwitchRequest, PostDomain, DeleteDomain, ListDomain, UnlistDomain,
        Toggle, SaveSetting, PersistToggle, applySettings
  <2> QED
    BY <1>1, <1>6, <2>1 DEF ListRequest, SwitchRequest, recordVars, rowVars
<1>7. CASE ListAtOnce \/ SwitchAtOnce
  <2>1. job' = job /\ UNCHANGED <<records, added>>
    BY <1>7 DEF ListAtOnce, SwitchAtOnce, DeleteRow, LiveWhitelist, SaveSettingOnly,
                AtOnce, recordVars, rowVars
  <2> QED
    BY <1>1, <1>5, <2>1
<1>8. ASSUME NEW r \in Requests, NEW rec \in Records, PostRecord(r, rec)
      PROVE  AddedInv'
  BY <1>1, <1>3, <1>8 DEF PostRecord, recordVars
<1>9. ASSUME NEW r \in Requests, AnswerRecord(r)
      PROVE  AddedInv'
  <2>1. job[r].what \in Records /\ Adds(job[r].what) /\ End(r)
    BY <1>9 DEF AnswerRecord, AddedInv
  <2> QED
    BY <1>4, <2>1, AddsKeep
<1>10. ASSUME NEW rec \in Records, LiveRecord(rec)
       PROVE  AddedInv'
  <2>1. Adds(rec) /\ job' = job
    BY <1>10 DEF LiveRecord, requestVars
  <2> QED
    BY <1>5, <2>1, AddsKeep
<1>11. ASSUME NEW k \in Key, LiveRemove(k)
       PROVE  AddedInv'
  <2>1. /\ records' = [records EXCEPT ![k] = <<>>] /\ job' = job
        /\ added' = {rec \in added : KeyOf(rec) # k}
    BY <1>11 DEF LiveRemove, RemoveRecord, requestVars
  <2>2. \A x \in Records : KeyOf(x) \in Key
    BY AdminAssumption DEF KeyOf, Key
  <2>3. records' \in [Key -> Seq(Values)]
    BY <2>1 DEF AddedInv
  <2>4. \A rec \in added' : rec.value \in Range(records'[KeyOf(rec)])
    BY <2>1, <2>2 DEF AddedInv
  <2> QED
    BY <1>5, <2>1, <2>3, <2>4 DEF AddedInv, Key, KeyOf
<1>12. ASSUME NEW rec \in Records, DeleteRecordRow(rec)
       PROVE  AddedInv'
  BY <1>1, <1>5, <1>12 DEF DeleteRecordRow, recordVars, requestVars
<1>13. CASE \E h \in Handlers : Resolve(h)
  BY <1>1, <1>5, <1>13 DEF Resolve, Lookup, LookupCNAME, requestVars
<1>14. CASE Restart
  <2>1. /\ records' = NoRecords /\ added' = {}
        /\ \A r \in Requests : job'[r] = NoJob
    BY <1>14 DEF Restart
  <2> QED
    BY <1>2, <2>1 DEF AddedInv, NoRecords, Key
<1>15. CASE UNCHANGED vars
  BY <1>1, <1>5, <1>15 DEF vars, recordVars, rowVars, requestVars
<1> QED
  BY <1>6, <1>7, <1>8, <1>9, <1>10, <1>11, <1>12, <1>13, <1>14, <1>15
  DEF Next, RecordRequest, RecordAtOnce

-----------------------------------------------------------------------------
(* And a Lookup answers what was there all through it. *)

(* Of one handler's Lookup. *)
PresentOf(h) ==
  /\ present[h] \subseteq added
  /\ lookup[h].at = "cname" =>
       /\ lookup[h].qtype \in Addresses
       /\ \A rec \in present[h] : rec.name = lookup[h].name => rec.type # lookup[h].qtype
  /\ serving /\ lookup[h].at = "end" =>
       \A rec \in present[h] : rec.name = lookup[h].name => Answered(h, rec)

LEMMA ByHandler ==
  PresentInv <=> /\ lookup = [h \in Handlers |-> lookup[h]]
                 /\ present = [h \in Handlers |-> present[h]]
                 /\ \A h \in Handlers : PresentOf(h)
BY DEF PresentInv, PresentOf, AddedIsAnswered

LEMMA LookupPresent ==
  ASSUME AddedInv, PresentInv, NEW h \in Handlers, NEW n \in Names, NEW t \in Types,
         Lookup(h, n, t), present' = [present EXCEPT ![h] = added], added' = added
  PROVE  PresentInv'
<1> DEFINE rrs == IF serving THEN records[<<n, t>>] ELSE <<>>
<1>1. /\ lookup = [g \in Handlers |-> lookup[g]] /\ present = [g \in Handlers |-> present[g]]
      /\ \A g \in Handlers : PresentOf(g)
  BY ByHandler
<1>2. /\ serving' = serving /\ present'[h] = added
      /\ lookup' = [lookup EXCEPT ![h] =
           IF serving /\ rrs = <<>> /\ t \in Addresses THEN Asking(n, t)
           ELSE Answer(n, t, t, rrs)]
  BY <1>1 DEF Lookup
<1>3. /\ lookup' = [g \in Handlers |-> lookup'[g]] /\ present' = [g \in Handlers |-> present'[g]]
      /\ \A g \in Handlers \ {h} : lookup'[g] = lookup[g] /\ present'[g] = present[g]
      /\ lookup'[h] = IF serving /\ rrs = <<>> /\ t \in Addresses THEN Asking(n, t)
                      ELSE Answer(n, t, t, rrs)
  BY <1>1, <1>2
<1>4. \A rec \in added : rec.name = n /\ rec.type = t =>
        records[<<n, t>>] # <<>> /\ rec.value \in Range(records[<<n, t>>])
  BY DEF AddedInv, KeyOf, Range
<1>5. \A g \in Handlers \ {h} : PresentOf(g)'
  BY <1>1, <1>2, <1>3 DEF PresentOf, Answered
<1>6. PresentOf(h)'
  <2>1. CASE serving /\ rrs = <<>> /\ t \in Addresses
    BY <1>2, <1>3, <1>4, <2>1 DEF PresentOf, Asking
  <2>2. CASE ~(serving /\ rrs = <<>> /\ t \in Addresses)
    <3>1. t \in Addresses => t # "CNAME"
      BY DEF Addresses
    <3> QED
      BY <1>2, <1>3, <1>4, <2>2, <3>1 DEF PresentOf, Answer, Answered
  <2> QED
    BY <2>1, <2>2
<1> QED
  BY <1>3, <1>5, <1>6 DEF PresentInv, PresentOf, AddedIsAnswered

LEMMA LookupCNAMEPresent ==
  ASSUME AddedInv, PresentInv, NEW h \in Handlers,
         LookupCNAME(h), present' = present, added' = added
  PROVE  PresentInv'
<1> DEFINE rrs == records[<<lookup[h].name, "CNAME">>]
<1>1. /\ lookup = [g \in Handlers |-> lookup[g]] /\ present = [g \in Handlers |-> present[g]]
      /\ \A g \in Handlers : PresentOf(g)
  BY ByHandler
<1>2. /\ serving' = serving /\ lookup[h].at = "cname"
      /\ lookup' = [lookup EXCEPT ![h] = Answer(@.name, @.qtype, "CNAME", rrs)]
  BY DEF LookupCNAME
<1>3. /\ lookup' = [g \in Handlers |-> lookup'[g]]
      /\ \A g \in Handlers \ {h} : lookup'[g] = lookup[g]
      /\ lookup'[h] = Answer(lookup[h].name, lookup[h].qtype, "CNAME", rrs)
  BY <1>1, <1>2
<1>4. \A rec \in present[h] : rec.name = lookup[h].name /\ rec.type = "CNAME" =>
        rrs # <<>> /\ rec.value \in Range(rrs)
  BY <1>1 DEF AddedInv, KeyOf, Range, PresentOf
<1>5. \A g \in Handlers \ {h} : PresentOf(g)'
  BY <1>1, <1>2, <1>3 DEF PresentOf, Answered
<1>6. PresentOf(h)'
  BY <1>1, <1>2, <1>3, <1>4 DEF PresentOf, Answer, Answered
<1> QED
  BY <1>1, <1>3, <1>5, <1>6 DEF PresentInv, PresentOf, AddedIsAnswered

LEMMA PresentInductive ==
  ASSUME AddedInv, PresentInv, [Next]_vars
  PROVE  PresentInv'
<1>0. /\ lookup = [h \in Handlers |-> lookup[h]] /\ present = [h \in Handlers |-> present[h]]
      /\ \A h \in Handlers : PresentOf(h)
  BY ByHandler
<1>1. ASSUME UNCHANGED <<serving, lookup>>, present' = [h \in Handlers |-> present'[h]],
             \A h \in Handlers : present'[h] \subseteq present[h] \cap added'
      PROVE  PresentInv'
  <2>1. \A h \in Handlers : PresentOf(h)'
    BY <1>0, <1>1 DEF PresentOf, Answered
  <2> QED
    BY <1>0, <1>1, <2>1 DEF PresentInv, PresentOf, AddedIsAnswered
<1>2. ASSUME UNCHANGED <<serving, lookup, present>>, added \subseteq added'
      PROVE  PresentInv'
  BY <1>0, <1>1, <1>2 DEF PresentOf
<1>3. CASE (\E r \in Requests : ListRequest(r) \/ SwitchRequest(r)) \/ ListAtOnce \/ SwitchAtOnce
  BY <1>2, <1>3 DEF ListRequest, SwitchRequest, ListAtOnce, SwitchAtOnce, recordVars, rowVars
<1>4. CASE \E r \in Requests : RecordRequest(r)
  BY <1>2, <1>4 DEF RecordRequest, PostRecord, AnswerRecord, Adds, AddRecord, recordVars
<1>5. CASE RecordAtOnce
  <2>1. ASSUME NEW k \in Key, LiveRemove(k)
        PROVE  PresentInv'
    <3>1. /\ UNCHANGED <<serving, lookup>>
          /\ added' = {rec \in added : KeyOf(rec) # k}
          /\ present' = [h \in Handlers |-> {rec \in present[h] : KeyOf(rec) # k}]
      BY <2>1 DEF LiveRemove, RemoveRecord
    <3> QED
      BY <1>0, <1>1, <3>1 DEF PresentOf
  <2> QED
    BY <1>2, <1>5, <2>1 DEF RecordAtOnce, DeleteRecordRow, LiveRecord, Adds, AddRecord, recordVars
<1>6. CASE \E h \in Handlers : Resolve(h)
  BY <1>6, LookupPresent, LookupCNAMEPresent DEF Resolve
<1>7. CASE Restart
  <2>1. /\ added' = {} /\ present' = [h \in Handlers |-> {}]
        /\ lookup' = [h \in Handlers |-> NoLookup]
    BY <1>7 DEF Restart
  <2> QED
    BY <2>1 DEF PresentInv, AddedIsAnswered, NoLookup
<1>8. CASE UNCHANGED vars
  BY <1>2, <1>8 DEF vars, recordVars, rowVars
<1> QED
  BY <1>3, <1>4, <1>5, <1>6, <1>7, <1>8 DEF Next

(***************************************************************************)
(* A local record that is there all through a Lookup is answered, for any  *)
(* number of handlers and requests.                                        *)
(***************************************************************************)
THEOREM AddedIsAnsweredHolds == Spec => []AddedIsAnswered
<1>1. PresentInv => AddedIsAnswered
  BY DEF PresentInv
<1> QED
  BY <1>1, InitHolds, Inductive, AddedInductive, PresentInductive, PTL DEF Spec
=============================================================================
