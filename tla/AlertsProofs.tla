------------------------------ MODULE AlertsProofs -----------------------------
(***************************************************************************)
(* Proofs about Alerts, for any servers and sites and any number of failed *)
(* statements.  The argument: while a removal is between its count and its *)
(* delete, every site of its server was created since the count.           *)
(***************************************************************************)
EXTENDS Alerts, TLAPS

(* The sites of the server that is being removed came after the count. *)
CountedNone == removing # None => On(removing) \subseteq late

(* The inductive invariant. *)
IInv ==
    /\ TypeOK
    /\ CountedNone

LEMMA InitEstablishes == Init => IInv
<1> SUFFICES ASSUME Init PROVE IInv
  OBVIOUS
<1>1. servers \in [Names -> Server \cup {None}] /\ sites \in [Sites -> Site \cup {None}]
  BY DEF Init
<1>2. open \in [Kinds -> Nat]
  BY DEF Init
<1>3. /\ phase \in Phases /\ todo \subseteq Verdict /\ removing \in Names \cup {None}
      /\ adding \in Kinds \cup {None} /\ faults \in 0..MaxFaults /\ late \subseteq Sites /\ CountedNone
  BY AlertsAssumption DEF Init, Phases, CountedNone
<1>4. QED
  BY <1>1, <1>2, <1>3 DEF IInv, TypeOK

-------------------------------------------------------------------------------
(* The lists an evaluation reads hold verdicts. *)
LEMMA ListsOfVerdicts ==
  ASSUME TypeOK
  PROVE  ServerVerdicts \subseteq Verdict /\ SiteVerdicts \subseteq Verdict /\ Scheduled \subseteq Verdict
<1> USE DEF Kinds, SiteRules, Verdict
<1>1. ServerVerdicts \subseteq Verdict
  <2>1. \A n \in Attached : servers[n].full \in BOOLEAN
    BY DEF TypeOK, Attached, Server
  <2>2. QED
    BY <2>1 DEF ServerVerdicts, Attached
<1>2. SiteVerdicts \subseteq Verdict
  <2>1. ASSUME NEW s \in Present
        PROVE  /\ <<"ssl.expiring", s>> \in Kinds /\ <<"site.offline", s>> \in Kinds
               /\ sites[s].failed \in BOOLEAN
    BY <2>1 DEF TypeOK, Present, Site
  <2>2. ASSUME NEW a \in Kinds, NEW b \in BOOLEAN PROVE [alert |-> a, fires |-> b] \in Verdict
    OBVIOUS
  <2>3. \A v \in SiteVerdicts : \E s \in Present :
           \/ v = [alert |-> <<"ssl.expiring", s>>, fires |-> sites[s].cert = "near"]
           \/ v = [alert |-> <<"site.offline", s>>, fires |-> sites[s].failed]
    BY DEF SiteVerdicts
  <2>4. ASSUME NEW v \in SiteVerdicts PROVE v \in Verdict
    <3>1. PICK s \in Present :
             \/ v = [alert |-> <<"ssl.expiring", s>>, fires |-> sites[s].cert = "near"]
             \/ v = [alert |-> <<"site.offline", s>>, fires |-> sites[s].failed]
      BY <2>3
    <3>2. [alert |-> <<"ssl.expiring", s>>, fires |-> sites[s].cert = "near"] \in Verdict
      BY <2>1, <2>2
    <3>3. [alert |-> <<"site.offline", s>>, fires |-> sites[s].failed] \in Verdict
      BY <2>1, <2>2
    <3>4. QED
      BY <3>1, <3>2, <3>3
  <2>5. QED
    BY <2>4
<1>3. Scheduled \subseteq Verdict
  <2>1. ASSUME NEW s \in Present PROVE [alert |-> <<"backup.stale", s>>, fires |-> FALSE] \in Verdict
    BY <2>1 DEF Present
  <2>2. QED
    BY <2>1 DEF Scheduled
<1>4. QED
  BY <1>1, <1>2, <1>3

(* An evaluation writes notifications only. *)
LEMMA EvaluateStep == IInv /\ Evaluate => IInv'
<1> SUFFICES ASSUME IInv, Evaluate PROVE IInv'
  OBVIOUS
<1>1. TypeOK /\ CountedNone
  BY DEF IInv
<1> USE DEF Evaluate, ReadServers, ReadSites, ReadSchedules, Reads, Rests, Insert, InsertFails,
             TellListed, TellSchedule, Tells, TellUnread, TellFails
<1>2. UNCHANGED <<rows, removing, late>>
  OBVIOUS
<1>3. CountedNone'
  BY <1>1, <1>2 DEF CountedNone, On, Present, rows
<1>4. phase' \in Phases /\ todo' \subseteq Verdict /\ faults' \in 0..MaxFaults
  BY <1>1, ListsOfVerdicts, AlertsAssumption DEF OpenIfAbsent, ResolveRule, Fault, TypeOK, Phases
<1>5. open' \in [Kinds -> Nat] /\ adding' \in Kinds \cup {None}
  <2>1. \A v \in todo : v.alert \in Kinds
    BY <1>1 DEF TypeOK, Verdict
  <2>2. QED
    BY <1>1, <2>1 DEF OpenIfAbsent, ResolveRule, TypeOK
<1>6. QED
  BY <1>1, <1>2, <1>3, <1>4, <1>5 DEF IInv, TypeOK, rows

(* A site that changes stays on its server. *)
LEMMA SiteChangesStep ==
  ASSUME IInv, NEW s \in Sites, SiteChanges(s)
  PROVE  IInv'
<1>1. TypeOK /\ CountedNone
  BY DEF IInv
<1>2. s \in Present /\ sites[s] \in Site
  BY <1>1 DEF SiteChanges, TypeOK, Present
<1>3. PICK row :
        /\ row \in Site /\ row.on = sites[s].on
        /\ sites' = [sites EXCEPT ![s] = row]
        /\ UNCHANGED <<servers, open, eval, removing, late>>
  BY <1>2 DEF SiteChanges, SetStatus, SetSchedule, SetSsl, BackedUp, Days, Becomes, Site
<1>4. sites' \in [Sites -> Site \cup {None}]
  BY <1>1, <1>3 DEF TypeOK
<1>5. On(removing)' = On(removing)
  BY <1>1, <1>2, <1>3, AlertsAssumption DEF TypeOK, On, Present
<1>6. QED
  BY <1>1, <1>3, <1>4, <1>5 DEF IInv, TypeOK, CountedNone, eval

(* A poll and a new server write a row of the server. *)
LEMMA ServerRow ==
  ASSUME TypeOK, NEW n \in Names, Poll(n) \/ Create(n)
  PROVE  \E row \in Server : servers' = [servers EXCEPT ![n] = row]
<1>1. CASE Create(n)
  BY <1>1 DEF Create, Server
<1>2. CASE Poll(n)
  <2>1. servers[n] \in Server
    BY <1>2 DEF Poll, Attached, TypeOK
  <2>2. PICK row \in [up: {TRUE}, full: BOOLEAN] \cup {[servers[n] EXCEPT !.up = up] : up \in BOOLEAN} :
           servers' = [servers EXCEPT ![n] = row]
    BY <1>2 DEF Poll
  <2>3. row \in Server
    <3>1. CASE row \in [up: {TRUE}, full: BOOLEAN]
      BY <3>1 DEF Server
    <3>2. CASE \E up \in BOOLEAN : row = [servers[n] EXCEPT !.up = up]
      BY <2>1, <3>2 DEF Server
    <3>3. QED
      BY <2>2, <3>1, <3>2
  <2>4. QED
    BY <2>2, <2>3
<1>3. QED
  BY <1>1, <1>2

(* Servers and sites that come and go. *)
LEMMA RowsStep ==
  ASSUME IInv,
         \/ \E n \in Names : Poll(n) \/ Create(n) \/ CountSites(n)
         \/ Delete \/ DeleteFails
         \/ \E s \in Sites : DeleteSite(s) \/ \E n \in Names : CreateSite(s, n)
  PROVE  IInv'
<1> USE AlertsAssumption DEF eval, rows
<1>1. TypeOK /\ CountedNone
  BY DEF IInv
<1>2. ASSUME NEW n \in Names, Poll(n) \/ Create(n) PROVE IInv'
  <2>1. PICK row \in Server : servers' = [servers EXCEPT ![n] = row]
    BY <1>1, <1>2, ServerRow
  <2>2. UNCHANGED <<sites, open, eval, removing, late>>
    BY <1>2 DEF Poll, Create
  <2>3. QED
    BY <1>1, <2>1, <2>2 DEF IInv, TypeOK, CountedNone, On, Present
<1>3. ASSUME NEW n \in Names, CountSites(n) PROVE IInv'
  BY <1>1, <1>3 DEF CountSites, IInv, TypeOK, CountedNone, On, Present
<1>4. CASE Delete \/ DeleteFails
  <2>1. sites' \in [Sites -> Site \cup {None}] /\ servers' \in [Names -> Server \cup {None}]
    BY <1>1, <1>4 DEF Delete, DeleteFails, TypeOK
  <2>2. removing' = None /\ late' = {} /\ open' = open /\ phase' = phase /\ adding' = adding /\ faults' = faults
        /\ todo' \subseteq todo
    BY <1>4 DEF Delete, DeleteFails, Forgets
  <2>3. QED
    BY <1>1, <2>1, <2>2 DEF IInv, TypeOK, CountedNone
<1>5. ASSUME NEW s \in Sites, DeleteSite(s) PROVE IInv'
  <2>1. sites' = [sites EXCEPT ![s] = None] /\ todo' \subseteq todo
        /\ UNCHANGED <<servers, open, phase, adding, faults, removing, late>>
    BY <1>5 DEF DeleteSite, Forgets
  <2>2. sites' \in [Sites -> Site \cup {None}] /\ On(removing)' \subseteq On(removing)
    BY <1>1, <2>1 DEF TypeOK, On, Present
  <2>3. QED
    BY <1>1, <2>1, <2>2 DEF IInv, TypeOK, CountedNone
<1>6. ASSUME NEW s \in Sites, NEW n \in Names, CreateSite(s, n) PROVE IInv'
  <2> DEFINE row == [on |-> n, failed |-> FALSE, cert |-> "none", scheduled |-> FALSE, stale |-> TRUE]
  <2>1. row \in Site /\ row.on = n
    BY DEF Site
  <2>2. /\ sites' = [sites EXCEPT ![s] = row]
        /\ late' = IF removing = n THEN late \cup {s} ELSE late
        /\ UNCHANGED <<servers, open, eval, removing>>
    BY <1>6 DEF CreateSite
  <2>3. sites' \in [Sites -> Site \cup {None}]
    BY <1>1, <2>1, <2>2 DEF TypeOK
  <2>4. On(removing)' \subseteq On(removing) \cup (IF removing = n THEN {s} ELSE {})
    BY <1>1, <2>1, <2>2 DEF TypeOK, On, Present
  <2>5. QED
    BY <1>1, <2>2, <2>3, <2>4 DEF IInv, TypeOK, CountedNone
<1>7. QED
  BY <1>2, <1>3, <1>4, <1>5, <1>6

LEMMA ResolveStep ==
  ASSUME IInv, NEW a \in Kinds, Resolve(a)
  PROVE  IInv'
<1>1. TypeOK /\ CountedNone
  BY DEF IInv
<1>2. open' \in [Kinds -> Nat]
  BY <1>1 DEF Resolve, TypeOK
<1>3. QED
  BY <1>1, <1>2 DEF Resolve, IInv, TypeOK, CountedNone, On, Present, rows, eval

(* IInv is inductive. *)
THEOREM InvariantHolds == Spec => []IInv
<1>1. IInv /\ [Next]_vars => IInv'
  <2> SUFFICES ASSUME IInv, [Next]_vars PROVE IInv'
    OBVIOUS
  <2>1. CASE Next
    BY <2>1, EvaluateStep, ResolveStep, RowsStep, SiteChangesStep DEF Next
  <2>2. CASE UNCHANGED vars
    BY <2>2 DEF vars, rows, eval, IInv, TypeOK, CountedNone, On, Present
  <2>3. QED
    BY <2>1, <2>2
<1>2. QED
  BY InitEstablishes, <1>1, PTL DEF Spec

(* Every variable keeps its type. *)
THEOREM TypesHold == Spec => []TypeOK
<1>1. IInv => TypeOK
  BY DEF IInv
<1>2. QED
  BY InvariantHolds, <1>1, PTL

(* A removal takes along only sites that were created after its count. *)
THEOREM OnlyLateSitesAreLost == Spec => LostOnlyIfLate
<1>1. IInv /\ [Next]_vars => [\A n \in Attached : servers'[n] = None => On(n) \subseteq late]_vars
  <2> SUFFICES ASSUME IInv, Next, NEW n \in Attached, servers'[n] = None
      PROVE  On(n) \subseteq late
    BY DEF vars
  <2>1. TypeOK /\ CountedNone /\ n \in Names /\ servers[n] # None
    BY DEF IInv, Attached
  <2>2. Delete
    <3>1. ASSUME NEW m \in Names, Poll(m) \/ Create(m) PROVE servers'[n] # None
      <4>1. PICK row \in Server : servers' = [servers EXCEPT ![m] = row]
        BY <2>1, <3>1, ServerRow
      <4>2. QED
        BY <2>1, <4>1, AlertsAssumption DEF TypeOK
    <3>2. ~Delete /\ ~(\E m \in Names : Poll(m) \/ Create(m)) => servers' = servers
      BY DEF Next, Evaluate, ReadServers, ReadSites, ReadSchedules, Reads, Rests, Insert,
             InsertFails, TellListed, TellSchedule, Tells, TellUnread, TellFails, Resolve, CountSites, DeleteFails, SiteChanges,
             SetStatus, SetSchedule, SetSsl, BackedUp, Days, Becomes, DeleteSite, CreateSite, rows
    <3>3. QED
      BY <2>1, <3>1, <3>2
  <2>3. removing = n
    BY <2>1, <2>2 DEF Delete, TypeOK
  <2>4. QED
    BY <2>1, <2>2, <2>3 DEF CountedNone, Delete
<1>2. QED
  BY InvariantHolds, <1>1, PTL DEF Spec, LostOnlyIfLate

=============================================================================
