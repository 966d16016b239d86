----------------------------- MODULE BackupProofs -----------------------------
(***************************************************************************)
(* Proofs about the two halves of the panel's backups: BackupScheduler,    *)
(* which asks for them, and Backups, which takes, records and restores     *)
(* them; for any sites, schedules, destinations, snapshots and mishaps.    *)
(***************************************************************************)
EXTENDS BackupScheduler, Backups, FiniteSetTheorems, SequenceTheorems, TLAPS

-------------------------------------------------------------------------------
(* BackupScheduler.                                                          *)

Entries == [id : Ids, site : Sites, huge : BOOLEAN]
Acting  == {"checking", "resolving", "enqueuing", "marking"}
Listed  == {list[n].id : n \in DOMAIN list}
Of(by)  == {k \in Slots : jobs[k] # None /\ jobs[k].by = by}

(* The task has something in hand exactly while it has a list, and an id is
   listed once. *)
HasList    == tick \in Acting <=> list # <<>>
OnceListed == \A m, n \in DOMAIN list : list[m].id = list[n].id => m = n

(* Nothing is said of a schedule that is not in the table, and nothing has been
   done for one that never was. *)
RowsOnly ==
    /\ \A i \in enabled \cup due \cup huge : site[i] # NoSite
    /\ \A i \in Ids : i > made => site[i] = NoSite /\ fired[i] = 0
    /\ \A i \in Listed : i <= made

(* There is a free slot whenever a job is inserted. *)
FewManual == Cardinality(Of("user")) <= MaxManual

(* What has_active said of the scheduler's own jobs is still so. *)
NoneYet ==
    tick \in {"resolving", "enqueuing"} => \A k \in Of("scheduler") : jobs[k].site # Head(list).site

(* A listed schedule is due until it is marked, and is marked only after its
   backup is enqueued. *)
StillDue == \A i \in Listed : i \in due \/ site[i] = NoSite
Enqueued == tick = "marking" => fired[Head(list).id] > 0 \/ site[Head(list).id] = NoSite

(* A schedule that is still to be served has been served before only by way of a
   mishap, or it is one whose mark panics. *)
Marking(i) == tick = "marking" /\ Head(list).id = i
Unserved ==
    /\ \A i \in due : fired[i] <= mishaps \/ i \in panicked \/ Marking(i)
    /\ \A i \in Listed : fired[i] <= mishaps \/ i \in panicked \/ Marking(i)

ListInv == HasList /\ OnceListed
JobsInv == FewManual /\ NoneYet /\ OneScheduledBackup
DueInv  == StillDue /\ Enqueued /\ NothingSkipped /\ Unserved /\ ServedOnce
SchedulerInv == TypeOK /\ ListInv /\ RowsOnly /\ JobsInv /\ DueInv

-------------------------------------------------------------------------------
(* The list. *)

LEMMA HeadOfList ==
  ASSUME TypeOK, list # <<>>
  PROVE  /\ 1 \in DOMAIN list /\ Head(list) = list[1] /\ Head(list) \in Entries
         /\ Head(list).id \in Ids /\ Head(list).site \in Sites /\ Head(list).id \in Listed
<1>1. list \in Seq(Entries)
  BY DEF TypeOK, Entries
<1>2. Len(list) \in Nat \ {0} /\ DOMAIN list = 1..Len(list)
  BY <1>1, EmptySeq, LenProperties
<1>3. Head(list) \in Entries
  BY <1>1, HeadTailProperties
<1>4. Head(list) = list[1]
  BY DEF Head
<1>5. 1 \in DOMAIN list
  BY <1>2
<1>6. QED
  BY <1>3, <1>4, <1>5 DEF Entries, Listed

LEMMA ListedAreIds ==
  ASSUME TypeOK
  PROVE  Listed \subseteq Ids
<1>1. list \in Seq(Entries)
  BY DEF TypeOK, Entries
<1>2. list \in [DOMAIN list -> Entries]
  BY <1>1, LenProperties
<1>3. QED
  BY <1>2 DEF Listed, Entries

(* On to the next schedule: the head is not listed any more. *)
LEMMA ContinueDoes ==
  ASSUME TypeOK, OnceListed, list # <<>>, Continue
  PROVE  /\ list' \in Seq(Entries) /\ Listed' = Listed \ {Head(list).id}
         /\ HasList' /\ OnceListed' /\ tick' \in {"sleeping", "checking"}
<1>1. list \in Seq(Entries)
  BY DEF TypeOK, Entries
<1>2. Len(list) \in Nat \ {0} /\ DOMAIN list = 1..Len(list)
  BY <1>1, EmptySeq, LenProperties
<1>3. /\ list' \in Seq(Entries) /\ Len(list') = Len(list) - 1
      /\ \A n \in 1..Len(list') : list'[n] = list[n + 1]
  BY <1>1, HeadTailProperties DEF Continue
<1>4. DOMAIN list' = 1..(Len(list) - 1)
  BY <1>3, LenProperties
<1>0. /\ DOMAIN list \subseteq Int /\ DOMAIN list' \subseteq Int /\ 1 \in DOMAIN list
      /\ \A n \in DOMAIN list' : n + 1 # 1 /\ n + 1 \in DOMAIN list /\ list'[n] = list[n + 1]
      /\ \A n \in DOMAIN list : n # 1 => n - 1 \in DOMAIN list' /\ list[n] = list'[n - 1]
  BY <1>2, <1>3, <1>4
<1>5. Head(list) = list[1]
  BY DEF Head
<1>6. OnceListed'
  <2> SUFFICES ASSUME NEW m \in DOMAIN list', NEW n \in DOMAIN list', list'[m].id = list'[n].id
               PROVE  m = n
    BY DEF OnceListed
  <2>1. m + 1 = n + 1
    BY <1>0 DEF OnceListed
  <2>2. QED
    BY <1>0, <2>1
<1>7. Listed' = Listed \ {Head(list).id}
  <2>1. ASSUME NEW n \in DOMAIN list' PROVE list'[n].id \in Listed \ {list[1].id}
    BY <1>0 DEF OnceListed, Listed
  <2>2. ASSUME NEW n \in DOMAIN list, n # 1 PROVE \E m \in DOMAIN list' : list'[m].id = list[n].id
    BY <1>0, <2>2
  <2>3. QED
    BY <1>5, <2>1, <2>2 DEF Listed
<1>8. Len(list) = 1 <=> list' = <<>>
  BY <1>2, <1>3, EmptySeq
<1>9. HasList' /\ tick' \in {"sleeping", "checking"}
  BY <1>8 DEF HasList, Continue, Acting
<1>10. QED
  BY <1>3, <1>6, <1>7, <1>9

(* tick reads the schedules that are due. *)
LEMMA WakeDoes ==
  ASSUME TypeOK, RowsOnly, Wake
  PROVE  /\ list' \in Seq(Entries) /\ list' # <<>> /\ OnceListed'
         /\ Listed' \subseteq enabled \cap due
<1> DEFINE ready == enabled \cap due
<1>1. ready \subseteq Ids /\ ready # {} /\ IsFiniteSet(ready)
  <2>1. ready \subseteq Ids /\ ready # {}
    BY DEF TypeOK, Wake
  <2>2. IsFiniteSet(Ids)
    BY SchedulerAssumption, FS_Interval DEF Ids
  <2>3. QED
    BY <2>1, <2>2, FS_Subset
<1>2. Cardinality(ready) \in Nat \ {0}
  BY <1>1, FS_CardinalityType, FS_EmptySet
<1>3. PICK order \in Injection(1..Cardinality(ready), ready) :
        list' = [n \in DOMAIN order |-> Entry(order[n])]
  BY DEF Wake, Orders
<1>4. /\ order \in [1..Cardinality(ready) -> ready]
      /\ \A m, n \in 1..Cardinality(ready) : order[m] = order[n] => m = n
  BY DEF Injection, IsInjective
<1>5. \A i \in ready : Entry(i) \in Entries /\ Entry(i).id = i
  BY <1>1 DEF Entry, Entries, RowsOnly, TypeOK
<1>6. list' \in [1..Cardinality(ready) -> Entries]
  BY <1>3, <1>4, <1>5
<1>7. list' \in Seq(Entries) /\ Len(list') = Cardinality(ready)
  <2>1. list' \in Seq(Entries)
    BY <1>2, <1>6, SeqDef
  <2>2. DOMAIN list' = 1..Cardinality(ready) /\ DOMAIN list' = 1..Len(list') /\ Len(list') \in Nat
    BY <1>6, <2>1, LenProperties
  <2>3. QED
    BY <1>2, <2>1, <2>2
<1>8. list' # <<>>
  BY <1>2, <1>7, EmptySeq
<1>9. \A n \in DOMAIN list' : n \in 1..Cardinality(ready) /\ list'[n].id = order[n]
  BY <1>3, <1>4, <1>5
<1>10. OnceListed' /\ Listed' \subseteq ready
  <2>1. ASSUME NEW m \in DOMAIN list', NEW n \in DOMAIN list', list'[m].id = list'[n].id
        PROVE  m = n
    BY <1>4, <1>9, <2>1
  <2>2. ASSUME NEW n \in DOMAIN list' PROVE list'[n].id \in ready
    BY <1>4, <1>9
  <2>3. QED
    BY <2>1, <2>2 DEF OnceListed, Listed
<1>11. QED
  BY <1>7, <1>8, <1>10

-------------------------------------------------------------------------------
(* The jobs. *)

LEMMA SlotsAreFinite ==
  /\ Cardinality(Sites) \in Nat /\ MaxManual \in Nat
  /\ IsFiniteSet(Slots) /\ Cardinality(Slots) = Cardinality(Sites) + MaxManual
  /\ \A by : IsFiniteSet(Of(by)) /\ Cardinality(Of(by)) \in Nat
<1>1. Cardinality(Sites) \in Nat /\ MaxManual \in Nat
  BY SchedulerAssumption, FS_CardinalityType
<1>2. IsFiniteSet(Slots) /\ Cardinality(Slots) = Cardinality(Sites) + MaxManual
  <2>1. Cardinality(Sites) + MaxManual \in Nat
    BY <1>1
  <2>2. /\ IsFiniteSet(1..(Cardinality(Sites) + MaxManual))
        /\ Cardinality(1..(Cardinality(Sites) + MaxManual)) = Cardinality(Sites) + MaxManual
    BY <2>1, FS_Interval
  <2>3. QED
    BY <2>2 DEF Slots
<1>3. ASSUME NEW by PROVE IsFiniteSet(Of(by)) /\ Cardinality(Of(by)) \in Nat
  BY <1>2, FS_Subset, FS_CardinalityType DEF Of
<1>4. QED
  BY <1>1, <1>2, <1>3

(* One backup of the scheduler's for a site. *)
LEMMA OneForEach ==
  ASSUME TypeOK, OneScheduledBackup, NEW some \in SUBSET Sites,
         \A k \in Of("scheduler") : jobs[k].site \in some
  PROVE  Cardinality(Of("scheduler")) <= Cardinality(some)
<1> DEFINE whose == [k \in Of("scheduler") |-> jobs[k].site]
<1>1. \A a, b \in Of("scheduler") : jobs[a].site = jobs[b].site => a = b
  BY DEF OneScheduledBackup, Of
<1>2. whose \in Injection(Of("scheduler"), some)
  BY <1>1 DEF Injection, IsInjective
<1>3. IsFiniteSet(some)
  BY SchedulerAssumption, FS_Subset
<1>4. QED
  BY <1>2, <1>3, FS_Injection

LEMMA FreeSlot ==
  ASSUME TypeOK, JobsInv,
         \/ Cardinality(Of("user")) < MaxManual
         \/ \E s \in Sites : \A k \in Of("scheduler") : jobs[k].site # s
  PROVE  \E k \in Slots : jobs[k] = None
<1> SUFFICES ASSUME \A k \in Slots : jobs[k] # None PROVE FALSE
  OBVIOUS
<1>1. Slots = Of("scheduler") \cup Of("user")
  BY DEF TypeOK, Jobs, Of
<1>2. Cardinality(Slots) <= Cardinality(Of("scheduler")) + Cardinality(Of("user"))
  <2>1. /\ Cardinality(Of("scheduler") \cap Of("user")) \in Nat
        /\ Cardinality(Of("scheduler")) \in Nat /\ Cardinality(Of("user")) \in Nat
    BY SlotsAreFinite, FS_Subset, FS_CardinalityType
  <2>2. Cardinality(Of("scheduler") \cup Of("user"))
          = Cardinality(Of("scheduler")) + Cardinality(Of("user")) - Cardinality(Of("scheduler") \cap Of("user"))
    BY SlotsAreFinite, FS_Union
  <2>3. QED
    BY <1>1, <2>1, <2>2
<1>3. \A k \in Of("scheduler") : jobs[k].site \in Sites
  BY DEF TypeOK, Jobs, Of
<1>4. CASE Cardinality(Of("user")) < MaxManual
  <2>1. Cardinality(Of("scheduler")) <= Cardinality(Sites)
    BY <1>3, OneForEach DEF JobsInv
  <2>2. QED
    BY <1>2, <1>4, <2>1, SlotsAreFinite
<1>5. ASSUME NEW s \in Sites, \A k \in Of("scheduler") : jobs[k].site # s PROVE FALSE
  <2>1. Cardinality(Of("scheduler")) <= Cardinality(Sites \ {s})
    BY <1>3, <1>5, OneForEach DEF JobsInv
  <2>2. Cardinality(Sites \ {s}) = Cardinality(Sites) - 1
    BY SchedulerAssumption, FS_RemoveElement
  <2>3. QED
    BY <1>2, <2>1, <2>2, SlotsAreFinite DEF JobsInv, FewManual
<1>6. QED
  BY <1>4, <1>5

(* What a job inserted is. *)
LEMMA InsertDoes ==
  ASSUME TypeOK, NEW s \in Sites, NEW by \in {"scheduler", "user"}, Insert(s, by),
         \E k \in Slots : jobs[k] = None
  PROVE  /\ jobs' \in [Slots -> Jobs \cup {None}]
         /\ \E k \in Slots : jobs[k] = None /\ jobs'[k].site = s /\ jobs'[k].by = by
                           /\ \A n \in Slots \ {k} : jobs'[n] = jobs[n]
<1>1. PICK k \in Slots : /\ jobs[k] = None
                       /\ jobs' = [jobs EXCEPT ![k] = [site |-> s, by |-> by, status |-> "queued"]]
  BY DEF Insert
<1>2. [site |-> s, by |-> by, status |-> "queued"] \in Jobs
  BY DEF Jobs
<1>3. QED
  BY <1>1, <1>2 DEF TypeOK

-------------------------------------------------------------------------------
(* Types. *)

LEMMA TypeStep ==
  ASSUME SchedulerInv, Next
  PROVE  TypeOK'
<1> USE DEF table, task, seen
<1>0. TypeOK /\ ListInv /\ RowsOnly /\ JobsInv /\ HasList /\ OnceListed
  BY DEF SchedulerInv, ListInv
<1>1. ASSUME NEW h \in Handlers, LookUp(h) PROVE TypeOK'
  <2>1. edits' \in 0..MaxEdits
    BY <1>0, <1>1, SchedulerAssumption DEF LookUp, TypeOK
  <2>2. QED
    BY <1>0, <1>1, <2>1 DEF LookUp, TypeOK
<1>2. ASSUME NEW h \in Handlers, Remove(h) PROVE TypeOK'
  BY <1>0, <1>2 DEF Remove, TypeOK
<1>3. ASSUME NEW h \in Handlers, Update(h) PROVE TypeOK'
  BY <1>0, <1>3 DEF Update, Fill, TypeOK, Edits
<1>4. ASSUME NEW h \in Handlers, Create(h) PROVE TypeOK'
  <2>1. CASE asked[h].site \notin sites
    BY <1>0, <1>4, <2>1 DEF Create, TypeOK
  <2>2. CASE asked[h].site \in sites
    <3>1. made + 1 \in Ids /\ made + 1 \in 0..MaxSchedules
      BY <1>0, <1>4, SchedulerAssumption DEF Create, TypeOK, Ids
    <3>2. QED
      BY <1>0, <1>4, <2>2, <3>1 DEF Create, Fill, TypeOK
  <2>3. QED
    BY <2>1, <2>2
<1>5. ASSUME NEW s \in Sites, DeleteSite(s) PROVE TypeOK'
  BY <1>0, <1>5 DEF DeleteSite, TypeOK
<1>6. ASSUME NEW s \in Sites, ManualBackup(s) PROVE TypeOK'
  <2>1. \E k \in Slots : jobs[k] = None
    BY <1>0, <1>6, FreeSlot DEF ManualBackup, Of
  <2>2. jobs' \in [Slots -> Jobs \cup {None}]
    BY <1>0, <1>6, <2>1, InsertDoes DEF ManualBackup
  <2>3. QED
    BY <1>0, <1>6, <2>2 DEF ManualBackup, TypeOK
<1>7. ASSUME NEW i \in Ids, ComesDue(i) PROVE TypeOK'
  BY <1>0, <1>7 DEF ComesDue, TypeOK
<1>8. CASE Wake
  <2>1. list' \in Seq(Entries)
    BY <1>0, <1>8, WakeDoes
  <2>2. QED
    BY <1>0, <1>8, <2>1 DEF Wake, Goto, TypeOK, Entries
<1>9. CASE Skip
  <2>1. list # <<>>
    BY <1>0, <1>9 DEF Skip, HasList, Acting
  <2>2. list' \in Seq(Entries) /\ tick' \in {"sleeping", "checking"}
    BY <1>0, <1>9, <2>1, ContinueDoes DEF Skip
  <2>3. QED
    BY <1>0, <1>9, <2>2 DEF Skip, TypeOK, Entries
<1>10. CASE Check
  BY <1>0, <1>10 DEF Check, Goto, TypeOK
<1>11. CASE GetSite
  <2>1. list # <<>>
    BY <1>0, <1>11 DEF GetSite, HasList, Acting
  <2>2. CASE Head(list).site \in sites
    BY <1>0, <1>11, <2>2 DEF GetSite, TypeOK
  <2>3. CASE Head(list).site \notin sites
    <3>1. list' \in Seq(Entries) /\ tick' \in {"sleeping", "checking"}
      BY <1>0, <1>11, <2>1, <2>3, ContinueDoes DEF GetSite
    <3>2. QED
      BY <1>0, <1>11, <3>1 DEF GetSite, TypeOK, Entries
  <2>4. QED
    BY <2>2, <2>3
<1>12. CASE Enqueue
  <2>1. list # <<>>
    BY <1>0, <1>12 DEF Enqueue, HasList, Acting
  <2>2. CASE Head(list).site \in sites
    <3>1. \E k \in Slots : jobs[k] = None
      BY <1>0, <1>12, <2>1, FreeSlot, HeadOfList DEF Enqueue, JobsInv, NoneYet
    <3>2. jobs' \in [Slots -> Jobs \cup {None}]
      BY <1>0, <1>12, <2>1, <2>2, <3>1, InsertDoes, HeadOfList DEF Enqueue
    <3>3. fired' \in [Ids -> Nat]
      BY <1>0, <1>12, <2>1, <2>2, HeadOfList DEF Enqueue, TypeOK
    <3>4. QED
      BY <1>0, <1>12, <2>2, <3>2, <3>3 DEF Enqueue, TypeOK
  <2>3. CASE Head(list).site \notin sites
    BY <1>0, <1>12, <2>3, EmptySeq DEF Enqueue, TypeOK
  <2>4. QED
    BY <2>2, <2>3
<1>13. CASE Mark
  <2>1. list # <<>>
    BY <1>0, <1>13 DEF Mark, HasList, Acting
  <2>2. list' \in Seq(Entries) /\ tick' \in {"sleeping", "checking"}
    BY <1>0, <1>13, <2>1, ContinueDoes DEF Mark
  <2>3. QED
    BY <1>0, <1>13, <2>2 DEF Mark, TypeOK, Entries
<1>14. CASE TickFails
  BY <1>0, <1>14, EmptySeq DEF TickFails, Mishap, TypeOK
<1>15. ASSUME NEW k \in Slots, Claim(k) PROVE TypeOK'
  BY <1>0, <1>15 DEF Claim, Status, Jobs, TypeOK
<1>16. ASSUME NEW k \in Slots, End(k) PROVE TypeOK'
  BY <1>0, <1>16 DEF End, TypeOK
<1>17. ASSUME NEW k \in Slots, Strand(k) PROVE TypeOK'
  <2>1. jobs' \in [Slots -> Jobs \cup {None}]
    BY <1>0, <1>17 DEF Strand, Status, Jobs, TypeOK
  <2>2. QED
    BY <1>0, <1>17, <2>1 DEF Strand, Mishap, TypeOK
<1>18. CASE Restart
  BY <1>0, <1>18, EmptySeq DEF Restart, Reboot, Mishap, TypeOK
<1>19. CASE Panic
  <2>1. Head(list).id \in Ids
    BY <1>0, <1>19, HeadOfList DEF Panic, HasList, Acting
  <2>2. QED
    BY <1>0, <1>19, <2>1, EmptySeq DEF Panic, Reboot, TypeOK
<1>20. QED
  BY <1>1, <1>2, <1>3, <1>4, <1>5, <1>6, <1>7, <1>8, <1>9, <1>10, <1>11, <1>12, <1>13, <1>14,
     <1>15, <1>16, <1>17, <1>18, <1>19 DEF Next, TickStep

-------------------------------------------------------------------------------
(* What the steps do to the list and the task. *)

(* The task has stopped with nothing in hand. *)
LEMMA EmptyList ==
  ASSUME list' = <<>>, tick' \notin Acting
  PROVE  ListInv' /\ Listed' = {} /\ NoneYet' /\ Enqueued'
<1>1. DOMAIN list' = {}
  BY LenProperties, EmptySeq
<1>2. QED
  BY <1>1 DEF ListInv, HasList, OnceListed, Listed, NoneYet, Enqueued, Acting

(* Every step leaves the task alone, hands its list on, or ends it. *)
Stands    == UNCHANGED task
Starts    == Wake
Advances  == tick \in Acting /\ Continue
Proceeds  == /\ tick \in Acting /\ tick' \in Acting
             /\ UNCHANGED list
Stops     == list' = <<>> /\ tick' = "sleeping"

LEMMA TaskDoes ==
  ASSUME Next
  PROVE  Stands \/ Starts \/ Advances \/ Proceeds \/ Stops
<1> USE DEF Stands, Starts, Advances, Proceeds, Stops, Acting, table, task
<1>1. ASSUME NEW h \in Handlers, LookUp(h) \/ Remove(h) \/ Update(h) \/ Create(h) PROVE Stands
  BY <1>1 DEF LookUp, Remove, Update, Create
<1>2. ASSUME NEW s \in Sites, DeleteSite(s) \/ ManualBackup(s) PROVE Stands
  BY <1>2 DEF DeleteSite, ManualBackup
<1>3. ASSUME NEW i \in Ids, ComesDue(i) PROVE Stands
  BY <1>3 DEF ComesDue
<1>4. ASSUME NEW k \in Slots, Claim(k) \/ End(k) \/ Strand(k) PROVE Stands
  BY <1>4 DEF Claim, End, Strand
<1>5. CASE Skip
  BY <1>5 DEF Skip
<1>6. CASE Check
  BY <1>6 DEF Check, Goto
<1>7. CASE GetSite
  BY <1>7 DEF GetSite
<1>8. CASE Enqueue
  BY <1>8 DEF Enqueue
<1>9. CASE Mark
  BY <1>9 DEF Mark
<1>10. CASE TickFails \/ Restart \/ Panic
  BY <1>10 DEF TickFails, Restart, Panic, Reboot
<1>11. QED
  BY <1>1, <1>2, <1>3, <1>4, <1>5, <1>6, <1>7, <1>8, <1>9, <1>10 DEF Next, TickStep

(* What the scheduler resolves and enqueues it has asked has_active about. *)
LEMMA MovesOf ==
  ASSUME Next, ~ Check, ~ Enqueue
  PROVE  tick' \notin {"resolving", "enqueuing"} \/ (list' = list /\ tick \in {"resolving", "enqueuing"})
<1> USE DEF table, task, seen
<1>1. CASE Wake \/ Skip \/ Mark
  BY <1>1 DEF Wake, Goto, Skip, Mark, Continue
<1>2. CASE GetSite
  BY <1>2 DEF GetSite, Continue
<1>3. CASE TickFails \/ Restart \/ Panic
  BY <1>3 DEF TickFails, Restart, Panic, Reboot
<1>4. CASE UNCHANGED task
  BY <1>4
<1>5. QED
  BY <1>1, <1>2, <1>3, <1>4
     DEF Next, TickStep, LookUp, Remove, Update, Create, DeleteSite, ManualBackup, ComesDue, Claim, End, Strand

(* A mark follows its enqueue. *)
LEMMA MarksOf ==
  ASSUME Next, ~ Enqueue
  PROVE  tick' # "marking" \/ (list' = list /\ tick = "marking")
<1> USE DEF table, task, seen
<1>1. CASE Wake \/ Skip \/ Check \/ Mark
  BY <1>1 DEF Wake, Goto, Skip, Check, Mark, Continue
<1>2. CASE GetSite
  BY <1>2 DEF GetSite, Continue
<1>3. CASE TickFails \/ Restart \/ Panic
  BY <1>3 DEF TickFails, Restart, Panic, Reboot
<1>4. CASE UNCHANGED task
  BY <1>4
<1>5. QED
  BY <1>1, <1>2, <1>3, <1>4
     DEF Next, TickStep, LookUp, Remove, Update, Create, DeleteSite, ManualBackup, ComesDue, Claim, End, Strand

LEMMA ListStep ==
  ASSUME SchedulerInv, Next
  PROVE  ListInv' /\ (Listed' \subseteq Listed \/ (Wake /\ Listed' \subseteq enabled \cap due))
<1>0. TypeOK /\ HasList /\ OnceListed /\ RowsOnly
  BY DEF SchedulerInv, ListInv
<1>1. CASE Stands
  <2>1. tick' = tick /\ list' = list
    BY <1>1 DEF Stands, task
  <2>2. Listed' = Listed
    BY <2>1 DEF Listed
  <2>3. QED
    BY <1>0, <2>1, <2>2 DEF ListInv, HasList, OnceListed
<1>2. CASE Wake
  BY <1>0, <1>2, WakeDoes DEF ListInv, HasList, Wake, Goto, Acting
<1>3. CASE Advances
  <2>1. list # <<>>
    BY <1>0, <1>3 DEF HasList, Advances
  <2>2. HasList' /\ OnceListed' /\ Listed' = Listed \ {Head(list).id}
    BY <1>0, <1>3, <2>1, ContinueDoes DEF Advances
  <2>3. QED
    BY <2>2 DEF ListInv
<1>4. CASE Proceeds
  <2>1. list' = list
    BY <1>4 DEF Proceeds
  <2>2. Listed' = Listed
    BY <2>1 DEF Listed
  <2>3. QED
    BY <1>0, <1>4, <2>1, <2>2 DEF Proceeds, ListInv, HasList, OnceListed
<1>5. CASE Stops
  BY <1>5, EmptyList DEF Stops, Acting
<1>6. QED
  BY <1>1, <1>2, <1>3, <1>4, <1>5, TaskDoes DEF Starts

(* Which steps concern the table and the backups counted. *)
TableKept == UNCHANGED <<site, made, enabled, due, huge, fired, panicked>>

LEMMA TableDoes ==
  ASSUME Next
  PROVE  \/ TableKept
         \/ \E h \in Handlers : Remove(h) \/ Update(h) \/ Create(h)
         \/ \E s \in Sites : DeleteSite(s)
         \/ \E i \in Ids : ComesDue(i)
         \/ Enqueue \/ Mark \/ Panic
<1> USE DEF table, seen
<1>1. ASSUME NEW h \in Handlers, LookUp(h) PROVE TableKept
  BY <1>1 DEF LookUp, TableKept
<1>2. ASSUME NEW s \in Sites, ManualBackup(s) PROVE TableKept
  BY <1>2 DEF ManualBackup, TableKept
<1>3. CASE Wake \/ Skip \/ Check \/ GetSite
  BY <1>3 DEF Wake, Skip, Check, GetSite, TableKept
<1>4. CASE TickFails \/ Restart
  BY <1>4 DEF TickFails, Restart, TableKept
<1>5. ASSUME NEW k \in Slots, Claim(k) \/ End(k) \/ Strand(k) PROVE TableKept
  BY <1>5 DEF Claim, End, Strand, TableKept
<1>6. QED
  BY <1>1, <1>2, <1>3, <1>4, <1>5 DEF Next, TickStep

(* The table is not spoken of outside its rows. *)
LEMMA RowsStep ==
  ASSUME SchedulerInv, Next
  PROVE  RowsOnly'
<1> USE DEF table, task, seen
<1>0. TypeOK /\ RowsOnly /\ HasList
  BY DEF SchedulerInv, ListInv
<1>1. /\ Listed' \subseteq Listed \/ Listed' \subseteq enabled \cap due
      /\ Listed \subseteq Ids /\ enabled \cap due \subseteq Ids
  BY <1>0, ListStep, ListedAreIds DEF TypeOK
<1>2. \A i \in enabled \cap due : i <= made
  <2> SUFFICES ASSUME NEW i \in enabled \cap due PROVE i <= made
    OBVIOUS
  <2>1. i \in Ids /\ site[i] # NoSite
    BY <1>0 DEF RowsOnly, TypeOK
  <2>2. i \in Nat /\ made \in Nat
    BY <1>0, <2>1, SchedulerAssumption DEF TypeOK, Ids
  <2>3. QED
    BY <1>0, <2>1, <2>2 DEF RowsOnly
<1>3. made' \in Nat /\ made <= made'
  <2>1. made \in Nat
    BY <1>0 DEF TypeOK
  <2>2. made' = made \/ made' = made + 1
    BY TableDoes DEF TableKept, Remove, Update, Create, DeleteSite, ComesDue, Enqueue, Mark, Panic
  <2>3. QED
    BY <2>1, <2>2
<1>4. \A i \in Listed' : i <= made'
  <2> SUFFICES ASSUME NEW i \in Listed' PROVE i <= made'
    OBVIOUS
  <2>1. i \in Ids /\ i <= made
    BY <1>0, <1>1, <1>2 DEF RowsOnly
  <2>2. i \in Nat /\ made \in Nat
    BY <1>0, <2>1, SchedulerAssumption DEF TypeOK, Ids
  <2>3. QED
    BY <1>3, <2>1, <2>2
<1> DEFINE Told == /\ \A i \in enabled \cup due \cup huge : site[i] # NoSite
                   /\ \A i \in Ids : i > made => site[i] = NoSite /\ fired[i] = 0
<1>5. Told
  BY <1>0 DEF RowsOnly
<1>6. ASSUME TableKept PROVE Told'
  BY <1>5, <1>6 DEF TableKept
<1>7. ASSUME NEW h \in Handlers, Remove(h) PROVE Told'
  BY <1>0, <1>5, <1>7 DEF Remove, TypeOK
<1>8. ASSUME NEW h \in Handlers, Update(h) PROVE Told'
  BY <1>5, <1>8 DEF Update, Fill
<1>9. ASSUME NEW h \in Handlers, Create(h) PROVE Told'
  <2>1. CASE asked[h].site \notin sites
    BY <1>5, <1>9, <2>1 DEF Create
  <2>2. CASE asked[h].site \in sites
    <3>1. /\ made' = made + 1 /\ made \in Nat /\ Ids \subseteq Nat /\ made + 1 \in Ids
          /\ asked[h].site # NoSite
      BY <1>0, <1>9, <2>2, SchedulerAssumption DEF Create, TypeOK, Ids
    <3>2. /\ site' = [site EXCEPT ![made + 1] = asked[h].site] /\ due' = due \cup {made + 1}
          /\ enabled' \subseteq enabled \cup {made + 1} /\ huge' \subseteq huge \cup {made + 1}
          /\ fired' = fired
      BY <1>9, <2>2 DEF Create, Fill
    <3>3. \A i \in Ids : site'[i] = IF i = made + 1 THEN asked[h].site ELSE site[i]
      BY <1>0, <3>2 DEF TypeOK
    <3>4. enabled \cup due \cup huge \subseteq Ids
      BY <1>0 DEF TypeOK
    <3>5. \A i \in enabled' \cup due' \cup huge' : site'[i] # NoSite
      BY <1>5, <3>1, <3>2, <3>3, <3>4
    <3>6. \A i \in Ids : i > made' => site'[i] = NoSite /\ fired'[i] = 0
      BY <1>5, <3>1, <3>2, <3>3
    <3>7. QED
      BY <3>5, <3>6
  <2>3. QED
    BY <2>1, <2>2
<1>10. ASSUME NEW s \in Sites, DeleteSite(s) PROVE Told'
  BY <1>0, <1>5, <1>10 DEF DeleteSite, TypeOK
<1>11. ASSUME NEW i \in Ids, ComesDue(i) PROVE Told'
  BY <1>0, <1>5, <1>11 DEF ComesDue, TypeOK
<1>12. ASSUME Enqueue PROVE Told'
  <2>1. list # <<>>
    BY <1>0, <1>12 DEF Enqueue, HasList, Acting
  <2>2. /\ Head(list).id \in Nat /\ made \in Nat
        /\ Head(list).id <= made /\ Head(list).id \in Ids
    <3>1. Head(list).id \in Ids /\ Head(list).id \in Listed
      BY <1>0, <2>1, HeadOfList
    <3>2. Head(list).id <= made
      BY <1>0, <3>1 DEF RowsOnly
    <3>3. made \in Nat
      BY <1>0 DEF TypeOK
    <3>4. QED
      BY <3>1, <3>2, <3>3, SchedulerAssumption DEF Ids
  <2>3. \A i \in Ids : i > made => fired'[i] = fired[i]
    BY <1>0, <1>12, <2>2 DEF Enqueue, TypeOK
  <2>4. UNCHANGED <<site, made, enabled, due, huge>>
    BY <1>12 DEF Enqueue
  <2>5. QED
    BY <1>5, <2>3, <2>4
<1>13. ASSUME Mark PROVE Told'
  <2>1. UNCHANGED <<site, made, enabled, huge, fired>> /\ due' \subseteq due
    BY <1>13 DEF Mark
  <2>2. QED
    BY <1>5, <2>1
<1>14. ASSUME Panic PROVE Told'
  BY <1>5, <1>14 DEF Panic
<1>15. Told'
  BY <1>6, <1>7, <1>8, <1>9, <1>10, <1>11, <1>12, <1>13, <1>14, TableDoes
<1>16. QED
  BY <1>4, <1>15 DEF RowsOnly

-------------------------------------------------------------------------------
(* The jobs that are active. *)

(* Jobs end and change their status, and none is new. *)
Shrink ==
    \A k \in Slots : jobs'[k] # None =>
        jobs[k] # None /\ jobs'[k].site = jobs[k].site /\ jobs'[k].by = jobs[k].by

LEMMA JobsDo ==
  ASSUME TypeOK, Next
  PROVE  Shrink \/ (\E s \in Sites : ManualBackup(s)) \/ (Enqueue /\ Head(list).site \in sites)
<1>1. ASSUME UNCHANGED jobs PROVE Shrink
  BY <1>1 DEF Shrink
<1>2. ASSUME NEW s \in Sites, DeleteSite(s) PROVE Shrink
  BY <1>2 DEF DeleteSite, Shrink
<1>3. ASSUME NEW k \in Slots, Claim(k) PROVE Shrink
  BY <1>3 DEF TypeOK, Claim, Status, Jobs, Shrink
<1>4. ASSUME NEW k \in Slots, End(k) PROVE Shrink
  BY <1>4 DEF TypeOK, End, Shrink
<1>5. ASSUME NEW k \in Slots, Strand(k) PROVE Shrink
  BY <1>5 DEF TypeOK, Strand, Status, Jobs, Shrink
<1>6. CASE Restart \/ Panic
  BY <1>6 DEF Restart, Panic, Reboot, Shrink
<1>7. ASSUME NEW h \in Handlers, LookUp(h) \/ Remove(h) \/ Update(h) \/ Create(h) PROVE UNCHANGED jobs
  BY <1>7 DEF LookUp, Remove, Update, Create
<1>8. ASSUME NEW i \in Ids, ComesDue(i) PROVE UNCHANGED jobs
  BY <1>8 DEF ComesDue
<1>9. ASSUME Wake \/ Skip \/ Check \/ GetSite \/ Mark \/ TickFails PROVE UNCHANGED jobs
  BY <1>9 DEF Wake, Skip, Check, GetSite, Mark, TickFails
<1>10. ASSUME Enqueue, Head(list).site \notin sites PROVE UNCHANGED jobs
  BY <1>10 DEF Enqueue
<1>11. QED
  BY <1>1, <1>2, <1>3, <1>4, <1>5, <1>6, <1>7, <1>8, <1>9, <1>10 DEF Next, TickStep

LEMMA ManualDoes ==
  ASSUME TypeOK, JobsInv, NEW s \in Sites, ManualBackup(s)
  PROVE  /\ \E k \in Slots : Of("user")' \subseteq Of("user") \cup {k}
         /\ \A k \in Of("scheduler")' : k \in Of("scheduler") /\ jobs'[k] = jobs[k]
<1>1. \E k \in Slots : jobs[k] = None
  BY FreeSlot DEF ManualBackup, Of
<1>2. PICK k \in Slots : /\ jobs[k] = None /\ jobs'[k].by = "user"
                        /\ \A n \in Slots \ {k} : jobs'[n] = jobs[n]
  BY <1>1, InsertDoes DEF ManualBackup
<1>3. QED
  BY <1>2 DEF Of

LEMMA EnqueueDoes ==
  ASSUME TypeOK, HasList, JobsInv, Enqueue, Head(list).site \in sites
  PROVE  /\ Of("user")' \subseteq Of("user")
         /\ \E k \in Slots : /\ jobs'[k].site = Head(list).site
                           /\ \A n \in Of("scheduler")' : n # k => n \in Of("scheduler") /\ jobs'[n] = jobs[n]
         /\ \A n \in Of("scheduler") : jobs[n].site # Head(list).site
<1>1. list # <<>>
  BY DEF Enqueue, HasList, Acting
<1>2. \A n \in Of("scheduler") : jobs[n].site # Head(list).site
  BY DEF Enqueue, JobsInv, NoneYet
<1>3. \E k \in Slots : jobs[k] = None
  BY <1>1, <1>2, FreeSlot, HeadOfList
<1>4. PICK k \in Slots : /\ jobs[k] = None /\ jobs'[k].site = Head(list).site /\ jobs'[k].by = "scheduler"
                        /\ \A n \in Slots \ {k} : jobs'[n] = jobs[n]
  BY <1>1, <1>3, InsertDoes, HeadOfList DEF Enqueue
<1>5. QED
  BY <1>2, <1>4 DEF Of

LEMMA JobsStep ==
  ASSUME SchedulerInv, Next
  PROVE  JobsInv'
<1>0. TypeOK /\ HasList /\ JobsInv /\ FewManual /\ NoneYet /\ OneScheduledBackup
  BY DEF SchedulerInv, ListInv, JobsInv
<1>1. Shrink => Of("user")' \subseteq Of("user")
  BY DEF Shrink, Of
<1>2. Shrink => \A k \in Of("scheduler")' : k \in Of("scheduler") /\ jobs'[k].site = jobs[k].site
  BY DEF Shrink, Of
<1>3. FewManual'
  <2>1. CASE Of("user")' \subseteq Of("user")
    <3>1. Cardinality(Of("user")') <= Cardinality(Of("user")) /\ Cardinality(Of("user")') \in Nat
      BY <2>1, SlotsAreFinite, FS_Subset, FS_CardinalityType
    <3>2. QED
      BY <1>0, <3>1, SlotsAreFinite DEF FewManual
  <2>2. CASE \E s \in Sites : ManualBackup(s)
    <3>1. PICK k \in Slots : Of("user")' \subseteq Of("user") \cup {k}
      BY <1>0, <2>2, ManualDoes
    <3>2. Cardinality(Of("user")) < MaxManual
      BY <2>2 DEF ManualBackup, Of
    <3>3. /\ IsFiniteSet(Of("user") \cup {k})
          /\ Cardinality(Of("user") \cup {k}) <= Cardinality(Of("user")) + 1
          /\ Cardinality(Of("user") \cup {k}) \in Nat
      <4>1. IsFiniteSet(Of("user")) /\ Cardinality(Of("user")) \in Nat
        BY SlotsAreFinite
      <4>2. /\ IsFiniteSet(Of("user") \cup {k})
            /\ Cardinality(Of("user") \cup {k})
                 = IF k \in Of("user") THEN Cardinality(Of("user")) ELSE Cardinality(Of("user")) + 1
        BY <4>1, FS_AddElement
      <4>3. QED
        BY <4>1, <4>2
    <3>4. Cardinality(Of("user")') <= Cardinality(Of("user") \cup {k}) /\ Cardinality(Of("user")') \in Nat
      BY <3>1, <3>3, FS_Subset, FS_CardinalityType
    <3>5. QED
      BY <3>2, <3>3, <3>4, SlotsAreFinite DEF FewManual
  <2>3. QED
    BY <1>0, <1>1, <2>1, <2>2, JobsDo, EnqueueDoes
<1>4. OneScheduledBackup'
  <2>1. OneScheduledBackup <=>
          \A a, b \in Of("scheduler") : jobs[a].site = jobs[b].site => a = b
    BY DEF OneScheduledBackup, Of
  <2>2. (OneScheduledBackup)' <=>
          \A a, b \in Of("scheduler")' : jobs'[a].site = jobs'[b].site => a = b
    BY DEF OneScheduledBackup, Of
  <2>3. CASE Shrink
    BY <1>0, <1>2, <2>1, <2>2, <2>3
  <2>4. CASE \E s \in Sites : ManualBackup(s)
    BY <1>0, <2>1, <2>2, <2>4, ManualDoes
  <2>5. CASE Enqueue /\ Head(list).site \in sites
    BY <1>0, <2>1, <2>2, <2>5, EnqueueDoes
  <2>6. QED
    BY <1>0, <2>3, <2>4, <2>5, JobsDo
<1>5. NoneYet'
  <2>1. CASE Enqueue
    BY <2>1 DEF Enqueue, NoneYet
  <2>2. CASE Check
    <3>1. \A k \in Of("scheduler") : jobs[k].site # Head(list).site
      BY <2>2 DEF Check, HasActive, Of
    <3>2. jobs' = jobs /\ list' = list
      BY <2>2 DEF Check
    <3>3. QED
      BY <3>1, <3>2 DEF NoneYet, Of
  <2>3. CASE ~ Check /\ ~ Enqueue
    <3>1. \A k \in Of("scheduler")' : k \in Of("scheduler") /\ jobs'[k].site = jobs[k].site
      BY <1>0, <1>2, <2>3, JobsDo, ManualDoes
    <3>2. \/ tick' \notin {"resolving", "enqueuing"}
          \/ list' = list /\ tick \in {"resolving", "enqueuing"}
      BY <2>3, MovesOf
    <3>3. QED
      BY <1>0, <3>1, <3>2 DEF NoneYet
  <2>4. QED
    BY <2>1, <2>2, <2>3
<1>6. QED
  BY <1>3, <1>4, <1>5 DEF JobsInv

-------------------------------------------------------------------------------
(* What is due, and what was done for it. *)

(* Steps that leave schedules and counts alone lose what the task has in hand, or
   the process, only by a mishap. *)
LEMMA MishapsDo ==
  ASSUME TypeOK, Next, ~ Mark, ~ Enqueue, ~ Panic
  PROVE  \/ mishaps' = mishaps + 1
         \/ mishaps' = mishaps /\ (tick = "marking" => tick' = tick /\ list' = list)
<1> USE DEF table, task, seen
<1>1. CASE Wake \/ Skip \/ Check
  BY <1>1 DEF Wake, Goto, Skip, Check
<1>2. CASE GetSite
  BY <1>2 DEF GetSite
<1>3. CASE TickFails \/ Restart
  BY <1>3 DEF TickFails, Restart, Mishap
<1>4. CASE UNCHANGED task /\ UNCHANGED mishaps
  BY <1>4
<1>5. ASSUME NEW k \in Slots, Strand(k) PROVE mishaps' = mishaps + 1
  BY <1>5 DEF Strand, Mishap
<1>6. QED
  BY <1>1, <1>2, <1>3, <1>4, <1>5
     DEF Next, TickStep, LookUp, Remove, Update, Create, DeleteSite, ManualBackup, ComesDue, Claim, End

LEMMA KeptStep ==
  ASSUME SchedulerInv, Next, TableKept, ~ Mark, ~ Enqueue, ~ Panic
  PROVE  DueInv'
<1>0. /\ TypeOK /\ DueInv /\ StillDue /\ Enqueued /\ NothingSkipped /\ Unserved /\ ServedOnce
      /\ Listed \subseteq Ids /\ due \subseteq Ids
  BY ListedAreIds DEF SchedulerInv, DueInv, TypeOK
<1>1. site' = site /\ due' = due /\ fired' = fired /\ panicked' = panicked
  BY DEF TableKept
<1>2. Listed' \subseteq Listed \/ (Wake /\ Listed' \subseteq enabled \cap due)
  BY ListStep
<1>3. mishaps \in Nat /\ mishaps' \in Nat /\ mishaps <= mishaps' /\ \A i \in Ids : fired[i] \in Nat
  BY <1>0, MishapsDo DEF TypeOK
<1>4. StillDue'
  BY <1>0, <1>1, <1>2 DEF StillDue
<1>5. Enqueued'
  BY <1>0, <1>1, MarksOf DEF Enqueued
<1>6. NothingSkipped'
  BY <1>0, <1>1 DEF NothingSkipped
<1>7. ServedOnce'
  BY <1>0, <1>1, <1>3 DEF ServedOnce
<1>8. Unserved'
  <2>1. CASE mishaps' = mishaps + 1
    <3>1. \A i \in Ids : fired'[i] <= mishaps' \/ i \in panicked'
      BY <1>0, <1>1, <1>3, <2>1 DEF ServedOnce
    <3>2. Listed' \subseteq Ids /\ due' \subseteq Ids
      BY <1>0, <1>1, <1>2
    <3>3. QED
      BY <3>1, <3>2 DEF Unserved
  <2>2. CASE mishaps' = mishaps
    <3>1. \A i : Marking(i) => Marking(i)'
      BY <1>3, <2>2, MishapsDo, <1>0 DEF Marking
    <3>2. \A i \in due' : fired'[i] <= mishaps' \/ i \in panicked' \/ Marking(i)'
      BY <1>0, <1>1, <2>2, <3>1 DEF Unserved
    <3>3. CASE Listed' \subseteq Listed
      BY <1>0, <1>1, <2>2, <3>1, <3>2, <3>3 DEF Unserved
    <3>4. CASE Wake /\ Listed' \subseteq enabled \cap due
      BY <1>1, <3>2, <3>4 DEF Unserved
    <3>5. QED
      BY <1>2, <3>3, <3>4
  <2>3. QED
    BY <1>0, <2>1, <2>2, MishapsDo
<1>9. QED
  BY <1>4, <1>5, <1>6, <1>7, <1>8 DEF DueInv

(* What edits, deletions of sites and the clock do to a schedule. *)
EditedAs(i) ==
    /\ i \in due' => i \in due \/ fired'[i] = 0
    /\ i \in due => i \in due' \/ site'[i] = NoSite
    /\ \/ fired'[i] = fired[i]
       \/ fired'[i] = 0 /\ i \in due' /\ i \notin due /\ site[i] # NoSite
    /\ i \in panicked => i \in panicked' \/ fired'[i] = 0
    /\ site[i] = NoSite /\ i <= made => site'[i] = NoSite
    /\ site[i] = NoSite /\ site'[i] # NoSite => i \in due'

LEMMA EditDoes ==
  ASSUME TypeOK, RowsOnly,
         \/ \E h \in Handlers : Remove(h) \/ Update(h) \/ Create(h)
         \/ \E s \in Sites : DeleteSite(s)
         \/ \E i \in Ids : ComesDue(i)
  PROVE  UNCHANGED <<tick, list, mishaps>> /\ \A i \in Ids : EditedAs(i)
<1> USE DEF task, seen
<1>1. ASSUME NEW h \in Handlers, Remove(h)
      PROVE  UNCHANGED <<tick, list, mishaps>> /\ \A i \in Ids : EditedAs(i)
  BY <1>1 DEF Remove, TypeOK, EditedAs
<1>2. ASSUME NEW h \in Handlers, Update(h)
      PROVE  UNCHANGED <<tick, list, mishaps>> /\ \A i \in Ids : EditedAs(i)
  BY <1>2 DEF Update, EditedAs
<1>3. ASSUME NEW h \in Handlers, Create(h)
      PROVE  UNCHANGED <<tick, list, mishaps>> /\ \A i \in Ids : EditedAs(i)
  <2>1. CASE asked[h].site \notin sites
    BY <1>3, <2>1 DEF Create, table, EditedAs
  <2>2. CASE asked[h].site \in sites
    <3>1. /\ made \in Nat /\ Ids \subseteq Nat /\ made + 1 \in Ids /\ made + 1 > made /\ ~ (made + 1 <= made)
      BY <1>3, SchedulerAssumption DEF Create, TypeOK, Ids
    <3>2. site[made + 1] = NoSite /\ fired[made + 1] = 0 /\ fired' = fired /\ panicked' = panicked
      BY <1>3, <3>1 DEF RowsOnly, Create
    <3>3. /\ site' = [site EXCEPT ![made + 1] = asked[h].site] /\ due' = due \cup {made + 1}
          /\ UNCHANGED <<tick, list, mishaps>>
      BY <1>3, <2>2 DEF Create
    <3>4. ASSUME NEW i \in Ids PROVE EditedAs(i)
      BY <3>1, <3>2, <3>3 DEF EditedAs, TypeOK
    <3>5. QED
      BY <3>3, <3>4
  <2>3. QED
    BY <2>1, <2>2
<1>4. ASSUME NEW s \in Sites, DeleteSite(s)
      PROVE  UNCHANGED <<tick, list, mishaps>> /\ \A i \in Ids : EditedAs(i)
  BY <1>4 DEF DeleteSite, TypeOK, EditedAs
<1>5. ASSUME NEW k \in Ids, ComesDue(k)
      PROVE  UNCHANGED <<tick, list, mishaps>> /\ \A i \in Ids : EditedAs(i)
  BY <1>5 DEF ComesDue, TypeOK, EditedAs
<1>6. QED
  BY <1>1, <1>2, <1>3, <1>4, <1>5

LEMMA EditStep ==
  ASSUME SchedulerInv, Next,
         \/ \E h \in Handlers : Remove(h) \/ Update(h) \/ Create(h)
         \/ \E s \in Sites : DeleteSite(s)
         \/ \E i \in Ids : ComesDue(i)
  PROVE  DueInv'
<1>0. /\ TypeOK /\ RowsOnly /\ HasList /\ DueInv
      /\ StillDue /\ Enqueued /\ NothingSkipped /\ Unserved /\ ServedOnce
      /\ Listed \subseteq Ids /\ due \subseteq Ids
  BY ListedAreIds DEF SchedulerInv, ListInv, DueInv, TypeOK
<1>1. tick' = tick /\ list' = list /\ mishaps' = mishaps /\ \A i \in Ids : EditedAs(i)
  BY <1>0, EditDoes
<1>2. Listed' = Listed /\ \A i : Marking(i)' = Marking(i)
  BY <1>1 DEF Listed, Marking
<1>3. mishaps \in Nat /\ \A i \in Ids : fired[i] \in Nat
  BY <1>0 DEF TypeOK
<1>4. StillDue'
  BY <1>0, <1>1, <1>2 DEF StillDue, EditedAs, RowsOnly
<1>5. Enqueued'
  <2> SUFFICES ASSUME tick = "marking"
               PROVE  fired'[Head(list).id] > 0 \/ site'[Head(list).id] = NoSite
    BY <1>1 DEF Enqueued
  <2>1. Head(list).id \in Listed
    BY <1>0, HeadOfList DEF HasList, Acting
  <2>2. QED
    BY <1>0, <1>1, <2>1 DEF EditedAs, Enqueued, StillDue, RowsOnly
<1>6. NothingSkipped'
  BY <1>0, <1>1 DEF NothingSkipped, EditedAs
<1>7. \A i \in Ids : fired'[i] = 0 \/ (fired'[i] = fired[i] /\ (i \in panicked => i \in panicked'))
  BY <1>1 DEF EditedAs
<1>8. ServedOnce'
  BY <1>0, <1>1, <1>3, <1>7 DEF ServedOnce
<1>9. Unserved'
  <2>1. due' \subseteq Ids
    BY TypeStep DEF TypeOK
  <2>2. \A i \in Listed' : fired'[i] <= mishaps' \/ i \in panicked' \/ Marking(i)'
    BY <1>0, <1>1, <1>2, <1>3, <1>7 DEF Unserved
  <2>3. \A i \in due' : fired'[i] <= mishaps' \/ i \in panicked' \/ Marking(i)'
    BY <1>0, <1>1, <1>2, <1>3, <1>7, <2>1 DEF Unserved, EditedAs
  <2>4. QED
    BY <1>1, <2>2, <2>3 DEF Unserved
<1>10. QED
  BY <1>4, <1>5, <1>6, <1>8, <1>9 DEF DueInv

LEMMA EnqueueStep ==
  ASSUME SchedulerInv, Enqueue
  PROVE  DueInv'
<1> DEFINE h == Head(list).id
<1>0. /\ TypeOK /\ HasList /\ DueInv
      /\ StillDue /\ Enqueued /\ NothingSkipped /\ Unserved /\ ServedOnce
      /\ Listed \subseteq Ids /\ due \subseteq Ids
  BY ListedAreIds DEF SchedulerInv, ListInv, DueInv, TypeOK
<1>1. list # <<>> /\ h \in Ids /\ h \in Listed /\ tick = "enqueuing"
  BY <1>0, HeadOfList DEF Enqueue, HasList, Acting
<1>2. mishaps \in Nat /\ \A i \in Ids : fired[i] \in Nat
  BY <1>0 DEF TypeOK
<1>3. site' = site /\ due' = due /\ mishaps' = mishaps /\ panicked' = panicked
  BY DEF Enqueue, table
<1>4. \A i : ~ Marking(i)
  BY <1>1 DEF Marking
<1>5. CASE Head(list).site \notin sites
  <2>1. list' = <<>> /\ tick' = "sleeping" /\ fired' = fired
    BY <1>5 DEF Enqueue
  <2>2. Listed' = {} /\ Enqueued'
    BY <2>1, EmptyList DEF Acting
  <2>3. StillDue' /\ NothingSkipped' /\ ServedOnce'
    BY <1>0, <1>3, <2>1, <2>2 DEF StillDue, NothingSkipped, ServedOnce
  <2>4. Unserved'
    BY <1>0, <1>1, <1>3, <1>4, <2>1, <2>2 DEF Unserved
  <2>5. QED
    BY <2>2, <2>3, <2>4 DEF DueInv
<1>6. CASE Head(list).site \in sites
  <2>1. /\ list' = list /\ tick' = "marking"
        /\ fired' = [fired EXCEPT ![h] = IF @ < Often THEN @ + 1 ELSE @]
    BY <1>6 DEF Enqueue
  <2>2. Listed' = Listed
    BY <2>1 DEF Listed
  <2>3. /\ fired'[h] \in Nat /\ fired'[h] > 0 /\ fired'[h] <= fired[h] + 1
        /\ \A i \in Ids \ {h} : fired'[i] = fired[i]
    BY <1>0, <1>1, <1>2, <2>1, SchedulerAssumption DEF TypeOK, Often
  <2>4. fired[h] <= mishaps \/ h \in panicked
    BY <1>0, <1>1, <1>4 DEF Unserved
  <2>5. StillDue' /\ Enqueued'
    BY <1>0, <1>1, <1>2, <1>3, <2>1, <2>2, <2>3 DEF StillDue, Enqueued
  <2>6. NothingSkipped' /\ ServedOnce'
    BY <1>0, <1>1, <1>2, <1>3, <2>3, <2>4 DEF NothingSkipped, ServedOnce
  <2>7. Marking(h)'
    BY <2>1 DEF Marking
  <2>8. Unserved'
    BY <1>0, <1>1, <1>3, <1>4, <2>1, <2>2, <2>3, <2>7 DEF Unserved
  <2>9. QED
    BY <2>5, <2>6, <2>8 DEF DueInv
<1>7. QED
  BY <1>5, <1>6

LEMMA MarkStep ==
  ASSUME SchedulerInv, Mark \/ Panic
  PROVE  DueInv'
<1> DEFINE h == Head(list).id
<1>0. /\ TypeOK /\ HasList /\ OnceListed /\ DueInv
      /\ StillDue /\ Enqueued /\ NothingSkipped /\ Unserved /\ ServedOnce
      /\ Listed \subseteq Ids /\ due \subseteq Ids
  BY ListedAreIds DEF SchedulerInv, ListInv, DueInv, TypeOK
<1>1. list # <<>> /\ tick = "marking"
  BY <1>0 DEF Mark, Panic, HasList, Acting
<1>2. site' = site /\ fired' = fired /\ mishaps' = mishaps /\ panicked \subseteq panicked'
  BY DEF Mark, Panic, table, seen
<1>3. ServedOnce'
  BY <1>0, <1>2 DEF ServedOnce
<1>4. \A i : Marking(i) => i = h
  BY DEF Marking
<1>5. CASE Panic
  <2>1. list' = <<>> /\ tick' = "sleeping" /\ due' = due /\ h \in panicked'
    BY <1>5 DEF Panic, Reboot, table
  <2>2. Listed' = {} /\ Enqueued'
    BY <2>1, EmptyList DEF Acting
  <2>3. StillDue' /\ NothingSkipped'
    BY <1>0, <1>2, <2>1, <2>2 DEF StillDue, NothingSkipped
  <2>4. Unserved'
    BY <1>0, <1>2, <1>4, <2>1, <2>2 DEF Unserved
  <2>5. QED
    BY <1>3, <2>2, <2>3, <2>4 DEF DueInv
<1>6. CASE Mark
  <2>1. Continue /\ due' = due \ {h}
    BY <1>6 DEF Mark
  <2>2. Listed' = Listed \ {h} /\ tick' \in {"sleeping", "checking"}
    BY <1>0, <1>1, <2>1, ContinueDoes
  <2>3. StillDue' /\ Enqueued'
    BY <1>0, <1>2, <2>1, <2>2 DEF StillDue, Enqueued
  <2>4. NothingSkipped'
    BY <1>0, <1>1, <1>2, <2>1 DEF NothingSkipped, Enqueued
  <2>5. Unserved'
    BY <1>0, <1>1, <1>2, <1>4, <2>1, <2>2 DEF Unserved
  <2>6. QED
    BY <1>3, <2>3, <2>4, <2>5 DEF DueInv
<1>7. QED
  BY <1>5, <1>6

LEMMA DueStep ==
  ASSUME SchedulerInv, Next
  PROVE  DueInv'
<1>1. CASE Enqueue
  BY <1>1, EnqueueStep
<1>2. CASE Mark \/ Panic
  BY <1>2, MarkStep
<1>3. QED
  BY <1>1, <1>2, TableDoes, KeptStep, EditStep

-------------------------------------------------------------------------------
LEMMA SchedulerInitInv == Init => SchedulerInv
<1> SUFFICES ASSUME Init PROVE SchedulerInv
  OBVIOUS
<1>1. MaxSchedules \in Nat /\ Ids \subseteq Nat
  BY SchedulerAssumption DEF Ids
<1>2. TypeOK
  <2>1. 0 \in 0..MaxEdits /\ 0 \in 0..MaxSchedules /\ MaxEdits \in Nat
    BY SchedulerAssumption
  <2>2. list \in Seq([id : Ids, site : Sites, huge : BOOLEAN])
    BY EmptySeq DEF Init
  <2>3. /\ site \in [Ids -> Sites \cup {NoSite}] /\ fired \in [Ids -> Nat]
        /\ asked \in [Handlers -> Edits \cup {None}] /\ jobs \in [Slots -> Jobs \cup {None}]
    BY DEF Init
  <2>4. QED
    BY <2>1, <2>2, <2>3 DEF Init, TypeOK
<1>3. list = <<>> /\ DOMAIN list = {} /\ tick = "sleeping"
  BY LenProperties, EmptySeq DEF Init
<1>4. ListInv /\ Listed = {}
  BY <1>3 DEF ListInv, HasList, OnceListed, Listed, Acting
<1>5. RowsOnly
  BY <1>4 DEF Init, RowsOnly
<1>6. \A by : Of(by) = {}
  BY DEF Init, Of
<1>7. JobsInv
  <2>1. FewManual
    BY <1>6, SlotsAreFinite, FS_EmptySet DEF FewManual
  <2>2. NoneYet /\ OneScheduledBackup
    BY <1>3 DEF NoneYet, OneScheduledBackup, Init
  <2>3. QED
    BY <2>1, <2>2 DEF JobsInv
<1>8. DueInv
  BY <1>1, <1>3, <1>4 DEF Init, DueInv, StillDue, Enqueued, NothingSkipped, Unserved, ServedOnce
<1>9. QED
  BY <1>2, <1>4, <1>5, <1>7, <1>8 DEF SchedulerInv

(* The inductive invariant of the scheduler holds of every reachable state. *)
THEOREM SchedulerInvariantHolds == Spec => []SchedulerInv
<1>1. SchedulerInv /\ [Next]_vars => SchedulerInv'
  <2> SUFFICES ASSUME SchedulerInv, [Next]_vars PROVE SchedulerInv'
    OBVIOUS
  <2>1. CASE Next
    BY <2>1, TypeStep, ListStep, RowsStep, JobsStep, DueStep DEF SchedulerInv
  <2>2. CASE UNCHANGED vars
    BY <2>2 DEF vars, table, task, seen, SchedulerInv, TypeOK, ListInv, HasList, OnceListed, Listed, RowsOnly, JobsInv,
       FewManual, Of, NoneYet, OneScheduledBackup, DueInv, StillDue, Enqueued, NothingSkipped, Unserved, Marking, ServedOnce
  <2>3. QED
    BY <2>1, <2>2
<1>2. QED
  BY SchedulerInitInv, <1>1, PTL DEF Spec

(* Every variable of the scheduler keeps its type; in particular there is a slot
   for every job that has_active lets in or a user asks for. *)
THEOREM SchedulerTypes == Spec => []TypeOK
<1>1. SchedulerInv => TypeOK
  BY DEF SchedulerInv
<1>2. QED
  BY <1>1, SchedulerInvariantHolds, PTL

(* tick asks has_active and enqueues in two statements: the scheduler has one
   backup of a site active at most, whatever schedules it has. *)
THEOREM OneOfTheSchedulers == Spec => []OneScheduledBackup
<1>1. SchedulerInv => OneScheduledBackup
  BY DEF SchedulerInv, JobsInv
<1>2. QED
  BY <1>1, SchedulerInvariantHolds, PTL

(* tick marks a schedule after its backup is in the table and not before: one
   that stops being due has a backup, whatever fails or is edited in between. *)
THEOREM NoneSkipped == Spec => []NothingSkipped
<1>1. SchedulerInv => NothingSkipped
  BY DEF SchedulerInv, DueInv
<1>2. QED
  BY <1>1, SchedulerInvariantHolds, PTL

(* A schedule whose marks do not panic is served once each time it comes due, and
   once more for each failed statement or restart at most. *)
THEOREM ServedOnceOrAfterAMishap == Spec => []ServedOnce
<1>1. SchedulerInv => ServedOnce
  BY DEF SchedulerInv, DueInv
<1>2. QED
  BY <1>1, SchedulerInvariantHolds, PTL

-------------------------------------------------------------------------------
(* Backups.                                                                  *)

Process == [op : Ops, stage : Stages, want : Dests \cup {NoDest}, pick : Dests \cup {NoDest},
            snap : Snaps \cup {0}, todo : SUBSET Snaps, found : {0, 1}, moved : Timings \ {"after"}]

AfterSnapshot == {"pruning", "naming", "looking", "writing"}
UnderPermit   == {"pruning", "fetched"}

(* Snapshots are numbered as they are taken, and only what was taken has rows. *)
InOrder == \E n \in 0..MaxSnaps : Taken = 1..n
Known   == \A id \in RowIds : rows[id] # <<>> => id[1] \in Taken

(* The agent's permit. *)
OnePermit == \A p, q \in Procs : at[p].stage \in UnderPermit /\ at[q].stage \in UnderPermit => p = q

(* What a process has in hand at each stage. *)
Hands(p) ==
    /\ at[p].op = "none" <=> at[p].stage = "idle"
    /\ at[p].stage \in {"due", "pruning", "naming"} => at[p].op = "backup"
    /\ at[p].stage \in {"looking", "writing"} => at[p].op \in {"backup", "sync"}
    /\ at[p].stage = "fetched" => at[p].op = "restore"
    /\ at[p].op = "backup" => IF at[p].stage \in AfterSnapshot THEN at[p].snap \in Taken ELSE at[p].snap = 0
    /\ at[p].op = "restore" => at[p].snap \in Taken
    /\ at[p].op \in {"restore", "sync"} => at[p].want = NoDest
    /\ at[p].todo \subseteq Taken
    /\ at[p].op # "sync" \/ at[p].stage \in {"queued", "sent"} => at[p].todo = {}
    /\ at[p].op = "sync" /\ at[p].stage = "writing" => at[p].snap \in at[p].todo

(* While the settings stay, every one who asks for the repository gets the same
   answer: the one that was given when the snapshot was taken. *)
Settled == \A s \in Taken : moved[s] = "no" => held[s] = DestForSite

(* What a process was told of the repository. *)
Told(p) ==
    /\ at[p].op = "backup" /\ at[p].snap # 0 => moved[at[p].snap] # "after"
    /\ at[p].op = "backup" /\ at[p].moved = "no" /\ at[p].stage \in {"due", "queued"} =>
          at[p].want \in {NoDest, Scheduled}
    /\ at[p].op = "backup" /\ at[p].moved = "no" /\ at[p].stage = "sent" => at[p].pick = DestForSite
    /\ at[p].op = "backup" /\ at[p].stage \in {"looking", "writing"} =>
          at[p].pick \in {NoDest, held[at[p].snap]} \/ moved[at[p].snap] \in {"during", "second"}
    /\ at[p].op = "sync" => \A s \in at[p].todo : held[s] = at[p].pick
    /\ at[p].op = "restore" /\ at[p].stage = "sent" /\ moved[at[p].snap] = "no" => at[p].pick = held[at[p].snap]

(* Who is about to insert a row has found none, and is alone, unless two looked at
   once. *)
FoundNone ==
    \A p \in Procs, id \in RowIds : Inserts(p, id) =>
        id \in crossed \/ (rows[id] = <<>> /\ \A q \in Procs : Inserts(q, id) => q = p)

(* Files are in the directory while a restore is at it, or one has left them. *)
Leftover == staged # {} => torn \/ \E p \in Procs : at[p].stage = "fetched"

EachInv    == \A p \in Procs : Hands(p) /\ Told(p)
TakenInv   == InOrder /\ Known /\ Settled
RowsInv    == FoundNone /\ OneRowUnlessCrossed /\ RowNamesHolder
DiskInv    == OnePermit /\ Leftover /\ CopiesOneSnapshot
BackupsInv == BackupsTypeOK /\ TakenInv /\ EachInv /\ RowsInv /\ DiskInv

-------------------------------------------------------------------------------
LEMMA TypeOfScheduled ==
  ASSUME BackupsTypeOK
  PROVE  Scheduled \in dests \cup {NoDest}
<1> DEFINE First(i) == /\ i \in DOMAIN scheds /\ scheds[i] # NoDest
                       /\ \A k \in DOMAIN scheds : k < i => scheds[k] = NoDest
<1>1. \A i \in DOMAIN scheds : scheds[i] \in dests \cup {NoDest}
  <2>1. scheds \in Seq(dests \cup {NoDest})
    BY DEF BackupsTypeOK
  <2>2. scheds \in [1..Len(scheds) -> dests \cup {NoDest}] /\ DOMAIN scheds = 1..Len(scheds)
    BY <2>1, LenProperties
  <2>3. QED
    BY <2>2
<1>2. CASE \E i \in DOMAIN scheds : First(i)
  <2>1. \E n \in DOMAIN scheds : First(n)
    BY <1>2
  <2> DEFINE c == CHOOSE n \in DOMAIN scheds : First(n)
  <2>2. c \in DOMAIN scheds
    BY <2>1
  <2>3. Scheduled = scheds[c]
    BY <1>2 DEF Scheduled
  <2>4. QED
    BY <1>1, <2>2, <2>3
<1>3. CASE ~ \E i \in DOMAIN scheds : First(i)
  BY <1>3 DEF Scheduled
<1>4. QED
  BY <1>2, <1>3

LEMMA TypeOfDestForSite ==
  ASSUME BackupsTypeOK
  PROVE  DestForSite \in dests \cup {NoDest} /\ DestForSite \in Dests \cup {NoDest}
<1>1. dests \subseteq Dests /\ Scheduled \in dests \cup {NoDest} /\ IsFiniteSet(dests)
  BY BackupsAssumption, TypeOfScheduled, FS_Subset DEF BackupsTypeOK
<1>2. Cardinality(dests) = 1 => \E d : dests = {d}
  BY <1>1, FS_Singleton
<1>3. QED
  BY <1>1, <1>2 DEF DestForSite

(* The snapshot that is taken next. *)
LEMMA NextSnap ==
  ASSUME BackupsTypeOK, InOrder, Snaps \ Taken # {}
  PROVE  /\ Cardinality(Taken) + 1 \in Snaps /\ Cardinality(Taken) + 1 \notin Taken
         /\ Taken \cup {Cardinality(Taken) + 1} = 1..(Cardinality(Taken) + 1)
         /\ Cardinality(Taken) + 1 \in 0..MaxSnaps
<1>1. PICK n \in 0..MaxSnaps : Taken = 1..n
  BY DEF InOrder
<1>2. n \in Nat /\ MaxSnaps \in Nat
  BY <1>1, BackupsAssumption
<1>3. Cardinality(Taken) = n
  BY <1>1, <1>2, FS_Interval
<1>4. n # MaxSnaps
  BY <1>1 DEF Snaps
<1>5. QED
  BY <1>1, <1>2, <1>3, <1>4 DEF Snaps

LEMMA ProcessFields ==
  ASSUME BackupsTypeOK, NEW p \in Procs
  PROVE  at[p] \in Process
BY DEF BackupsTypeOK, Process

LEMMA BecomeDoes ==
  ASSUME BackupsTypeOK, NEW p \in Procs, NEW r, Become(p, r)
  PROVE  at'[p] = r /\ \A q \in Procs : q # p => at'[q] = at[q]
BY DEF BackupsTypeOK, Become

(* Taken snapshots stay where they were taken. *)
LEMMA SnapshotDoes ==
  ASSUME BackupsTypeOK, InOrder, NEW p \in Procs, Snapshot(p)
  PROVE  LET s == Cardinality(Taken) + 1 IN
         /\ s \in Snaps /\ s \notin Taken /\ Taken' = Taken \cup {s}
         /\ held'[s] = at[p].pick /\ moved'[s] = at[p].moved
         /\ \A x \in Taken : held'[x] = held[x] /\ moved'[x] = moved[x]
         /\ held' \in [Snaps -> Dests \cup {NoDest}] /\ moved' \in [Snaps -> Timings]
<1> DEFINE s == Cardinality(Taken) + 1
<1>1. s \in Snaps /\ s \notin Taken
  BY NextSnap DEF Snapshot
<1>2. /\ held' = [held EXCEPT ![s] = at[p].pick] /\ at[p].pick # NoDest /\ at[p].pick \in Dests \cup {NoDest}
      /\ at[p].moved \in Timings
      /\ moved' = [moved EXCEPT ![s] = at[p].moved]
  BY ProcessFields DEF Snapshot, Process
<1>3. Taken' = Taken \cup {s}
  BY <1>1, <1>2 DEF Taken, BackupsTypeOK
<1>4. held \in [Snaps -> Dests \cup {NoDest}] /\ moved \in [Snaps -> Timings] /\ Taken \subseteq Snaps
  BY DEF BackupsTypeOK, Taken
<1>5. QED
  BY <1>1, <1>2, <1>3, <1>4

(* Only the agent's snapshot takes one. *)
ReposKept == held' = held /\ pruned' = pruned /\ Taken' = Taken

LEMMA TakenKept ==
  ASSUME UNCHANGED repos
  PROVE  ReposKept
<1>1. held' = held /\ pruned' = pruned
  BY DEF repos
<1>2. QED
  BY <1>1 DEF Taken, ReposKept

(* A row is added, or the first one renamed, or nothing is written. *)
LEMMA WriteDoes ==
  ASSUME BackupsTypeOK, NEW p \in Procs, Write(p)
  PROVE  LET id == IdOf(p, at[p].snap) IN
         /\ rows' \in [RowIds -> Seq(Dests \cup {NoDest})] /\ id \in RowIds
         /\ \A x \in RowIds \ {id} : rows'[x] = rows[x]
         /\ at[p].found = 0 => /\ Len(rows'[id]) = Len(rows[id]) + 1
                               /\ \A i \in DOMAIN rows'[id] :
                                    rows'[id][i] = at[p].pick \/ (i \in DOMAIN rows[id] /\ rows'[id][i] = rows[id][i])
         /\ at[p].found # 0 => /\ Len(rows'[id]) = Len(rows[id])
                               /\ \A i \in DOMAIN rows'[id] :
                                    rows'[id][i] = at[p].pick \/ (i \in DOMAIN rows[id] /\ rows'[id][i] = rows[id][i])
<1> DEFINE id == IdOf(p, at[p].snap)
           Names == Dests \cup {NoDest}
<1>1. id \in RowIds /\ at[p].pick \in Names /\ rows[id] \in Seq(Names)
  <2>1. at[p].stage = "writing"
    BY DEF Write
  <2>2. at[p].snap \in Taken /\ Taken \subseteq Snaps
    BY <2>1 DEF BackupsTypeOK, Taken
  <2>3. id \in RowIds
    BY <2>2, BackupsAssumption DEF IdOf, RowIds
  <2>4. QED
    BY <2>3, ProcessFields DEF Process, BackupsTypeOK
<1> DEFINE new == IF at[p].found = 0 THEN Append(rows[id], at[p].pick)
                  ELSE IF at[p].pick = NoDest THEN rows[id] ELSE [rows[id] EXCEPT ![1] = at[p].pick]
<1> HIDE DEF id
<1>2. rows' = [rows EXCEPT ![id] = new]
  BY DEF Write, id
<1>3. rows \in [RowIds -> Seq(Names)]
  BY DEF BackupsTypeOK
<1>4. DOMAIN rows[id] = 1..Len(rows[id]) /\ Len(rows[id]) \in Nat
  BY <1>1, LenProperties
<1>5. CASE at[p].found = 0
  <2>1. /\ new \in Seq(Names) /\ Len(new) = Len(rows[id]) + 1
        /\ \A i \in 1..Len(rows[id]) : new[i] = rows[id][i]
        /\ new[Len(rows[id]) + 1] = at[p].pick
    BY <1>1, <1>5, AppendProperties
  <2>2. DOMAIN new = 1..(Len(rows[id]) + 1)
    BY <2>1, LenProperties
  <2>3. \A i \in DOMAIN new : new[i] = at[p].pick \/ (i \in DOMAIN rows[id] /\ new[i] = rows[id][i])
    BY <1>4, <2>1, <2>2
  <2>4. rows'[id] = new /\ rows' \in [RowIds -> Seq(Names)] /\ \A x \in RowIds \ {id} : rows'[x] = rows[x]
    BY <1>1, <1>2, <1>3, <2>1
  <2>5. QED
    BY <1>1, <1>5, <2>1, <2>3, <2>4 DEF id
<1>6. CASE at[p].found # 0
  <2>1. /\ new \in [DOMAIN rows[id] -> Names]
        /\ \A i \in DOMAIN rows[id] : new[i] = at[p].pick \/ new[i] = rows[id][i]
    BY <1>1, <1>4, <1>6, LenProperties
  <2>2. new \in Seq(Names)
    <3> HIDE DEF new, Names
    <3>1. new \in [1..Len(rows[id]) -> Names]
      BY <1>4, <2>1
    <3>2. QED
      BY <1>4, <3>1, SeqDef
  <2>3. DOMAIN new = 1..Len(rows[id]) /\ DOMAIN new = 1..Len(new) /\ Len(new) \in Nat
    BY <1>4, <2>1, <2>2, LenProperties
  <2>4. Len(new) = Len(rows[id])
    BY <1>4, <2>3
  <2>5. rows'[id] = new /\ rows' \in [RowIds -> Seq(Names)] /\ \A x \in RowIds \ {id} : rows'[x] = rows[x]
    BY <1>1, <1>2, <1>3, <2>2
  <2>6. QED
    BY <1>1, <1>6, <2>1, <2>4, <2>5 DEF id
<1>7. QED
  BY <1>5, <1>6

(* The schedules name destinations that exist, or none. *)
LEMMA SchedulesStep ==
  ASSUME BackupsTypeOK, Setting
  PROVE  scheds' \in Seq(dests' \cup {NoDest})
<1>1. scheds \in Seq(dests \cup {NoDest})
  BY DEF BackupsTypeOK
<1>2. Len(scheds) \in Nat /\ DOMAIN scheds = 1..Len(scheds) /\ scheds \in [1..Len(scheds) -> dests \cup {NoDest}]
  BY <1>1, LenProperties
<1>3. ASSUME NEW d \in Dests, CreateDestination(d) PROVE scheds' \in Seq(dests' \cup {NoDest})
  <2>1. scheds' = scheds /\ dests \subseteq dests'
    BY <1>3 DEF CreateDestination
  <2>2. scheds' \in [1..Len(scheds) -> dests' \cup {NoDest}]
    BY <1>2, <2>1
  <2>3. QED
    BY <1>2, <2>2, SeqDef
<1>4. ASSUME NEW d \in Dests, DeleteDestination(d) PROVE scheds' \in Seq(dests' \cup {NoDest})
  <2>1. scheds' \in [1..Len(scheds) -> dests' \cup {NoDest}]
    BY <1>2, <1>4 DEF DeleteDestination
  <2>2. QED
    BY <1>2, <2>1, SeqDef
<1>5. ASSUME NEW d \in Dests, SaveSchedule(d) PROVE scheds' \in Seq(dests' \cup {NoDest})
  <2>1. d \in dests /\ dests' = dests
    BY <1>5 DEF SaveSchedule
  <2>2. CASE scheds' = Append(scheds, d)
    BY <1>1, <2>1, <2>2, AppendProperties
  <2>3. CASE scheds' = [scheds EXCEPT ![1] = d]
    <3>1. scheds' \in [1..Len(scheds) -> dests \cup {NoDest}]
      BY <1>2, <2>1, <2>3
    <3>2. QED
      BY <1>2, <2>1, <3>1, SeqDef
  <2>4. QED
    BY <1>5, <2>2, <2>3 DEF SaveSchedule
<1>6. CASE DeleteSchedule
  BY <1>1, <1>6, EmptySeq, HeadTailProperties DEF DeleteSchedule
<1>7. QED
  BY <1>3, <1>4, <1>5, <1>6 DEF Setting

(* The scheduler's list becomes processes that had nothing in hand. *)
LEMMA ReadDueDoes ==
  ASSUME BackupsTypeOK, ReadDue
  PROVE  /\ UNCHANGED <<settings, upsets, repos, rows, disk, observed>>
         /\ at' \in [Procs -> Process]
         /\ \A q \in Procs : \/ at'[q] = at[q]
                             \/ at[q] = Idle /\ \E d \in dests \cup {NoDest} : at'[q] = DueEntry(d)
<1>0. PICK free \in SUBSET {p \in Procs : at[p] = Idle} \ {{}} : \E f \in Injection(free, DOMAIN scheds) :
        at' = [p \in Procs |-> IF p \in free THEN DueEntry(scheds[f[p]]) ELSE at[p]]
  BY DEF ReadDue
<1>1. PICK f \in Injection(free, DOMAIN scheds) :
        at' = [p \in Procs |-> IF p \in free THEN DueEntry(scheds[f[p]]) ELSE at[p]]
  BY <1>0
<1>2. f \in [free -> DOMAIN scheds]
  BY <1>1 DEF Injection
<1>3. \A i \in DOMAIN scheds : scheds[i] \in dests \cup {NoDest}
  <2>1. scheds \in Seq(dests \cup {NoDest})
    BY DEF BackupsTypeOK
  <2>2. scheds \in [1..Len(scheds) -> dests \cup {NoDest}] /\ DOMAIN scheds = 1..Len(scheds)
    BY <2>1, LenProperties
  <2>3. QED
    BY <2>2
<1>4. \A d \in dests \cup {NoDest} : DueEntry(d) \in Process
  <2>1. dests \subseteq Dests
    BY DEF BackupsTypeOK
  <2>2. Idle \in Process
    BY DEF Idle, Process, Ops, Stages, Timings
  <2>3. QED
    BY <2>1, <2>2 DEF DueEntry, Idle, Process, Ops, Stages, Timings
<1>5. ASSUME NEW q \in Procs
      PROVE  /\ at'[q] \in Process
             /\ \/ at'[q] = at[q]
                \/ at[q] = Idle /\ \E d \in dests \cup {NoDest} : at'[q] = DueEntry(d)
  <2>1. CASE q \in free
    <3>1. f[q] \in DOMAIN scheds /\ at[q] = Idle /\ at'[q] = DueEntry(scheds[f[q]])
      BY <1>1, <1>2, <2>1
    <3>2. QED
      BY <1>3, <1>4, <3>1
  <2>2. CASE q \notin free
    <3>1. at'[q] = at[q]
      BY <1>1, <2>2
    <3>2. QED
      BY <3>1, ProcessFields
  <2>3. QED
    BY <2>1, <2>2
<1>6. at' = [p \in Procs |-> at'[p]]
  BY <1>1
<1>7. at' \in [Procs -> Process]
  BY <1>5, <1>6
<1>8. QED
  BY <1>5, <1>7 DEF ReadDue

LEMMA BackupsTypeStep ==
  ASSUME BackupsInv, BackupsNext
  PROVE  BackupsTypeOK'
<1> USE DEF settings, disk, observed
<1>0. BackupsTypeOK /\ TakenInv /\ EachInv /\ at \in [Procs -> Process]
  BY DEF BackupsInv, BackupsTypeOK, Process
<1>1. ASSUME NEW p \in Procs, NEW r \in Process, Become(p, r),
             r.stage \in {"pruning", "writing"} => r.snap \in Taken, Taken \subseteq Taken'
      PROVE  /\ at' \in [Procs -> Process]
             /\ \A q \in Procs : at'[q].stage \in {"pruning", "writing"} => at'[q].snap \in Taken'
  <2>1. \A q \in Procs : at[q].stage \in {"pruning", "writing"} => at[q].snap \in Taken
    BY <1>0 DEF BackupsTypeOK
  <2>2. at' \in [Procs -> Process]
    BY <1>0, <1>1 DEF Become
  <2>3. QED
    BY <1>0, <1>1, <2>1, <2>2, BecomeDoes
<1>2. Idle \in Process /\ Idle.stage = "idle"
  BY DEF Idle, Process, Ops, Stages, Timings
<1>3. CASE Setting
  <2>1. Overtake
    BY <1>3 DEF Setting, CreateDestination, DeleteDestination, SaveSchedule, DeleteSchedule
  <2>2. held' = held /\ pruned' = pruned /\ Taken' = Taken /\ rows' = rows /\ crossed' = crossed
        /\ UNCHANGED <<staged, loose, torn>>
    BY <2>1, TakenKept DEF Overtake, ReposKept
  <2>3. /\ at' \in [Procs -> Process]
        /\ \A q \in Procs : at'[q].stage = at[q].stage /\ at'[q].snap = at[q].snap
    <3>1. ASSUME NEW q \in Procs
          PROVE  at'[q] \in Process /\ at'[q].stage = at[q].stage /\ at'[q].snap = at[q].snap
      <4>1. PICK b \in Timings \ {"after"} : at'[q] = [at[q] EXCEPT !.moved = b]
        BY <1>0, <2>1, ProcessFields DEF Overtake, Process, Timings
      <4>2. QED
        BY <1>0, <4>1, ProcessFields DEF Process
    <3>2. QED
      BY <2>1, <3>1 DEF Overtake
  <2>4. moved' \in [Snaps -> Timings] /\ upsets' \in Nat
    BY <1>0, <2>1 DEF Overtake, Upset, Timings, BackupsTypeOK
  <2>5. used' \subseteq Dests /\ dests' \subseteq used'
    BY <1>0, <1>3 DEF Setting, CreateDestination, DeleteDestination, SaveSchedule, DeleteSchedule, BackupsTypeOK
  <2>6. scheds' \in Seq(dests' \cup {NoDest})
    BY <1>0, <1>3, SchedulesStep
  <2>7. QED
    BY <1>0, <2>2, <2>3, <2>4, <2>5, <2>6 DEF BackupsTypeOK, Process
<1>4. CASE FetchAlone
  <2>1. ReposKept /\ UNCHANGED <<dests, used, scheds, upsets, rows, at, moved, crossed>>
    BY <1>4, TakenKept DEF FetchAlone
  <2>2. QED
    BY <1>0, <1>4, <2>1 DEF FetchAlone, ReposKept, BackupsTypeOK
<1>5. ASSUME NEW p \in Procs, NEW op \in Ops, NEW snap \in Snaps \cup {0}, Asked(p, op, snap)
      PROVE  BackupsTypeOK'
  <2>1. [Idle EXCEPT !.op = op, !.stage = "queued", !.snap = snap] \in Process
    BY DEF Idle, Process, Ops, Stages, Timings
  <2>2. ReposKept /\ UNCHANGED <<dests, used, scheds, upsets, rows, staged, loose, torn, moved, crossed>>
    BY <1>5, TakenKept DEF Asked
  <2>3. /\ at' \in [Procs -> Process]
        /\ \A q \in Procs : at'[q].stage \in {"pruning", "writing"} => at'[q].snap \in Taken'
    BY <1>1, <1>5, <2>1, <2>2 DEF Asked, ReposKept, Idle
  <2>4. QED
    BY <1>0, <2>2, <2>3 DEF ReposKept, BackupsTypeOK, Process
<1>6. ASSUME NEW p \in Procs, Ask(p) PROVE BackupsTypeOK'
  <2>1. CASE UserBackup(p)
    BY <1>5, <2>1 DEF UserBackup, Ops
  <2>2. CASE RestoreBackup(p)
    <3>1. PICK id \in RowIds : Asked(p, "restore", id[1])
      BY <2>2 DEF RestoreBackup
    <3>2. id[1] \in Snaps
      BY DEF RowIds
    <3>3. QED
      BY <1>5, <3>1, <3>2 DEF Ops
  <2>3. CASE SyncBackups(p)
    <3>1. ReposKept /\ UNCHANGED <<dests, used, scheds, upsets, rows, staged, loose, torn, moved, crossed>>
      BY <2>3, TakenKept DEF SyncBackups
    <3>2. [Idle EXCEPT !.op = "sync", !.stage = "sent", !.pick = DestForSite] \in Process
      BY <1>0, TypeOfDestForSite DEF Idle, Process, Ops, Stages, Timings
    <3>3. /\ at' \in [Procs -> Process]
          /\ \A q \in Procs : at'[q].stage \in {"pruning", "writing"} => at'[q].snap \in Taken'
      BY <1>1, <2>3, <3>1, <3>2 DEF SyncBackups, ReposKept, Idle
    <3>4. QED
      BY <1>0, <3>1, <3>3 DEF ReposKept, BackupsTypeOK, Process
  <2>4. QED
    BY <1>6, <2>1, <2>2, <2>3 DEF Ask
<1>7. ASSUME NEW p \in Procs, ScheduledBackup(p) \/ Resolve(p) \/ Name(p) \/ List(p) PROVE BackupsTypeOK'
  <2>1. ReposKept /\ UNCHANGED <<dests, used, scheds, upsets, rows, staged, loose, torn, moved, crossed>>
    BY <1>7, TakenKept DEF ScheduledBackup, Resolve, Name, List
  <2>2. at[p] \in Process /\ DestForSite \in Dests \cup {NoDest} /\ In(at[p].pick) \subseteq Snaps
    BY <1>0, ProcessFields, TypeOfDestForSite DEF In, Taken
  <2>3. \E r \in Process : Become(p, r) /\ r.stage \notin {"pruning", "writing"}
    <3>1. CASE Resolve(p)
      <4>1. PICK d \in Dests \cup {NoDest} : Become(p, [at[p] EXCEPT !.stage = "sent", !.want = NoDest, !.pick = d])
        BY <2>2, <3>1 DEF Resolve, Process
      <4>2. [at[p] EXCEPT !.stage = "sent", !.want = NoDest, !.pick = d] \in Process
        BY <2>2, <4>1 DEF Process, Stages
      <4>3. QED
        BY <2>2, <4>1, <4>2 DEF Process
    <3>2. CASE Name(p)
      <4>1. [at[p] EXCEPT !.stage = "looking", !.pick = DestForSite] \in Process
        BY <2>2 DEF Process, Stages
      <4>2. QED
        BY <2>2, <3>2, <4>1 DEF Name, Process
    <3>3. CASE List(p)
      <4>1. [at[p] EXCEPT !.stage = "looking", !.todo = In(at[p].pick)] \in Process
        BY <2>2 DEF Process, Stages
      <4>2. QED
        BY <1>2, <2>2, <3>3, <4>1 DEF List, Ends, Process
    <3>4. CASE ScheduledBackup(p)
      BY <1>2, <2>2, <3>4 DEF ScheduledBackup, Ends, Goes, Process, Stages
    <3>5. QED
      BY <1>7, <3>1, <3>2, <3>3, <3>4
  <2>4. /\ at' \in [Procs -> Process]
        /\ \A q \in Procs : at'[q].stage \in {"pruning", "writing"} => at'[q].snap \in Taken'
    BY <1>1, <2>1, <2>3 DEF ReposKept
  <2>5. QED
    BY <1>0, <2>1, <2>4 DEF ReposKept, BackupsTypeOK, Process
<1>8. ASSUME NEW p \in Procs, Cut(p) \/ Replace(p) \/ Fetch(p) PROVE BackupsTypeOK'
  <2>1. ReposKept /\ UNCHANGED <<dests, used, scheds, rows, moved, crossed>> /\ upsets' \in Nat
    BY <1>0, <1>8, TakenKept DEF Cut, Replace, Fetch, Upset, BackupsTypeOK
  <2>2. at[p] \in Process
    BY <1>0, ProcessFields
  <2>3. \E r \in Process : Become(p, r) /\ r.stage \notin {"pruning", "writing"}
    BY <1>2, <1>8, <2>2 DEF Cut, Replace, Fetch, Ends, Goes, Process, Stages
  <2>4. /\ at' \in [Procs -> Process]
        /\ \A q \in Procs : at'[q].stage \in {"pruning", "writing"} => at'[q].snap \in Taken'
    BY <1>1, <2>1, <2>3 DEF ReposKept
  <2>5. staged' \subseteq Taken /\ loose' \in Taken \cup {0} /\ torn' \in BOOLEAN
    BY <1>0, <1>8 DEF Cut, Replace, Fetch, In, BackupsTypeOK
  <2>6. QED
    BY <1>0, <2>1, <2>4, <2>5 DEF ReposKept, BackupsTypeOK, Process
<1>9. ASSUME NEW p \in Procs, Snapshot(p) PROVE BackupsTypeOK'
  <2>1. PICK s \in Snaps : /\ s = Cardinality(Taken) + 1 /\ Taken' = Taken \cup {s}
                         /\ held' \in [Snaps -> Dests \cup {NoDest}] /\ moved' \in [Snaps -> Timings]
    BY <1>0, <1>9, SnapshotDoes DEF TakenInv
  <2>2. at[p] \in Process
    BY <1>0, ProcessFields
  <2>3. [at[p] EXCEPT !.stage = "pruning", !.snap = s, !.moved = "no"] \in Process
    BY <2>2 DEF Process, Stages, Timings
  <2>4. \A q \in Procs : at[q].stage \in {"pruning", "writing"} => at[q].snap \in Taken
    BY <1>0 DEF BackupsTypeOK
  <2>5. Become(p, [at[p] EXCEPT !.stage = "pruning", !.snap = s, !.moved = "no"])
    BY <1>9, <2>1 DEF Snapshot
  <2>6. at' \in [Procs -> Process] /\ at'[p].snap = s
    BY <1>0, <2>2, <2>3, <2>5 DEF Become, Process
  <2>7. \A q \in Procs : at'[q].stage \in {"pruning", "writing"} => at'[q].snap \in Taken'
    BY <1>0, <2>1, <2>4, <2>5, <2>6, BecomeDoes
  <2>8. UNCHANGED <<dests, used, scheds, upsets, pruned, rows, staged, loose, torn, crossed>>
    BY <1>9 DEF Snapshot
  <2>9. QED
    BY <1>0, <2>1, <2>6, <2>7, <2>8 DEF BackupsTypeOK, Process
<1>10. ASSUME NEW p \in Procs, Prune(p) PROVE BackupsTypeOK'
  <2>1. held' = held /\ UNCHANGED <<dests, used, scheds, upsets, rows, staged, loose, torn, moved, crossed>>
    BY <1>10 DEF Prune
  <2>2. Taken' = Taken
    BY <2>1 DEF Taken
  <2>3. at[p] \in Process
    BY <1>0, ProcessFields
  <2>4. [at[p] EXCEPT !.stage = "naming", !.pick = NoDest] \in Process
    BY <2>3 DEF Process, Stages
  <2>5. /\ at' \in [Procs -> Process]
        /\ \A q \in Procs : at'[q].stage \in {"pruning", "writing"} => at'[q].snap \in Taken'
    BY <1>1, <1>10, <2>2, <2>3, <2>4 DEF Prune, Process
  <2>6. pruned' \subseteq Taken
    BY <1>0, <1>10 DEF Prune, In, BackupsTypeOK
  <2>7. QED
    BY <1>0, <2>1, <2>2, <2>5, <2>6 DEF BackupsTypeOK, Process
<1>11. ASSUME NEW p \in Procs, Look(p) PROVE BackupsTypeOK'
  <2>1. ReposKept /\ UNCHANGED <<dests, used, scheds, upsets, rows, staged, loose, torn, moved>>
    BY <1>11, TakenKept DEF Look
  <2>2. PICK s \in Snaps : /\ Wants(p, s)
                         /\ Become(p, [at[p] EXCEPT !.stage = "writing", !.snap = s,
                                                   !.found = IF rows[IdOf(p, s)] = <<>> THEN 0 ELSE 1])
                         /\ crossed' \subseteq crossed \cup {IdOf(p, s)}
    BY <1>11 DEF Look
  <2>3. s \in Taken
    BY <1>0, <1>11, <2>2 DEF Look, Wants, EachInv, Hands, AfterSnapshot
  <2>4. at[p] \in Process
    BY <1>0, ProcessFields
  <2>5. [at[p] EXCEPT !.stage = "writing", !.snap = s,
                     !.found = IF rows[IdOf(p, s)] = <<>> THEN 0 ELSE 1] \in Process
    BY <2>4 DEF Process, Stages
  <2>6. /\ at' \in [Procs -> Process]
        /\ \A q \in Procs : at'[q].stage \in {"pruning", "writing"} => at'[q].snap \in Taken'
    BY <1>1, <2>1, <2>2, <2>3, <2>4, <2>5 DEF ReposKept, Process
  <2>7. IdOf(p, s) \in RowIds
    BY <2>3, BackupsAssumption DEF IdOf, RowIds, Taken
  <2>8. QED
    BY <1>0, <2>1, <2>2, <2>3, <2>6, <2>7 DEF ReposKept, BackupsTypeOK, Process
<1>12. ASSUME NEW p \in Procs, Write(p) PROVE BackupsTypeOK'
  <2>1. ReposKept /\ UNCHANGED <<dests, used, scheds, upsets, staged, loose, torn, moved, crossed>>
    BY <1>12, TakenKept DEF Write
  <2>2. at[p] \in Process /\ rows \in [RowIds -> Seq(Dests \cup {NoDest})]
    BY <1>0, ProcessFields DEF BackupsTypeOK
  <2>3. \E r \in Process : Become(p, r) /\ r.stage \notin {"pruning", "writing"}
    <3>1. [at[p] EXCEPT !.stage = "looking", !.snap = 0, !.todo = at[p].todo \ {at[p].snap}, !.found = 0] \in Process
      BY <2>2 DEF Process, Stages
    <3>2. QED
      BY <1>2, <1>12, <2>2, <3>1 DEF Write, Ends, Process
  <2>4. /\ at' \in [Procs -> Process]
        /\ \A q \in Procs : at'[q].stage \in {"pruning", "writing"} => at'[q].snap \in Taken'
    BY <1>1, <2>1, <2>3 DEF ReposKept
  <2>5. rows' \in [RowIds -> Seq(Dests \cup {NoDest})]
    BY <2>2, WriteDoes, <1>0, <1>12
  <2>6. QED
    BY <1>0, <2>1, <2>4, <2>5 DEF ReposKept, BackupsTypeOK, Process
<1>13. CASE ReadDue
  <2>1. ReposKept /\ UNCHANGED <<dests, used, scheds, upsets, rows, staged, loose, torn, moved, crossed>>
    BY <1>0, <1>13, ReadDueDoes, TakenKept
  <2>2. \A d : DueEntry(d).stage = "due"
    BY DEF DueEntry, Idle
  <2>3. at' \in [Procs -> Process] /\ \A q \in Procs : at'[q] = at[q] \/ at'[q].stage = "due"
    BY <1>0, <1>13, <2>2, ReadDueDoes
  <2>4. QED
    BY <1>0, <2>1, <2>3 DEF ReposKept, BackupsTypeOK, Process
<1>14. QED
  BY <1>3, <1>4, <1>6, <1>7, <1>8, <1>9, <1>10, <1>11, <1>12, <1>13 DEF BackupsNext, Panel, Agent

-------------------------------------------------------------------------------
(* What every process has in hand. *)

(* Nothing that processes rely on is different. *)
Steady ==
    /\ DestForSite' = DestForSite /\ Scheduled' = Scheduled
    /\ Taken \subseteq Taken'
    /\ \A s \in Taken : held'[s] = held[s] /\ moved'[s] = moved[s]

LEMMA SteadyWhen ==
  ASSUME UNCHANGED settings, UNCHANGED held, UNCHANGED moved
  PROVE  Steady /\ Taken' = Taken
<1>1. dests' = dests /\ scheds' = scheds
  BY DEF settings
<1>2. DestForSite' = DestForSite /\ Scheduled' = Scheduled /\ Taken' = Taken
  BY <1>1 DEF DestForSite, Scheduled, Taken
<1>3. QED
  BY <1>2 DEF Steady

(* A process that does not move keeps what it has. *)
LEMMA OthersKeep ==
  ASSUME Steady, NEW q \in Procs, at'[q] = at[q], Hands(q), Told(q)
  PROVE  Hands(q)' /\ Told(q)'
<1>1. Hands(q)'
  BY DEF Steady, Hands
<1>2. Told(q)'
  BY DEF Steady, Hands, Told, AfterSnapshot
<1>3. QED
  BY <1>1, <1>2

(* It is enough to look at the process that moves. *)
LEMMA OneMoves ==
  ASSUME BackupsInv, Steady, NEW p \in Procs, NEW r, Become(p, r), Hands(p)', Told(p)'
  PROVE  EachInv'
<1>1. BackupsTypeOK /\ EachInv
  BY DEF BackupsInv
<1>2. \A q \in Procs : q # p => at'[q] = at[q]
  BY <1>1, BecomeDoes
<1>3. QED
  BY <1>1, <1>2, OthersKeep DEF EachInv

(* A process that is over has nothing in hand. *)
LEMMA EndsDoes ==
  ASSUME BackupsInv, NEW p \in Procs, Ends(p)
  PROVE  Hands(p)' /\ Told(p)'
<1>1. at'[p] = Idle
  BY BecomeDoes DEF BackupsInv, Ends
<1>2. QED
  BY <1>1 DEF Idle, Hands, Told, AfterSnapshot

LEMMA AskEach ==
  ASSUME BackupsInv, NEW p \in Procs, Ask(p)
  PROVE  EachInv'
<1>0. BackupsTypeOK /\ TakenInv
  BY DEF BackupsInv
<1>1. ASSUME NEW op, NEW snap, Asked(p, op, snap)
      PROVE  /\ Steady /\ Taken' = Taken
             /\ Become(p, [Idle EXCEPT !.op = op, !.stage = "queued", !.snap = snap])
             /\ at'[p].op = op /\ at'[p].stage = "queued" /\ at'[p].want = NoDest /\ at'[p].snap = snap
             /\ at'[p].todo = {}
  <2>1. Become(p, [Idle EXCEPT !.op = op, !.stage = "queued", !.snap = snap])
    BY <1>1 DEF Asked
  <2>2. UNCHANGED settings /\ UNCHANGED held /\ UNCHANGED moved
    BY <1>1 DEF Asked, repos, observed
  <2>3. at'[p] = [Idle EXCEPT !.op = op, !.stage = "queued", !.snap = snap]
    BY <1>0, <2>1, BecomeDoes
  <2>4. QED
    BY <2>1, <2>2, <2>3, SteadyWhen DEF Idle
<1>2. CASE UserBackup(p)
  <2>1. Asked(p, "backup", 0)
    BY <1>2 DEF UserBackup
  <2>2. /\ at'[p].op = "backup" /\ at'[p].stage = "queued" /\ at'[p].want = NoDest
        /\ at'[p].snap = 0 /\ at'[p].todo = {}
    BY <1>1, <2>1
  <2>3. Hands(p)' /\ Told(p)'
    BY <2>2 DEF Hands, Told, AfterSnapshot
  <2>4. QED
    BY <1>1, <2>1, <2>3, OneMoves
<1>3. CASE RestoreBackup(p)
  <2>1. PICK s \in Taken : Asked(p, "restore", s)
    BY <1>0, <1>3 DEF RestoreBackup, TakenInv, Known
  <2>2. s \in Taken'
    BY <1>1, <2>1
  <2>3. /\ at'[p].op = "restore" /\ at'[p].stage = "queued" /\ at'[p].want = NoDest
        /\ at'[p].snap = s /\ at'[p].todo = {} /\ s \in Taken'
    BY <1>1, <2>1, <2>2
  <2>4. Hands(p)' /\ Told(p)'
    BY <2>3 DEF Hands, Told
  <2>5. QED
    BY <1>1, <2>1, <2>4, OneMoves
<1>4. CASE SyncBackups(p)
  <2>1. Become(p, [Idle EXCEPT !.op = "sync", !.stage = "sent", !.pick = DestForSite])
    BY <1>4 DEF SyncBackups
  <2>2. Steady
    BY <1>4, SteadyWhen DEF SyncBackups, repos, observed
  <2>3. at'[p] = [Idle EXCEPT !.op = "sync", !.stage = "sent", !.pick = DestForSite]
    BY <1>0, <2>1, BecomeDoes
  <2>4. /\ at'[p].op = "sync" /\ at'[p].stage = "sent" /\ at'[p].want = NoDest
        /\ at'[p].todo = {}
    BY <2>3 DEF Idle
  <2>5. Hands(p)' /\ Told(p)'
    BY <2>4 DEF Hands, Told
  <2>6. QED
    BY <2>1, <2>2, <2>5, OneMoves
<1>5. QED
  BY <1>2, <1>3, <1>4 DEF Ask

(* What tick reads of a schedule is what for_site says, or said to be a second
   schedule's. *)
LEMMA ReadDueEach ==
  ASSUME BackupsInv, ReadDue
  PROVE  EachInv'
<1>0. BackupsTypeOK /\ EachInv
  BY DEF BackupsInv
<1>1. Steady
  BY <1>0, ReadDueDoes, SteadyWhen DEF repos, observed
<1>2. ASSUME NEW q \in Procs PROVE Hands(q)' /\ Told(q)'
  <2>1. CASE at'[q] = at[q]
    BY <1>0, <1>1, <2>1, OthersKeep DEF EachInv
  <2>2. CASE at'[q] # at[q]
    <3>1. PICK d \in dests \cup {NoDest} : at'[q] = DueEntry(d)
      BY <1>0, <2>2, ReadDueDoes
    <3>2. /\ at'[q].op = "backup" /\ at'[q].stage = "due" /\ at'[q].want = d /\ at'[q].snap = 0
          /\ at'[q].todo = {} /\ (at'[q].moved = "no" => d \in {NoDest, Scheduled})
      BY <3>1 DEF DueEntry, Idle
    <3>3. Hands(q)'
      BY <3>2 DEF Hands, AfterSnapshot
    <3>4. Told(q)'
      BY <1>1, <3>2 DEF Told, Steady
    <3>5. QED
      BY <3>3, <3>4
  <2>3. QED
    BY <2>1, <2>2
<1>3. QED
  BY <1>2 DEF EachInv

LEMMA ScheduledEach ==
  ASSUME BackupsInv, NEW p \in Procs, ScheduledBackup(p)
  PROVE  EachInv'
<1>0. BackupsTypeOK /\ Hands(p) /\ Told(p) /\ at[p] \in Process
  BY ProcessFields DEF BackupsInv, EachInv
<1>1. Steady
  BY SteadyWhen DEF ScheduledBackup, repos, observed
<1>2. CASE Ends(p)
  BY <1>1, <1>2, EndsDoes, OneMoves DEF Ends
<1>3. CASE ~ Ends(p)
  <2>1. Become(p, [at[p] EXCEPT !.stage = "queued"]) /\ at[p].stage = "due"
    BY <1>3 DEF ScheduledBackup, Goes
  <2>2. /\ at'[p].op = at[p].op /\ at'[p].stage = "queued" /\ at'[p].want = at[p].want
        /\ at'[p].snap = at[p].snap /\ at'[p].todo = at[p].todo /\ at'[p].moved = at[p].moved
    <3>1. at'[p] = [at[p] EXCEPT !.stage = "queued"]
      BY <1>0, <2>1, BecomeDoes
    <3>2. QED
      BY <1>0, <3>1 DEF Process
  <2>3. at[p].op = "backup" /\ at[p].snap = 0 /\ at[p].todo = {}
    BY <1>0, <2>1 DEF Hands, AfterSnapshot
  <2>4. Hands(p)'
    BY <2>2, <2>3 DEF Hands, AfterSnapshot
  <2>5. Told(p)'
    BY <1>0, <1>1, <2>1, <2>2, <2>3 DEF Told, Steady
  <2>6. QED
    BY <1>1, <2>1, <2>4, <2>5, OneMoves
<1>4. QED
  BY <1>2, <1>3

LEMMA ResolveEach ==
  ASSUME BackupsInv, NEW p \in Procs, Resolve(p)
  PROVE  EachInv'
<1>0. BackupsTypeOK /\ TakenInv /\ Hands(p) /\ Told(p) /\ at[p] \in Process
  BY ProcessFields DEF BackupsInv, EachInv
<1>1. Steady /\ Taken' = Taken
  BY SteadyWhen DEF Resolve, repos, observed
<1> DEFINE want == at[p].want
           d == IF want = NoDest THEN DestForSite ELSE IF want \in dests THEN want ELSE NoDest
<1>2. Become(p, [at[p] EXCEPT !.stage = "sent", !.want = NoDest, !.pick = d]) /\ at[p].stage = "queued"
  BY DEF Resolve
<1>3. /\ at'[p].op = at[p].op /\ at'[p].stage = "sent" /\ at'[p].want = NoDest /\ at'[p].pick = d
      /\ at'[p].snap = at[p].snap /\ at'[p].todo = at[p].todo /\ at'[p].moved = at[p].moved
  <2>1. at'[p] = [at[p] EXCEPT !.stage = "sent", !.want = NoDest, !.pick = d]
    BY <1>0, <1>2, BecomeDoes
  <2>2. QED
    BY <1>0, <2>1 DEF Process
<1>4. at[p].op = "backup" /\ at[p].moved = "no" => d = DestForSite
  <2>1. at[p].op = "backup" /\ at[p].moved = "no" => want \in {NoDest, Scheduled}
    BY <1>0, <1>2 DEF Told
  <2>2. Scheduled \in dests \cup {NoDest}
    BY <1>0, TypeOfScheduled
  <2>3. Scheduled # NoDest => DestForSite = Scheduled
    BY DEF DestForSite
  <2>4. QED
    BY <2>1, <2>2, <2>3
<1>5. at[p].op = "restore" /\ moved[at[p].snap] = "no" => d = held[at[p].snap]
  BY <1>0 DEF Hands, TakenInv, Settled
<1>6. Hands(p)'
  BY <1>0, <1>1, <1>2, <1>3 DEF Hands, AfterSnapshot
<1>7. Told(p)'
  <2>1. at[p].todo = {}
    BY <1>0, <1>2 DEF Hands
  <2>2. at[p].op = "backup" => at[p].snap = 0
    BY <1>0, <1>2 DEF Hands, AfterSnapshot
  <2>3. at[p].op = "restore" => at[p].snap \in Taken
    BY <1>0 DEF Hands
  <2>4. QED
    BY <1>1, <1>3, <1>4, <1>5, <2>1, <2>2, <2>3 DEF Told, Steady
<1>8. QED
  BY <1>1, <1>2, <1>6, <1>7, OneMoves

(* Neither settings nor the repositories' contents change. *)
LEMMA AgentEach ==
  ASSUME BackupsInv, NEW p \in Procs, Name(p) \/ List(p) \/ Cut(p) \/ Fetch(p) \/ Replace(p)
  PROVE  EachInv'
<1>0. BackupsTypeOK /\ TakenInv /\ Hands(p) /\ Told(p) /\ at[p] \in Process
  BY ProcessFields DEF BackupsInv, EachInv
<1>1. Steady /\ Taken' = Taken
  BY SteadyWhen DEF Name, List, Cut, Fetch, Replace, repos, observed
<1>2. ASSUME Ends(p) PROVE EachInv'
  BY <1>1, <1>2, EndsDoes, OneMoves DEF Ends
<1>3. CASE Name(p)
  <2>1. Become(p, [at[p] EXCEPT !.stage = "looking", !.pick = DestForSite]) /\ at[p].stage = "naming"
    BY <1>3 DEF Name
  <2>2. /\ at'[p].op = at[p].op /\ at'[p].stage = "looking" /\ at'[p].want = at[p].want
        /\ at'[p].pick = DestForSite /\ at'[p].snap = at[p].snap /\ at'[p].todo = at[p].todo
    <3>1. at'[p] = [at[p] EXCEPT !.stage = "looking", !.pick = DestForSite]
      BY <1>0, <2>1, BecomeDoes
    <3>2. QED
      BY <1>0, <2>1, <3>1 DEF Process
  <2>3. at[p].op = "backup" /\ at[p].snap \in Taken
    BY <1>0, <2>1 DEF Hands, AfterSnapshot
  <2>4. moved[at[p].snap] \in {"no", "during", "second"}
    <3>1. at[p].snap \in Snaps /\ 0 \notin Snaps
      BY <2>3, BackupsAssumption DEF Taken, Snaps
    <3>2. moved[at[p].snap] \in Timings
      BY <1>0, <3>1 DEF BackupsTypeOK
    <3>3. QED
      BY <1>0, <2>3, <3>1, <3>2 DEF Told, Timings
  <2>5. DestForSite = held[at[p].snap] \/ moved[at[p].snap] \in {"during", "second"}
    BY <1>0, <2>3, <2>4 DEF TakenInv, Settled
  <2>6. Hands(p)'
    BY <1>0, <1>1, <2>1, <2>2, <2>3 DEF Hands, AfterSnapshot
  <2>7. Told(p)'
    BY <1>0, <1>1, <2>2, <2>3, <2>4, <2>5 DEF Told, Steady
  <2>8. QED
    BY <1>1, <2>1, <2>6, <2>7, OneMoves
<1>4. CASE List(p) /\ ~ Ends(p)
  <2>1. /\ Become(p, [at[p] EXCEPT !.stage = "looking", !.todo = In(at[p].pick)])
        /\ at[p].stage = "sent" /\ at[p].op = "sync"
    BY <1>4 DEF List, Sent
  <2>2. /\ at'[p].op = "sync" /\ at'[p].stage = "looking" /\ at'[p].want = at[p].want
        /\ at'[p].pick = at[p].pick /\ at'[p].snap = at[p].snap /\ at'[p].todo = In(at[p].pick)
    <3>1. at'[p] = [at[p] EXCEPT !.stage = "looking", !.todo = In(at[p].pick)]
      BY <1>0, <2>1, BecomeDoes
    <3>2. QED
      BY <1>0, <2>1, <3>1 DEF Process
  <2>3. Hands(p)'
    BY <1>0, <1>1, <2>1, <2>2 DEF Hands, In
  <2>4. Told(p)'
    BY <1>0, <1>1, <2>2 DEF Told, Steady, In
  <2>5. QED
    BY <1>1, <2>1, <2>3, <2>4, OneMoves
<1>5. CASE Fetch(p) /\ ~ Ends(p)
  <2>1. Become(p, [at[p] EXCEPT !.stage = "fetched"]) /\ at[p].op = "restore"
    BY <1>5 DEF Fetch, Goes, Sent
  <2>2. /\ at'[p].op = "restore" /\ at'[p].stage = "fetched" /\ at'[p].want = at[p].want
        /\ at'[p].snap = at[p].snap /\ at'[p].todo = at[p].todo
    <3>1. at'[p] = [at[p] EXCEPT !.stage = "fetched"]
      BY <1>0, <2>1, BecomeDoes
    <3>2. QED
      BY <1>0, <2>1, <3>1 DEF Process
  <2>3. Hands(p)' /\ Told(p)'
    BY <1>0, <1>1, <2>1, <2>2 DEF Hands, Told
  <2>4. QED
    BY <1>1, <2>1, <2>3, OneMoves
<1>6. QED
  BY <1>2, <1>3, <1>4, <1>5 DEF Cut, Replace

LEMMA SnapshotEach ==
  ASSUME BackupsInv, NEW p \in Procs, Snapshot(p)
  PROVE  EachInv'
<1>0. BackupsTypeOK /\ TakenInv /\ InOrder /\ Hands(p) /\ Told(p) /\ at[p] \in Process
  BY ProcessFields DEF BackupsInv, EachInv, TakenInv
<1> DEFINE s == Cardinality(Taken) + 1
<1>1. /\ s \in Snaps /\ s \notin Taken /\ Taken' = Taken \cup {s}
      /\ held'[s] = at[p].pick /\ moved'[s] = at[p].moved
      /\ \A x \in Taken : held'[x] = held[x] /\ moved'[x] = moved[x]
  BY <1>0, SnapshotDoes
<1>2. Become(p, [at[p] EXCEPT !.stage = "pruning", !.snap = s, !.moved = "no"]) /\ at[p].op = "backup"
  BY DEF Snapshot, Sent
<1>3. DestForSite' = DestForSite /\ Scheduled' = Scheduled
  BY DEF Snapshot, settings, DestForSite, Scheduled
<1> HIDE DEF s
<1>4. Steady
  BY <1>1, <1>3 DEF Steady
<1>5. /\ at'[p].op = "backup" /\ at'[p].stage = "pruning" /\ at'[p].snap = s
      /\ at'[p].todo = at[p].todo
  <2>1. at'[p] = [at[p] EXCEPT !.stage = "pruning", !.snap = s, !.moved = "no"]
    BY <1>0, <1>2, BecomeDoes
  <2>2. QED
    BY <1>0, <1>2, <2>1 DEF Process
<1>6. moved'[s] # "after"
  BY <1>0, <1>1 DEF Process
<1>7. Hands(p)' /\ Told(p)'
  BY <1>0, <1>1, <1>2, <1>5, <1>6 DEF Hands, Told, AfterSnapshot
<1>8. QED
  BY <1>2, <1>4, <1>7, OneMoves

LEMMA PruneEach ==
  ASSUME BackupsInv, NEW p \in Procs, Prune(p)
  PROVE  EachInv'
<1>0. BackupsTypeOK /\ Hands(p) /\ Told(p) /\ at[p] \in Process
  BY ProcessFields DEF BackupsInv, EachInv
<1>1. Steady /\ Taken' = Taken
  BY SteadyWhen DEF Prune, observed
<1>2. Become(p, [at[p] EXCEPT !.stage = "naming", !.pick = NoDest]) /\ at[p].stage = "pruning"
  BY DEF Prune
<1>3. /\ at'[p].op = at[p].op /\ at'[p].stage = "naming" /\ at'[p].want = at[p].want
      /\ at'[p].snap = at[p].snap /\ at'[p].todo = at[p].todo
  <2>1. at'[p] = [at[p] EXCEPT !.stage = "naming", !.pick = NoDest]
    BY <1>0, <1>2, BecomeDoes
  <2>2. QED
    BY <1>0, <1>2, <2>1 DEF Process
<1>4. at[p].op = "backup" /\ at[p].snap \in Taken
  BY <1>0, <1>2 DEF Hands, AfterSnapshot
<1>5. Hands(p)' /\ Told(p)'
  BY <1>0, <1>1, <1>2, <1>3, <1>4 DEF Hands, Told, Steady, AfterSnapshot
<1>6. QED
  BY <1>1, <1>2, <1>5, OneMoves

LEMMA LookEach ==
  ASSUME BackupsInv, NEW p \in Procs, Look(p)
  PROVE  EachInv'
<1>0. BackupsTypeOK /\ Hands(p) /\ Told(p) /\ at[p] \in Process
  BY ProcessFields DEF BackupsInv, EachInv
<1>1. Steady /\ Taken' = Taken
  BY SteadyWhen DEF Look, repos
<1>2. PICK s \in Snaps, n \in {0, 1} :
        Wants(p, s) /\ Become(p, [at[p] EXCEPT !.stage = "writing", !.snap = s, !.found = n])
  BY DEF Look
<1>3. /\ at'[p].op = at[p].op /\ at'[p].stage = "writing" /\ at'[p].want = at[p].want
      /\ at'[p].pick = at[p].pick /\ at'[p].snap = s /\ at'[p].todo = at[p].todo
  <2>1. at'[p] = [at[p] EXCEPT !.stage = "writing", !.snap = s, !.found = n]
    BY <1>0, <1>2, BecomeDoes
  <2>2. QED
    BY <1>0, <1>2, <2>1 DEF Process
<1>4. at[p].stage = "looking"
  BY DEF Look
<1>5. at[p].op \in {"backup", "sync"}
  BY <1>0, <1>4 DEF Hands
<1>6. IF at[p].op = "backup" THEN s = at[p].snap ELSE s \in at[p].todo
  BY <1>2 DEF Wants
<1>7. Hands(p)'
  BY <1>0, <1>1, <1>3, <1>4, <1>5, <1>6 DEF Hands, AfterSnapshot
<1>8. at[p].op = "backup" => at[p].snap \in Taken
  BY <1>0, <1>4 DEF Hands, AfterSnapshot
<1>9. at[p].todo \subseteq Taken
  BY <1>0 DEF Hands
<1>10. Told(p)'
  BY <1>0, <1>1, <1>3, <1>4, <1>5, <1>6, <1>8, <1>9 DEF Told, Steady
<1>11. QED
  BY <1>1, <1>2, <1>7, <1>10, OneMoves

LEMMA WriteEach ==
  ASSUME BackupsInv, NEW p \in Procs, Write(p)
  PROVE  EachInv'
<1>0. BackupsTypeOK /\ Hands(p) /\ Told(p) /\ at[p] \in Process
  BY ProcessFields DEF BackupsInv, EachInv
<1>1. Steady /\ Taken' = Taken
  BY SteadyWhen DEF Write, repos, observed
<1>2. CASE Ends(p)
  BY <1>1, <1>2, EndsDoes, OneMoves DEF Ends
<1>3. CASE ~ Ends(p)
  <2>1. /\ Become(p, [at[p] EXCEPT !.stage = "looking", !.snap = 0, !.todo = at[p].todo \ {at[p].snap}, !.found = 0])
        /\ at[p].todo \ {at[p].snap} # {} /\ at[p].stage = "writing"
    BY <1>3 DEF Write
  <2>2. at[p].op = "sync" /\ at[p].todo \subseteq Taken
    BY <1>0, <2>1 DEF Hands
  <2>3. /\ at'[p].op = "sync" /\ at'[p].stage = "looking" /\ at'[p].want = at[p].want
        /\ at'[p].pick = at[p].pick /\ at'[p].todo \subseteq at[p].todo
    <3>1. at'[p] = [at[p] EXCEPT !.stage = "looking", !.snap = 0, !.todo = at[p].todo \ {at[p].snap}, !.found = 0]
      BY <1>0, <2>1, <2>2, BecomeDoes
    <3>2. QED
      BY <1>0, <2>1, <2>2, <3>1 DEF Process
  <2>4. Hands(p)'
    BY <1>0, <1>1, <2>2, <2>3 DEF Hands
  <2>5. Told(p)'
    BY <1>0, <1>1, <2>2, <2>3 DEF Told, Steady
  <2>6. QED
    BY <1>1, <2>1, <2>4, <2>5, OneMoves
<1>4. QED
  BY <1>2, <1>3

(* A change of the settings overtakes everyone. *)
LEMMA OvertakeDoes ==
  ASSUME BackupsTypeOK, Overtake
  PROVE  /\ ReposKept /\ UNCHANGED <<rows, staged, loose, torn, crossed>>
         /\ \A s \in Taken : moved'[s] # "no"
         /\ \A s \in Snaps : moved[s] \in {"during", "second"} => moved'[s] \in {"during", "second"}
         /\ \A q \in Procs : at[q].op = "backup" /\ at[q].snap \in Snaps => moved'[at[q].snap] = "during"
         /\ \A q \in Procs : /\ at'[q].op = at[q].op /\ at'[q].stage = at[q].stage /\ at'[q].want = at[q].want
                             /\ at'[q].pick = at[q].pick /\ at'[q].snap = at[q].snap /\ at'[q].todo = at[q].todo
                             /\ at'[q].found = at[q].found
                             /\ (Awaits(q) => at'[q].moved = "during")
<1>1. ReposKept /\ UNCHANGED <<rows, staged, loose, torn, crossed>>
  BY TakenKept DEF Overtake, disk
<1>2. moved' = [s \in Snaps |->
         IF \E p \in Procs : at[p].op = "backup" /\ at[p].snap = s THEN "during"
         ELSE IF s \in Taken /\ moved[s] = "no" THEN "after" ELSE moved[s]]
  BY DEF Overtake
<1>3. ASSUME NEW q \in Procs
      PROVE  /\ at'[q].op = at[q].op /\ at'[q].stage = at[q].stage /\ at'[q].want = at[q].want
             /\ at'[q].pick = at[q].pick /\ at'[q].snap = at[q].snap /\ at'[q].todo = at[q].todo
             /\ at'[q].found = at[q].found
             /\ (Awaits(q) => at'[q].moved = "during")
  <2>1. /\ at'[q] = [at[q] EXCEPT !.moved = IF Awaits(q) THEN "during" ELSE at[q].moved]
        /\ at[q] \in Process
    BY <1>3, ProcessFields DEF Overtake
  <2>2. QED
    BY <2>1 DEF Process
<1>4. Taken \subseteq Snaps
  BY DEF Taken
<1>5. QED
  BY <1>1, <1>2, <1>3, <1>4

LEMMA OvertakeEach ==
  ASSUME BackupsInv, Overtake
  PROVE  EachInv' /\ TakenInv'
<1>0. BackupsTypeOK /\ TakenInv /\ EachInv /\ Taken \subseteq Snaps
  BY DEF BackupsInv, Taken
<1>1. ReposKept /\ rows' = rows /\ \A s \in Taken : moved'[s] # "no"
  BY <1>0, OvertakeDoes
<1>2. TakenInv'
  BY <1>0, <1>1 DEF TakenInv, InOrder, Known, Settled, ReposKept
<1>3. ASSUME NEW q \in Procs PROVE Hands(q)' /\ Told(q)'
  <2>1. /\ at'[q].op = at[q].op /\ at'[q].stage = at[q].stage /\ at'[q].want = at[q].want
        /\ at'[q].pick = at[q].pick /\ at'[q].snap = at[q].snap /\ at'[q].todo = at[q].todo
        /\ (Awaits(q) => at'[q].moved = "during")
        /\ (at[q].op = "backup" /\ at[q].snap \in Snaps => moved'[at[q].snap] = "during")
    BY <1>0, OvertakeDoes
  <2>2. Hands(q) /\ Told(q) /\ at[q] \in Process
    BY <1>0, ProcessFields DEF EachInv
  <2>3. at[q].op = "backup" /\ at[q].stage \in AfterSnapshot => at[q].snap \in Snaps
    BY <1>0, <2>2 DEF Hands
  <2>4. Hands(q)'
    BY <1>1, <2>1, <2>2 DEF Hands, ReposKept
  <2>5. at[q].op = "backup" /\ at[q].snap # 0 => moved'[at[q].snap] = "during"
    BY <2>1, <2>2 DEF Process
  <2>6. at[q].op = "restore" => moved'[at[q].snap] # "no"
    BY <1>1, <2>2 DEF Hands
  <2>7. at[q].op = "backup" /\ at[q].stage \in {"looking", "writing"} => moved'[at[q].snap] = "during"
    BY <2>1, <2>3 DEF AfterSnapshot
  <2>8. at[q].op = "sync" => \A s \in at[q].todo : held'[s] = at[q].pick
    BY <1>1, <2>2 DEF Told, ReposKept
  <2>9. at[q].op = "backup" /\ at[q].stage \in {"due", "queued", "sent"} => at'[q].moved = "during"
    BY <2>1, <2>2 DEF Hands, AfterSnapshot, Awaits
  <2>10. Told(q)'
    BY <2>1, <2>5, <2>6, <2>7, <2>8, <2>9 DEF Told
  <2>11. QED
    BY <2>4, <2>10
<1>4. QED
  BY <1>2, <1>3 DEF EachInv

LEMMA SettingOvertakes ==
  ASSUME Setting PROVE Overtake
BY DEF Setting, CreateDestination, DeleteDestination, SaveSchedule, DeleteSchedule

LEMMA EachStep ==
  ASSUME BackupsInv, BackupsNext
  PROVE  EachInv'
<1>1. CASE FetchAlone
  <2>1. Steady /\ at' = at
    BY <1>1, SteadyWhen DEF FetchAlone, repos, observed
  <2>2. QED
    BY <2>1, OthersKeep DEF BackupsInv, EachInv
<1>2. CASE Setting
  BY <1>2, SettingOvertakes, OvertakeEach
<1>3. QED
  BY <1>1, <1>2, AskEach, ReadDueEach, ScheduledEach, ResolveEach, AgentEach, SnapshotEach, PruneEach, LookEach, WriteEach
     DEF BackupsNext, Panel, Agent

-------------------------------------------------------------------------------
(* What is taken. *)

LEMMA TakenStep ==
  ASSUME BackupsInv, BackupsNext
  PROVE  TakenInv'
<1>0. BackupsTypeOK /\ TakenInv /\ EachInv
  BY DEF BackupsInv
<1>1. ASSUME Steady, Taken' = Taken, rows' = rows PROVE TakenInv'
  BY <1>0, <1>1 DEF TakenInv, InOrder, Known, Settled, Steady
<1>2. ASSUME NEW p \in Procs, Snapshot(p) PROVE TakenInv'
  <2> DEFINE s == Cardinality(Taken) + 1
  <2>1. /\ s \in Snaps /\ s \notin Taken /\ Taken' = Taken \cup {s}
        /\ held'[s] = at[p].pick /\ moved'[s] = at[p].moved
        /\ \A x \in Taken : held'[x] = held[x] /\ moved'[x] = moved[x]
    BY <1>0, <1>2, SnapshotDoes DEF TakenInv
  <2>2. Taken' = 1..s /\ s \in 0..MaxSnaps
    BY <1>0, <1>2, <2>1, NextSnap DEF TakenInv, Snapshot
  <2>3. rows' = rows /\ DestForSite' = DestForSite /\ at[p].op = "backup" /\ at[p].stage = "sent"
    BY <1>2 DEF Snapshot, Sent, settings, DestForSite, Scheduled
  <2> HIDE DEF s
  <2>4. at[p].moved = "no" => at[p].pick = DestForSite
    BY <1>0, <2>3 DEF EachInv, Told
  <2>5. InOrder'
    BY <2>2 DEF InOrder
  <2>6. Known' /\ Settled'
    BY <1>0, <2>1, <2>3, <2>4 DEF TakenInv, Known, Settled
  <2>7. QED
    BY <2>5, <2>6 DEF TakenInv
<1>3. ASSUME NEW p \in Procs, Write(p) PROVE TakenInv'
  <2>1. Steady /\ Taken' = Taken
    BY <1>3, SteadyWhen DEF Write, repos, observed
  <2>2. /\ at[p].snap \in Taken /\ IdOf(p, at[p].snap)[1] = at[p].snap
        /\ \A x \in RowIds \ {IdOf(p, at[p].snap)} : rows'[x] = rows[x]
    BY <1>0, <1>3, WriteDoes DEF Write, BackupsTypeOK, IdOf
  <2>3. QED
    BY <1>0, <2>1, <2>2 DEF TakenInv, InOrder, Known, Settled, Steady
<1>4. CASE Setting
  BY <1>4, SettingOvertakes, OvertakeEach
<1>5. CASE FetchAlone
  BY <1>1, <1>5, SteadyWhen DEF FetchAlone, repos, observed
<1>6. ASSUME ReadDue \/ \E p \in Procs : Ask(p) PROVE TakenInv'
  BY <1>0, <1>1, <1>6, SteadyWhen, ReadDueDoes
     DEF Ask, UserBackup, RestoreBackup, SyncBackups, Asked, repos, observed
<1>7. ASSUME NEW p \in Procs, ScheduledBackup(p) \/ Resolve(p) \/ Name(p) \/ Look(p) \/ List(p) \/ Fetch(p) \/ Replace(p) \/ Prune(p) \/ Cut(p)
      PROVE  TakenInv'
  BY <1>1, <1>7, SteadyWhen DEF ScheduledBackup, Resolve, Name, Look, List, Fetch, Replace, Prune, Cut, repos, observed
<1>8. QED
  BY <1>2, <1>3, <1>4, <1>5, <1>6, <1>7 DEF BackupsNext, Panel, Agent

-------------------------------------------------------------------------------
(* Rows and files. *)

(* One process moves, and comes to write, prune or copy only in these ways. *)
LEMMA Moves ==
  ASSUME BackupsTypeOK, NEW p \in Procs, Ask(p) \/ Panel(p) \/ Agent(p) \/ Cut(p)
  PROVE  /\ \A q \in Procs : q # p => at'[q] = at[q]
         /\ at'[p].stage = "writing" => Look(p)
         /\ at'[p].stage = "fetched" => Fetch(p)
         /\ at'[p].stage = "pruning" => Snapshot(p)
<1>0. at[p] \in Process
  BY ProcessFields
<1>1. \E r : /\ Become(p, r)
             /\ r.stage = "writing" => Look(p)
             /\ r.stage = "fetched" => Fetch(p)
             /\ r.stage = "pruning" => Snapshot(p)
  <2>1. ASSUME NEW op, NEW snap, Asked(p, op, snap)
        PROVE  \E r : Become(p, r) /\ r.stage = "queued"
    <3>1. /\ Become(p, [Idle EXCEPT !.op = op, !.stage = "queued", !.snap = snap])
          /\ [Idle EXCEPT !.op = op, !.stage = "queued", !.snap = snap].stage = "queued"
      BY <2>1 DEF Asked, Idle
    <3>2. QED
      BY <3>1
  <2>2. CASE Ask(p)
    <3>1. CASE SyncBackups(p)
      <4>1. /\ Become(p, [Idle EXCEPT !.op = "sync", !.stage = "sent", !.pick = DestForSite])
            /\ [Idle EXCEPT !.op = "sync", !.stage = "sent", !.pick = DestForSite].stage = "sent"
        BY <3>1 DEF SyncBackups, Idle
      <4>2. QED
        BY <4>1
    <3>2. QED
      BY <2>1, <2>2, <3>1 DEF Ask, UserBackup, RestoreBackup
  <2>3. ASSUME Ends(p) PROVE \E r : Become(p, r) /\ r.stage = "idle"
    BY <2>3 DEF Ends, Idle
  <2>4. CASE ScheduledBackup(p) \/ Resolve(p)
    <3>1. ASSUME ScheduledBackup(p), ~ Ends(p) PROVE \E r : Become(p, r) /\ r.stage = "queued"
      BY <1>0, <3>1 DEF ScheduledBackup, Goes, Process
    <3>2. CASE Resolve(p)
      <4>1. PICK d : Become(p, [at[p] EXCEPT !.stage = "sent", !.want = NoDest, !.pick = d])
        BY <3>2 DEF Resolve
      <4>2. [at[p] EXCEPT !.stage = "sent", !.want = NoDest, !.pick = d].stage = "sent"
        BY <1>0 DEF Process
      <4>3. QED
        BY <4>1, <4>2
    <3>3. QED
      BY <2>3, <2>4, <3>1, <3>2
  <2>5. CASE Name(p)
    <3>1. /\ Become(p, [at[p] EXCEPT !.stage = "looking", !.pick = DestForSite])
          /\ [at[p] EXCEPT !.stage = "looking", !.pick = DestForSite].stage = "looking"
      BY <1>0, <2>5 DEF Name, Process
    <3>2. QED
      BY <3>1
  <2>6. CASE Look(p)
    <3>1. PICK s \in Snaps, n \in {0, 1} : Become(p, [at[p] EXCEPT !.stage = "writing", !.snap = s, !.found = n])
      BY <2>6 DEF Look
    <3>2. [at[p] EXCEPT !.stage = "writing", !.snap = s, !.found = n].stage = "writing"
      BY <1>0 DEF Process
    <3>3. QED
      BY <2>6, <3>1, <3>2
  <2>7. CASE Write(p)
    <3> DEFINE left == at[p].todo \ {at[p].snap}
    <3>1. Ends(p) \/ Become(p, [at[p] EXCEPT !.stage = "looking", !.snap = 0, !.todo = left, !.found = 0])
      BY <2>7 DEF Write
    <3>2. [at[p] EXCEPT !.stage = "looking", !.snap = 0, !.todo = left, !.found = 0].stage = "looking"
      BY <1>0 DEF Process
    <3>3. QED
      BY <2>3, <3>1, <3>2
  <2>8. CASE Snapshot(p)
    BY <1>0, <2>8 DEF Snapshot, Process
  <2>9. CASE Prune(p)
    <3>1. /\ Become(p, [at[p] EXCEPT !.stage = "naming", !.pick = NoDest])
          /\ [at[p] EXCEPT !.stage = "naming", !.pick = NoDest].stage = "naming"
      BY <1>0, <2>9 DEF Prune, Process
    <3>2. QED
      BY <3>1
  <2>10. CASE List(p)
    <3>1. Ends(p) \/ Become(p, [at[p] EXCEPT !.stage = "looking", !.todo = In(at[p].pick)])
      BY <2>10 DEF List
    <3>2. [at[p] EXCEPT !.stage = "looking", !.todo = In(at[p].pick)].stage = "looking"
      BY <1>0 DEF Process
    <3>3. QED
      BY <2>3, <3>1, <3>2
  <2>11. CASE Fetch(p)
    BY <1>0, <2>3, <2>11 DEF Fetch, Goes, Process
  <2>12. CASE Replace(p) \/ Cut(p)
    BY <2>3, <2>12 DEF Replace, Cut
  <2>13. QED
    BY <2>2, <2>4, <2>5, <2>6, <2>7, <2>8, <2>9, <2>10, <2>11, <2>12 DEF Panel, Agent
<1>2. QED
  BY <1>1, BecomeDoes

LEMMA LookRows ==
  ASSUME BackupsInv, NEW p \in Procs, Look(p)
  PROVE  RowsInv'
<1>0. BackupsTypeOK /\ RowsInv /\ at[p] \in Process
  BY ProcessFields DEF BackupsInv
<1>1. PICK s \in Snaps :
        /\ Become(p, [at[p] EXCEPT !.stage = "writing", !.snap = s,
                                  !.found = IF rows[IdOf(p, s)] = <<>> THEN 0 ELSE 1])
        /\ crossed' = IF \E q \in Procs \ {p} : Inserts(q, IdOf(p, s))
                      THEN crossed \cup {IdOf(p, s)} ELSE crossed
  BY DEF Look
<1> DEFINE id == IdOf(p, s)
<1>2. rows' = rows /\ held' = held /\ moved' = moved
  BY DEF Look, repos
<1>3. /\ at'[p].stage = "writing" /\ at'[p].snap = s /\ at'[p].op = at[p].op
      /\ at'[p].found = IF rows[id] = <<>> THEN 0 ELSE 1
  <2>1. at'[p] = [at[p] EXCEPT !.stage = "writing", !.snap = s, !.found = IF rows[id] = <<>> THEN 0 ELSE 1]
    BY <1>0, <1>1, BecomeDoes
  <2>2. QED
    BY <1>0, <2>1 DEF Process
<1>4. \A q \in Procs : q # p => at'[q] = at[q]
  BY <1>0, <1>1, BecomeDoes
<1>5. crossed \subseteq crossed' /\ ((\E q \in Procs \ {p} : Inserts(q, id)) => id \in crossed')
  BY <1>1
<1>6. /\ \A x \in RowIds : Inserts(p, x)' => x = id /\ rows[id] = <<>>
      /\ \A q \in Procs, x \in RowIds : q # p => (Inserts(q, x)' <=> Inserts(q, x))
  <2>1. IdOf(p, at[p].snap)' = id
    BY <1>3 DEF IdOf
  <2>2. \A q \in Procs : q # p => IdOf(q, at[q].snap)' = IdOf(q, at[q].snap)
    BY <1>4 DEF IdOf
  <2>3. QED
    BY <1>3, <1>4, <2>1, <2>2 DEF Inserts
<1> HIDE DEF id
<1>7. FoundNone'
  <2>1. ASSUME NEW q \in Procs, NEW x \in RowIds, Inserts(q, x)', x \notin crossed'
        PROVE  rows[x] = <<>> /\ \A r \in Procs : Inserts(r, x)' => r = q
    <3>1. CASE q = p
      BY <1>5, <1>6, <2>1, <3>1
    <3>2. CASE q # p
      <4>1. Inserts(q, x) /\ x \notin crossed
        BY <1>5, <1>6, <2>1, <3>2
      <4>2. rows[x] = <<>> /\ \A r \in Procs : Inserts(r, x) => r = q
        BY <1>0, <4>1 DEF RowsInv, FoundNone
      <4>3. ~ Inserts(p, x)'
        BY <1>5, <1>6, <2>1, <3>2, <4>1
      <4>4. QED
        BY <1>6, <4>2, <4>3
    <3>3. QED
      BY <3>1, <3>2
  <2>2. QED
    BY <1>2, <2>1 DEF FoundNone
<1>8. OneRowUnlessCrossed' /\ RowNamesHolder'
  BY <1>0, <1>2, <1>5 DEF RowsInv, OneRowUnlessCrossed, RowNamesHolder
<1>9. QED
  BY <1>7, <1>8 DEF RowsInv

LEMMA WriteRows ==
  ASSUME BackupsInv, NEW p \in Procs, Write(p)
  PROVE  RowsInv'
<1>0. BackupsTypeOK /\ RowsInv /\ Hands(p) /\ Told(p) /\ at[p] \in Process
  BY ProcessFields DEF BackupsInv, EachInv
<1> DEFINE s == at[p].snap
           id == IdOf(p, s)
<1>1. /\ id \in RowIds /\ id[1] = s /\ at[p].stage = "writing"
      /\ rows \in [RowIds -> Seq(Dests \cup {NoDest})] /\ rows' \in [RowIds -> Seq(Dests \cup {NoDest})]
      /\ \A x \in RowIds \ {id} : rows'[x] = rows[x]
      /\ at[p].found = 0 => Len(rows'[id]) = Len(rows[id]) + 1
      /\ at[p].found # 0 => Len(rows'[id]) = Len(rows[id])
      /\ \A i \in DOMAIN rows'[id] : rows'[id][i] = at[p].pick \/ (i \in DOMAIN rows[id] /\ rows'[id][i] = rows[id][i])
  <2>1. rows \in [RowIds -> Seq(Dests \cup {NoDest})]
    BY <1>0 DEF BackupsTypeOK
  <2>2. QED
    BY <1>0, <2>1, WriteDoes DEF Write, IdOf
<1> HIDE DEF id
<1>2. crossed' = crossed /\ held' = held /\ moved' = moved
  BY DEF Write, repos, observed
<1>3. \A q \in Procs : q # p => at'[q] = at[q]
  BY <1>0, Moves DEF Panel
<1>4. at'[p].stage # "writing"
  BY <1>0, <1>1, Moves DEF Panel, Look
<1>5. \A q \in Procs, x \in RowIds : Inserts(q, x)' => q # p /\ Inserts(q, x)
  BY <1>3, <1>4 DEF Inserts, IdOf
<1>6. FoundNone'
  <2>1. ASSUME NEW q \in Procs, NEW x \in RowIds, Inserts(q, x)', x \notin crossed
        PROVE  rows'[x] = <<>> /\ \A r \in Procs : Inserts(r, x)' => r = q
    <3>1. q # p /\ Inserts(q, x) /\ rows[x] = <<>> /\ \A r \in Procs : Inserts(r, x) => r = q
      BY <1>0, <1>5, <2>1 DEF RowsInv, FoundNone
    <3>2. x = id => at[p].found # 0
      BY <1>1, <3>1 DEF Inserts, id
    <3>3. rows'[x] = <<>>
      <4>1. CASE x = id
        <5>1. Len(rows'[x]) = 0 /\ rows'[x] \in Seq(Dests \cup {NoDest})
          BY <1>1, <3>1, <3>2, <4>1
        <5>2. QED
          BY <5>1, EmptySeq
      <4>2. QED
        BY <1>1, <3>1, <4>1
    <3>4. QED
      BY <1>5, <3>1, <3>3
  <2>2. QED
    BY <1>2, <2>1 DEF FoundNone
<1>7. OneRowUnlessCrossed'
  <2>1. ASSUME NEW x \in RowIds, Len(rows'[x]) > 1, x \notin crossed PROVE FALSE
    <3>1. ~ (Len(rows[x]) > 1) /\ Len(rows[x]) \in Nat
      BY <1>0, <1>1, <2>1, LenProperties DEF RowsInv, OneRowUnlessCrossed
    <3>2. x = id /\ at[p].found = 0
      BY <1>1, <2>1, <3>1
    <3>3. rows[id] = <<>>
      BY <1>0, <1>1, <2>1, <3>2 DEF RowsInv, FoundNone, Inserts, id
    <3>4. Len(rows[id]) = 0
      BY <3>3
    <3>5. Len(rows'[x]) = 1
      BY <1>1, <3>2, <3>4
    <3>6. QED
      BY <2>1, <3>5
  <2>2. QED
    BY <1>2, <2>1 DEF OneRowUnlessCrossed
<1>8. at[p].pick \in {NoDest, held[s]} \/ moved[s] \in {"during", "second"}
  BY <1>0, <1>1 DEF Hands, Told
<1>9. RowNamesHolder'
  BY <1>0, <1>1, <1>2, <1>8 DEF RowsInv, RowNamesHolder
<1>10. QED
  BY <1>6, <1>7, <1>9 DEF RowsInv

LEMMA RowsStepOfBackups ==
  ASSUME BackupsInv, BackupsNext
  PROVE  RowsInv'
<1>0. BackupsTypeOK /\ TakenInv /\ RowsInv
  BY DEF BackupsInv
<1>1. ASSUME rows' = rows, crossed' = crossed,
             \A q \in Procs, x \in RowIds : Inserts(q, x)' => Inserts(q, x)
      PROVE  FoundNone' /\ OneRowUnlessCrossed'
  BY <1>0, <1>1 DEF RowsInv, FoundNone, OneRowUnlessCrossed
<1>2. ASSUME rows' = rows, held' = held, \A s \in Snaps : moved[s] \in {"during", "second"} => moved'[s] \in {"during", "second"}
      PROVE  RowNamesHolder'
  <2>1. \A id \in RowIds : id[1] \in Snaps
    BY DEF RowIds
  <2>2. QED
    BY <1>0, <1>2, <2>1 DEF RowsInv, RowNamesHolder
<1>3. CASE Setting
  <2>1. Overtake
    BY <1>3, SettingOvertakes
  <2>2. \A q \in Procs, x \in RowIds : Inserts(q, x)' => Inserts(q, x)
    BY <1>0, <2>1, OvertakeDoes DEF Inserts, IdOf
  <2>3. QED
    BY <1>0, <1>1, <1>2, <2>1, <2>2, OvertakeDoes DEF RowsInv, ReposKept
<1>4. CASE FetchAlone
  <2>1. UNCHANGED <<rows, crossed, held, moved, at>>
    BY <1>4 DEF FetchAlone, repos, observed
  <2>2. QED
    BY <1>1, <1>2, <2>1 DEF RowsInv, Inserts, IdOf
<1>5. ASSUME NEW p \in Procs, Ask(p) \/ Panel(p) \/ Agent(p) \/ Cut(p), ~ Look(p), ~ Write(p)
      PROVE  RowsInv'
  <2>1. rows' = rows /\ crossed' = crossed
    BY <1>5 DEF Ask, ScheduledBackup, UserBackup, RestoreBackup, SyncBackups, Asked, Panel, Resolve, Name,
                Agent, Snapshot, Prune, List, Fetch, Replace, Cut, observed
  <2>2. \A q \in Procs, x \in RowIds : Inserts(q, x)' => Inserts(q, x)
    BY <1>0, <1>5, Moves DEF Inserts, IdOf
  <2>3. RowNamesHolder'
    <3>1. CASE Snapshot(p)
      <4>1. \A x \in Taken : held'[x] = held[x] /\ moved'[x] = moved[x]
        BY <1>0, <3>1, SnapshotDoes DEF TakenInv
      <4>2. \A x \in RowIds : x[1] \notin Taken => rows[x] = <<>>
        BY <1>0 DEF TakenInv, Known
      <4>3. QED
        BY <1>0, <2>1, <4>1, <4>2 DEF RowsInv, RowNamesHolder
    <3>2. CASE ~ Snapshot(p)
      <4>1. held' = held /\ moved' = moved
        BY <1>5, <3>2 DEF Ask, ScheduledBackup, UserBackup, RestoreBackup, SyncBackups, Asked, Panel, Resolve,
                          Name, Agent, Prune, List, Fetch, Replace, Cut, repos, observed
      <4>2. QED
        BY <1>2, <2>1, <4>1
    <3>3. QED
      BY <3>1, <3>2
  <2>4. QED
    BY <1>1, <2>1, <2>2, <2>3 DEF RowsInv
<1>6. CASE ReadDue
  <2>1. UNCHANGED <<rows, crossed, held, moved>>
    BY <1>0, <1>6, ReadDueDoes DEF repos, observed
  <2>2. \A q \in Procs : at'[q] = at[q] \/ at'[q].stage = "due"
    BY <1>0, <1>6, ReadDueDoes DEF DueEntry, Idle
  <2>3. \A q \in Procs, x \in RowIds : Inserts(q, x)' => Inserts(q, x)
    BY <2>2 DEF Inserts, IdOf
  <2>4. QED
    BY <1>1, <1>2, <2>1, <2>3 DEF RowsInv
<1>7. QED
  BY <1>3, <1>4, <1>5, <1>6, LookRows, WriteRows DEF BackupsNext

LEMMA DiskStep ==
  ASSUME BackupsInv, BackupsNext
  PROVE  DiskInv'
<1>0. BackupsTypeOK /\ EachInv /\ DiskInv
  BY DEF BackupsInv
<1>1. CASE Setting
  <2>1. /\ UNCHANGED <<staged, torn>>
        /\ \A q \in Procs : at'[q].stage = at[q].stage /\ at'[q].snap = at[q].snap
    BY <1>0, <1>1, SettingOvertakes, OvertakeDoes
  <2>2. QED
    BY <1>0, <2>1 DEF DiskInv, OnePermit, Leftover, CopiesOneSnapshot
<1>2. CASE FetchAlone
  BY <1>0, <1>2 DEF FetchAlone, DiskInv, OnePermit, Leftover, CopiesOneSnapshot
<1>3. ASSUME NEW p \in Procs, Ask(p) \/ Panel(p) \/ Agent(p) \/ Cut(p)
      PROVE  DiskInv'
  <2>1. /\ \A q \in Procs : q # p => at'[q] = at[q]
        /\ at'[p].stage = "fetched" => Fetch(p)
        /\ at'[p].stage = "pruning" => Snapshot(p)
    BY <1>0, <1>3, Moves
  <2>2. OnePermit'
    <3>1. CASE Fetch(p) \/ Snapshot(p)
      BY <1>0, <2>1, <3>1 DEF Fetch, Snapshot, Sent, PermitFree, OnePermit, UnderPermit
    <3>2. CASE ~ Fetch(p) /\ ~ Snapshot(p)
      BY <1>0, <2>1, <3>2 DEF DiskInv, OnePermit, UnderPermit
    <3>3. QED
      BY <3>1, <3>2
  <2>3. CASE Fetch(p)
    <3>1. /\ at[p] \in Process /\ staged' = staged \cup {at[p].snap} /\ \A q \in Procs : at[q].stage # "fetched"
      BY <1>0, <2>3, ProcessFields DEF Fetch, Sent, PermitFree
    <3>2. staged = {} \/ torn
      BY <1>0, <3>1 DEF DiskInv, Leftover
    <3>3. CASE Goes(p, "fetched") /\ torn' = torn
      <4>1. at'[p] = [at[p] EXCEPT !.stage = "fetched"]
        BY <1>0, <3>3, BecomeDoes DEF Goes
      <4>2. at'[p].stage = "fetched" /\ at'[p].snap = at[p].snap
        BY <3>1, <4>1 DEF Process
      <4>3. QED
        BY <2>1, <2>2, <3>1, <3>2, <3>3, <4>2 DEF DiskInv, Leftover, CopiesOneSnapshot
    <3>4. CASE torn'
      BY <2>2, <3>4 DEF DiskInv, Leftover, CopiesOneSnapshot
    <3>5. QED
      BY <2>3, <3>3, <3>4 DEF Fetch
  <2>4. CASE Replace(p)
    <3>1. staged' = {} /\ \A q \in Procs : q # p => at[q].stage # "fetched"
      BY <1>0, <2>4 DEF Replace, DiskInv, OnePermit, UnderPermit
    <3>2. at'[p].stage # "fetched"
      BY <2>1, <2>4 DEF Replace, Fetch, Sent
    <3>3. QED
      BY <2>1, <2>2, <3>1, <3>2 DEF DiskInv, Leftover, CopiesOneSnapshot
  <2>5. CASE Cut(p)
    <3>1. staged' = staged /\ torn' = (torn \/ at[p].stage = "fetched")
      BY <1>0, <2>5 DEF Cut, BackupsTypeOK
    <3>2. torn' \/ (at[p].stage # "fetched" /\ torn' = torn)
      <4>1. torn \in BOOLEAN
        BY <1>0 DEF BackupsTypeOK
      <4>2. CASE at[p].stage = "fetched"
        BY <3>1, <4>2
      <4>3. CASE at[p].stage # "fetched"
        BY <3>1, <4>1, <4>3
      <4>4. QED
        BY <4>2, <4>3
    <3>3. at'[p].stage = "idle"
      BY <1>0, <2>5, BecomeDoes DEF Cut, Ends, Idle
    <3>4. QED
      BY <1>0, <2>1, <2>2, <3>1, <3>2, <3>3 DEF DiskInv, Leftover, CopiesOneSnapshot
  <2>6. CASE ~ Fetch(p) /\ ~ Replace(p) /\ ~ Cut(p)
    <3>1. staged' = staged /\ torn' = torn
      BY <1>3, <2>6 DEF Ask, ScheduledBackup, UserBackup, RestoreBackup, SyncBackups, Asked, Panel, Resolve, Name,
                        Look, Write, Agent, Snapshot, Prune, List, disk
    <3>2. at[p].stage # "fetched"
      <4>1. CASE Ask(p)
        <5>1. at[p] = Idle
          BY <4>1 DEF Ask, UserBackup, RestoreBackup, SyncBackups, Asked
        <5>2. QED
          BY <5>1 DEF Idle
      <4>2. CASE ~ Ask(p)
        BY <1>3, <2>6, <4>2 DEF Panel, ScheduledBackup, Resolve, Name, Look, Write, Agent, Snapshot, Prune, List, Sent
      <4>3. QED
        BY <4>1, <4>2
    <3>3. at'[p].stage # "fetched"
      BY <2>1, <2>6
    <3>4. QED
      BY <1>0, <2>1, <2>2, <3>1, <3>2, <3>3 DEF DiskInv, Leftover, CopiesOneSnapshot
  <2>7. QED
    BY <2>3, <2>4, <2>5, <2>6
<1>4. CASE ReadDue
  <2>1. staged' = staged /\ torn' = torn
    BY <1>0, <1>4, ReadDueDoes DEF disk
  <2>2. \A q \in Procs : at'[q] = at[q] \/ (at[q].stage = "idle" /\ at'[q].stage = "due")
    <3>1. Idle.stage = "idle" /\ \A d : DueEntry(d).stage = "due"
      BY DEF DueEntry, Idle
    <3>2. QED
      BY <1>0, <1>4, <3>1, ReadDueDoes
  <2>3. QED
    BY <1>0, <2>1, <2>2 DEF DiskInv, OnePermit, UnderPermit, Leftover, CopiesOneSnapshot
<1>5. QED
  BY <1>1, <1>2, <1>3, <1>4 DEF BackupsNext

-------------------------------------------------------------------------------
LEMMA BackupsInitInv == BackupsInit => BackupsInv
<1> SUFFICES ASSUME BackupsInit PROVE BackupsInv
  OBVIOUS
<1> USE DEF BackupsInit
<1>1. Taken = {}
  BY DEF Taken
<1>2. \A p \in Procs : at[p] = Idle
  OBVIOUS
<1>3. BackupsTypeOK
  <2>1. Idle \in [op : Ops, stage : Stages, want : Dests \cup {NoDest}, pick : Dests \cup {NoDest},
                  snap : Snaps \cup {0}, todo : SUBSET Snaps, found : {0, 1}, moved : Timings \ {"after"}]
    BY DEF Idle, Ops, Stages, Timings
  <2>2. \A p \in Procs : at[p].stage = "idle"
    BY <1>2 DEF Idle
  <2>3. rows \in [RowIds -> Seq(Dests \cup {NoDest})]
    <3>1. <<>> \in Seq(Dests \cup {NoDest})
      BY EmptySeq
    <3>2. QED
      BY <3>1
  <2>4. scheds \in Seq(dests \cup {NoDest})
    <3>1. PICK n \in 0..MaxPerSite : scheds \in [1..n -> dests]
      OBVIOUS
    <3>2. n \in Nat /\ scheds \in [1..n -> dests \cup {NoDest}]
      BY <3>1, BackupsAssumption
    <3>3. QED
      BY <3>2, SeqDef
  <2>5. QED
    BY <1>1, <2>1, <2>2, <2>3, <2>4 DEF BackupsTypeOK, Timings
<1>4. TakenInv
  <2>1. 1..0 = {} /\ 0 \in 0..MaxSnaps
    BY BackupsAssumption
  <2>2. QED
    BY <1>1, <2>1 DEF TakenInv, InOrder, Known, Settled
<1>5. \A p \in Procs : at[p].op = "none" /\ at[p].stage = "idle" /\ at[p].todo = {}
  BY <1>2 DEF Idle
<1>6. EachInv
  BY <1>5 DEF EachInv, Hands, Told
<1>7. FoundNone
  BY <1>5 DEF FoundNone, Inserts
<1>8. OneRowUnlessCrossed /\ RowNamesHolder
  <2>1. \A id \in RowIds : Len(rows[id]) = 0 /\ DOMAIN rows[id] = {}
    OBVIOUS
  <2>2. QED
    BY <2>1 DEF OneRowUnlessCrossed, RowNamesHolder
<1>9. DiskInv
  BY <1>5 DEF DiskInv, OnePermit, UnderPermit, Leftover, CopiesOneSnapshot
<1>10. QED
  BY <1>3, <1>4, <1>6, <1>7, <1>8, <1>9 DEF BackupsInv, RowsInv

(* The invariant holds: whoever works out the repository gets the first
   schedule's destination or the only one, at the time of asking (for_site); the
   scheduler's copy says the same until the settings change, unless it is a second
   schedule's; the agent's one permit keeps two restores out of the directory; and
   upsert_backup inserts what it did not find. *)
THEOREM BackupsInvariantHolds == BackupsSpec => []BackupsInv
<1>1. BackupsInv /\ [BackupsNext]_backupVars => BackupsInv'
  <2> SUFFICES ASSUME BackupsInv, [BackupsNext]_backupVars PROVE BackupsInv'
    OBVIOUS
  <2>1. CASE BackupsNext
    BY <2>1, BackupsTypeStep, TakenStep, EachStep, RowsStepOfBackups, DiskStep DEF BackupsInv
  <2>2. CASE UNCHANGED backupVars
    <3>1. UNCHANGED <<dests, used, scheds, upsets, held, pruned, rows, at, staged, loose, moved, crossed, torn>>
      BY <2>2 DEF backupVars, settings, repos, disk, observed
    <3>2. Taken' = Taken /\ DestForSite' = DestForSite /\ Scheduled' = Scheduled
      BY <3>1 DEF Taken, DestForSite, Scheduled
    <3>3. BackupsTypeOK'
      BY <3>1, <3>2 DEF BackupsInv, BackupsTypeOK
    <3>4. TakenInv' /\ EachInv'
      BY <3>1, <3>2 DEF BackupsInv, TakenInv, InOrder, Known, Settled, EachInv, Hands, Told
    <3>5. RowsInv' /\ DiskInv'
      BY <3>1 DEF BackupsInv, RowsInv, FoundNone, Inserts, IdOf, OneRowUnlessCrossed, RowNamesHolder,
                  DiskInv, OnePermit, Leftover, CopiesOneSnapshot
    <3>6. QED
      BY <3>3, <3>4, <3>5 DEF BackupsInv
  <2>3. QED
    BY <2>1, <2>2
<1>2. QED
  BY <1>1, BackupsInitInv, PTL DEF BackupsSpec

(* Types, and a backup that prunes or records has a snapshot in a repository. *)
THEOREM BackupsTypes == BackupsSpec => []BackupsTypeOK
<1>1. BackupsInv => BackupsTypeOK
  BY DEF BackupsInv
<1>2. QED
  BY <1>1, BackupsInvariantHolds, PTL

(* However jobs and syncs interleave, and whatever id restic reports a backup by,
   upsert_backup makes a second row of an id only when two looked for it before
   either wrote. *)
THEOREM OneRow == BackupsSpec => []OneRowUnlessCrossed
<1>1. BackupsInv => OneRowUnlessCrossed
  BY DEF BackupsInv, RowsInv
<1>2. QED
  BY <1>1, BackupsInvariantHolds, PTL

(* A row names a repository that does not hold its snapshot only when the settings
   changed under the backup, between the request, or tick's read of the schedule,
   and apply_effects, or when the backup was a second schedule's. *)
THEOREM RowsNameTheHolder == BackupsSpec => []RowNamesHolder
<1>1. BackupsInv => RowNamesHolder
  BY DEF BackupsInv, RowsInv
<1>2. QED
  BY <1>1, BackupsInvariantHolds, PTL

(* resolve_restic_target sends a restore to the repository its snapshot is in
   unless the settings changed since the backup was asked for, or since tick read
   its schedule, or the backup was a second schedule's. *)
THEOREM RestoresFindTheirSnapshot == BackupsSpec => []RestoreFindsSnapshot
<1>1. BackupsInv => RestoreFindsSnapshot
  BY DEF BackupsInv, EachInv, Told, RestoreFindsSnapshot
<1>2. QED
  BY <1>1, BackupsInvariantHolds, PTL

(* What a restore copies onto the site is its snapshot alone, unless one before it
   ended halfway or goes on: the directory is removed after the copy. *)
THEOREM OneSnapshotIsCopied == BackupsSpec => []CopiesOneSnapshot
<1>1. BackupsInv => CopiesOneSnapshot
  BY DEF BackupsInv, DiskInv
<1>2. QED
  BY <1>1, BackupsInvariantHolds, PTL
===============================================================================
