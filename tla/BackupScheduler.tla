---------------------------- MODULE BackupScheduler ----------------------------
(***************************************************************************)
(* The panel's backup scheduler: the backup_schedules table, the two       *)
(* handlers that edit it, the task that every minute turns due schedules   *)
(* into backup.create jobs, and those jobs as has_active sees them.        *)
(*                                                                         *)
(* One action is one statement: tick reads the due schedules once and then *)
(* works through that copy, while handlers, workers and the deletion of    *)
(* sites go on.  Dates are reduced to due or not due.                      *)
(*                                                                         *)
(* The panel is the release build of Cargo.toml, in which a panic ends the *)
(* process, under the unit of deploy/systemd, which starts it again.       *)
(***************************************************************************)
EXTENDS Naturals, Sequences, FiniteSets, Functions

CONSTANTS
    Sites,          \* sites there may be
    NoSite,         \* no site
    None,           \* no edit, no job
    Handlers,       \* requests that edit schedules
    MaxEdits,       \* bound: edits of schedules begun in a behaviour
    MaxSchedules,   \* bound: rows ever inserted in backup_schedules
    MaxManual,      \* bound: backups asked for by users and active at one time
    MaxMishaps      \* bound: failed statements and restarts in a behaviour

ASSUME SchedulerAssumption ==
    /\ NoSite \notin Sites
    /\ IsFiniteSet(Sites)
    /\ {MaxEdits, MaxSchedules, MaxManual, MaxMishaps} \subseteq Nat

VARIABLES
    sites,      \* the sites that exist
    site,       \* [schedule id -> its site_id, NoSite when there is no such row]
    made,       \* rows inserted so far; ids are not reused
    enabled,    \* ids of enabled schedules
    due,        \* ids whose next_run_at is NULL or past
    huge,       \* ids whose interval_minutes does not fit a date
    asked,      \* [handler -> the edit it has in hand, None between edits]
    edits,      \* edits begun so far
    tick,       \* where the scheduler's task stands
    list,       \* what tick has read and not worked through: <<[id, site, huge]>>
    jobs,       \* [slot -> an active backup.create job, None]
    mishaps,    \* failed statements and restarts so far
    fired,      \* observed: [id -> backups enqueued for it since it last came due]
    panicked    \* observed: ids whose next run was computed in vain since then

table == <<site, made, enabled, due, huge>>
task  == <<tick, list>>
seen  == <<fired, panicked>>
vars == <<sites, table, asked, edits, task, jobs, mishaps, seen>>

Ids   == 1..MaxSchedules
Often == MaxMishaps + 2    \* bound: fired counts no further
Slots == 1..(Cardinality(Sites) + MaxManual)   \* room for one scheduled backup a site
Jobs  == [site : Sites, by : {"scheduler", "user"}, status : {"queued", "running", "stranded"}]
Edits == [op : {"save", "remove"}, site : Sites, found : Ids \cup {0}]

Init ==
    /\ sites = Sites
    /\ site = [i \in Ids |-> NoSite]
    /\ made = 0
    /\ enabled = {} /\ due = {} /\ huge = {}
    /\ asked = [h \in Handlers |-> None]
    /\ edits = 0
    /\ tick = "sleeping" /\ list = <<>>
    /\ jobs = [k \in Slots |-> None]
    /\ mishaps = 0
    /\ fired = [i \in Ids |-> 0]
    /\ panicked = {}

(* Row i as the form says: enabled or not, with an interval that fits or not. *)
Fill(i) ==
    /\ enabled' \in {enabled \ {i}, enabled \cup {i}}
    /\ huge' \in {huge \ {i}, huge \cup {i}}

(* for_site: the first schedule of the site, 0 for none. *)
ForSite(s) ==
    IF \E i \in Ids : site[i] = s
    THEN CHOOSE i \in Ids : site[i] = s /\ \A k \in Ids : site[k] = s => i <= k
    ELSE 0

(* Mutant: has_active looks at queued jobs only. *)
HasQueued(s) == \E k \in Slots : jobs[k] # None /\ jobs[k].site = s /\ jobs[k].status = "queued"

(* has_active: a job of the site is queued or running; one that no worker runs
   any more is still "running" in the table. *)
HasActive(s) == \E k \in Slots : jobs[k] # None /\ jobs[k].site = s

(* INSERT INTO jobs. *)
Insert(s, by) ==
    LET k == CHOOSE k \in Slots : jobs[k] = None
    IN  jobs' = [jobs EXCEPT ![k] = [site |-> s, by |-> by, status |-> "queued"]]
-------------------------------------------------------------------------------
(* The handlers: look the schedule up, then write. *)

LookUp(h) ==
    /\ asked[h] = None
    /\ edits < MaxEdits
    /\ edits' = edits + 1
    /\ \E e \in Edits :
         /\ e.site \in sites
         /\ e.found = ForSite(e.site)
         /\ e.op = "remove" => e.found # 0
         /\ asked' = [asked EXCEPT ![h] = e]
    /\ UNCHANGED <<sites, table, task, jobs, mishaps, seen>>

(* The schedule found is deleted. *)
Remove(h) ==
    /\ asked[h] # None /\ asked[h].op = "remove"
    /\ LET i == asked[h].found IN
         /\ site' = [site EXCEPT ![i] = NoSite]
         /\ enabled' = enabled \ {i} /\ due' = due \ {i} /\ huge' = huge \ {i}
    /\ asked' = [asked EXCEPT ![h] = None]
    /\ UNCHANGED <<sites, edits, made, task, jobs, mishaps, seen>>

(* upsert, a schedule having been found: UPDATE, which leaves next_run_at and,
   when the row is gone by now, everything else. *)
Update(h) ==
    /\ asked[h] # None /\ asked[h].op = "save" /\ asked[h].found # 0
    /\ IF site[asked[h].found] = NoSite THEN UNCHANGED <<enabled, huge>>
       ELSE Fill(asked[h].found)
    /\ asked' = [asked EXCEPT ![h] = None]
    /\ UNCHANGED <<sites, edits, site, made, due, task, jobs, mishaps, seen>>

(* upsert, none found: INSERT, with next_run_at NULL; no index keeps a second
   one out, the foreign key keeps out one of a deleted site. *)
Create(h) ==
    /\ asked[h] # None /\ asked[h].op = "save" /\ asked[h].found = 0
    /\ made < MaxSchedules
    /\ IF asked[h].site \notin sites THEN UNCHANGED table
       ELSE /\ made' = made + 1
            /\ site' = [site EXCEPT ![made + 1] = asked[h].site]
            /\ due' = due \cup {made + 1}
            /\ Fill(made + 1)
    /\ asked' = [asked EXCEPT ![h] = None]
    /\ UNCHANGED <<sites, edits, task, jobs, mishaps, seen>>

(* apply_effects of SiteDelete: schedules go with the site, its jobs lose it. *)
DeleteSite(s) ==
    /\ s \in sites
    /\ sites' = sites \ {s}
    /\ LET gone == {i \in Ids : site[i] = s} IN
         /\ site' = [i \in Ids |-> IF i \in gone THEN NoSite ELSE site[i]]
         /\ enabled' = enabled \ gone /\ due' = due \ gone /\ huge' = huge \ gone
    /\ jobs' = [k \in Slots |-> IF jobs[k] # None /\ jobs[k].site = s THEN None ELSE jobs[k]]
    /\ UNCHANGED <<made, asked, edits, task, mishaps, seen>>

(* The "backup" action of a site asks no questions. *)
ManualBackup(s) ==
    /\ s \in sites
    /\ Cardinality({k \in Slots : jobs[k] # None /\ jobs[k].by = "user"}) < MaxManual
    /\ Insert(s, "user")
    /\ UNCHANGED <<sites, edits, table, asked, task, mishaps, seen>>

ComesDue(i) ==
    /\ site[i] # NoSite /\ i \notin due
    /\ due' = due \cup {i}
    /\ fired' = [fired EXCEPT ![i] = 0]
    /\ panicked' = panicked \ {i}
    /\ UNCHANGED <<sites, edits, site, made, enabled, huge, asked, task, jobs, mishaps>>
-------------------------------------------------------------------------------
(* The scheduler's task. *)

Goto(from, to) == tick = from /\ tick' = to

(* On to the next schedule of the list, or to sleep. *)
Continue ==
    /\ list' = Tail(list)
    /\ tick' = IF Len(list) = 1 THEN "sleeping" ELSE "checking"

Entry(i) == [id |-> i, site |-> site[i], huge |-> i \in huge]

(* The ids of a set in any order: the statement has none. *)
Orders(ids) == Injection(1..Cardinality(ids), ids)

(* Mutant: a schedule whose interval fits no date is left out. *)
WakeFitting ==
    LET ready == (enabled \cap due) \ huge IN
    /\ ready # {}
    /\ Goto("sleeping", "checking")
    /\ \E order \in Orders(ready) : list' = [n \in DOMAIN order |-> Entry(order[n])]
    /\ UNCHANGED <<sites, edits, table, asked, jobs, mishaps, seen>>

(* Every minute, and at once after a boot: due. *)
Wake ==
    LET ready == enabled \cap due IN
    /\ ready # {}
    /\ Goto("sleeping", "checking")
    /\ \E order \in Orders(ready) : list' = [n \in DOMAIN order |-> Entry(order[n])]
    /\ UNCHANGED <<sites, edits, table, asked, jobs, mishaps, seen>>

(* Mutant: a skipped schedule counts as run. *)
SkipAndMark ==
    /\ tick = "checking" /\ HasActive(Head(list).site)
    /\ Continue
    /\ due' = due \ {Head(list).id}
    /\ UNCHANGED <<sites, edits, site, made, enabled, huge, asked, jobs, mishaps, seen>>

(* A backup of the site is active: the schedule stays due. *)
Skip ==
    /\ tick = "checking" /\ HasActive(Head(list).site)
    /\ Continue
    /\ UNCHANGED <<sites, edits, table, asked, jobs, mishaps, seen>>

Check ==
    /\ Goto("checking", "resolving") /\ ~HasActive(Head(list).site)
    /\ UNCHANGED <<sites, edits, table, asked, list, jobs, mishaps, seen>>

(* sites::get: the site may have been deleted since the list was read. *)
GetSite ==
    /\ tick = "resolving"
    /\ IF Head(list).site \in sites THEN tick' = "enqueuing" /\ UNCHANGED list ELSE Continue
    /\ UNCHANGED <<sites, edits, table, asked, jobs, mishaps, seen>>

(* enqueue; the foreign key refuses a site deleted since, and the error ends
   the tick for every schedule behind. *)
Enqueue ==
    /\ tick = "enqueuing"
    /\ LET e == Head(list) IN
       IF e.site \in sites
       THEN /\ Insert(e.site, "scheduler")
            /\ fired' = [fired EXCEPT ![e.id] = IF @ < Often THEN @ + 1 ELSE @]
            /\ tick' = "marking" /\ UNCHANGED list
       ELSE tick' = "sleeping" /\ list' = <<>> /\ UNCHANGED <<jobs, fired>>
    /\ UNCHANGED <<sites, edits, table, asked, mishaps, panicked>>

(* Mutant: mark_scheduled leaves next_run_at. *)
MarkNothing ==
    /\ tick = "marking" /\ Continue
    /\ UNCHANGED <<sites, edits, table, asked, jobs, mishaps, seen>>

(* The next run is computed, and mark_scheduled writes it. *)
Mark ==
    /\ tick = "marking" /\ ~Head(list).huge
    /\ Continue
    /\ due' = due \ {Head(list).id}
    /\ UNCHANGED <<sites, edits, site, made, enabled, huge, asked, jobs, mishaps, seen>>

Status(k) == IF jobs[k] = None THEN "free" ELSE jobs[k].status

(* The process ends and comes back: requests are gone, rows that were running
   are failed, queued ones wait, and the scheduler begins with a tick. *)
Reboot ==
    /\ jobs' = [k \in Slots |-> IF Status(k) = "queued" THEN jobs[k] ELSE None]
    /\ asked' = [h \in Handlers |-> None]
    /\ tick' = "sleeping" /\ list' = <<>>

(* The next run of an interval that fits no date panics: the backup is
   enqueued, the schedule still due. *)
Panic ==
    /\ tick = "marking" /\ Head(list).huge
    /\ Reboot
    /\ panicked' = panicked \cup {Head(list).id}
    /\ UNCHANGED <<sites, edits, table, mishaps, fired>>

TickStep == Skip \/ Check \/ GetSite \/ Enqueue \/ Mark \/ Panic

Mishap == mishaps < MaxMishaps /\ mishaps' = mishaps + 1

(* A statement of tick fails: the rest of the list waits for the next minute. *)
TickFails ==
    /\ tick \in {"checking", "resolving", "enqueuing", "marking"}
    /\ ~(tick = "marking" /\ Head(list).huge)
    /\ tick' = "sleeping" /\ list' = <<>>
    /\ Mishap
    /\ UNCHANGED <<sites, edits, table, asked, jobs, seen>>
-------------------------------------------------------------------------------
(* The workers, and the process. *)

Claim(k) ==
    /\ Status(k) = "queued"
    /\ jobs' = [jobs EXCEPT ![k].status = "running"]
    /\ UNCHANGED <<sites, edits, table, asked, task, mishaps, seen>>

End(k) ==
    /\ Status(k) = "running"
    /\ jobs' = [jobs EXCEPT ![k] = None]
    /\ UNCHANGED <<sites, edits, table, asked, task, mishaps, seen>>

(* The row stays running without a worker: JobQueue's FinishErrorIgnored and
   ReadClaimedError. *)
Strand(k) ==
    /\ Status(k) = "running"
    /\ jobs' = [jobs EXCEPT ![k].status = "stranded"]
    /\ Mishap
    /\ UNCHANGED <<sites, edits, table, asked, task, seen>>

Restart ==
    /\ Mishap
    /\ Reboot
    /\ UNCHANGED <<sites, edits, table, seen>>

Next ==
    \/ \E h \in Handlers : LookUp(h) \/ Remove(h) \/ Update(h) \/ Create(h)
    \/ \E s \in Sites : DeleteSite(s) \/ ManualBackup(s)
    \/ \E i \in Ids : ComesDue(i)
    \/ Wake \/ TickStep \/ TickFails
    \/ \E k \in Slots : Claim(k) \/ End(k) \/ Strand(k)
    \/ Restart

Spec == Init /\ [][Next]_vars

(* The ticker fires, statements return, and jobs that have a worker end. *)
FairSpec ==
    /\ Spec
    /\ WF_vars(Wake) /\ WF_vars(TickStep)
    /\ \A k \in Slots : WF_vars(Claim(k)) /\ WF_vars(End(k))
-------------------------------------------------------------------------------
(* Every variable keeps its type. *)
TypeOK ==
    /\ sites \in SUBSET Sites
    /\ site \in [Ids -> Sites \cup {NoSite}]
    /\ made \in 0..MaxSchedules
    /\ enabled \in SUBSET Ids /\ due \in SUBSET Ids /\ huge \in SUBSET Ids
    /\ asked \in [Handlers -> Edits \cup {None}]
    /\ edits \in 0..MaxEdits
    /\ tick \in {"sleeping", "checking", "resolving", "enqueuing", "marking"}
    /\ list \in Seq([id : Ids, site : Sites, huge : BOOLEAN])
    /\ jobs \in [Slots -> Jobs \cup {None}]
    /\ mishaps \in Nat
    /\ fired \in [Ids -> Nat]
    /\ panicked \in SUBSET Ids

(* The scheduler has at most one backup of a site queued or running, whatever
   schedules the site has and however often the panel restarts half way: the
   question and the insert are two statements, but only one task asks. *)
OneScheduledBackup ==
    \A a, b \in Slots :
        /\ jobs[a] # None /\ jobs[a].by = "scheduler"
        /\ jobs[b] # None /\ jobs[b].by = "scheduler"
        /\ jobs[a].site = jobs[b].site
        => a = b

(* A schedule stops being due only by a backup enqueued for it: one that finds
   another backup active waits, and is not lost. *)
NothingSkipped == \A i \in Ids : site[i] # NoSite /\ i \notin due => fired[i] > 0

(* A schedule is served once each time it comes due, save for the failed
   statements and restarts that fall between the enqueue and its mark, and save
   for one whose next run fits no date: that one stays due, brings the panel
   down each time, and is served again after every boot. *)
ServedOnce == \A i \in Ids : fired[i] <= 1 + mishaps \/ i \in panicked

Ready(i) == site[i] # NoSite /\ i \in enabled /\ i \in due
Working(s)  == \E k \in Slots : jobs[k] # None /\ jobs[k].site = s /\ jobs[k].status # "stranded"
Stranded(s) == \E k \in Slots : jobs[k] # None /\ jobs[k].site = s /\ jobs[k].status = "stranded"

(* A schedule that takes the panel down whenever it is marked. *)
Bomb(i) == Ready(i) /\ i \in huge

(* The site of a due schedule gets a backup, whatever becomes of the schedules
   before it in the list: a failed tick is only late, and the site of one of
   them deleted under way ends the tick once.  Two things stop it: a row
   stranded as running, which has_active takes for a backup in progress until
   the next restart, and another due schedule whose next run fits no date, which
   may come first in every tick and end the process. *)
DueIsServed ==
    \A i \in Ids : Ready(i) ~>
        (~Ready(i) \/ Working(site[i]) \/ Stranded(site[i]) \/ \E j \in Ids \ {i} : Bomb(j))
===============================================================================
