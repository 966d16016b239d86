----------------------------- MODULE ControlPlane -----------------------------
(***************************************************************************)
(* A site as the panel and its server have it: the panel's sites table,    *)
(* what the agent manages on the server, and the jobs that are meant to    *)
(* keep the two together.                                                  *)
(*                                                                         *)
(* The job queue is that of JobQueue, seen here from outside: one action   *)
(* per hand-over between the handler that inserts a job, the worker, the   *)
(* agent and the panel's tables.  An operation of the agent is one action, *)
(* and what it leaves is the agent's record of the site, which it writes   *)
(* in its last statement: an operation that fails on the way has touched   *)
(* files, containers and vhosts (those are in SiteHost), but no record.    *)
(* Operations that change neither the row's status nor that of the record  *)
(* (caches, certificates, plugins, backups) are left out.                  *)
(***************************************************************************)
EXTENDS Naturals, Sequences, FiniteSets

CONSTANTS
    Sites,       \* ids of sites, existing or yet to be created
    NoSite,      \* NULL
    Workers,     \* worker tasks of the panel
    DemoData,    \* WP_PANEL_DEMO_DATA
    MaxJobs,     \* bound: rows ever inserted in jobs
    MaxLosses    \* bound: answers lost to timeouts, failed statements and restarts

ASSUME ControlAssumption ==
    /\ NoSite \notin Sites
    /\ DemoData \in BOOLEAN
    /\ MaxJobs \in Nat
    /\ MaxLosses \in Nat

VARIABLES
    row,         \* [site -> sites.status]
    parent,      \* [site -> sites.parent_site_id]
    staging,     \* sites whose environment is staging
    unqueued,    \* jobs whose handler has written the site row and not yet the job
    jobs,        \* the jobs table, oldest row first
    at,          \* [worker -> where it stands]
    held,        \* [worker -> the job it claimed, 0 for none]
    on,          \* [worker -> job.site_id as it was when the job was claimed]
    record,      \* [site -> the agent's SiteRecord: "none", "stopped", or "up" (Online, Failed)]
    losses,      \* answers lost so far
    lost,        \* observed: sites about which an answer was lost
    walked,      \* observed: sites whose job was worked off without asking the agent
    raced,       \* observed: sites two workers had in hand at once
    revived      \* observed: sites a push put on the agent where it had none

panelVars == <<row, parent, staging>>
workVars  == <<at, held, on>>
observed  == <<walked, raced, revived>>
vars == <<panelVars, unqueued, jobs, workVars, record, losses, lost, observed>>

Live       == {"provisioning", "online", "stopped", "failed"}
Provisions == {"create", "import", "copy"}        \* copy: SiteClone or StagingCreate
Commands   == {"start", "restart", "stop", "delete"}
Kinds      == Provisions \cup Commands \cup {"push"}
JobRows    == [kind : Kinds, site : Sites \cup {NoSite}, source : Sites \cup {NoSite},
               status : {"queued", "running", "succeeded", "failed"}]

Job(k, s, src) == [kind |-> k, site |-> s, source |-> src, status |-> "queued"]
Kind(w)   == jobs[held[w]].kind
Source(w) == jobs[held[w]].source

(* A panel at rest: the sites already there are online on both sides.  Clones
   and staging copies come later, by InsertSite. *)
Init ==
    /\ \E there \in SUBSET Sites :
         /\ row    = [s \in Sites |-> IF s \in there THEN "online" ELSE "absent"]
         /\ record = [s \in Sites |-> IF s \in there THEN "up" ELSE "none"]
    /\ parent = [s \in Sites |-> NoSite] /\ staging = {}
    /\ unqueued = {} /\ jobs = <<>>
    /\ at = [w \in Workers |-> "idle"]
    /\ held = [w \in Workers |-> 0]
    /\ on = [w \in Workers |-> NoSite]
    /\ losses = 0 /\ lost = {} /\ walked = {} /\ raced = {} /\ revived = {}
-------------------------------------------------------------------------------
(* The handlers. *)

Room == Len(jobs) + Cardinality(unqueued) < MaxJobs

(* The three handlers that add a site write its row first. *)
InsertSite(k, s, src) ==
    /\ Room
    /\ row[s] = "absent"
    /\ IF k = "copy" THEN src # NoSite /\ row[src] \in Live ELSE src = NoSite
    /\ row' = [row EXCEPT ![s] = "provisioning"]
    /\ parent' = [parent EXCEPT ![s] = src]
    /\ \/ staging' = staging \cup {s} /\ k = "copy"
       \/ UNCHANGED staging /\ src \notin staging
    /\ unqueued' = unqueued \cup {Job(k, s, src)}
    /\ UNCHANGED <<jobs, workVars, record, losses, lost, observed>>

(* ... and their job second; the foreign key refuses it when the row is gone. *)
EnqueueSite(u) ==
    /\ u \in unqueued
    /\ unqueued' = unqueued \ {u}
    /\ jobs' = IF row[u.site] \in Live THEN Append(jobs, u) ELSE jobs
    /\ UNCHANGED <<panelVars, workVars, record, losses, lost, observed>>

(* start, stop, restart and delete are offered whatever the status. *)
Command(k, s) ==
    /\ Room
    /\ row[s] \in Live
    /\ jobs' = Append(jobs, Job(k, s, NoSite))
    /\ UNCHANGED <<panelVars, unqueued, workVars, record, losses, lost, observed>>

Push(s) ==
    /\ Room
    /\ s \in staging /\ row[s] \in Live
    /\ parent[s] # NoSite
    /\ jobs' = Append(jobs, Job("push", parent[s], s))
    /\ UNCHANGED <<panelVars, unqueued, workVars, record, losses, lost, observed>>
-------------------------------------------------------------------------------
(* The worker. *)

Goto(w, from, to) == at[w] \in from /\ at' = [at EXCEPT ![w] = to]

(* Mutant: any queued row is taken. *)
ClaimAny(w) ==
    \E j \in DOMAIN jobs :
        /\ Goto(w, {"idle"}, "claimed")
        /\ jobs[j].status = "queued"
        /\ jobs' = [jobs EXCEPT ![j].status = "running"]
        /\ held' = [held EXCEPT ![w] = j]
        /\ on' = [on EXCEPT ![w] = jobs[j].site]
        /\ UNCHANGED <<panelVars, unqueued, record, losses, lost, observed>>

Claim(w) ==
    \E j \in DOMAIN jobs :
        /\ Goto(w, {"idle"}, "claimed")
        /\ jobs[j].status = "queued"
        /\ \A i \in 1..(j - 1) : jobs[i].status # "queued"
        /\ jobs' = [jobs EXCEPT ![j].status = "running"]
        /\ held' = [held EXCEPT ![w] = j]
        /\ on' = [on EXCEPT ![w] = jobs[j].site]
        /\ raced' = raced \cup {s \in {jobs[j].site} \cap Sites :
                                  \E v \in Workers : at[v] # "idle" /\ on[v] = s}
        /\ UNCHANGED <<panelVars, unqueued, record, losses, lost, walked, revived>>

(* build_operation, when it yields an operation: it is posted. *)
Post(w) ==
    /\ Goto(w, {"claimed"}, "calling")
    /\ on[w] # NoSite
    /\ Kind(w) = "import" => row[on[w]] \in Live
    /\ UNCHANGED <<panelVars, unqueued, jobs, held, on, record, losses, lost, observed>>

(* build_operation yields nothing: the site's row is gone, or an import's
   source cannot be unsealed.  run takes that for a missing agent and walks the
   plan of the job, whether or not the panel runs with demo data. *)
WalkLocally(w) ==
    /\ Goto(w, {"claimed"}, "walking")
    /\ on[w] = NoSite \/ Kind(w) = "import"
    /\ walked' = walked \cup ({on[w]} \cap Sites)
    /\ UNCHANGED <<panelVars, unqueued, jobs, held, on, record, losses, lost, raced, revived>>

(* Mutant: a command is accepted for a site the agent has no record of. *)
AcceptsUnknown(k, s, src) == k \in {"copy", "push"} => record[src] # "none"

(* What the agent asks before it starts: most operations look up the record. *)
Accepts(k, s, src) ==
    CASE k = "create"           -> TRUE
      [] k = "import"           -> record[s] = "none"
      [] k \in {"copy", "push"} -> record[src] # "none"
      [] OTHER                  -> record[s] # "none"

(* What an operation leaves in the agent's index.  A site that is not healthy
   is recorded as Failed and the operation succeeds; a restart only reads the
   record. *)
Leaves(k, s) ==
    CASE k = "stop"    -> "stopped"
      [] k = "delete"  -> "none"
      [] k = "restart" -> record[s]
      [] OTHER         -> "up"

Perform(w) ==
    LET k == Kind(w) s == on[w] IN
    /\ Accepts(k, s, Source(w))
    /\ record' = [record EXCEPT ![s] = Leaves(k, s)]
    /\ revived' = IF k = "push" /\ record[s] = "none" THEN revived \cup {s} ELSE revived
    /\ UNCHANGED <<panelVars, unqueued, jobs, held, on, walked, raced>>

(* The agent completes the operation, or a check or command of it fails first. *)
Execute(w) ==
    \/ Goto(w, {"calling"}, "accepted") /\ Perform(w) /\ UNCHANGED <<losses, lost>>
    \/ /\ Goto(w, {"calling"}, "refused")
       /\ UNCHANGED <<panelVars, unqueued, jobs, held, on, record, losses, lost, observed>>

(* Mutant: a stop is recorded like a restart. *)
StopIsOnline(k, s) == IF k = "delete" THEN "deleted" ELSE "online"

EffectStatus(k, s) ==
    CASE k = "delete" -> "deleted"
      [] k = "stop"   -> "stopped"
      [] k = "push"   -> row[s]
      [] OTHER        -> "online"

(* apply_effects: nothing for a job whose site is NULL; an UPDATE of a row
   that is gone changes nothing; a DELETE nulls what refers to the row. *)
Effects(k, s) ==
    IF s = NoSite \/ row[s] \notin Live
    THEN UNCHANGED <<panelVars, jobs>>
    ELSE /\ row' = [row EXCEPT ![s] = EffectStatus(k, s)]
         /\ UNCHANGED staging
         /\ IF k # "delete" THEN UNCHANGED <<parent, jobs>>
            ELSE /\ parent' = [t \in Sites |-> IF parent[t] = s THEN NoSite ELSE parent[t]]
                 /\ jobs' = [j \in DOMAIN jobs |->
                               IF jobs[j].site = s THEN [jobs[j] EXCEPT !.site = NoSite] ELSE jobs[j]]

Apply(w) ==
    /\ Goto(w, {"accepted", "walking"}, "succeeding")
    /\ Effects(Kind(w), on[w])
    /\ UNCHANGED <<unqueued, held, on, record, losses, lost, observed>>

(* Mutants: a refusal is not looked at; a refused create is not marked. *)
MarkAsDone(w) ==
    /\ Goto(w, {"refused"}, "failing")
    /\ Effects(Kind(w), on[w])
    /\ UNCHANGED <<unqueued, held, on, record, losses, lost, observed>>
MarkNothing(w) ==
    /\ Goto(w, {"refused"}, "failing")
    /\ UNCHANGED <<panelVars, jobs, unqueued, held, on, record, losses, lost, observed>>

(* mark_site_failed knows SiteCreate only. *)
MarkSiteFailed(w) ==
    /\ Goto(w, {"refused"}, "failing")
    /\ row' = IF Kind(w) = "create" /\ row[on[w]] \in Live
              THEN [row EXCEPT ![on[w]] = "failed"] ELSE row
    /\ UNCHANGED <<parent, staging, jobs, unqueued, held, on, record, losses, lost, observed>>

Finish(w) ==
    /\ Goto(w, {"succeeding", "failing"}, "idle")
    /\ jobs' = [jobs EXCEPT ![held[w]].status =
                  IF at[w] = "succeeding" THEN "succeeded" ELSE "failed"]
    /\ held' = [held EXCEPT ![w] = 0]
    /\ on' = [on EXCEPT ![w] = NoSite]
    /\ UNCHANGED <<panelVars, unqueued, record, losses, lost, observed>>

Work(w) ==
    Claim(w) \/ Post(w) \/ WalkLocally(w) \/ Execute(w) \/ Apply(w) \/ MarkSiteFailed(w) \/ Finish(w)
-------------------------------------------------------------------------------
(* Losing an answer. *)

Lose(ss) ==
    /\ losses < MaxLosses
    /\ losses' = losses + 1
    /\ lost' = lost \cup (ss \cap Sites)

(* 300 s pass, or the connection breaks, whether or not the agent was done.
   The handler on the agent dies with the connection. *)
Timeout(w) ==
    /\ Lose({on[w]})
    /\ IF DemoData
       THEN Goto(w, {"calling", "accepted", "refused"}, "walking")
       ELSE Goto(w, {"calling", "accepted", "refused"}, "refused")
    /\ UNCHANGED <<panelVars, unqueued, jobs, held, on, record, observed>>

(* The agent's record changes in memory and cannot be written to disk: the
   operation reports a failure.  A restart writes none. *)
FlushFails(w) ==
    /\ Goto(w, {"calling"}, "refused")
    /\ Kind(w) # "restart"
    /\ Perform(w)
    /\ Lose({on[w]})

(* A statement of run fails: spawn fails the job. *)
StatementFails(w) ==
    /\ Goto(w, {"claimed", "accepted", "walking", "refused", "succeeding"}, "failing")
    /\ Lose({on[w]})
    /\ UNCHANGED <<panelVars, unqueued, jobs, held, on, record, observed>>

(* The panel restarts: workers and handlers go, running jobs are failed. *)
Restart ==
    /\ Lose({on[w] : w \in Workers} \cup {u.site : u \in unqueued})
    /\ jobs' = [j \in DOMAIN jobs |->
                  IF jobs[j].status = "running" THEN [jobs[j] EXCEPT !.status = "failed"] ELSE jobs[j]]
    /\ unqueued' = {}
    /\ at' = [w \in Workers |-> "idle"]
    /\ held' = [w \in Workers |-> 0]
    /\ on' = [w \in Workers |-> NoSite]
    /\ UNCHANGED <<panelVars, record, observed>>

Next ==
    \/ \E k \in Provisions, s \in Sites, src \in Sites \cup {NoSite} : InsertSite(k, s, src)
    \/ \E u \in unqueued : EnqueueSite(u)
    \/ \E k \in Commands, s \in Sites : Command(k, s)
    \/ \E s \in Sites : Push(s)
    \/ \E w \in Workers : Work(w) \/ Timeout(w) \/ FlushFails(w) \/ StatementFails(w)
    \/ Restart

Spec == Init /\ [][Next]_vars
-------------------------------------------------------------------------------
(* Every variable keeps its type. *)
TypeOK ==
    /\ row \in [Sites -> Live \cup {"absent", "deleted"}]
    /\ parent \in [Sites -> Sites \cup {NoSite}]
    /\ staging \in SUBSET Sites
    /\ unqueued \in SUBSET JobRows
    /\ jobs \in Seq(JobRows)
    /\ at \in [Workers -> {"idle", "claimed", "calling", "accepted", "refused",
                           "walking", "succeeding", "failing"}]
    /\ held \in [Workers -> Nat]
    /\ on \in [Workers -> Sites \cup {NoSite}]
    /\ record \in [Sites -> {"none", "up", "stopped"}]
    /\ losses \in Nat
    /\ lost \in SUBSET Sites /\ walked \in SUBSET Sites
    /\ raced \in SUBSET Sites /\ revived \in SUBSET Sites

(* The jobs table behaves like JobLedger, as JobQueue's does: what sites, agents
   and lost answers do to a job is an end of its row, and a delete nulls the
   site of rows without touching their status. *)
StatusColumn == [j \in 1..MaxJobs |-> IF j \in DOMAIN jobs THEN jobs[j].status ELSE "absent"]
Ledger == INSTANCE JobLedger WITH MaxJobs <- MaxJobs, status <- StatusColumn
LedgerSpec == Ledger!Spec

(* No worker has the site in hand, and no answer about it was ever lost. *)
Settled(s) == s \notin lost /\ \A w \in Workers : at[w] # "idle" => on[w] # s

(* A site shown as online or stopped is one its agent has a record of: whatever
   two workers do to it at once, the row is left behind only by a lost answer, or
   by an import that never reached the agent and was shown as done all the same. *)
RowHasRecord ==
    \A s \in Sites \ walked :
        Settled(s) /\ row[s] \in {"online", "stopped"} => record[s] # "none"

(* A site deleted from the panel is gone from its agent, or a push claimed
   before the delete rebuilt it there after the delete: the agent accepts a
   clone onto a site it has just removed. *)
OnlyAPushRevives ==
    \A s \in Sites : Settled(s) /\ row[s] = "deleted" => record[s] = "none" \/ s \in revived

(* A site is left provisioning for ever only by a failed clone, staging copy
   or import, which nothing marks, or by a loss. *)
StuckIsCopyOrLoss ==
    \A s \in Sites \ lost :
        row[s] = "provisioning" =>
            \/ \E u \in unqueued : u.site = s
            \/ \E j \in DOMAIN jobs :
                 /\ jobs[j].site = s
                 /\ \/ jobs[j].kind \in Provisions /\ jobs[j].status \in {"queued", "running"}
                    \/ jobs[j].kind \in {"copy", "import"} /\ jobs[j].status = "failed"

(* A restart shows the site as online and leaves the agent's record; a push
   leaves the row and records the target as up.  The two differ until a start or
   a stop brings them together again. *)
Parted(s) ==
    \E j \in DOMAIN jobs :
        /\ jobs[j].site = s /\ jobs[j].status = "succeeded" /\ jobs[j].kind \in {"restart", "push"}
        /\ \A i \in DOMAIN jobs : i > j /\ jobs[i].site = s /\ jobs[i].kind \in {"start", "stop"} =>
                                   jobs[i].status # "succeeded"

(* The row shows "stopped" exactly when the agent has the site down as stopped,
   until a restart or a push parts them, or two jobs for the site overlap. *)
StatusFollowsRecord ==
    \A s \in Sites \ (raced \cup walked \cup revived) :
        Settled(s) /\ row[s] \in Live => (row[s] = "stopped" <=> record[s] = "stopped") \/ Parted(s)
===============================================================================
