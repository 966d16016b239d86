--------------------------------- MODULE Alerts --------------------------------
(***************************************************************************)
(* Servers, their heartbeat, and the alerts kept about them and about the  *)
(* sites (jobs.rs heartbeat_loop, alerts.rs, db/notifications.rs,          *)
(* web/servers.rs).                                                        *)
(*                                                                         *)
(* Three tasks and the requests share the database.  The heartbeat lists   *)
(* the servers and then polls one after the other; an evaluation lists     *)
(* servers, sites and schedules in turn and works through each list as it  *)
(* was read; a server's removal counts its sites in one statement and      *)
(* deletes in the next.  Rows come and go in between.  A notification is   *)
(* about a name, a rule's other end is a row: one does not take the other  *)
(* with it.                                                                *)
(*                                                                         *)
(* A row that is deleted is never found again under its id, though a new   *)
(* one may take its name.                                                  *)
(***************************************************************************)
EXTENDS Naturals

CONSTANTS
    Names,        \* names of servers, which are unique
    Sites,        \* domains
    None,         \* no such row, nothing under way
    MaxFaults     \* bound: statements of evaluations that fail

VARIABLES
    servers,      \* [name -> its row, or None]
    sites,        \* [domain -> its row, or None]
    open,         \* [alert -> how many open notifications there are of it]
    phase,        \* the list an evaluation is working through
    todo,         \* what is left of it
    adding,       \* the alert no open notification was found of, or None
    removing,     \* the server whose sites were counted as zero, or None
    faults,       \* statements of evaluations that failed so far
    late          \* observed: sites created on it since

rows  == <<servers, sites>>
eval  == <<phase, todo, adding, faults>>
vars  == <<rows, open, eval, removing, late>>

(* up: the status is not offline.  full: the metrics stored last show more  *)
(* than 85% of the disk used.                                               *)
Server == [up: BOOLEAN, full: BOOLEAN]
(* cert: how far off ssl_expires_at is, "near" below 14 days.  stale: the   *)
(* last backup is older than 48 hours, or there is none.                    *)
Site   == [on: Names, failed: BOOLEAN, cert: {"none", "far", "near", "past"},
           scheduled: BOOLEAN, stale: BOOLEAN]

ASSUME AlertsAssumption ==
    /\ MaxFaults \in Nat
    /\ None \notin Names
    /\ None \notin Server
    /\ None \notin Site

SiteRules == {"ssl.expiring", "site.offline", "backup.stale"}
Kinds     == ({"disk.high"} \X Names) \cup (SiteRules \X Sites)
Verdict   == [alert: Kinds, fires: BOOLEAN]
Phases    == {"idle", "servers", "sites", "schedules"}

Attached == {n \in Names : servers[n] # None}
Present  == {s \in Sites : sites[s] # None}
On(n)    == {s \in Present : sites[s].on = n}

Init ==
    /\ servers = [n \in Names |-> None]
    /\ sites = [s \in Sites |-> None]
    /\ open = [a \in Kinds |-> 0]
    /\ phase = "idle"
    /\ todo = {}
    /\ adding = None
    /\ removing = None
    /\ faults = 0
    /\ late = {}

-----------------------------------------------------------------------------
(* The heartbeat. *)

(* The agent answers with metrics, with something else, or not at all; the  *)
(* metrics of before are kept when there are none.  The write may fail, and *)
(* updates no row when the server is gone since it was listed.              *)
Poll(n) ==
    /\ n \in Attached
    /\ servers' \in {[servers EXCEPT ![n] = row] :
           row \in [up: {TRUE}, full: BOOLEAN]
                   \cup {[servers[n] EXCEPT !.up = up] : up \in BOOLEAN}}
    /\ UNCHANGED <<sites, open, eval, removing, late>>

-----------------------------------------------------------------------------
(* An evaluation, once a minute. *)

ServerVerdicts ==
    {[alert |-> <<"disk.high", n>>, fires |-> servers[n].full] :
        n \in {m \in Attached : servers[m].up}}

(* A certificate past its date no longer expires: its alert is resolved.    *)
SiteVerdicts ==
    {[alert |-> <<"ssl.expiring", s>>, fires |-> sites[s].cert = "near"] :
        s \in {t \in Present : sites[t].cert # "none"}}
    \cup {[alert |-> <<"site.offline", s>>, fires |-> sites[s].failed] : s \in Present}

(* Of a schedule only the site is kept: its last backup is read later.      *)
Scheduled ==
    {[alert |-> <<"backup.stale", s>>, fires |-> FALSE] :
        s \in {t \in Present : sites[t].scheduled}}

Fault == faults < MaxFaults /\ faults' = faults + 1

(* A list that cannot be read is taken for an empty one. *)
Reads(from, to, list) ==
    /\ phase = from
    /\ todo = {} /\ adding = None
    /\ phase' = to
    /\ \/ todo' = list /\ UNCHANGED faults
       \/ todo' = {} /\ Fault
    /\ UNCHANGED <<rows, open, adding, removing, late>>

ReadServers   == Reads("idle", "servers", ServerVerdicts)
ReadSites     == Reads("servers", "sites", SiteVerdicts)
ReadSchedules == Reads("sites", "schedules", Scheduled)
Rests ==
    /\ phase = "schedules"
    /\ todo = {} /\ adding = None
    /\ phase' = "idle"
    /\ UNCHANGED <<rows, open, todo, adding, faults, removing, late>>

(* open_if_absent looks for an open notification, and inserts one in its    *)
(* next statement.  Somebody may resolve in between what it has found.      *)
OpenIfAbsent(a) == adding' = (IF open[a] = 0 THEN a ELSE None) /\ UNCHANGED open
ResolveRule(a)  == open' = [open EXCEPT ![a] = 0] /\ UNCHANGED adding

Tells(v, fires) ==
    /\ adding = None
    /\ IF fires THEN OpenIfAbsent(v.alert) ELSE ResolveRule(v.alert)
    /\ todo' = todo \ {v}
    /\ UNCHANGED <<rows, phase, removing, late>>

(* Mutant: what fires is told, the end of it is not. *)
TellOnlyFiring(v) ==
    /\ phase \in {"servers", "sites"}
    /\ adding = None
    /\ IF v.fires THEN OpenIfAbsent(v.alert) ELSE UNCHANGED <<open, adding>>
    /\ todo' = todo \ {v}
    /\ UNCHANGED <<rows, phase, faults, removing, late>>
TellListed(v) ==
    /\ phase \in {"servers", "sites"}
    /\ Tells(v, v.fires)
    /\ UNCHANGED faults

TellSchedule(v) ==
    /\ phase = "schedules"
    /\ Tells(v, sites[v.alert[2]].stale)
    /\ UNCHANGED faults

(* A last backup that cannot be read is taken for none. *)
TellUnread(v) ==
    /\ phase = "schedules"
    /\ Fault
    /\ Tells(v, TRUE)

(* INSERT INTO notifications. *)
Insert ==
    /\ adding # None
    /\ open' = [open EXCEPT ![adding] = @ + 1]
    /\ adding' = None
    /\ UNCHANGED <<rows, phase, todo, faults, removing, late>>

(* let _ = open_if_absent(..), let _ = resolve_rule(..): an error is dropped. *)
TellFails(v) ==
    /\ adding = None
    /\ Fault
    /\ todo' = todo \ {v}
    /\ UNCHANGED <<rows, open, phase, adding, removing, late>>
InsertFails ==
    /\ adding # None
    /\ Fault
    /\ adding' = None
    /\ UNCHANGED <<rows, open, phase, todo, removing, late>>

Evaluate ==
    \/ ReadServers \/ ReadSites \/ ReadSchedules \/ Rests
    \/ Insert \/ InsertFails
    \/ \E v \in todo : TellListed(v) \/ TellSchedule(v) \/ TellUnread(v) \/ TellFails(v)

(* Somebody resolves one by hand. *)
Resolve(a) ==
    /\ open[a] > 0
    /\ open' = [open EXCEPT ![a] = @ - 1]
    /\ UNCHANGED <<rows, eval, removing, late>>

-----------------------------------------------------------------------------
(* Servers come and go. *)

(* The agent is asked at once whether it answers. *)
Create(n) ==
    /\ n \notin Attached
    /\ \E up \in BOOLEAN : servers' = [servers EXCEPT ![n] = [up |-> up, full |-> FALSE]]
    /\ UNCHANGED <<sites, open, eval, removing, late>>

(* Mutant: the sites are not counted. *)
AskDelete(n) ==
    /\ removing = None
    /\ n \in Attached
    /\ removing' = n
    /\ UNCHANGED <<rows, open, eval, late>>
(* A server with sites is not deleted. *)
CountSites(n) ==
    /\ removing = None
    /\ n \in Attached
    /\ On(n) = {}
    /\ removing' = n
    /\ UNCHANGED <<rows, open, eval, late>>

(* The rows of schedules whose sites are gone find nothing. *)
Forgets(gone) ==
    todo' = IF phase = "schedules" THEN {v \in todo : v.alert[2] \notin gone} ELSE todo

(* DELETE cascades to the sites, and from them to their schedules. *)
Delete ==
    /\ removing # None
    /\ servers' = [servers EXCEPT ![removing] = None]
    /\ sites' = [s \in Sites |-> IF s \in On(removing) THEN None ELSE sites[s]]
    /\ Forgets(On(removing))
    /\ removing' = None
    /\ late' = {}
    /\ UNCHANGED <<open, phase, adding, faults>>

DeleteFails ==
    /\ removing # None
    /\ removing' = None
    /\ late' = {}
    /\ UNCHANGED <<rows, open, eval>>

(* A site's row names a server that is there. *)
CreateSite(s, n) ==
    /\ s \notin Present
    /\ n \in Attached
    /\ sites' = [sites EXCEPT ![s] =
           [on |-> n, failed |-> FALSE, cert |-> "none", scheduled |-> FALSE, stale |-> TRUE]]
    /\ late' = IF removing = n THEN late \cup {s} ELSE late
    /\ UNCHANGED <<servers, open, eval, removing>>

DeleteSite(s) ==
    /\ s \in Present
    /\ sites' = [sites EXCEPT ![s] = None]
    /\ Forgets({s})
    /\ UNCHANGED <<servers, open, phase, adding, faults, removing, late>>

(* What jobs, schedules and time do to a site's row. *)
Becomes(s, row) ==
    /\ sites' = [sites EXCEPT ![s] = row]
    /\ UNCHANGED <<servers, open, eval, removing, late>>

SetStatus(s, failed) == Becomes(s, [sites[s] EXCEPT !.failed = failed])
SetSsl(s)            == Becomes(s, [sites[s] EXCEPT !.cert = "far"])
SetSchedule(s, on)   == Becomes(s, [sites[s] EXCEPT !.scheduled = on])
BackedUp(s)          == Becomes(s, [sites[s] EXCEPT !.stale = FALSE])
Days(s) ==
    \/ sites[s].cert = "far" /\ Becomes(s, [sites[s] EXCEPT !.cert = "near"])
    \/ sites[s].cert = "near" /\ Becomes(s, [sites[s] EXCEPT !.cert = "past"])
    \/ Becomes(s, [sites[s] EXCEPT !.stale = TRUE])

SiteChanges(s) ==
    /\ s \in Present
    /\ \/ \E b \in BOOLEAN : SetStatus(s, b) \/ SetSchedule(s, b)
       \/ SetSsl(s) \/ BackedUp(s) \/ Days(s)

Next ==
    \/ \E n \in Names : Poll(n)
    \/ Evaluate \/ \E a \in Kinds : Resolve(a)
    \/ \E n \in Names : Create(n) \/ CountSites(n)
    \/ Delete \/ DeleteFails
    \/ \E s \in Sites : SiteChanges(s) \/ DeleteSite(s) \/ \E n \in Names : CreateSite(s, n)

Spec == Init /\ [][Next]_vars

(* alerts_loop never ends, and its ticker fires. *)
FairSpec == Spec /\ WF_vars(Evaluate)

-----------------------------------------------------------------------------
(* Every variable keeps its type. *)
TypeOK ==
    /\ servers \in [Names -> Server \cup {None}]
    /\ sites \in [Sites -> Site \cup {None}]
    /\ open \in [Kinds -> Nat]
    /\ phase \in Phases
    /\ todo \subseteq Verdict
    /\ adding \in Kinds \cup {None}
    /\ removing \in Names \cup {None}
    /\ faults \in 0..MaxFaults
    /\ late \subseteq Sites

(* A server's removal takes a site along only when the site was created     *)
(* after its sites were counted.                                            *)
LostOnlyIfLate ==
    [][\A n \in Attached : servers'[n] = None => On(n) \subseteq late]_vars

(* When a rule's condition holds of a row, and when it says that it does    *)
(* not: an offline server, and a site without a certificate or a schedule,  *)
(* are passed over.                                                         *)
Fires(a) ==
    CASE a[1] = "disk.high"    -> servers[a[2]] # None /\ servers[a[2]].up /\ servers[a[2]].full
      [] a[1] = "ssl.expiring" -> sites[a[2]] # None /\ sites[a[2]].cert = "near"
      [] a[1] = "site.offline" -> sites[a[2]] # None /\ sites[a[2]].failed
      [] a[1] = "backup.stale" -> sites[a[2]] # None /\ sites[a[2]].scheduled /\ sites[a[2]].stale
Calm(a) ==
    CASE a[1] = "disk.high"    -> servers[a[2]] # None /\ servers[a[2]].up /\ ~servers[a[2]].full
      [] a[1] = "ssl.expiring" -> sites[a[2]] # None /\ sites[a[2]].cert \in {"far", "past"}
      [] a[1] = "site.offline" -> sites[a[2]] # None /\ ~sites[a[2]].failed
      [] a[1] = "backup.stale" -> sites[a[2]] # None /\ sites[a[2]].scheduled /\ ~sites[a[2]].stale

(* An alert follows its condition, whatever comes and goes while the lists  *)
(* are worked through.  The alert of a row that is gone, or passed over, is *)
(* nobody's: it stays until somebody resolves it.                           *)
AlertFollows == \A a \in Kinds :
    /\ Fires(a) ~> (~Fires(a) \/ open[a] > 0)
    /\ Calm(a) ~> (~Calm(a) \/ open[a] = 0)

=============================================================================
