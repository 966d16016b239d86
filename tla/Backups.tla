-------------------------------- MODULE Backups --------------------------------
(***************************************************************************)
(* The backups of one site: the destinations, those its schedules name,    *)
(* the scheduler's copy of them, the jobs that take and restore snapshots, *)
(* the requests that sync them, the rows the panel keeps of them, and the  *)
(* repositories themselves.                                                *)
(*                                                                         *)
(* One action is one statement of the panel or one command of the agent,   *)
(* which has one permit for all operations.  for_site counts as one: when  *)
(* its two statements straddle a change it finds nothing, as if cut off.   *)
(* Which repository a job reads or writes is worked out when the job runs, *)
(* and worked out again when its result is recorded: people change the     *)
(* settings in between.  A destination stands for its repository.          *)
(*                                                                         *)
(* A row is found by the id it was recorded under.  A listing gives        *)
(* restic's short id; a backup gives the snapshot_id of its summary, which *)
(* is restic's affair, and here the short one or another.                  *)
(***************************************************************************)
EXTENDS Naturals, Sequences, FiniteSets, Functions

CONSTANTS
    Dests,      \* destinations there may be, by id; ids are not reused
    NoDest,       \* no destination
    Procs,      \* jobs, sync requests and entries of the scheduler's list
                \* that may be in flight
    Reported,   \* the id restic reports a backup by
    MaxPerSite, \* bound: schedules the site has
    MaxSnaps,   \* bound: snapshots ever taken
    MaxUpsets   \* bound: changes of the settings, and restores that stop halfway
                \* or lose their caller, in a behaviour

ASSUME BackupsAssumption ==
    /\ NoDest \notin Dests
    /\ IsFiniteSet(Dests)
    /\ Reported \in {"short", "other"}
    /\ {MaxSnaps, MaxUpsets, MaxPerSite} \subseteq Nat

Snaps  == 1 .. MaxSnaps
RowIds == Snaps \X {"short", "other"}

VARIABLES
    dests,      \* ids of backup_destinations
    used,       \* ids given out
    scheds,     \* destination_id of each schedule of the site, NoDest for none
    upsets,     \* changes of these settings, and such restores, so far
    held,       \* [snapshot -> the repository it was taken into, NoDest if not taken]
    pruned,     \* snapshots forgotten since
    rows,       \* [id -> the repositories its rows in backups name]
    at,         \* [process -> where it stands]
    staged,     \* snapshots with files in /tmp/restore-<site_id>
    loose,      \* the snapshot a restic restore without a caller is restoring, or 0
    moved,      \* observed: [snapshot -> whether the settings changed while its
                \* job was in flight, or only after it, or not at all; or it
                \* was taken for a second schedule, with a destination of its own]
    crossed,    \* observed: ids two writers looked for before either wrote
    torn        \* observed: since the directory was last removed a restore has
                \* ended halfway, or gone on without its caller

settings == <<dests, used, scheds>>
repos    == <<held, pruned>>
disk     == <<staged, loose, torn>>
observed == <<moved, crossed>>
backupVars == <<settings, repos, rows, at, disk, upsets, observed>>

Idle == [op |-> "none", stage |-> "idle", want |-> NoDest, pick |-> NoDest, snap |-> 0,
         todo |-> {}, found |-> 0, moved |-> "no"]

(* A process asks for the destination want, works on the repository pick,  *)
(* and concerns snapshot snap; todo are the snapshots a sync still records *)
(* and found the row the look-up came back with.                           *)
Ops    == {"none", "backup", "restore", "sync"}
Stages == {"idle", "due", "queued", "sent", "pruning", "naming", "looking", "writing", "fetched"}
Timings == {"no", "during", "second", "after"}
Taken  == {s \in Snaps : held[s] # NoDest}
In(d)  == {s \in Taken \ pruned : held[s] = d}

(* The agent works on one operation at a time.                             *)
PermitFree == \A p \in Procs : at[p].stage \notin {"pruning", "fetched"}

Become(p, r)   == at' = [at EXCEPT ![p] = r]
Goes(p, stage) == Become(p, [at[p] EXCEPT !.stage = stage])
Ends(p)        == Become(p, Idle)

BackupsInit ==
    /\ dests \in SUBSET Dests /\ used = dests
    /\ scheds \in UNION {[1..n -> dests] : n \in 0..MaxPerSite}
    /\ upsets = 0
    /\ held = [s \in Snaps |-> NoDest] /\ pruned = {}
    /\ rows = [id \in RowIds |-> <<>>]
    /\ at = [p \in Procs |-> Idle]
    /\ staged = {} /\ loose = 0 /\ torn = FALSE
    /\ moved = [s \in Snaps |-> "no"] /\ crossed = {}
-------------------------------------------------------------------------------
(* Settings.  A change overtakes every backup in flight, which may not have *)
(* its snapshot yet.                                                       *)

Upset == upsets < MaxUpsets /\ upsets' = upsets + 1

Awaits(p) == at[p].op = "backup" /\ at[p].snap = 0

Overtake ==
    /\ Upset
    /\ at' = [p \in Procs |-> [at[p] EXCEPT !.moved = IF Awaits(p) THEN "during" ELSE @]]
    /\ moved' = [s \in Snaps |->
         IF \E p \in Procs : at[p].op = "backup" /\ at[p].snap = s THEN "during"
         ELSE IF s \in Taken /\ moved[s] = "no" THEN "after" ELSE moved[s]]
    /\ UNCHANGED <<repos, rows, disk, crossed>>

CreateDestination(d) ==
    /\ d \notin used
    /\ dests' = dests \cup {d} /\ used' = used \cup {d}
    /\ UNCHANGED scheds
    /\ Overtake

(* ON DELETE SET NULL: a schedule loses its destination.                   *)
DeleteDestination(d) ==
    /\ d \in dests
    /\ dests' = dests \ {d}
    /\ scheds' = [i \in DOMAIN scheds |-> IF scheds[i] = d THEN NoDest ELSE scheds[i]]
    /\ UNCHANGED used
    /\ Overtake

(* The destination must exist, for the look-up and for the foreign key.    *)
(* upsert changes the schedule it finds; one that looked before another    *)
(* inserted adds a second (BackupScheduler's Create).                      *)
SaveSchedule(d) ==
    /\ d \in dests
    /\ \/ scheds # <<>> /\ scheds[1] # d /\ scheds' = [scheds EXCEPT ![1] = d]
       \/ Len(scheds) < MaxPerSite /\ scheds' = Append(scheds, d)
    /\ UNCHANGED <<dests, used>>
    /\ Overtake

DeleteSchedule ==
    /\ scheds # <<>>
    /\ scheds' = Tail(scheds)
    /\ UNCHANGED <<dests, used>>
    /\ Overtake
-------------------------------------------------------------------------------
(* Which destination.                                                      *)

(* The first schedule with a destination says which.                       *)
Scheduled ==
    LET First(i) == /\ i \in DOMAIN scheds /\ scheds[i] # NoDest
                    /\ \A k \in DOMAIN scheds : k < i => scheds[k] = NoDest
    IN  IF \E i \in DOMAIN scheds : First(i)
        THEN scheds[CHOOSE i \in DOMAIN scheds : First(i)] ELSE NoDest

(* Mutant: the schedule is not asked. *)
TheOnlyOne == IF Cardinality(dests) = 1 THEN CHOOSE d \in dests : TRUE ELSE NoDest

(* for_site: the destination scheduled, or the only one.                   *)
DestForSite ==
    IF Scheduled # NoDest THEN Scheduled
    ELSE IF Cardinality(dests) = 1 THEN CHOOSE d \in dests : TRUE ELSE NoDest
-------------------------------------------------------------------------------
(* What is asked for.  tick reads the due schedules once, and goes on with *)
(* that copy: an entry becomes a job with the destination that was read,   *)
(* unless a backup is active.  A user's backup names none.                 *)

DueEntry(d) == [Idle EXCEPT !.op = "backup", !.stage = "due", !.want = d,
                            !.moved = IF d \in {NoDest, Scheduled} THEN "no" ELSE "second"]

ReadDue ==
    /\ \A p \in Procs : at[p].stage # "due"
    /\ \E free \in SUBSET {p \in Procs : at[p] = Idle} \ {{}} : \E f \in Injection(free, DOMAIN scheds) :
         at' = [p \in Procs |-> IF p \in free THEN DueEntry(scheds[f[p]]) ELSE at[p]]
    /\ UNCHANGED <<settings, upsets, repos, rows, disk, observed>>

ScheduledBackup(p) ==
    /\ at[p].stage = "due"
    /\ IF \E q \in Procs : at[q].op = "backup" /\ at[q].stage # "due" THEN Ends(p) ELSE Goes(p, "queued")
    /\ UNCHANGED <<settings, upsets, repos, rows, disk, observed>>

Asked(p, op, snap) ==
    /\ at[p] = Idle
    /\ Become(p, [Idle EXCEPT !.op = op, !.stage = "queued", !.snap = snap])
    /\ UNCHANGED <<settings, upsets, repos, rows, disk, observed>>

UserBackup(p) == Asked(p, "backup", 0)

(* The request names a snapshot the panel lists, not its repository.       *)
RestoreBackup(p) == \E id \in RowIds : rows[id] # <<>> /\ Asked(p, "restore", id[1])

(* A sync asks for_site at once, and is refused if that says nothing.      *)
SyncBackups(p) ==
    /\ at[p] = Idle /\ DestForSite # NoDest
    /\ Become(p, [Idle EXCEPT !.op = "sync", !.stage = "sent", !.pick = DestForSite])
    /\ UNCHANGED <<settings, upsets, repos, rows, disk, observed>>
-------------------------------------------------------------------------------
(* resolve_restic_target: the destination the payload names, which nothing *)
(* replaces when it is gone, or else that of the site.                     *)
Resolve(p) ==
    /\ at[p].stage = "queued"
    /\ LET want == at[p].want
           d == IF want = NoDest THEN DestForSite ELSE IF want \in dests THEN want ELSE NoDest
       IN  Become(p, [at[p] EXCEPT !.stage = "sent", !.want = NoDest, !.pick = d])
    /\ UNCHANGED <<settings, upsets, repos, rows, disk, observed>>

(* apply_effects asks for_site how to name the repository, and none will   *)
(* do.  That the statement itself fails, which names none as well, is left *)
(* out.                                                                    *)
Name(p) ==
    /\ at[p].stage = "naming"
    /\ Become(p, [at[p] EXCEPT !.stage = "looking", !.pick = DestForSite])
    /\ UNCHANGED <<settings, upsets, repos, rows, disk, observed>>
-------------------------------------------------------------------------------
(* The agent's commands.  Without a target they fail.                      *)

Sent(p, op) == at[p].stage = "sent" /\ at[p].op = op /\ PermitFree

(* Mutant: an empty target is not noticed. *)
SnapshotAnyway(p) ==
    /\ Sent(p, "backup")
    /\ Snaps \ Taken # {}
    /\ LET s == Cardinality(Taken) + 1 IN
         /\ held' = [held EXCEPT ![s] = at[p].pick]
         /\ Become(p, [at[p] EXCEPT !.stage = "pruning", !.snap = s, !.moved = "no"])
         /\ moved' = [moved EXCEPT ![s] = at[p].moved]
    /\ UNCHANGED <<settings, upsets, pruned, rows, disk, crossed>>

(* restic backup.                                                          *)
Snapshot(p) ==
    /\ Sent(p, "backup") /\ at[p].pick # NoDest
    /\ Snaps \ Taken # {}
    /\ LET s == Cardinality(Taken) + 1 IN
         /\ held' = [held EXCEPT ![s] = at[p].pick]
         /\ Become(p, [at[p] EXCEPT !.stage = "pruning", !.snap = s, !.moved = "no"])
         /\ moved' = [moved EXCEPT ![s] = at[p].moved]
    /\ UNCHANGED <<settings, upsets, pruned, rows, disk, crossed>>

(* restic forget --prune: any but the newest of the site's snapshots may   *)
(* go.                                                                     *)
Prune(p) ==
    /\ at[p].stage = "pruning"
    /\ LET there == In(held[at[p].snap])
       IN  \E old \in SUBSET {s \in there : \E n \in there : n > s} : pruned' = pruned \cup old
    /\ Become(p, [at[p] EXCEPT !.stage = "naming", !.pick = NoDest])
    /\ UNCHANGED <<settings, upsets, held, rows, disk, observed>>

(* restic snapshots, newest first: the first will be recorded first.       *)
List(p) ==
    /\ Sent(p, "sync")
    /\ IF In(at[p].pick) = {} THEN Ends(p)
       ELSE Become(p, [at[p] EXCEPT !.stage = "looking", !.todo = In(at[p].pick)])
    /\ UNCHANGED <<settings, upsets, repos, rows, disk, observed>>

(* A command fails, the agent or the panel goes down, the connection or a  *)
(* statement is lost: the job or the request ends where it stands, and the *)
(* permit is free.  Without a target, or with a snapshot its repository    *)
(* does not hold, it must.                                                 *)
Cut(p) ==
    /\ at[p].stage # "idle"
    /\ Ends(p)
    /\ IF at[p].stage = "fetched" THEN Upset /\ torn' = TRUE ELSE UNCHANGED <<upsets, torn>>
    /\ UNCHANGED <<settings, repos, rows, staged, loose, observed>>

(* restic restore into the one directory the site has for it.  It may stop *)
(* halfway, or its caller may give up and the command go on.               *)
Fetch(p) ==
    /\ Sent(p, "restore") /\ at[p].pick # NoDest
    /\ at[p].snap \in In(at[p].pick)
    /\ staged' = staged \cup {at[p].snap}
    /\ \/ Goes(p, "fetched") /\ UNCHANGED <<loose, torn, upsets>>
       \/ Ends(p) /\ Upset /\ torn' = TRUE /\ loose' \in {loose, at[p].snap}
    /\ UNCHANGED <<settings, repos, rows, observed>>

(* The command has written beside the restores that followed, and ends.    *)
(* Bound: one such command at a time.                                      *)
FetchAlone ==
    /\ loose # 0
    /\ staged' = staged \cup {loose} /\ torn' = TRUE
    /\ loose' = 0
    /\ UNCHANGED <<settings, upsets, repos, rows, at, observed>>

(* Mutant: the directory stays. *)
KeepStaged(p) ==
    /\ at[p].stage = "fetched"
    /\ Ends(p)
    /\ torn' = FALSE
    /\ UNCHANGED <<settings, upsets, repos, rows, staged, loose, observed>>

(* rsync --delete onto the site and rm -rf of the directory; a restore that *)
(* fails in between leaves what one leaves that fails before.              *)
Replace(p) ==
    /\ at[p].stage = "fetched"
    /\ staged' = {}
    /\ Ends(p)
    /\ torn' = FALSE
    /\ UNCHANGED <<settings, upsets, repos, rows, loose, observed>>
-------------------------------------------------------------------------------
(* upsert_backup: look, then write.                                        *)

(* What process p looks for: its own snapshot, the newest left to a sync.  *)
Wants(p, s) ==
    IF at[p].op = "backup" THEN s = at[p].snap
    ELSE s \in at[p].todo /\ \A n \in at[p].todo : n <= s

(* The id it has for snapshot s.                                           *)
IdOf(p, s) == <<s, IF at[p].op = "backup" THEN Reported ELSE "short">>

(* About to insert a row with this id.                                     *)
Inserts(p, id) == at[p].stage = "writing" /\ IdOf(p, at[p].snap) = id /\ at[p].found = 0

(* Mutant: a snapshot is always taken for new. *)
LookAway(p) ==
    /\ at[p].stage = "looking"
    /\ \E s \in Snaps :
         /\ Wants(p, s)
         /\ Become(p, [at[p] EXCEPT !.stage = "writing", !.snap = s, !.found = 0])
    /\ UNCHANGED <<settings, upsets, repos, rows, disk, observed>>

Look(p) ==
    /\ at[p].stage = "looking"
    /\ \E s \in Snaps :
         /\ Wants(p, s)
         /\ Become(p, [at[p] EXCEPT !.stage = "writing", !.snap = s,
                                                   !.found = IF rows[IdOf(p, s)] = <<>> THEN 0 ELSE 1])
         /\ crossed' = IF \E q \in Procs \ {p} : Inserts(q, IdOf(p, s))
                       THEN crossed \cup {IdOf(p, s)} ELSE crossed
    /\ UNCHANGED <<settings, upsets, repos, rows, disk, moved>>

(* Mutant: a sync names the repository that for_site says now. *)
WriteNow(p) ==
    /\ at[p].stage = "writing"
    /\ LET s == at[p].snap
           name == IF at[p].op = "sync" THEN DestForSite ELSE at[p].pick
           left == at[p].todo \ {s} IN
         /\ rows' = [rows EXCEPT ![IdOf(p, s)] =
              IF at[p].found = 0 THEN Append(@, name)
              ELSE IF name = NoDest THEN @ ELSE [@ EXCEPT ![1] = name]]
         /\ IF left = {} THEN Ends(p)
            ELSE Become(p, [at[p] EXCEPT !.stage = "looking", !.snap = 0, !.todo = left, !.found = 0])
    /\ UNCHANGED <<settings, upsets, repos, disk, observed>>

(* The row found keeps its name when there is none to give it; else a new  *)
(* row.  A sync goes on with what is left.                                 *)
Write(p) ==
    /\ at[p].stage = "writing"
    /\ LET s == at[p].snap
           left == at[p].todo \ {s} IN
         /\ rows' = [rows EXCEPT ![IdOf(p, s)] =
              IF at[p].found = 0 THEN Append(@, at[p].pick)
              ELSE IF at[p].pick = NoDest THEN @ ELSE [@ EXCEPT ![1] = at[p].pick]]
         /\ IF left = {} THEN Ends(p)
            ELSE Become(p, [at[p] EXCEPT !.stage = "looking", !.snap = 0, !.todo = left, !.found = 0])
    /\ UNCHANGED <<settings, upsets, repos, disk, observed>>
-------------------------------------------------------------------------------
Setting ==
    \/ \E d \in Dests : CreateDestination(d) \/ DeleteDestination(d) \/ SaveSchedule(d)
    \/ DeleteSchedule

Ask(p) == UserBackup(p) \/ RestoreBackup(p) \/ SyncBackups(p)
Panel(p) == ScheduledBackup(p) \/ Resolve(p) \/ Name(p) \/ Look(p) \/ Write(p)
Agent(p) == Snapshot(p) \/ Prune(p) \/ List(p) \/ Fetch(p) \/ Replace(p)

BackupsNext ==
    \/ Setting
    \/ ReadDue
    \/ FetchAlone
    \/ \E p \in Procs : Ask(p) \/ Panel(p) \/ Agent(p) \/ Cut(p)

BackupsSpec == BackupsInit /\ [][BackupsNext]_backupVars
-------------------------------------------------------------------------------
(* Every variable has its type, and a backup that prunes or records has a  *)
(* snapshot in a repository (Snapshot fails without a target).             *)
BackupsTypeOK ==
    /\ used \subseteq Dests /\ dests \subseteq used
    /\ scheds \in Seq(dests \cup {NoDest})
    /\ held \in [Snaps -> Dests \cup {NoDest}] /\ pruned \subseteq Taken
    /\ rows \in [RowIds -> Seq(Dests \cup {NoDest})]
    /\ at \in [Procs -> [op : Ops, stage : Stages, want : Dests \cup {NoDest},
                         pick : Dests \cup {NoDest}, snap : Snaps \cup {0},
                         todo : SUBSET Snaps, found : {0, 1}, moved : Timings \ {"after"}]]
    /\ staged \subseteq Taken /\ loose \in Taken \cup {0}
    /\ moved \in [Snaps -> Timings]
    /\ upsets \in Nat
    /\ crossed \subseteq RowIds /\ torn \in BOOLEAN
    /\ \A p \in Procs : at[p].stage \in {"pruning", "writing"} => at[p].snap \in Taken

(* An id has one row, whatever records it how often, unless two writers     *)
(* looked for it before either wrote: upsert_backup looks and then inserts, *)
(* and no index keeps a second row out.  It is the id that has one, not    *)
(* the snapshot: a backup may report it under another id than the listing. *)
OneRowUnlessCrossed ==
    \A id \in RowIds : Len(rows[id]) > 1 => id \in crossed

(* The repository a row names is the one that holds its snapshot, unless   *)
(* the settings changed while the job that took it was in flight, for a    *)
(* scheduled one since tick read its schedule, or the schedule was not the *)
(* one that for_site goes by: apply_effects names what for_site says after *)
(* the backup, not the target the backup was sent.  A sync names what it   *)
(* read.                                                                   *)
RowNamesHolder ==
    \A id \in RowIds : \A i \in DOMAIN rows[id] :
        rows[id][i] \notin {NoDest, held[id[1]]} => moved[id[1]] \in {"during", "second"}

(* A restore is sent the repository that holds its snapshot, unless the    *)
(* settings have changed since the backup was asked for, a scheduled one   *)
(* since tick read its schedule, or the schedule was not the one that      *)
(* for_site goes by: the request to restore does not name the repository,  *)
(* and the job works it out anew.                                          *)
RestoreFindsSnapshot ==
    \A p \in Procs :
        at[p].op = "restore" /\ at[p].stage = "sent" /\ moved[at[p].snap] = "no"
          => at[p].pick = held[at[p].snap]

(* What a restore is about to copy onto the site is its own snapshot, and  *)
(* nothing else, unless an earlier one has left its files in the directory *)
(* or is still writing there.                                              *)
CopiesOneSnapshot ==
    \A p \in Procs : at[p].stage = "fetched" => staged = {at[p].snap} \/ torn
===============================================================================
