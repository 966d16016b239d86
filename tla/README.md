# WPressForge in TLA+

WPressForge is a control panel for WordPress hosting: a **panel** (one process, one
SQLite database) and an **agent** on every server. This directory holds TLA+ models of
the parts of it whose correctness depends on the order of things, the TLC
configurations that check them, and proofs of what matters most.

    tlc -workers 2 -config JobQueue.cfg MCJobQueue.tla
    tlapm JobQueueProofs.tla

`PROJECT.json` lists the runs, the mutants each property is known to catch, the source
lines behind every definition, the hazards and the theorems.

## 1. Inventory

| component | state | operations | talks to |
|---|---|---|---|
| Job queue (`panel/src/jobs.rs`, `db/jobs.rs`) | table `jobs`, one loop per worker, `job_signal` | enqueue, claim, run, finish, requeue at boot | every handler that acts on a site (inserts), scheduler (inserts), agent client (calls) |
| Site lifecycle (`web/sites.rs`, `web/imports.rs`, `db/sites.rs`, `build_operation`/`apply_effects`) | tables `sites`, `domains`; agent `SiteRecord`s | create, import, clone, staging, push, start, stop, restart, delete | job queue, agent |
| Agent API (`agent/src/api.rs`, `state.rs`, `exec.rs`) | map `SEEN`, `Semaphore(1)`, child processes | one POST: authorise, deduplicate, lock, dispatch, answer | panel's client (300 s timeout), host operations |
| Host operations (`agent/src/ops/site.rs`, `import.rs`, `docker.rs`, `webserver.rs`, `ssl.rs`, `store.rs`) | users, trees, databases, containers, vhosts, certificates, the index of `store.rs` | the 20 or so handlers of `ops/mod.rs` that change something | commands on the host; started by the agent API under its permit |
| Page cache (`ops/nginx.rs`, `ops/mu_plugin.rs`) | nginx's `fastcgi_cache` of a site | visits, WordPress's hooks, purge, clear | host operations write the vhost and the plugin |
| Backup scheduler (`scheduler.rs`, `db/schedules.rs`) | table `backup_schedules`, one task | tick every 60 s; save and remove a schedule | job queue, sites |
| Backups and destinations (`agent/src/ops/backup.rs`, `db/destinations.rs`, `upsert_backup`) | tables `backups`, `backup_destinations`; restic repositories; `/tmp/restore-<site_id>` | create and delete a destination, back up, record, sync, restore | scheduler, job queue, agent |
| Teams (`db/teams.rs`, `web/users.rs`) | `users.role`, `site_users`, `invitation_tokens` | invite, register, change role, remove, grant, revoke | sessions |
| Authentication (`auth.rs`, `csrf.rs`, `totp.rs`, `db/tokens.rs`) | `sessions`, `login_attempts`, `api_tokens`, pending second factors | sign in, sign out, throttle, tokens | every handler |
| Alerts (`alerts.rs`, `db/notifications.rs`) | table `notifications` | evaluate every 60 s; resolve, also by hand | servers, sites, schedules |
| Heartbeat and servers (`heartbeat_loop`, `web/servers.rs`) | `servers`, metrics history | query, record, prune; add and delete a server | agent, alerts, sites (cascade) |

Everything in the panel is a Tokio task; tasks interleave at every `.await`, and no
handler uses a transaction over more than one statement. A statement is the unit of
atomicity; a handler, a worker or the scheduler may be overtaken, fail, or die with the
process between any two of them. What is hard follows from that:

* several workers claim from one table, and two of them may hold jobs of one site;
* the wake-up signal is `notify_waiters`, which is lost on a worker that is about to wait;
* a claim is two statements, a success is three writes, a creation is a site row and then
  a job row; each pair can be cut by a failure or a crash;
* the agent's call has a timeout, so "failed" means "not known to have succeeded";
* deletes null (`ON DELETE SET NULL`) or remove (`CASCADE`) rows other tasks have in hand;
* the agent's permit lives in a future that a disconnecting client destroys, the command
  it was waiting for lives on;
* where a backup goes is worked out when its job runs and again when it is recorded, where
  a restore reads from when it runs: settings change in between;
* the scheduler decides on a copy of the schedules it read at the start of its tick, and
  sends backups where that copy says; an evaluation of the alerts works on copies of three lists;
* a panic anywhere ends the whole panel, in the build that is deployed (`Cargo.toml:59`);
* a host operation is a row of commands without an undo, which writes its record last: what
  fails or is dropped in the middle is on the host and in no index;
* the throttle counts before a password is checked and records after, and the account is
  read once per request while other requests change it;
* the cache's purge is a request nobody waits for, to a key the plugin works out.

What makes each component correct is stated as the properties of sections 3 and 4; the
hazards of `PROJECT.json` name the lines that put it at risk.

## 2. Modules

| module | models | role |
|---|---|---|
| `JobLedger` | the status column of `jobs` as a promise | abstract specification |
| `JobQueue` | the table, the worker loop, the signal, crashes and boots | implements `JobLedger` |
| `JobQueueProofs` | | theorems of `JobQueue` |
| `ControlPlane` | a site on both sides: panel row, jobs, agent record | composes queue, handlers and agent; implements `JobLedger` |
| `ControlPlaneProofs` | | theorems of `ControlPlane` |
| `AgentApi` | admission, permit and commands of the agent's endpoint | |
| `AgentApiProofs` | | theorems of `AgentApi` |
| `BackupScheduler` | schedules, the tick, and the backup jobs it creates | uses the queue's faults |
| `Teams` | accounts, roles, invitations, registrations | |
| `TeamsProofs` | | theorems of `Teams` |
| `Backups` | destinations, backup rows, repositories, restores of one site | |
| `BackupProofs` | | theorems of `BackupScheduler` and `Backups` |
| `SiteHost` | a node: accounts, containers, vhosts, certificates and the agent's index, under every handler | details what `ControlPlane` takes in one step |
| `PageCache` | nginx's cache of one site and the plugin that purges it | |
| `HostProofs` | | theorems of `SiteHost` and `PageCache` |
| `SignIn` | password, second factor, throttle, sessions of one account | |
| `SignInProofs` | | theorems of `SignIn` |
| `Alerts` | servers, sites, their heartbeat and their notifications | |
| `AlertsProofs` | | theorems of `Alerts` |
| `MC*` | symmetry sets for TLC | |

### JobQueue

A worker's `pc` is where its loop stands: `polling` before `claim_next`, `claimed` between
its UPDATE and its read-back, `loading`/`dispatching` inside `run` before the call,
`calling`, then `recording`, `applying`, `succeeding` on success or `marking`, `failing`
on failure, `erred` when `run` returned an error and `spawn` is about to write the
failure itself, `empty`/`waiting` around the `select!`, `backoff` after a claim error.
Every action is one statement or one call. `RunError`, `ClaimError`, `ReadClaimedError` and
`FinishErrorIgnored` are the same statements failing; `Crash` may come at any point and
`Boot` runs `requeue_orphans` (which fails running rows, in spite of its name) before it
spawns workers. `sent` and `applied` only observe.

### ControlPlane

One action per hand-over. `row` is `sites.status` with "absent" and "deleted", `record` is
the agent's `SiteRecord` (none, up, stopped), `jobs` the table in insertion order
with `site_id` nulled by `Effects` of a delete. `on[w]` is the `site_id` the worker read
when it claimed, which stays as it was when the row goes. `Post` is `build_operation` when it
yields an operation; `WalkLocally` is `run` when it yields none, and takes that for a missing
agent: the job's plan is worked off in the panel and its effects are applied (`jobs.rs:344-346`,
`577-594`), with demo data or without. An import does so when its source cannot be unsealed.
`Execute` is the agent, whose operations are serialised by its permit and write their record in
the last statement, so an operation is one step on the record: `Accepts` is what it looks up first,
`Leaves` what it records. A restart only reads the record (`site.rs:216-235`); a start whose
container is found unhealthy has run it and writes no record. What an operation does to
containers, vhosts and files on the way is `SiteHost`'s matter and not part of `record`.
`Timeout`, `FlushFails`, `StatementFails` and `Restart` lose an answer; they are bounded by
`MaxLosses`, and `lost` names the sites they concern. `walked`, `raced` and `revived` observe
which sites had a job worked off without the agent, which were in two workers' hands at once, and
which a push put on the agent where it had none. No staging copy is there to begin with; they
come by `InsertSite`.

### AgentApi

A call goes new, then rejected, duplicate or waiting; waiting, working, answered; `Drop`
takes it out of waiting or working. `seen`/`aged` are `SEEN` with the age of its entries
reduced to "past the window"; `already_handled` drops aged entries first and records a new
id before the operation starts. `holder`/`waiting` are the fair semaphore. `running` are
child processes: `exec::run` uses `Command::output` without `kill_on_drop`, so `Drop` does
not end them. `Restart` ends them all, as the systemd unit's control group does. `executed`
and `forgotten` only observe.

### BackupScheduler

`site`, `enabled`, `due`, `huge` are the columns of `backup_schedules` by id; dates are due or
not due, an interval fits a date or does not. `Duration::minutes` and the addition panic when it
does not, and a panic ends the process in the release profile (`Cargo.toml:59`), which systemd
starts again (`wp-panel.service:13`): `Panic` is that, after the enqueue and before the mark. A
development build would end only the scheduler's task. A handler looks up (`LookUp`) and writes
(`Remove`, `Update`, `Create`). The task goes sleeping, checking (`has_active`), resolving
(`sites::get`, `GetSite`), enqueuing, marking, over its own copy `list`, read in any order,
since the statement of `due` has none. Jobs are active backup jobs only: queued, running, or
stranded, the row JobQueue shows can stay running with no worker, which `has_active` cannot tell
from a running one. `fired` observes the backups enqueued since a schedule came due (counted up
to `Often`), `panicked` the schedules whose mark has brought the panel down since.

### Teams

`role`, `email`, `made` are the table `users` with its AUTOINCREMENT, `invites`, `open`, `sent`
are `invitation_tokens`. A request of `web/users.rs` goes begun (`require_session` has read the
author's role, kept in `as`), cleared (the handler has read its object and checked), and over
with its one write: `UpdateRole`, `DeleteUser`, `CreateInvitation`, `RevokeInvitation`. Nothing
is read again, so author and object may have been changed or removed in between. A
registration holds the invitation it read: `ReadInvitation`, `CreateUser`,
`MarkInvitationUsed`. Either may be lost at any point. `Asks` leaves out what is refused
whatever is read. Operators and viewers are one role, "member": no request of this module is
theirs. `promoter`, `from`, `left` and `shared` only observe. Site grants are not modelled.

### Backups

One site. `dests` and `used` are `backup_destinations`, `scheds` the destinations of the site's
schedules, which may be two (`BackupScheduler` says how); a destination stands
for its repository. `held` and `pruned` are the repositories, `rows` the table `backups`:
per id, the repositories its rows name. An id is a snapshot's short id or another: restic's
listing gives `short_id` (`backup.rs:184`), a backup the `snapshot_id` of its summary
(`backup.rs:96-101`), and which of the two that is, `Reported`, is restic's affair. A process of
`at` is a job or a sync request, put there by `Asked`, or an entry of the scheduler's list, put
there by `ReadDue` with the destination the tick read; `ScheduledBackup` makes a job of it,
with that destination, whatever the schedule says by then. `DestForSite` is `for_site`:
`Resolve` is `resolve_restic_target` or the sync's `for_site`; `Snapshot` and `Prune`, `List`,
or `Fetch` and `Replace` are the agent's commands under its permit; `Name` is the second
`for_site`, of `apply_effects`; `Look` and `Write` are the two statements of `upsert_backup`.
`staged` is the directory restores go through, removed only at the end of one that succeeds;
`FetchAlone` is a restic restore that outlives its caller. `Cut` ends a process anywhere.
`upsets` counts, for the bound, the changes of settings and the restores that stop half way.
`moved`, `crossed` and `torn` only observe. restic is external: a snapshot goes where the
target says, forget keeps the newest, and a restore needs the snapshot to be there.

### SiteHost

A handler of `site.rs` or `import.rs` is a plan, the sequence of its host commands and its write
of the index, each an action; `doing.todo` is what is left of it, `doing.rec` the record it will
put. `Begin` is the handler's look-up and its first guards. A command changes the host or fails
(`GiveUp`), and the handler may be gone by the time it is done (`Onward`), as a client that
hangs up leaves it. Commands that may fail and change nothing kept here are "plain" or, when
they name the record's container, "named". Containers are named with their version by
`start_php` and without it by everyone else (`Versioned`, `Unversioned`). `NginxAccepts` is
`nginx -t`, over every file; `CertbotIssues` is certbot's webroot challenge, which the plain
vhost of a site does not answer. certbot keeps a certificate under the first name of the list it
is given (`ssl.rs:37-38`), and the agent takes any list (`site.rs:402-422`): `IssueOtherPlan`
and `OtherCertificate` are the list that begins with another name. A vhost does not name the
container it passes to: every version's listens on the same socket path (`nginx.rs:151`, `:330`,
`:341`). `Boot` restarts the agent with or without `--dry-run`, in which commands are logged and
the index is written all the same. `everKnown` and `tlsForced` only observe; `tlsForced` are the
sites whose vhost was last rewritten with TLS by a handler that had not asked for a certificate
under the site's own name. External: useradd, docker, nginx, certbot, by what the handlers rely
on.

### PageCache

nginx's key is scheme, method, host and URI (`nginx.rs:136`), and a vhost serves every domain of
the record. A purge names one key of a page, `Named(p)`: http, GET, the host of `home_url`. All
its other keys, https, HEAD and the other domains, are one "unnamed" key, which the pages in
`Aliased` have. A page is the front page, a post with the archives the plugin
knows, or another. `Fetch`, `Store` and `FetchFails` are a visit that fills the cache, `Edit`
to `SwitchTheme` the hooks of `mu_plugin.rs` and what each asks to forget, `Purge` and
`PurgeMissed` the request that arrives at the purge location or does not: the vhost has one
only with the nginx module, and answers http only without TLS. `SwitchTls` is a rewrite of the
vhost with or without TLS, `EmptyCache` removes every file of the site's cache. An entry is
"edited" when what has changed since is something the plugin's comments promise to purge for,
"changed" when it is not, as for an author's page. `known` only observes why an entry under a named
key may be old: a purge of it "missed", it was stored after the purge that it had been rendered
before ("overtaken"), or after the purge of a delete and before the row went ("early").

### SignIn

A request stands where its handler does: counted and admitted, or to be refused; checking a
password or a code; about to record a failure; about to open a session; about to clear the
failures; or in one of the three settings of the second factor. Failures are counted by what
failed. `guarded` is "the account has asked for a code since this request began", `same` is "the
secret is the one this request read". `proven` and `overwritten` only observe. A challenge is
signed and kept nowhere: `challenge` says that one is out that would verify. Codes, passwords
and MACs are right or wrong.

### Alerts

`servers` and `sites` are rows by name, with what the four rules read of them. `Evaluate` goes
through three phases; `todo` is the list it read at the start of the phase, one verdict each,
except for `backup.stale`, whose last backup is read when its turn comes. `OpenIfAbsent` is the
look of `open_if_absent`, whose answer `adding` keeps, `Insert` or `InsertFails` its second
statement, and `ResolveRule` the update; people resolve in between (`Resolve`). Only `evaluate`
inserts, in one task, so that no second notification is opened; the model counts them and would
show it. `CountSites` and `Delete` are the two statements of a server's removal, with the
cascade. A list that cannot be read counts as empty, an error of a write is dropped, and the
pass goes on.

## 3. Runs

| run | bounds | shows |
|---|---|---|
| `job_queue` | 2 workers, 2 rows, 2 crashes, 2 faults a boot | `OneWorkerPerJob`, `SentAtMostOnce`, `SucceededWasApplied`, `StrandedOnlyByFault`; implements `JobLedger` (`LedgerSpec`); `QueuedEnds` |
| `control_plane_safety` | 2 sites, 2 workers, 3 jobs, 1 loss, demo data off | `RowHasRecord`, `OnlyAPushRevives`, `StuckIsCopyOrLoss`, `StatusFollowsRecord`; implements `JobLedger` (`LedgerSpec`) |
| `agent_api` | 3 calls, 2 ids, 2 commands each, 1 restart | types; `RepeatedOnlyIfForgotten`, `OverlapOnlyByDrop`, `PermitReturns` |
| `agent_api_overlap` | 2 calls | violates `OneCommandAtATime` |
| `backup_scheduler` | 2 sites, 2 schedules, 2 editors, 2 edits, 1 user backup, 1 fault or restart | `OneScheduledBackup`, `NothingSkipped`, `ServedOnce`, `DueIsServed` |
| `teams` | 3 addresses, an owner and an admin on file, 2 requests, 2 registrations, 4 accounts, 1 invitation | `OwnersFixed`, `AdminsFromOwners`, `TwiceOnlyIfLeftOpen` |
| `backups` | 2 destinations, up to 2 schedules, 2 jobs, syncs or due entries at a time, 2 snapshots, 1 change of settings or torn restore, any settings to begin with, a backup reported under an id of its own | types; `OneRowUnlessCrossed`, `RowNamesHolder`, `RestoreFindsSnapshot`, `CopiesOneSnapshot` |
| `site_host` | 3 sites, 2 PHP versions, 4 handlers, 1 restart, both modes, any certificates to begin with | `UidsApart`, `AtMostOneMore`, `PoisonOnlyByRewrite`, `SwitchKeepsServing`, `LiveAddsNoSite` |
| `site_host_health` | 1 site, 1 version, 1 handler | violates `HealthFollowsContainer` |
| `page_cache` | 2 pages being rendered at once, 1 change of TLS, with and without the purge module, the post under a second key | `StaleHasCause` |
| `sign_in` | 3 requests at a time, limit 3, 1 refusal on record | `ChecksBounded`, `SecondFactorHeld`, `UnprovenOnlyByOverwrite` |
| `alerts` | 1 server, 1 site, all rules, 1 failing statement | `LostOnlyIfLate`, `AlertFollows` |

Why the bounds are enough. A claim race needs two workers and two rows; two crashes find a row
queued, running and ended in turn. Two faults in one boot are an error of `run` followed by an
error of the finish after it. What needs more rows than that, the order of starts above all, is
proved for every number of them. In `ControlPlane` two sites are the least for a clone or a
push, and three jobs the least for a push between a delete and its aftermath; the handlers that
race are not bounded except by the number of jobs. In `AgentApi` two calls under one id with a
third that competes for the permit show every admission; one restart is enough for an id to be
forgotten. Two editors make duplicate schedules; two sites make one schedule wait behind
another, whose site may be deleted before the tick gets to it, which ends the tick for those
behind. In `Teams` two requests are one that is overtaken and one that overtakes it, and two
registrations of one invitation need two more accounts than the roster has. In `Backups` the
settings are any to begin with, so one change is any change at any moment; two snapshots are one
that is left over and one that is restored, or one that is pruned by the other's job. Changes of
the settings and torn restores share one bound (`MaxUpsets`), so that each is seen at any moment
but not one after the other; that, and a backup that reports the short id, are covered by the
proofs only. Jobs, restores and syncs are not counted: they go on for ever. In `SiteHost` a
handler that leaves something behind, one that meets it, one on another site and one after a
restart are four; three sites tell "one more account" from "one for each". `PageCache`, `SignIn`
and `Alerts` run for ever over small sets: one page with a second key shows a key no purge
reaches beside those it does, two pages on their way are a late one and a fresh one, three
requests are one that changes the second factor between two that sign in, and a server and a
site are everything one rule looks at. The proofs of section 4 lift the safety properties to any
number.

Deadlock is not checked where the bounds stop the system (`ControlPlane` when its jobs are
used up, `AgentApi` when every call has been made, `Teams` when its accounts are used up,
`SiteHost` when its handlers are) or
where it can really end (`BackupScheduler` when every site is deleted).

**Fairness.** `JobQueue`: workers are polled, timers fire, agent calls end by their timeout
and the service manager restarts the panel; handlers owe nothing, since a client may
disconnect between an insert and its signal. `AgentApi`: handlers are polled and clients
give up (the panel's after 300 s, `agent.rs:35`); a command is owed nothing, because none has
a timeout. `BackupScheduler`: the ticker fires, statements return, and jobs with a worker
end, which is `QueuedEnds`; stranded jobs do not. `Alerts`: the ticker fires and a pass goes on,
one task that never ends (`lib.rs`); rows, heartbeats and removals owe nothing.

**What the runs show beyond "holds".** The properties are as strong as the code allows, and the
exceptions they name are reachable: a running row can stay without a worker until the next boot,
but only after a failed statement (`StrandedOnlyByFault`), and while it does its site gets no
scheduled backup (`DueIsServed`); a schedule whose next run fits no date takes the panel down
when it is marked, at every boot, and may keep all others from being served (`ServedOnce`,
`DueIsServed`); a site deleted from the panel can exist on its server, by a push that overtook
the delete (`OnlyAPushRevives`); a site stays "provisioning" after any failed clone, staging
copy or import (`StuckIsCopyOrLoss`; a crash between a site's row and its job does so too, and
counts as a loss); a site is shown as online that the agent has never heard of, without any
answer lost, when an import's source cannot be unsealed (`RowHasRecord` excepts `walked`); the
row and the agent's record part at a restart, which shows "online" and records nothing, at a
push, which records "up" and shows nothing, and after two overlapping jobs, since effects are
applied in the order of the workers and not of the agent (`StatusFollowsRecord`); an invitation
makes a second account, once the first is removed, if two registrations held it or one was cut
short (`TwiceOnlyIfLeftOpen`); an id has two rows if two writers looked for it before either
wrote (`OneRowUnlessCrossed`; it says nothing of a snapshot with two ids); a row names a
repository that does not hold its snapshot if the settings changed while the backup ran, or
between the tick's reading of the schedule and the job it made of it, or if the schedule was a
second one with a destination of its own (`RowNamesHolder`), and a restore looks in the wrong
one for the same reasons, or if the settings changed at any time since (`RestoreFindsSnapshot`);
what a failed restore left behind is copied onto the site by the next (`CopiesOneSnapshot`). A
failed create leaves its account behind, and the uid it took is offered again: useradd refuses
it, so that one stray account stops every create of another site until it is gone, and no record
shares a uid (`AtMostOneMore`, `UidsApart`). A vhost written with TLS for a site without a
certificate stops every reload on the node; a change of the PHP version or of the cache settings
does that, and so does an issue for a list that begins with another domain, whose certificate is
not under the site's name (`PoisonOnlyByRewrite`). The container of a site goes only when
another one runs and nginx has loaded the vhost the switch wrote (`SwitchKeepsServing`). On a
live agent no create, clone or import reaches its record, for the health check asks for a
container under a name nobody gave (`LiveAddsNoSite`, and the run `site_host_health`); what is
managed got there in a dry run. The cache keeps old pages under every key but http, GET and the
host of `home_url`, however the purges fare; under that one a page stays old only when a purge
of it missed, or when it was stored too late for the purge or too early for a delete
(`StaleHasCause`). The throttle is overrun by as many checks as are under way together
(`ChecksBounded`, which bounds the failures on record; a check whose handler is dropped before
it records one is not counted by the code either). The second factor can be confirmed with a
secret nobody has shown to hold, once enable goes over a confirmed one or falls into a confirm
(`UnprovenOnlyByOverwrite`); no session goes without its code (`SecondFactorHeld`). A server's
removal can take sites along that were created after its count (`LostOnlyIfLate`). What holds
without exception is that no overlap of requests makes or loses an owner (`OwnersFixed`).

**Divergences.** Two runs end in a violation of what the repository says: the health check of a
create says nothing of the container it started (`docker.rs:86`), and commands of two operations
overlap after a disconnect (`state.rs:13-14`, `api.rs:69`). See `findings` in `PROJECT.json`.
Met while reading, and left without a run of their own:

* an import is simulated with demo data off when its source cannot be unsealed, and shown as online
  (`jobs.rs:344-346`, `:577-594` against `:5-8` and `plans/DEPLOYMENT.md:234`, `:572`); the case is in
  `ControlPlane` and excepted by name in `RowHasRecord`;
* a backup is recorded under the id its summary reports (`backup.rs:96-101`) and listed under its
  short id (`:184`); where they differ a snapshot has two rows with nothing crossed, against the
  comment at `db/sites.rs:454-457`; `Backups` runs with the two apart;
* "Purge all term-related URLs" (`mu_plugin.rs:128-129`) purges none: the hooks pass the taxonomy third
  and are registered for two arguments (`:181-183`), so `get_term_link` is asked with a number in
  its place and the front page alone is asked for (`EditTerm`);
* no purge names https, HEAD or another of a site's domains, all of which nginx caches separately
  (`nginx.rs:136`, `:152-156`, `mu_plugin.rs:42-53`);
* `issue_certificate` with another first domain leaves a vhost that names a certificate that is not
  there (`ssl.rs:37-38`, `site.rs:402-422`);
* a site can have two schedules (`db/schedules.rs:96` against `:80`), and an administrator's
  request can demote a peer who was promoted after it was checked (`web/users.rs:245` against `:240`);
* the panel writes the settings of cache, limits and domains to its own row and never sends
  `SetCache`, `SetLimits`, `AddDomain`, `RemoveDomain`, `PurgeUrls` or `GetSiteStatus`
  (`web/sites.rs:862-979`); "Restart the site to apply." (`:936`) is not what a restart does;
* the agent's domain handlers write the vhost of a TLS site without TLS (`site.rs:372`, `:394`);
* certificates are taken to last 90 days from the call, with certbot's `--keep-until-expiring`
  (`ssl.rs`), and for a create that asked for one whether or not it got one (`jobs.rs`);
* alerts are never mailed (`docs/index.html:528-530` says so), the alert of a certificate is
  resolved when it expires, and a last backup that cannot be read raises `backup.stale`;
* two sites with a cache both set nginx's `fastcgi_cache_key` at http level.

## 4. Proofs

`JobQueueProofs` proves, for every number of workers, rows, crashes and faults, from
`QueueAssumption` (bounds are naturals; None is not a row), that `JobQueue` keeps its types,
its five state invariants and `EndIsFinal`, and that it implements `JobLedger`.

The safety properties are not inductive. `IInv` adds what ties a worker to its row:
`HolderIsBusy` (a worker holds a row exactly between claim and last finish, and a dead
process has none), `SendIsAhead` (nothing sent for a row that is not started or whose worker
is before the call), `AppliedBeforeSuccess`, `NoGaps` (rows are numbered in order of
insertion). The argument: only `Claim` takes a row out of the queue and hands it to one
worker; only the holder ends it; a row loses its holder without ending only in a failed
statement, which `StrandedOnlyByFault` counts, or in a crash, after which `Boot` leaves
nothing running. Each conjunct has its own lemma (`HolderStep`, `OneWorkerStep`, `SendStep`,
`ApplyStep`, `StrandStep`, `OrderStep`), with a case per action; `TableStep` says what any
step does to the table, from which `EndsAreFinal` and `ImplementsLedger` follow.

`ControlPlaneProofs` proves, from `ControlAssumption` (NoSite is no site, the bounds are
naturals), its types and the four invariants of its run, and that it implements `JobLedger`, for
any number of sites, workers, jobs and lost answers. The row and the record of a site are
written by different steps of different workers, so each theorem needs what is in hand in
between. `Claims` ties running jobs to workers, one to one; `Hand` says what is still true of
the site a worker read at its claim; `Tickets` that a site is provisioned by one job, in the
table, in a worker's hand or not yet inserted. With these, `Fresh` says that a site whose
provisioning is still to be executed has no record, so the agent's look-up cannot refuse it,
`Shown` and `Gone` relate row and record while nobody has executed something the row does not
show yet, `Marked` says what the row of a refused provisioning will become. `RowHasRecord`
excepts the sites in `walked` and nothing else but a lost answer (`ShownMeansThere`). `Follow`
is the case of one worker at a time (`Alone`), for sites with no loss, race, walked import or
revival (`Plain`): there row and record agree, or the worker in hand will make them so, or a
restart or push has parted them (`Parted`) or is about to be recorded as having done so
(`Parting`). That a start or stop ends the parting needs the order of the table: jobs are
claimed oldest first (`Oldest`), so while a worker has a site to itself the site's later jobs
wait (`Turn`), and the last of them to succeed is the last in the table (`RowsFollowRecords`).
The proof says once what a step of each sort does (`StepDoes` and the lemmas before it); the
conjuncts then go by sort of step and not by action. The refinement maps the ledger's rows to
the status column of `jobs` (`StatusColumn`); `Bounded`, that handlers leave room for the jobs
still in their hands, is its own small invariant beside `IInv`. It is what lets `ControlPlane`
stand for `JobQueue` seen from outside: both keep the one promise, and a job of either is
started once.

`AgentApiProofs` proves, from `AgentAssumption` (None is neither a call nor an id, the bounds
are naturals), `TypeOK`, `RepeatedOnlyIfForgotten` and `OverlapOnlyByDrop`, for any calls and
ids and any number of commands and restarts. `Permit` says that a handler is working exactly
when it holds the permit and `Queue` that the others stand in the queue once each; hence one
command at most has a handler. `Account` is a sum per id: operations dispatched and handlers
still waiting are at most the times the id was forgotten, and one more while it is on record.
Without the waiting ones it is not inductive: an id can be forgotten while its operation waits,
and both it and the repetition run.

`TeamsProofs` proves, from `TeamsAssumption` (the bounds are naturals; the first account of the
roster is an owner, as `bootstrap_admin` makes it; addresses differ), `TypeOK`, `OwnersFixed`,
`AdminsFromOwners` and `TwiceOnlyIfLeftOpen`, for any roster and any number of requests and
registrations. `IInv` says why stale roles do no harm to owners: a request names a role below
its author's (`FormsFilled`), its object was no owner when it was checked
(`OwnersOutOfReach`), no invitation, in the table or in hand, offers "owner" and only an
owner's offers "admin" (`LettersOffer`). Each part needs the owners to stay, and they stay by
these parts: `OwnerStep` comes first, from the state before the step, and the other lemmas
use it. For invitations, `HeldByOne` and `SpentIsHeldOrClosed` say that one with an account is
closed, or in the hands of the registration that will close it, unless it was `shared` or `left`.

`HostProofs` proves, from `SiteHostAssumption` (finitely many sites, bounds are naturals, None
is no version), every property of the run, for any number of sites, versions, handlers and
restarts. A handler is known by what is left of its plan: `NoTls`, `NoSwitch` and `Ends` are the
sets of plan suffixes that write no TLS, remove no container, reach no put without an
inspection, and `Switching` says where a switch stands and what runs meanwhile. `UidInv` is the
argument for uids: no uid in the index, in hand or on the host exceeds `Low`, one more than the
sites ever known, because `NextUid` is the least unused one (a pigeonhole, `FewAccounts` and the
lemmas before it); accounts have different uids because useradd sees to it, so there are no more
of them than `Low`. `TypeInv` has that containers carry versions, from which a live inspection
by the record's name always fails, and `LiveAddsNoSite` follows by `PutInv`. `Switching` also
has that the vhost the switch wrote is the one loaded when the old container goes: nothing else
runs in between, and the reload is the command before.

`HostProofs` also holds `PageCache`, from `PageCacheAssumption` (`Aliased` is a set of pages,
bounds are naturals), for any number of pages being rendered and of rewrites and any `Aliased`;
the three sorts of page are fixed. `CacheInv` adds to `StaleHasCause` that during a delete every
entry of the post's own pages is accounted for (`Explained`), before the row goes and makes it
old. `SignInProofs`, from `SignInAssumption` (finitely many browsers, the limit at least one):
`RequestsKnow` says what a request's reading of the account still tells about it, `ChecksAhead`
counts the checks under way with the failures on record, since each was admitted below the limit
and may still fail. `AlertsProofs`, from `AlertsAssumption` (None is no row): `CountedNone`, the
server whose sites were counted has only late ones, makes `LostOnlyIfLate` inductive.

`BackupProofs` proves the safety properties of both halves of the backups. For
`BackupScheduler`, from `SchedulerAssumption` (finitely many sites, NoSite is none of them,
bounds are naturals), any number of sites, schedules, editors and mishaps; a panic comes between
an enqueue and its mark, as a mishap does, and `panicked` says of which schedule. tick decides
on a copy, so the argument is about the copy: no id is in it twice (`OnceListed`), what is in it
and still in the table is still due (`StillDue`), and a schedule to be served has been served
before only by way of a mishap, unless it is the head of the list and waits for its mark
(`Unserved`, `Marking`). Hence a schedule ceases to be due only at a mark, which comes after an
enqueue (`Enqueued`), and is enqueued a second time only when the mark was lost. `NoneYet` says
that between has_active and the insert nobody else gives the site a backup of the scheduler's;
`FewManual` counts the users', so that there is a slot for each job.

For `Backups`, from `BackupsAssumption` (finitely many destinations, NoDest is none of them,
bounds are naturals), any number of destinations, jobs, syncs, snapshots and changes of the
settings. `Settled`: while the settings have not changed since the backup was asked for, its
snapshot is where `for_site` points now. `Told` carries that to each process: what a job in
flight was told is what `for_site` answers, what a sync writes is what it read, what a restore
was sent holds its snapshot, and what the tick has read and not yet made a job of names what
`for_site` says (`Scheduled`), unless it was overtaken or is a second schedule's. A change of
the settings overtakes every backup under way, entries of the tick's list included, which is why
`moved` tells "during" and "second" from "after". `FoundNone`, for each id: who is about to
insert a row under it is alone and it has none, or two looked at once. `OnePermit` and
`Leftover`: files are in the restore directory only while one restore is between its two
commands, or because one was torn.

Only model-checked: all liveness (`QueuedEnds`, `PermitReturns`, `DueIsServed`, `AlertFollows`), for
fairness and ENABLED are beyond the prover.

## 5. Not modelled

* Progress bars, step rows, messages, audit log, e-mail, templates, the JSON API's queries and
  the history of metrics: no decision depends on them.
* Cryptography, TLS, parsing of configuration, API and form tokens (one look-up, one comparison).
* The text of vhosts, `wp-config.php` and command lines, beyond what `SiteHost` and `PageCache`
  say a vhost does.
* `ControlPlane` leaves out demo data and domains; an operation of the agent is one step there.
  That `SiteHost` refines that step is not stated: a live create of `SiteHost` never succeeds,
  while `ControlPlane` takes the answers the agent's protocol allows.
* `SiteHost` leaves out file trees and databases (made if missing, looked at by nobody), the
  read-only status and metrics, `purge_urls`, and an index that cannot be read at boot, which
  becomes an empty one (`store.rs:53`). It takes the handlers as the agent offers them, those the
  panel never sends included.
* `PageCache` leaves out cookies and crawlers that skip the cache, and entries' ages. `SignIn` has
  one account and one address. `Alerts` has one evaluation at a time, as the code has.
* The panel's own `next_uid` (`db/sites.rs:162`), MAX+1 read before the insert: the number is shown
  and never sent; the agent's allocator is in `SiteHost`.
* Site grants and the sessions behind a request of `Teams`.
* `Backups` leaves out destinations without a password, dry runs and simulated rows, the
  database half of a restore, sizes and dates, an rsync or rm that outlives its caller, and
  a failing look-up of the name (which leaves the row without one). The empty target sent
  when there is no destination makes restic fail; `jobs.rs:407-409` means it to fall back
  on the agent's `--restic-repo`, which `agent/src/ops/backup.rs` never reads.

## 6. Plan

Done: `JobLedger`, `JobQueue`, `ControlPlane`, `AgentApi`, `BackupScheduler`, `Teams`, `Backups`,
`SiteHost`, `PageCache`, `SignIn`, `Alerts`, and the proofs of every safety property their runs
check. Left, in order of what matters most:

1. Servers in `ControlPlane`: a removal that takes sites along while their jobs run.
2. Site grants in `Teams`.
3. The schedule's own keep counts in `Backups`, which no job is given (`build_operation` sends
   the default).
