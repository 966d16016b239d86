------------------------------- MODULE JobQueue -------------------------------
(***************************************************************************)
(* The panel's job queue: the jobs table, the request handlers and the     *)
(* scheduler that insert rows, the worker tasks that claim and run them,   *)
(* the wake-up signal between the two, and restarts of the panel process.  *)
(*                                                                         *)
(* One action is one statement against the database or one call to an      *)
(* agent: between any two of them other tasks run, the statement may fail  *)
(* (SQLITE_BUSY, disk full) and the process may die.  What an operation    *)
(* does to a site is the business of ControlPlane; here an operation is    *)
(* only sent, applied or lost.                                             *)
(***************************************************************************)
EXTENDS Naturals, FiniteSets

CONSTANTS
    Workers,      \* worker tasks, WP_PANEL_WORKERS of them
    None,         \* a worker that holds no job
    MaxJobs,      \* bound: rows inserted in a behaviour
    MaxCrashes,   \* bound: deaths of the panel process in a behaviour
    MaxFaults     \* bound: failed database statements between two boots

ASSUME QueueAssumption ==
    /\ MaxJobs \in Nat
    /\ MaxCrashes \in Nat
    /\ MaxFaults \in Nat
    /\ None \notin 1..MaxJobs

VARIABLES
    status,      \* [row -> jobs.status]
    panel,       \* the panel process: "up" or "down"
    pc,          \* [worker -> where its loop stands]
    holding,     \* [worker -> the row it claimed, or None]
    unnotified,  \* rows whose handler has inserted them and not yet signalled
    faults,      \* failed statements since the last boot
    crashes,     \* deaths of the process so far
    sent,        \* observed: [row -> operations posted to an agent for it]
    applied      \* observed: rows whose panel-side effects were written

vars == <<status, panel, pc, holding, unnotified, faults, crashes, sent, applied>>
observed == <<sent, applied>>

Jobs     == 1..MaxJobs
Ended    == {"succeeded", "failed"}
Statuses == {"absent", "queued", "running"} \cup Ended

(* The points of a worker's loop.  A worker holds a row exactly in Busy. *)
BeforeSend == {"claimed", "loading", "dispatching"}
AfterSend  == {"calling", "recording", "applying", "succeeding", "marking", "failing", "erred"}
Busy       == BeforeSend \cup AfterSend
Idle       == {"polling", "empty", "waiting", "backoff"}
Points     == Busy \cup Idle \cup {"stopped"}

NextRow(j)      == status[j] = "absent" /\ \A i \in Jobs : i < j => status[i] # "absent"
OldestQueued(j) == status[j] = "queued" /\ \A i \in Jobs : i < j => status[i] # "queued"

Init ==
    /\ status = [j \in Jobs |-> "absent"]
    /\ panel = "up"
    /\ pc = [w \in Workers |-> "polling"]
    /\ holding = [w \in Workers |-> None]
    /\ unnotified = {}
    /\ faults = 0
    /\ crashes = 0
    /\ sent = [j \in Jobs |-> 0]
    /\ applied = {}
-------------------------------------------------------------------------------
(* Inserting work. *)

(* A web or API handler inserts a row; its notify_jobs comes later.  The
   scheduler inserts one and never signals. *)
Enqueue(j) ==
    /\ panel = "up"
    /\ NextRow(j)
    /\ status' = [status EXCEPT ![j] = "queued"]
    /\ \/ unnotified' = unnotified \cup {j}
       \/ UNCHANGED unnotified
    /\ UNCHANGED <<panel, pc, holding, faults, crashes, observed>>

(* notify_waiters wakes the tasks that are already waiting and no other: no
   permit is left behind for a worker that is about to wait. *)
Notify(j) ==
    /\ panel = "up"
    /\ j \in unnotified
    /\ unnotified' = unnotified \ {j}
    /\ pc' = [w \in Workers |-> IF pc[w] = "waiting" THEN "polling" ELSE pc[w]]
    /\ UNCHANGED <<status, panel, holding, faults, crashes, observed>>
-------------------------------------------------------------------------------
(* The worker loop of spawn and the statements of run. *)

Goto(w, from, to) == pc[w] = from /\ pc' = [pc EXCEPT ![w] = to]
Drop(w)           == holding' = [holding EXCEPT ![w] = None]

(* One failed statement, within the bound. *)
Fault == faults < MaxFaults /\ faults' = faults + 1

(* Mutant: the row is chosen and returned but not marked. *)
ClaimUnmarked(w) ==
    \E j \in Jobs :
        /\ Goto(w, "polling", "claimed")
        /\ OldestQueued(j)
        /\ holding' = [holding EXCEPT ![w] = j]
        /\ UNCHANGED <<status, panel, unnotified, faults, crashes, observed>>

(* claim_next, first statement: UPDATE .. WHERE id = (SELECT oldest queued). *)
Claim(w) ==
    \E j \in Jobs :
        /\ Goto(w, "polling", "claimed")
        /\ OldestQueued(j)
        /\ status' = [status EXCEPT ![j] = "running"]
        /\ holding' = [holding EXCEPT ![w] = j]
        /\ UNCHANGED <<panel, unnotified, faults, crashes, observed>>

ClaimNothing(w) ==
    /\ Goto(w, "polling", "empty")
    /\ \A j \in Jobs : status[j] # "queued"
    /\ UNCHANGED <<status, panel, holding, unnotified, faults, crashes, observed>>

ClaimError(w) ==
    /\ Goto(w, "polling", "backoff")
    /\ Fault
    /\ UNCHANGED <<status, panel, holding, unnotified, crashes, observed>>

(* claim_next, second statement: read back the row just marked running.  When
   it fails the worker sees an error from claim_next, not a job. *)
ReadClaimed(w) ==
    /\ Goto(w, "claimed", "loading")
    /\ UNCHANGED <<status, panel, holding, unnotified, faults, crashes, observed>>

ReadClaimedError(w) ==
    /\ Goto(w, "claimed", "backoff")
    /\ Drop(w)
    /\ Fault
    /\ UNCHANGED <<status, panel, unnotified, crashes, observed>>

(* select! { notified, sleep 2s }: only once it is polled does the worker
   count as waiting. *)
Wait(w) ==
    /\ Goto(w, "empty", "waiting")
    /\ UNCHANGED <<status, panel, holding, unnotified, faults, crashes, observed>>

(* Mutant: an idle worker waits for the signal alone. *)
NoPollTimer(w) == FALSE /\ Goto(w, "waiting", "polling")

PollTimer(w) ==
    /\ Goto(w, "waiting", "polling")
    /\ UNCHANGED <<status, panel, holding, unnotified, faults, crashes, observed>>

BackoffTimer(w) ==
    /\ Goto(w, "backoff", "polling")
    /\ UNCHANGED <<status, panel, holding, unnotified, faults, crashes, observed>>

(* Payload, server row and everything build_operation reads. *)
Load(w) ==
    /\ Goto(w, "loading", "dispatching")
    /\ UNCHANGED <<status, panel, holding, unnotified, faults, crashes, observed>>

(* A real server and a mapped operation: post it.  Otherwise the plan is
   walked locally and nothing is sent. *)
Send(w) ==
    /\ Goto(w, "dispatching", "calling")
    /\ sent' = [sent EXCEPT ![holding[w]] = @ + 1]
    /\ UNCHANGED <<status, panel, holding, unnotified, faults, crashes, applied>>

RunLocally(w) ==
    /\ Goto(w, "dispatching", "recording")
    /\ UNCHANGED <<status, panel, holding, unnotified, faults, crashes, observed>>

(* The call returns within its 300 s timeout: success (or, with demo data, an
   unreachable agent replaced by the local plan), or a failure. *)
Answer(w) ==
    /\ \/ Goto(w, "calling", "recording")
       \/ Goto(w, "calling", "marking")
    /\ UNCHANGED <<status, panel, holding, unnotified, faults, crashes, observed>>

(* Mutant: the effects are left to be applied after the finish. *)
RecordThenFinish(w) ==
    /\ Goto(w, "recording", "succeeding")
    /\ UNCHANGED <<status, panel, holding, unnotified, faults, crashes, observed>>

(* One job_steps row per step. *)
RecordSteps(w) ==
    /\ Goto(w, "recording", "applying")
    /\ UNCHANGED <<status, panel, holding, unnotified, faults, crashes, observed>>

ApplyEffects(w) ==
    /\ Goto(w, "applying", "succeeding")
    /\ applied' = applied \cup {holding[w]}
    /\ UNCHANGED <<status, panel, holding, unnotified, faults, crashes, sent>>

MarkSiteFailed(w) ==
    /\ Goto(w, "marking", "failing")
    /\ UNCHANGED <<status, panel, holding, unnotified, faults, crashes, observed>>

(* jobs::finish writes by id and tests nothing.  "erred" is the finish that
   spawn runs itself when run returned an error. *)
Finish(w) ==
    /\ \/ /\ Goto(w, "succeeding", "polling")
          /\ status' = [status EXCEPT ![holding[w]] = "succeeded"]
       \/ /\ Goto(w, "failing", "polling") \/ Goto(w, "erred", "polling")
          /\ status' = [status EXCEPT ![holding[w]] = "failed"]
    /\ Drop(w)
    /\ UNCHANGED <<panel, unnotified, faults, crashes, observed>>

(* Any statement of run may fail; the error propagates to spawn. *)
RunError(w) ==
    /\ \E at \in {"loading", "recording", "applying", "succeeding", "marking", "failing"} :
           Goto(w, at, "erred")
    /\ Fault
    /\ UNCHANGED <<status, panel, holding, unnotified, crashes, observed>>

(* let _ = finish(..): the last error is dropped with the job. *)
FinishErrorIgnored(w) ==
    /\ Goto(w, "erred", "polling")
    /\ Drop(w)
    /\ Fault
    /\ UNCHANGED <<status, panel, unnotified, crashes, observed>>

(* What a worker does by itself, and what can go wrong under it. *)
Progress(w) ==
    /\ panel = "up"
    /\ \/ Claim(w) \/ ClaimNothing(w) \/ ReadClaimed(w)
       \/ Wait(w) \/ PollTimer(w) \/ BackoffTimer(w)
       \/ Load(w) \/ Send(w) \/ RunLocally(w) \/ Answer(w)
       \/ RecordSteps(w) \/ ApplyEffects(w) \/ MarkSiteFailed(w) \/ Finish(w)

Trouble(w) ==
    /\ panel = "up"
    /\ ClaimError(w) \/ ReadClaimedError(w) \/ RunError(w) \/ FinishErrorIgnored(w)
-------------------------------------------------------------------------------
(* The process dies: its tasks go, the database stays. *)
Crash ==
    /\ panel = "up"
    /\ crashes < MaxCrashes
    /\ crashes' = crashes + 1
    /\ panel' = "down"
    /\ pc' = [w \in Workers |-> "stopped"]
    /\ holding' = [w \in Workers |-> None]
    /\ unnotified' = {}
    /\ UNCHANGED <<status, faults, observed>>

(* Mutants: the orphans go back to the queue, as the function's name says; or
   they stay as they are. *)
OrphansRequeued ==
    status' = [j \in Jobs |-> IF status[j] = "running" THEN "queued" ELSE status[j]]
OrphansForgotten == UNCHANGED status

(* requeue_orphans, whose name notwithstanding fails what was running. *)
RequeueOrphans ==
    status' = [j \in Jobs |-> IF status[j] = "running" THEN "failed" ELSE status[j]]

(* main: the orphans first, the workers after. *)
Boot ==
    /\ panel = "down"
    /\ RequeueOrphans
    /\ panel' = "up"
    /\ pc' = [w \in Workers |-> "polling"]
    /\ faults' = 0
    /\ UNCHANGED <<holding, unnotified, crashes, observed>>

Next ==
    \/ \E j \in Jobs : Enqueue(j) \/ Notify(j)
    \/ \E w \in Workers : Progress(w) \/ Trouble(w)
    \/ Crash
    \/ Boot

Spec == Init /\ [][Next]_vars

(* Tokio keeps polling ready tasks, timers fire, the agent call has a timeout
   and the service manager restarts the panel.  Handlers owe nothing: one may
   be dropped between its insert and its signal. *)
Fairness ==
    /\ \A w \in Workers : WF_vars(Progress(w))
    /\ WF_vars(Boot)

FairSpec == Spec /\ Fairness
-------------------------------------------------------------------------------
(* Every variable keeps its type. *)
TypeOK ==
    /\ status \in [Jobs -> Statuses]
    /\ panel \in {"up", "down"}
    /\ pc \in [Workers -> Points]
    /\ holding \in [Workers -> Jobs \cup {None}]
    /\ unnotified \in SUBSET Jobs
    /\ faults \in Nat
    /\ crashes \in Nat
    /\ sent \in [Jobs -> Nat]
    /\ applied \in SUBSET Jobs

Held(j) == \E w \in Workers : holding[w] = j

(* No job is run by two workers, and nobody works on a row that is not
   running: the UPDATE of claim_next is the only hand-over, however many
   workers poll at once and however often the panel restarts. *)
OneWorkerPerJob ==
    /\ \A w \in Workers : holding[w] \in Jobs => status[holding[w]] = "running"
    /\ \A v, w \in Workers : holding[v] = holding[w] /\ holding[v] # None => v = w

(* The operation of a job reaches an agent at most once in the life of the
   row, restarts and errors included: nothing in the panel retries, so an
   interrupted provision is never run a second time. *)
SentAtMostOnce == \A j \in Jobs : sent[j] <= 1

(* A job reported as succeeded had its effects written to the panel's tables
   first.  (The converse fails: a failed job may have been applied.) *)
SucceededWasApplied == \A j \in Jobs : status[j] = "succeeded" => j \in applied

(* A running row with no worker behind it is never ordinary: since this boot
   a statement has failed, either the read after the claim or the last
   finish.  In particular none is left over from before the boot. *)
StrandedOnlyByFault ==
    \A j \in Jobs : panel = "up" /\ status[j] = "running" /\ ~Held(j) => faults > 0

(* Jobs start in the order they were inserted: nothing behind a queued row
   has left the queue.  Creating a site, then acting on it, relies on it. *)
StartedInOrder ==
    \A i, j \in Jobs : i < j /\ status[i] = "queued" => status[j] \in {"absent", "queued"}

(* A job that ended stays as it ended: no late worker, no restart and no
   second finish rewrites its outcome. *)
EndIsFinal == [][\A j \in Jobs : status[j] \in Ended => status'[j] = status[j]]_vars

(* Every queued job ends, however often the process dies and although
   notify_jobs may be lost: the signal can fall between an empty claim and the
   wait, or never come, and the two-second poll makes up for it.  The one other
   end is a running row nobody works on, which takes a failed statement. *)
QueuedEnds ==
    \A j \in Jobs :
        (status[j] = "queued")
            ~> (status[j] \in Ended \/ (panel = "up" /\ status[j] = "running" /\ ~Held(j)))

(* The table behaves like JobLedger, whose rows are the queue's own: workers,
   signals and the process are what the ledger does not show. *)
Ledger == INSTANCE JobLedger WITH MaxJobs <- MaxJobs, status <- status
LedgerSpec == Ledger!Spec
-------------------------------------------------------------------------------
(* The inductive invariant behind the safety properties: JobQueueProofs proves
   it preserved by every action. *)

(* A worker holds a row exactly between its claim and its last finish; a dead
   process has no workers. *)
HolderIsBusy ==
    /\ \A w \in Workers : holding[w] \in Jobs <=> pc[w] \in Busy
    /\ panel = "down" => \A w \in Workers : pc[w] = "stopped"

(* Nothing has been sent for a row that has not started, nor for one whose
   worker has not reached the call. *)
SendIsAhead ==
    /\ \A j \in Jobs : status[j] \in {"absent", "queued"} => sent[j] = 0
    /\ \A w \in Workers : pc[w] \in BeforeSend => sent[holding[w]] = 0

(* The success is written only past the effects. *)
AppliedBeforeSuccess == \A w \in Workers : pc[w] = "succeeding" => holding[w] \in applied

(* Rows are numbered without gaps. *)
NoGaps == \A i, j \in Jobs : i < j /\ status[i] = "absent" => status[j] = "absent"

IInv ==
    /\ TypeOK
    /\ HolderIsBusy
    /\ OneWorkerPerJob
    /\ SendIsAhead
    /\ SentAtMostOnce
    /\ AppliedBeforeSuccess
    /\ SucceededWasApplied
    /\ StrandedOnlyByFault
    /\ NoGaps
    /\ StartedInOrder
===============================================================================
