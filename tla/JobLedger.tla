------------------------------ MODULE JobLedger ------------------------------
(***************************************************************************)
(* What the panel's job system promises, seen through one column of one    *)
(* table: the status of each row of jobs.  Rows are numbered in the order  *)
(* they were inserted.  A row is queued once, started once, ended once,    *)
(* and never leaves its end; rows start oldest first; a restart of the     *)
(* panel ends what was running and leaves what was queued.                 *)
(*                                                                         *)
(* JobQueue, the workers and the statements they run, implements this      *)
(* module, and so does ControlPlane, the jobs with what they act on.       *)
(***************************************************************************)
EXTENDS Naturals

CONSTANT MaxJobs   \* bound on the number of rows ever inserted

VARIABLE status    \* [row id -> jobs.status, "absent" before the insert]

Jobs     == 1..MaxJobs
Ended    == {"succeeded", "failed"}
Statuses == {"absent", "queued", "running"} \cup Ended

(* The row the next insert creates, and the row the next claim starts. *)
NextRow(j)      == status[j] = "absent" /\ \A i \in Jobs : i < j => status[i] # "absent"
OldestQueued(j) == status[j] = "queued" /\ \A i \in Jobs : i < j => status[i] # "queued"

Init == status = [j \in Jobs |-> "absent"]

Insert(j) ==
    /\ NextRow(j)
    /\ status' = [status EXCEPT ![j] = "queued"]

Start(j) ==
    /\ OldestQueued(j)
    /\ status' = [status EXCEPT ![j] = "running"]

End(j, how) ==
    /\ status[j] = "running"
    /\ status' = [status EXCEPT ![j] = how]

Restart ==
    status' = [j \in Jobs |-> IF status[j] = "running" THEN "failed" ELSE status[j]]

Next ==
    \/ \E j \in Jobs : Insert(j) \/ Start(j)
    \/ \E j \in Jobs, how \in Ended : End(j, how)
    \/ Restart

Spec == Init /\ [][Next]_status
==============================================================================
