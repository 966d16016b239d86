---------------------------- MODULE JobQueueProofs ----------------------------
(***************************************************************************)
(* Proofs about JobQueue, for any number of workers, rows, restarts and    *)
(* failed statements.  The argument: IInv is inductive; each safety        *)
(* property is one of its conjuncts; the finality of an ended job and the  *)
(* refinement of JobLedger follow from it step by step.                    *)
(***************************************************************************)
EXTENDS JobQueue, TLAPS


(* A worker without a job holds no row id. *)
LEMMA NoneIsNoJob == None \notin Jobs
  BY QueueAssumption DEF Jobs

(* The initial state satisfies the invariant. *)
LEMMA InitEstablishes == Init => IInv
  BY NoneIsNoJob DEF Init, IInv, TypeOK, HolderIsBusy, OneWorkerPerJob, SendIsAhead, SentAtMostOnce,
         AppliedBeforeSuccess, SucceededWasApplied, StrandedOnlyByFault, NoGaps, StartedInOrder,
         Statuses, Ended, Points, Busy, Idle, BeforeSend, AfterSend, Held

(* Types are preserved: the first conjunct of IInv. *)
LEMMA TypeStep == IInv /\ [Next]_vars => TypeOK'
<1> SUFFICES ASSUME IInv, [Next]_vars PROVE TypeOK'
  OBVIOUS
<1> USE DEF TypeOK, observed
<1>1. TypeOK /\ HolderIsBusy
  BY DEF IInv
<1>2. ASSUME NEW j \in Jobs, Enqueue(j) \/ Notify(j) PROVE TypeOK'
  BY <1>1, <1>2 DEF Enqueue, Notify, Statuses, Points, Idle
<1>3. ASSUME NEW w \in Workers, Progress(w) \/ Trouble(w) PROVE TypeOK'
  <2> USE DEF Statuses, Ended, Points, Busy, Idle, BeforeSend, AfterSend
  <2>1. CASE Claim(w) \/ ClaimNothing(w) \/ ClaimError(w)
    BY <1>1, <2>1 DEF Claim, ClaimNothing, ClaimError, Goto, Fault
  <2>2. CASE ReadClaimed(w) \/ ReadClaimedError(w) \/ Wait(w) \/ PollTimer(w) \/ BackoffTimer(w)
    BY <1>1, <2>2 DEF ReadClaimed, ReadClaimedError, Wait, PollTimer, BackoffTimer, Goto, Drop, Fault
  <2>3. CASE Load(w) \/ RunLocally(w) \/ Answer(w) \/ RecordSteps(w) \/ MarkSiteFailed(w)
    BY <1>1, <2>3 DEF Load, RunLocally, Answer, RecordSteps, MarkSiteFailed, Goto
  <2>4. CASE Send(w)
    BY <1>1, <2>4 DEF Send, Goto, HolderIsBusy
  <2>5. CASE ApplyEffects(w)
    BY <1>1, <2>5 DEF ApplyEffects, Goto, HolderIsBusy
  <2>6. CASE Finish(w)
    BY <1>1, <2>6 DEF Finish, Goto, Drop
  <2>7. CASE RunError(w) \/ FinishErrorIgnored(w)
    BY <1>1, <2>7 DEF RunError, FinishErrorIgnored, Goto, Drop, Fault
  <2>8. QED
    BY <1>3, <2>1, <2>2, <2>3, <2>4, <2>5, <2>6, <2>7 DEF Progress, Trouble
<1>4. CASE Crash
  BY <1>1, <1>4 DEF Crash, Points
<1>5. CASE Boot
  BY <1>1, <1>5 DEF Boot, RequeueOrphans, Points, Idle, Statuses, Ended
<1>6. CASE UNCHANGED vars
  BY <1>1, <1>6 DEF vars
<1>7. QED
  BY <1>2, <1>3, <1>4, <1>5, <1>6 DEF Next


(* A worker's row and its place in the loop stay in step. *)
LEMMA HolderStep == IInv /\ [Next]_vars => HolderIsBusy'
<1> SUFFICES ASSUME IInv, [Next]_vars PROVE HolderIsBusy'
  OBVIOUS
<1> USE DEF TypeOK, HolderIsBusy, Busy, BeforeSend, AfterSend, observed
<1>1. TypeOK /\ HolderIsBusy
  BY DEF IInv
<1>2. ASSUME NEW j \in Jobs, Enqueue(j) \/ Notify(j) PROVE HolderIsBusy'
  BY <1>1, <1>2 DEF Enqueue, Notify
<1>3. ASSUME NEW w \in Workers, Progress(w) \/ Trouble(w) PROVE HolderIsBusy'
  <2> USE NoneIsNoJob
  <2>1. CASE panel = "up" /\ Claim(w)
    BY <1>1, <2>1 DEF Claim, Goto
  <2>2. CASE panel = "up" /\ (ClaimNothing(w) \/ ClaimError(w) \/ Wait(w) \/ PollTimer(w) \/ BackoffTimer(w))
    BY <1>1, <2>2 DEF ClaimNothing, ClaimError, Wait, PollTimer, BackoffTimer, Goto
  <2>3. CASE panel = "up" /\ (ReadClaimed(w) \/ Load(w) \/ Send(w) \/ RunLocally(w) \/ Answer(w))
    BY <1>1, <2>3 DEF ReadClaimed, Load, Send, RunLocally, Answer, Goto
  <2>4. CASE panel = "up" /\ (RecordSteps(w) \/ ApplyEffects(w) \/ MarkSiteFailed(w) \/ RunError(w))
    BY <1>1, <2>4 DEF RecordSteps, ApplyEffects, MarkSiteFailed, RunError, Goto
  <2>5. CASE panel = "up" /\ (ReadClaimedError(w) \/ Finish(w) \/ FinishErrorIgnored(w))
    BY <1>1, <2>5 DEF ReadClaimedError, Finish, FinishErrorIgnored, Goto, Drop
  <2>6. QED
    BY <1>3, <2>1, <2>2, <2>3, <2>4, <2>5 DEF Progress, Trouble
<1>4. CASE Crash
  BY <1>1, <1>4, NoneIsNoJob DEF Crash
<1>5. CASE Boot
  BY <1>1, <1>5 DEF Boot
<1>6. CASE UNCHANGED vars
  BY <1>1, <1>6 DEF vars
<1>7. QED
  BY <1>2, <1>3, <1>4, <1>5, <1>6 DEF Next

(* Claim hands a queued row, which nobody holds, to one worker; a row leaves
   "running" only with its holder, or with the process. *)
LEMMA OneWorkerStep == IInv /\ [Next]_vars => OneWorkerPerJob'
<1> SUFFICES ASSUME IInv, [Next]_vars PROVE OneWorkerPerJob'
  OBVIOUS
<1> USE DEF TypeOK, OneWorkerPerJob, observed
<1>1. TypeOK /\ HolderIsBusy /\ OneWorkerPerJob
  BY DEF IInv
<1>2. ASSUME NEW j \in Jobs, Enqueue(j) \/ Notify(j) PROVE OneWorkerPerJob'
  BY <1>1, <1>2 DEF Enqueue, Notify, NextRow
<1>3. ASSUME NEW w \in Workers, Progress(w) \/ Trouble(w) PROVE OneWorkerPerJob'
  <2> USE NoneIsNoJob
  <2>1. CASE panel = "up" /\ Claim(w)
    BY <1>1, <2>1 DEF Claim, OldestQueued
  <2>2. CASE panel = "up" /\ (ReadClaimedError(w) \/ FinishErrorIgnored(w))
    BY <1>1, <2>2 DEF ReadClaimedError, FinishErrorIgnored, Drop
  <2>3. CASE panel = "up" /\ Finish(w)
    <3>1. holding[w] \in Jobs
      BY <1>1, <2>3 DEF Finish, Goto, HolderIsBusy, Busy, AfterSend
    <3>2. QED
      BY <1>1, <2>3, <3>1 DEF Finish, Drop
  <2>4. CASE UNCHANGED <<status, holding>>
    BY <1>1, <2>4
  <2>5. QED
    BY <1>3, <2>1, <2>2, <2>3, <2>4
       DEF Progress, Trouble, ClaimNothing, ClaimError, ReadClaimed, Wait, PollTimer, BackoffTimer,
           Load, Send, RunLocally, Answer, RecordSteps, ApplyEffects, MarkSiteFailed, RunError
<1>4. CASE Crash
  BY <1>1, <1>4, NoneIsNoJob DEF Crash
<1>5. CASE Boot
  BY <1>1, <1>5 DEF Boot, HolderIsBusy, Busy, BeforeSend, AfterSend
<1>6. CASE UNCHANGED vars
  BY <1>1, <1>6 DEF vars
<1>7. QED
  BY <1>2, <1>3, <1>4, <1>5, <1>6 DEF Next

(* A row is sent by the worker that claimed it, and that worker passes the
   call once. *)
LEMMA SendStep == IInv /\ [Next]_vars => SendIsAhead' /\ SentAtMostOnce'
<1> SUFFICES ASSUME IInv, [Next]_vars PROVE SendIsAhead' /\ SentAtMostOnce'
  OBVIOUS
<1> USE DEF TypeOK, SendIsAhead, SentAtMostOnce, BeforeSend, observed
<1>1. TypeOK /\ HolderIsBusy /\ OneWorkerPerJob /\ SendIsAhead /\ SentAtMostOnce
  BY DEF IInv
<1>2. ASSUME NEW j \in Jobs, Enqueue(j) \/ Notify(j) PROVE SendIsAhead' /\ SentAtMostOnce'
  BY <1>1, <1>2 DEF Enqueue, Notify, NextRow
<1>3. ASSUME NEW w \in Workers, Progress(w) \/ Trouble(w) PROVE SendIsAhead' /\ SentAtMostOnce'
  <2>1. CASE panel = "up" /\ Claim(w)
    <3>1. PICK j \in Jobs : /\ status[j] = "queued"
                            /\ status' = [status EXCEPT ![j] = "running"]
                            /\ holding' = [holding EXCEPT ![w] = j]
                            /\ pc' = [pc EXCEPT ![w] = "claimed"]
                            /\ sent' = sent
      BY <2>1 DEF Claim, OldestQueued, Goto
    <3>2. QED
      BY <1>1, <3>1
  <2>2. CASE panel = "up" /\ Send(w)
    <3>1. /\ pc[w] = "dispatching"
          /\ pc' = [pc EXCEPT ![w] = "calling"]
          /\ sent' = [sent EXCEPT ![holding[w]] = @ + 1]
          /\ UNCHANGED <<status, holding>>
      BY <2>2 DEF Send, Goto
    <3>2. holding[w] \in Jobs /\ status[holding[w]] = "running" /\ sent[holding[w]] = 0
      BY <1>1, <3>1 DEF HolderIsBusy, OneWorkerPerJob, Busy
    <3>3. \A v \in Workers : pc'[v] \in BeforeSend => holding[v] # holding[w]
      BY <1>1, <3>1, <3>2, NoneIsNoJob DEF OneWorkerPerJob
    <3>4. \A v \in Workers : pc'[v] \in BeforeSend => holding[v] \in Jobs
      BY <1>1, <3>1 DEF HolderIsBusy, Busy
    <3>5. QED
      BY <1>1, <3>1, <3>2, <3>3, <3>4
  <2>3. CASE panel = "up" /\ (ReadClaimed(w) \/ Load(w))
    BY <1>1, <2>3 DEF ReadClaimed, Load, Goto
  <2>4. CASE panel = "up" /\ Finish(w)
    <3>1. holding[w] \in Jobs
      BY <1>1, <2>4 DEF Finish, Goto, HolderIsBusy, Busy, AfterSend
    <3>2. QED
      BY <1>1, <2>4, <3>1 DEF Finish, Goto, Drop, OneWorkerPerJob
  <2>5. CASE /\ UNCHANGED <<status, sent>>
             /\ \A v \in Workers : pc'[v] \in BeforeSend => pc'[v] = pc[v] /\ holding'[v] = holding[v]
    BY <1>1, <2>5
  <2>6. CASE panel = "up" /\ (ClaimNothing(w) \/ ClaimError(w) \/ ReadClaimedError(w) \/ Wait(w)
                              \/ PollTimer(w) \/ BackoffTimer(w) \/ FinishErrorIgnored(w))
    BY <1>1, <2>5, <2>6 DEF ClaimNothing, ClaimError, ReadClaimedError, Wait, PollTimer, BackoffTimer,
       FinishErrorIgnored, Goto, Drop
  <2>7. CASE panel = "up" /\ (RunLocally(w) \/ Answer(w) \/ RecordSteps(w) \/ ApplyEffects(w)
                              \/ MarkSiteFailed(w) \/ RunError(w))
    BY <1>1, <2>5, <2>7 DEF RunLocally, Answer, RecordSteps, ApplyEffects, MarkSiteFailed, RunError, Goto
  <2>8. QED
    BY <1>3, <2>1, <2>2, <2>3, <2>4, <2>6, <2>7 DEF Progress, Trouble
<1>4. CASE Crash
  BY <1>1, <1>4 DEF Crash
<1>5. CASE Boot
  BY <1>1, <1>5 DEF Boot, RequeueOrphans
<1>6. CASE UNCHANGED vars
  BY <1>1, <1>6 DEF vars
<1>7. QED
  BY <1>2, <1>3, <1>4, <1>5, <1>6 DEF Next

(* The success is written by a worker that has applied the effects. *)
LEMMA ApplyStep == IInv /\ [Next]_vars => AppliedBeforeSuccess' /\ SucceededWasApplied'
<1> SUFFICES ASSUME IInv, [Next]_vars PROVE AppliedBeforeSuccess' /\ SucceededWasApplied'
  OBVIOUS
<1> USE DEF TypeOK, AppliedBeforeSuccess, SucceededWasApplied, observed
<1>1. TypeOK /\ HolderIsBusy /\ AppliedBeforeSuccess /\ SucceededWasApplied
  BY DEF IInv
<1>2. ASSUME NEW j \in Jobs, Enqueue(j) \/ Notify(j) PROVE AppliedBeforeSuccess' /\ SucceededWasApplied'
  BY <1>1, <1>2 DEF Enqueue, Notify
<1>3. ASSUME NEW w \in Workers, Progress(w) \/ Trouble(w) PROVE AppliedBeforeSuccess' /\ SucceededWasApplied'
  <2>1. CASE panel = "up" /\ (Claim(w) \/ ClaimNothing(w) \/ ClaimError(w) \/ Wait(w) \/ PollTimer(w) \/ BackoffTimer(w))
    BY <1>1, <2>1 DEF Claim, ClaimNothing, ClaimError, Wait, PollTimer, BackoffTimer, Goto
  <2>2. CASE panel = "up" /\ (ReadClaimed(w) \/ Load(w) \/ Send(w) \/ RunLocally(w) \/ Answer(w) \/ RecordSteps(w))
    BY <1>1, <2>2 DEF ReadClaimed, Load, Send, RunLocally, Answer, RecordSteps, Goto
  <2>3. CASE panel = "up" /\ (ApplyEffects(w) \/ MarkSiteFailed(w) \/ RunError(w))
    BY <1>1, <2>3 DEF ApplyEffects, MarkSiteFailed, RunError, Goto
  <2>4. CASE panel = "up" /\ (ReadClaimedError(w) \/ FinishErrorIgnored(w))
    BY <1>1, <2>4 DEF ReadClaimedError, FinishErrorIgnored, Goto, Drop
  <2>5. CASE panel = "up" /\ Finish(w)
    <3>1. holding[w] \in Jobs
      BY <1>1, <2>5 DEF Finish, Goto, HolderIsBusy, Busy, AfterSend
    <3>2. QED
      BY <1>1, <2>5, <3>1 DEF Finish, Goto, Drop
  <2>6. QED
    BY <1>3, <2>1, <2>2, <2>3, <2>4, <2>5 DEF Progress, Trouble
<1>4. CASE Crash
  BY <1>1, <1>4 DEF Crash
<1>5. CASE Boot
  BY <1>1, <1>5 DEF Boot, RequeueOrphans
<1>6. CASE UNCHANGED vars
  BY <1>1, <1>6 DEF vars
<1>7. QED
  BY <1>2, <1>3, <1>4, <1>5, <1>6 DEF Next

(* A worker lets go of a running row only by ending it or by a failed
   statement; only a boot forgets failed statements, and a boot leaves no row
   running. *)
LEMMA StrandStep == IInv /\ [Next]_vars => StrandedOnlyByFault'
<1> SUFFICES ASSUME IInv, [Next]_vars PROVE StrandedOnlyByFault'
  OBVIOUS
<1> USE DEF TypeOK, StrandedOnlyByFault, Held, observed
<1>1. TypeOK /\ HolderIsBusy /\ StrandedOnlyByFault
  BY DEF IInv
<1>2. ASSUME NEW j \in Jobs, Enqueue(j) \/ Notify(j) PROVE StrandedOnlyByFault'
  BY <1>1, <1>2 DEF Enqueue, Notify
<1>3. ASSUME NEW w \in Workers, Progress(w) \/ Trouble(w) PROVE StrandedOnlyByFault'
  <2>1. CASE Claim(w)
    <3>1. holding[w] \notin Jobs
      BY <1>1, <2>1 DEF Claim, Goto, HolderIsBusy, Busy, BeforeSend, AfterSend
    <3>2. QED
      BY <1>1, <2>1, <3>1 DEF Claim
  <2>2. CASE Finish(w)
    <3>1. holding[w] \in Jobs /\ status'[holding[w]] # "running"
      BY <1>1, <2>2 DEF Finish, Goto, HolderIsBusy, Busy, AfterSend
    <3>2. \A j \in Jobs : status'[j] = "running" => j # holding[w] /\ status[j] = "running"
      BY <1>1, <2>2, <3>1 DEF Finish
    <3>3. \A v \in Workers : v # w => holding'[v] = holding[v]
      BY <1>1, <2>2 DEF Finish, Drop
    <3>4. panel' = panel /\ faults' = faults
      BY <2>2 DEF Finish
    <3>5. QED
      BY <1>1, <3>1, <3>2, <3>3, <3>4
  <2>3. CASE faults' = faults + 1
    BY <1>1, <2>3
  <2>4. CASE UNCHANGED <<status, panel, holding, faults>>
    BY <1>1, <2>4
  <2>5. QED
    BY <1>3, <2>1, <2>2, <2>3, <2>4
       DEF Progress, Trouble, ClaimNothing, ClaimError, ReadClaimed, ReadClaimedError, Wait, PollTimer,
           BackoffTimer, Load, Send, RunLocally, Answer, RecordSteps, ApplyEffects, MarkSiteFailed,
           RunError, FinishErrorIgnored, Fault
<1>4. CASE Crash
  BY <1>1, <1>4 DEF Crash
<1>5. CASE Boot
  BY <1>1, <1>5 DEF Boot, RequeueOrphans
<1>6. CASE UNCHANGED vars
  BY <1>1, <1>6 DEF vars
<1>7. QED
  BY <1>2, <1>3, <1>4, <1>5, <1>6 DEF Next

(* What any step does to the table: one insert at the end, one claim of the
   oldest, one end of a running row, or the boot. *)
LEMMA TableStep ==
    ASSUME IInv, [Next]_vars
    PROVE  \/ \E j \in Jobs : NextRow(j) /\ status' = [status EXCEPT ![j] = "queued"]
           \/ \E j \in Jobs : OldestQueued(j) /\ status' = [status EXCEPT ![j] = "running"]
           \/ \E j \in Jobs, how \in Ended :
                  status[j] = "running" /\ status' = [status EXCEPT ![j] = how]
           \/ RequeueOrphans
           \/ UNCHANGED status
<1>1. ASSUME NEW w \in Workers, Finish(w)
      PROVE  \E j \in Jobs, how \in Ended :
                 status[j] = "running" /\ status' = [status EXCEPT ![j] = how]
  <2>1. holding[w] \in Jobs /\ status[holding[w]] = "running"
    BY <1>1 DEF IInv, TypeOK, HolderIsBusy, OneWorkerPerJob, Finish, Goto, Busy, AfterSend
  <2>2. QED
    BY <1>1, <2>1 DEF Finish, Ended
<1>2. QED
  BY <1>1 DEF Next, vars, Enqueue, Notify, Crash, Boot, observed, Claim, Goto,
         Progress, Trouble, ClaimNothing, ClaimError, ReadClaimed, ReadClaimedError, Wait, PollTimer,
         BackoffTimer, Load, Send, RunLocally, Answer, RecordSteps, ApplyEffects, MarkSiteFailed,
         RunError, FinishErrorIgnored

(* The started rows are the oldest ones. *)
LEMMA OrderStep == IInv /\ [Next]_vars => (NoGaps /\ StartedInOrder)'
<1> SUFFICES ASSUME IInv, [Next]_vars PROVE (NoGaps /\ StartedInOrder)'
  OBVIOUS
<1> USE DEF NoGaps, StartedInOrder, Ended
<1>1. TypeOK /\ NoGaps /\ StartedInOrder
  BY DEF IInv
<1>2. status \in [Jobs -> Statuses]
  BY <1>1 DEF TypeOK
<1>3. ASSUME NEW j \in Jobs, NextRow(j), status' = [status EXCEPT ![j] = "queued"]
      PROVE  (NoGaps /\ StartedInOrder)'
  <2>1. status[j] = "absent" /\ \A i \in Jobs : i < j => status[i] # "absent"
    BY <1>3 DEF NextRow
  <2>2. \A k \in Jobs : j < k => status[k] = "absent"
    BY <1>1, <2>1
  <2>3. QED
    BY <1>1, <1>2, <1>3, <2>1, <2>2 DEF Jobs
<1>4. ASSUME NEW j \in Jobs, OldestQueued(j), status' = [status EXCEPT ![j] = "running"]
      PROVE  (NoGaps /\ StartedInOrder)'
  BY <1>1, <1>2, <1>4 DEF OldestQueued, Jobs
<1>5. ASSUME NEW j \in Jobs, NEW how \in Ended, status[j] = "running",
             status' = [status EXCEPT ![j] = how]
      PROVE  (NoGaps /\ StartedInOrder)'
  BY <1>1, <1>2, <1>5
<1>6. CASE RequeueOrphans
  BY <1>1, <1>2, <1>6 DEF RequeueOrphans
<1>7. CASE UNCHANGED status
  BY <1>1, <1>7
<1>8. QED
  BY TableStep, <1>3, <1>4, <1>5, <1>6, <1>7

-------------------------------------------------------------------------------
(* The invariant, and the properties that are its conjuncts. *)
THEOREM InvariantHolds == Spec => []IInv
<1>1. IInv /\ [Next]_vars => IInv'
  BY TypeStep, HolderStep, OneWorkerStep, SendStep, ApplyStep, StrandStep, OrderStep DEF IInv
<1>2. QED
  BY InitEstablishes, <1>1, PTL DEF Spec

(* Every variable of the queue keeps its type. *)
THEOREM TypeCorrect == Spec => []TypeOK
  BY InvariantHolds, PTL DEF IInv

(* No two workers run one job: claim_next, whatever the number of workers. *)
THEOREM ExclusiveWorkers == Spec => []OneWorkerPerJob
  BY InvariantHolds, PTL DEF IInv

(* No job's operation is posted to an agent twice: run and requeue_orphans. *)
THEOREM AtMostOneSend == Spec => []SentAtMostOnce
  BY InvariantHolds, PTL DEF IInv

(* A succeeded job was applied to the panel's tables: run, apply_effects. *)
THEOREM SuccessMeansApplied == Spec => []SucceededWasApplied
  BY InvariantHolds, PTL DEF IInv

(* A running row without a worker proves a failed statement since the boot:
   claim_next, and the ignored finish of spawn. *)
THEOREM OnlyFaultsStrand == Spec => []StrandedOnlyByFault
  BY InvariantHolds, PTL DEF IInv

(* Jobs start in the order of their rows: claim_next. *)
THEOREM FirstInFirstStarted == Spec => []StartedInOrder
  BY InvariantHolds, PTL DEF IInv

(* An ended job is never rewritten: finish tests nothing, and need not. *)
THEOREM EndsAreFinal == Spec => EndIsFinal
<1>1. IInv /\ [Next]_vars => [\A j \in Jobs : status[j] \in Ended => status'[j] = status[j]]_vars
  <2> SUFFICES ASSUME IInv, [Next]_vars
               PROVE  \A j \in Jobs : status[j] \in Ended => status'[j] = status[j]
    OBVIOUS
  <2>1. status \in [Jobs -> Statuses]
    BY DEF IInv, TypeOK
  <2>2. QED
    BY <2>1, TableStep DEF NextRow, OldestQueued, RequeueOrphans, Ended
<1>2. QED
  BY InvariantHolds, <1>1, PTL DEF Spec, EndIsFinal

(* The table, its workers, its faults and its restarts implement JobLedger. *)
THEOREM ImplementsLedger == Spec => LedgerSpec
<1> USE DEF Jobs, Ended, Ledger!Jobs, Ledger!Ended
<1>1. Init => Ledger!Init
  BY DEF Init, Ledger!Init
<1>2. IInv /\ [Next]_vars => [Ledger!Next]_status
  BY TableStep DEF Ledger!Next, Ledger!Insert, Ledger!Start, Ledger!End, Ledger!Restart,
     Ledger!NextRow, Ledger!OldestQueued, NextRow, OldestQueued, RequeueOrphans
<1>3. QED
  BY InvariantHolds, <1>1, <1>2, PTL DEF Spec, LedgerSpec, Ledger!Spec
===============================================================================
