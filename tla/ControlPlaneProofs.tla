---------------------------- MODULE ControlPlaneProofs ----------------------------
(***************************************************************************)
(* Proofs about ControlPlane, for any sites and workers and any number of  *)
(* jobs and losses.  The row of a site and the agent's record of it are    *)
(* written by different steps of different workers, so each theorem rests  *)
(* on what the workers in between have in hand: a job that is running has  *)
(* exactly one worker, a site is provisioned by one job only, and while    *)
(* that job is still to be executed the agent has no record of the site.   *)
(***************************************************************************)
EXTENDS ControlPlane, SequenceTheorems, FiniteSetTheorems, TLAPS

Stages   == {"idle", "claimed", "calling", "accepted", "refused", "walking", "succeeding", "failing"}
Statuses == {"queued", "running", "succeeded", "failed"}

Busy(w)   == at[w] # "idle"
Has(w, s) == Busy(w) /\ on[w] = s

(* The agent has done for w an operation on s of one of these kinds, and the
   panel does not show it yet. *)
Done(w, s, kinds) == Has(w, s) /\ at[w] = "accepted" /\ Kind(w) \in kinds

(* Some job that provisions s is still to be executed. *)
Unexecuted(s) ==
    \/ \E u \in unqueued : u.site = s
    \/ \E j \in DOMAIN jobs : jobs[j].kind \in Provisions /\ jobs[j].site = s /\ jobs[j].status = "queued"
    \/ \E w \in Workers : Has(w, s) /\ at[w] \in {"claimed", "calling"} /\ Kind(w) \in Provisions
-------------------------------------------------------------------------------
(* The inductive invariant. *)

(* Workers and running jobs belong together, one to one. *)
Claim1 == \A w \in Workers : Busy(w) => held[w] \in DOMAIN jobs /\ jobs[held[w]].status = "running"
Claim2 == \A v, w \in Workers : Busy(v) /\ Busy(w) /\ held[v] = held[w] => v = w
Claim3 == \A j \in DOMAIN jobs : jobs[j].status = "running" => \E w \in Workers : Busy(w) /\ held[w] = j

(* What a worker took from its job stays right until the site is deleted. *)
Hand1 == \A w \in Workers : at[w] \in {"calling", "accepted", "refused"} => on[w] \in Sites
Hand2 == \A w \in Workers : Busy(w) => jobs[held[w]].site \in {on[w], NoSite}
Hand3 == \A w \in Workers : Busy(w) /\ on[w] \in Sites /\ row[on[w]] # "deleted" => jobs[held[w]].site = on[w]
Hand4 == \A w \in Workers : at[w] = "walking" /\ on[w] \in Sites =>
                              on[w] \in lost \/ (on[w] \in walked /\ Kind(w) = "import")

(* Nothing refers to a site before it has a row. *)
Refs ==
    \A s \in Sites : row[s] = "absent" =>
        /\ record[s] = "none"
        /\ \A t \in Sites : parent[t] # s
        /\ \A u \in unqueued : u.site # s
        /\ \A j \in DOMAIN jobs : jobs[j].site # s
        /\ \A w \in Workers : ~ Has(w, s)

(* A site is provisioned by one job. *)
Ticket1 == \A u \in unqueued : u.kind \in Provisions /\ u.site \in Sites /\ u.status = "queued"
Ticket2 == \A u, v \in unqueued : u.site = v.site => u = v
Ticket3 == \A u \in unqueued, j \in DOMAIN jobs : jobs[j].kind \in Provisions => jobs[j].site # u.site
Ticket4 == \A i, j \in DOMAIN jobs :
              /\ jobs[i].kind \in Provisions /\ jobs[j].kind \in Provisions
              /\ jobs[i].site = jobs[j].site /\ jobs[i].site \in Sites
              => i = j
Ticket5 == \A w \in Workers, u \in unqueued : Has(w, u.site) => Kind(w) \notin Provisions
Ticket6 == \A w \in Workers, j \in DOMAIN jobs :
              /\ Busy(w) /\ on[w] \in Sites /\ Kind(w) \in Provisions
              /\ jobs[j].kind \in Provisions /\ jobs[j].site = on[w]
              => j = held[w]
Ticket7 == \A v, w \in Workers :
              /\ Busy(v) /\ Busy(w) /\ on[v] = on[w] /\ on[v] \in Sites
              /\ Kind(v) \in Provisions /\ Kind(w) \in Provisions
              => v = w

(* The agent has no record of a site whose provisioning is still to come, nor
   of one that was deleted; and after the delete no provisioning is to come. *)
Fresh == \A s \in Sites \ (lost \cup revived) : Unexecuted(s) => record[s] = "none"
Gone  == \A s \in Sites \ (lost \cup revived) :
            row[s] = "deleted" \/ (\E w \in Workers : Done(w, s, {"delete"})) =>
                record[s] = "none" /\ ~ Unexecuted(s)

(* A row that shows a site the agent does not have is about to be deleted; so
   is one that is about to show it. *)
Shown ==
    \A s \in Sites \ (lost \cup walked) :
        /\ record[s] = "none"
        /\ row[s] \in {"online", "stopped"} \/ \E v \in Workers : Done(v, s, Provisions \cup {"start", "restart", "stop"})
        => row[s] \notin Live \/ \E w \in Workers : Done(w, s, {"delete"})

(* A worker that is through with a provisioning has taken the row on. *)
Marked ==
    \A w \in Workers :
        /\ Busy(w) /\ on[w] \in Sites \ lost /\ Kind(w) \in Provisions
        /\ at[w] = "succeeding" \/ (at[w] = "failing" /\ Kind(w) = "create")
        => row[on[w]] # "provisioning"

(* Jobs are claimed oldest first; so while a worker has a site for itself, the
   later jobs for the site wait. *)
Oldest == \A i, j \in DOMAIN jobs : i < j /\ jobs[j].status # "queued" => jobs[i].status # "queued"
Turn   == \A s \in Sites \ raced : \A w \in Workers, i \in DOMAIN jobs :
             Has(w, s) /\ jobs[i].site = s /\ i > held[w] => jobs[i].status = "queued"

(* One worker at a time: the row follows the record step by step. *)
Alone == \A s \in Sites \ raced : \A v, w \in Workers : Has(v, s) /\ Has(w, s) => v = w
Plain(s) == s \notin lost \cup raced \cup walked \cup revived /\ row[s] \in Live
Agree(s) == row[s] = "stopped" <=> record[s] = "stopped"
Parting(s) == \E w \in Workers : Has(w, s) /\ at[w] = "succeeding" /\ Kind(w) \in {"restart", "push"}
Follow1 == \A s \in Sites, w \in Workers : Plain(s) /\ Done(w, s, Kinds) => record[s] = Leaves(Kind(w), s)
Follow2 == \A s \in Sites : Plain(s) /\ (\A w \in Workers : ~ Done(w, s, Kinds)) =>
              Agree(s) \/ Parted(s) \/ Parting(s)
Follow3 == \A s \in Sites, w \in Workers :
              Plain(s) /\ Has(w, s) /\ at[w] = "refused" /\ Kind(w) = "create" => record[s] = "none"
Follow4 == \A s \in Sites, w \in Workers :
              Plain(s) /\ Has(w, s) /\ at[w] = "succeeding" /\ Kind(w) \in {"start", "stop"} => Agree(s)

Claims  == Claim1 /\ Claim2 /\ Claim3
Hand    == Hand1 /\ Hand2 /\ Hand3 /\ Hand4
Tickets == Ticket1 /\ Ticket2 /\ Ticket3 /\ Ticket4 /\ Ticket5 /\ Ticket6 /\ Ticket7
Order   == Oldest /\ Turn
Follow  == Alone /\ Follow1 /\ Follow2 /\ Follow3 /\ Follow4
IInv == TypeOK /\ Claims /\ Hand /\ Refs /\ Tickets /\ Fresh /\ Gone /\ Shown /\ Marked
        /\ StuckIsCopyOrLoss /\ Order /\ Follow
-------------------------------------------------------------------------------
(* The jobs table. *)

LEMMA JobsTable ==
  ASSUME TypeOK
  PROVE  /\ jobs \in Seq(JobRows) /\ Len(jobs) \in Nat /\ DOMAIN jobs = 1..Len(jobs)
         /\ \A j \in DOMAIN jobs :
              /\ jobs[j] \in JobRows
              /\ jobs[j].kind \in Kinds /\ jobs[j].status \in Statuses
              /\ jobs[j].site \in Sites \cup {NoSite} /\ jobs[j].source \in Sites \cup {NoSite}
<1>1. jobs \in Seq(JobRows)
  BY DEF TypeOK
<1>2. Len(jobs) \in Nat /\ DOMAIN jobs = 1..Len(jobs) /\ \A j \in DOMAIN jobs : jobs[j] \in JobRows
  BY <1>1, LenProperties, ElementOfSeq
<1>3. QED
  BY <1>1, <1>2 DEF JobRows, Statuses

LEMMA JobIsRow ==
  ASSUME NEW k \in Kinds, NEW s \in Sites \cup {NoSite}, NEW src \in Sites \cup {NoSite}
  PROVE  /\ Job(k, s, src) \in JobRows
         /\ Job(k, s, src).kind = k /\ Job(k, s, src).site = s
         /\ Job(k, s, src).source = src /\ Job(k, s, src).status = "queued"
BY DEF Job, JobRows

(* An insert adds a row and changes none. *)
LEMMA InsertedJob ==
  ASSUME TypeOK, NEW u \in JobRows, jobs' = Append(jobs, u)
  PROVE  /\ jobs' \in Seq(JobRows)
         /\ Len(jobs) + 1 \notin DOMAIN jobs
         /\ DOMAIN jobs' = DOMAIN jobs \cup {Len(jobs) + 1}
         /\ \A j \in DOMAIN jobs : jobs'[j] = jobs[j]
         /\ jobs'[Len(jobs) + 1] = u
<1>1. jobs \in Seq(JobRows) /\ Len(jobs) \in Nat /\ DOMAIN jobs = 1..Len(jobs)
  BY JobsTable
<1>2. /\ jobs' \in Seq(JobRows) /\ Len(jobs') = Len(jobs) + 1
      /\ \A i \in 1..Len(jobs) : jobs'[i] = jobs[i]
      /\ jobs'[Len(jobs) + 1] = u
  BY <1>1, AppendProperties
<1>3. DOMAIN jobs' = 1..(Len(jobs) + 1)
  BY <1>2, LenProperties
<1>4. QED
  BY <1>1, <1>2, <1>3

(* An UPDATE of one row's status changes nothing else. *)
LEMMA UpdatedStatus ==
  ASSUME TypeOK, NEW j \in DOMAIN jobs, NEW x \in Statuses, jobs' = [jobs EXCEPT ![j].status = x]
  PROVE  /\ jobs' \in Seq(JobRows) /\ DOMAIN jobs' = DOMAIN jobs
         /\ \A i \in DOMAIN jobs :
              /\ jobs'[i].kind = jobs[i].kind /\ jobs'[i].site = jobs[i].site
              /\ jobs'[i].source = jobs[i].source
              /\ jobs'[i].status = IF i = j THEN x ELSE jobs[i].status
<1>1. jobs \in Seq(JobRows) /\ DOMAIN jobs = 1..Len(jobs) /\ \A i \in DOMAIN jobs : jobs[i] \in JobRows
  BY JobsTable
<1>2. jobs' = [jobs EXCEPT ![j] = [jobs[j] EXCEPT !.status = x]]
  OBVIOUS
<1>3. [jobs[j] EXCEPT !.status = x] \in JobRows
  BY <1>1 DEF JobRows, Statuses
<1>4. /\ jobs' \in Seq(JobRows) /\ Len(jobs') = Len(jobs)
      /\ \A i \in 1..Len(jobs) : jobs'[i] = IF i = j THEN [jobs[j] EXCEPT !.status = x] ELSE jobs[i]
  <2>1. j \in 1..Len(jobs)
    BY <1>1
  <2> HIDE DEF JobRows
  <2>2. QED
    BY <1>1, <1>2, <1>3, <2>1, ExceptSeq
<1>5. DOMAIN jobs' = DOMAIN jobs
  BY <1>1, <1>4, LenProperties
<1>6. QED
  BY <1>1, <1>4, <1>5 DEF JobRows

(* The foreign key of a deleted site: its jobs stay, without a site. *)
LEMMA NulledSite ==
  ASSUME TypeOK, NEW s \in Sites,
         jobs' = [j \in DOMAIN jobs |->
                    IF jobs[j].site = s THEN [jobs[j] EXCEPT !.site = NoSite] ELSE jobs[j]]
  PROVE  /\ jobs' \in Seq(JobRows) /\ DOMAIN jobs' = DOMAIN jobs
         /\ \A i \in DOMAIN jobs :
              /\ jobs'[i].kind = jobs[i].kind /\ jobs'[i].status = jobs[i].status
              /\ jobs'[i].source = jobs[i].source
              /\ jobs'[i].site = IF jobs[i].site = s THEN NoSite ELSE jobs[i].site
<1>1. /\ Len(jobs) \in Nat /\ DOMAIN jobs = 1..Len(jobs) /\ \A i \in DOMAIN jobs : jobs[i] \in JobRows
  BY JobsTable
<1>2. \A i \in DOMAIN jobs : jobs'[i] \in JobRows
  BY <1>1 DEF JobRows
<1>3. jobs' \in Seq(JobRows)
  <2>1. jobs' = [i \in 1..Len(jobs) |-> jobs'[i]]
    BY <1>1
  <2> HIDE DEF JobRows
  <2>2. QED
    BY <1>1, <1>2, <2>1, IsASeq
<1>4. QED
  BY <1>1, <1>3 DEF JobRows

(* A restart fails what was running. *)
LEMMA FailedRunning ==
  ASSUME TypeOK,
         jobs' = [j \in DOMAIN jobs |->
                    IF jobs[j].status = "running" THEN [jobs[j] EXCEPT !.status = "failed"] ELSE jobs[j]]
  PROVE  /\ jobs' \in Seq(JobRows) /\ DOMAIN jobs' = DOMAIN jobs
         /\ \A i \in DOMAIN jobs :
              /\ jobs'[i].kind = jobs[i].kind /\ jobs'[i].site = jobs[i].site
              /\ jobs'[i].source = jobs[i].source
              /\ jobs'[i].status = IF jobs[i].status = "running" THEN "failed" ELSE jobs[i].status
<1>1. /\ Len(jobs) \in Nat /\ DOMAIN jobs = 1..Len(jobs) /\ \A i \in DOMAIN jobs : jobs[i] \in JobRows
  BY JobsTable
<1>2. \A i \in DOMAIN jobs : jobs'[i] \in JobRows
  BY <1>1 DEF JobRows
<1>3. jobs' \in Seq(JobRows)
  <2>1. jobs' = [i \in 1..Len(jobs) |-> jobs'[i]]
    BY <1>1
  <2> HIDE DEF JobRows
  <2>2. QED
    BY <1>1, <1>2, <2>1, IsASeq
<1>4. QED
  BY <1>1, <1>3 DEF JobRows
-------------------------------------------------------------------------------
(* What a worker's step is made of. *)

LEMMA GotoStage ==
  ASSUME TypeOK, NEW w \in Workers, NEW from, NEW to, Goto(w, from, to)
  PROVE  /\ at[w] \in from /\ at'[w] = to
         /\ \A v \in Workers : v # w => at'[v] = at[v]
         /\ to \in Stages => at' \in [Workers -> Stages]
BY DEF TypeOK, Goto, Stages

LEMMA ColumnTypes ==
  ASSUME TypeOK
  PROVE  /\ row \in [Sites -> Live \cup {"absent", "deleted"}]
         /\ record \in [Sites -> {"none", "up", "stopped"}]
         /\ parent \in [Sites -> Sites \cup {NoSite}]
         /\ at \in [Workers -> Stages]
         /\ held \in [Workers -> Nat]
         /\ on \in [Workers -> Sites \cup {NoSite}]
         /\ unqueued \subseteq JobRows
BY DEF TypeOK, Stages

(* A busy worker's job is a row of the table. *)
LEMMA HeldJob ==
  ASSUME TypeOK, Claim1, NEW w \in Workers, Busy(w)
  PROVE  /\ held[w] \in DOMAIN jobs /\ jobs[held[w]].status = "running"
         /\ Kind(w) \in Kinds /\ Source(w) \in Sites \cup {NoSite}
         /\ jobs[held[w]].site \in Sites \cup {NoSite}
BY JobsTable DEF Claim1, Kind, Source

(* What the effects of a job do to the tables. *)
LEMMA EffectsTypes ==
  ASSUME TypeOK, NEW k, NEW s \in Sites \cup {NoSite}, Effects(k, s)
  PROVE  /\ row' \in [Sites -> Live \cup {"absent", "deleted"}]
         /\ parent' \in [Sites -> Sites \cup {NoSite}]
         /\ staging' \in SUBSET Sites
         /\ jobs' \in Seq(JobRows)
<1>1. CASE s = NoSite \/ row[s] \notin Live
  BY <1>1 DEF TypeOK, Effects, panelVars
<1>2. CASE ~ (s = NoSite \/ row[s] \notin Live)
  <2>1. /\ row' = [row EXCEPT ![s] = EffectStatus(k, s)] /\ UNCHANGED staging
        /\ IF k # "delete" THEN UNCHANGED <<parent, jobs>>
           ELSE /\ parent' = [t \in Sites |-> IF parent[t] = s THEN NoSite ELSE parent[t]]
                /\ jobs' = [j \in DOMAIN jobs |->
                              IF jobs[j].site = s THEN [jobs[j] EXCEPT !.site = NoSite] ELSE jobs[j]]
    BY <1>2 DEF Effects
  <2>2. EffectStatus(k, s) \in Live \cup {"absent", "deleted"}
    BY <1>2 DEF EffectStatus, Live
  <2>3. row' \in [Sites -> Live \cup {"absent", "deleted"}]
    BY <2>1, <2>2, ColumnTypes
  <2>4. parent' \in [Sites -> Sites \cup {NoSite}]
    BY <2>1, ColumnTypes
  <2>5. jobs' \in Seq(JobRows)
    BY <1>2, <2>1, NulledSite, JobsTable
  <2>6. QED
    BY <2>1, <2>3, <2>4, <2>5 DEF TypeOK
<1>3. QED
  BY <1>1, <1>2

LEMMA PerformTypes ==
  ASSUME TypeOK, NEW w \in Workers, on[w] \in Sites, Perform(w)
  PROVE  /\ record' \in [Sites -> {"none", "up", "stopped"}]
         /\ revived' \in SUBSET Sites
<1>1. Leaves(Kind(w), on[w]) \in {"none", "up", "stopped"}
  BY ColumnTypes DEF Leaves
<1>2. record' = [record EXCEPT ![on[w]] = Leaves(Kind(w), on[w])]
  BY DEF Perform
<1>3. revived' = IF Kind(w) = "push" /\ record[on[w]] = "none" THEN revived \cup {on[w]} ELSE revived
  BY DEF Perform
<1>4. QED
  BY <1>1, <1>2, <1>3 DEF TypeOK

LEMMA LoseTypes ==
  ASSUME TypeOK, NEW ss, Lose(ss)
  PROVE  losses' \in Nat /\ lost' \in SUBSET Sites
BY DEF TypeOK, Lose
-------------------------------------------------------------------------------
(* Every step keeps the types. *)
LEMMA TypeStep ==
  ASSUME ControlAssumption, TypeOK, Claim1, Hand1, [Next]_vars
  PROVE  TypeOK'
<1> DEFINE T == /\ row' \in [Sites -> Live \cup {"absent", "deleted"}]
                /\ parent' \in [Sites -> Sites \cup {NoSite}]
                /\ staging' \in SUBSET Sites
                /\ unqueued' \in SUBSET JobRows
                /\ jobs' \in Seq(JobRows)
                /\ at' \in [Workers -> Stages]
                /\ held' \in [Workers -> Nat]
                /\ on' \in [Workers -> Sites \cup {NoSite}]
                /\ record' \in [Sites -> {"none", "up", "stopped"}]
                /\ losses' \in Nat
                /\ lost' \in SUBSET Sites /\ walked' \in SUBSET Sites
                /\ raced' \in SUBSET Sites /\ revived' \in SUBSET Sites
<1> SUFFICES T
  BY DEF TypeOK, Stages
<1>0. /\ row \in [Sites -> Live \cup {"absent", "deleted"}]
      /\ parent \in [Sites -> Sites \cup {NoSite}]
      /\ staging \in SUBSET Sites /\ unqueued \in SUBSET JobRows /\ jobs \in Seq(JobRows)
      /\ at \in [Workers -> Stages] /\ held \in [Workers -> Nat]
      /\ on \in [Workers -> Sites \cup {NoSite}]
      /\ record \in [Sites -> {"none", "up", "stopped"}]
      /\ losses \in Nat
      /\ lost \in SUBSET Sites /\ walked \in SUBSET Sites
      /\ raced \in SUBSET Sites /\ revived \in SUBSET Sites
  BY DEF TypeOK, Stages
<1>1. ASSUME NEW k \in Provisions, NEW s \in Sites, NEW src \in Sites \cup {NoSite}, InsertSite(k, s, src)
      PROVE  T
  <2>1. Job(k, s, src) \in JobRows
    BY JobIsRow DEF Kinds
  <2>2. row' \in [Sites -> Live \cup {"absent", "deleted"}]
    BY <1>0, <1>1 DEF InsertSite, Live
  <2>3. QED
    BY <1>0, <1>1, <2>1, <2>2 DEF InsertSite, workVars, observed
<1>2. ASSUME NEW u \in unqueued, EnqueueSite(u) PROVE T
  <2>1. jobs' \in Seq(JobRows)
    BY <1>0, <1>2, InsertedJob DEF EnqueueSite
  <2>2. QED
    BY <1>0, <1>2, <2>1 DEF EnqueueSite, panelVars, workVars, observed
<1>3. ASSUME NEW k \in Commands, NEW s \in Sites, Command(k, s) PROVE T
  <2>1. Job(k, s, NoSite) \in JobRows
    BY JobIsRow DEF Kinds
  <2>2. jobs' \in Seq(JobRows)
    BY <1>3, <2>1, InsertedJob DEF Command
  <2>3. QED
    BY <1>0, <1>3, <2>2 DEF Command, panelVars, workVars, observed
<1>4. ASSUME NEW s \in Sites, Push(s) PROVE T
  <2>1. Job("push", parent[s], s) \in JobRows
    <3>1. "push" \in Kinds /\ parent[s] \in Sites \cup {NoSite} /\ s \in Sites \cup {NoSite}
      BY <1>0 DEF Kinds
    <3>2. QED
      BY <3>1, JobIsRow
  <2>2. jobs' \in Seq(JobRows)
    BY <1>4, <2>1, InsertedJob DEF Push
  <2>3. QED
    BY <1>0, <1>4, <2>2 DEF Push, panelVars, workVars, observed
<1>5. ASSUME NEW w \in Workers, Claim(w) PROVE T
  <2>1. PICK j \in DOMAIN jobs :
          /\ Goto(w, {"idle"}, "claimed")
          /\ jobs' = [jobs EXCEPT ![j].status = "running"]
          /\ held' = [held EXCEPT ![w] = j]
          /\ on' = [on EXCEPT ![w] = jobs[j].site]
          /\ raced' = raced \cup {s \in {jobs[j].site} \cap Sites :
                                    \E v \in Workers : at[v] # "idle" /\ on[v] = s}
          /\ UNCHANGED <<panelVars, unqueued, record, losses, lost, walked, revived>>
    BY <1>5 DEF Claim
  <2>2. jobs' \in Seq(JobRows)
    BY <2>1, UpdatedStatus DEF Statuses
  <2>3. at' \in [Workers -> Stages]
    BY <2>1, GotoStage DEF Stages
  <2>4. held' \in [Workers -> Nat] /\ on' \in [Workers -> Sites \cup {NoSite}]
    BY <1>0, <2>1, JobsTable
  <2>5. raced' \in SUBSET Sites
    BY <1>0, <2>1
  <2>6. QED
    BY <1>0, <2>1, <2>2, <2>3, <2>4, <2>5 DEF panelVars
<1>6. ASSUME NEW w \in Workers, Post(w) PROVE T
  <2>1. at' \in [Workers -> Stages]
    BY <1>6, GotoStage DEF Post, Stages
  <2>2. QED
    BY <1>0, <1>6, <2>1 DEF Post, panelVars, observed
<1>7. ASSUME NEW w \in Workers, WalkLocally(w) PROVE T
  <2>1. at' \in [Workers -> Stages]
    BY <1>7, GotoStage DEF WalkLocally, Stages
  <2>2. QED
    BY <1>0, <1>7, <2>1 DEF WalkLocally, panelVars
<1>8. ASSUME NEW w \in Workers, Execute(w) PROVE T
  <2>1. at' \in [Workers -> Stages] /\ on[w] \in Sites
    BY <1>8, GotoStage DEF Execute, Stages, Hand1
  <2>2. CASE Perform(w) /\ UNCHANGED <<losses, lost>>
    <3>1. record' \in [Sites -> {"none", "up", "stopped"}] /\ revived' \in SUBSET Sites
      BY <2>1, <2>2, PerformTypes
    <3>2. QED
      BY <1>0, <2>1, <2>2, <3>1 DEF Perform, panelVars
  <2>3. CASE UNCHANGED <<panelVars, unqueued, jobs, held, on, record, losses, lost, observed>>
    BY <1>0, <2>1, <2>3 DEF panelVars, observed
  <2>4. QED
    BY <1>8, <2>2, <2>3 DEF Execute
<1>9. ASSUME NEW w \in Workers, Apply(w) PROVE T
  <2>1. at' \in [Workers -> Stages]
    BY <1>9, GotoStage DEF Apply, Stages
  <2>2. /\ row' \in [Sites -> Live \cup {"absent", "deleted"}]
        /\ parent' \in [Sites -> Sites \cup {NoSite}]
        /\ staging' \in SUBSET Sites
        /\ jobs' \in Seq(JobRows)
    <3>1. Effects(Kind(w), on[w]) /\ on[w] \in Sites \cup {NoSite}
      BY <1>0, <1>9 DEF Apply
    <3>2. QED
      BY <3>1, EffectsTypes
  <2>3. QED
    BY <1>0, <1>9, <2>1, <2>2 DEF Apply, observed
<1>10. ASSUME NEW w \in Workers, MarkSiteFailed(w) PROVE T
  <2>1. at' \in [Workers -> Stages]
    BY <1>10, GotoStage DEF MarkSiteFailed, Stages
  <2>2. row' \in [Sites -> Live \cup {"absent", "deleted"}]
    BY <1>0, <1>10 DEF MarkSiteFailed, Live
  <2>3. QED
    BY <1>0, <1>10, <2>1, <2>2 DEF MarkSiteFailed, observed
<1>11. ASSUME NEW w \in Workers, Finish(w) PROVE T
  <2>1. at' \in [Workers -> Stages]
    BY <1>11, GotoStage DEF Finish, Stages
  <2>2. held[w] \in DOMAIN jobs
    BY <1>11, GotoStage, HeldJob DEF Finish, Busy
  <2>3. jobs' \in Seq(JobRows)
    <3>1. PICK x \in Statuses : jobs' = [jobs EXCEPT ![held[w]].status = x]
      BY <1>11 DEF Finish, Statuses
    <3>2. QED
      BY <2>2, <3>1, UpdatedStatus
  <2>4. QED
    BY <1>0, <1>11, <2>1, <2>3 DEF Finish, panelVars, observed
<1>12. ASSUME NEW w \in Workers, Timeout(w) PROVE T
  <2>1. at' \in [Workers -> Stages]
    BY <1>12, GotoStage DEF Timeout, Stages
  <2>2. losses' \in Nat /\ lost' \in SUBSET Sites
    BY <1>12, LoseTypes DEF Timeout
  <2>3. QED
    BY <1>0, <1>12, <2>1, <2>2 DEF Timeout, panelVars, observed
<1>13. ASSUME NEW w \in Workers, FlushFails(w) PROVE T
  <2>1. at' \in [Workers -> Stages] /\ on[w] \in Sites
    BY <1>13, GotoStage DEF FlushFails, Stages, Hand1
  <2>2. losses' \in Nat /\ lost' \in SUBSET Sites
    BY <1>13, LoseTypes DEF FlushFails
  <2>3. record' \in [Sites -> {"none", "up", "stopped"}] /\ revived' \in SUBSET Sites
    BY <1>13, <2>1, PerformTypes DEF FlushFails
  <2>4. QED
    BY <1>0, <1>13, <2>1, <2>2, <2>3 DEF FlushFails, Perform, panelVars
<1>14. ASSUME NEW w \in Workers, StatementFails(w) PROVE T
  <2>1. at' \in [Workers -> Stages]
    BY <1>14, GotoStage DEF StatementFails, Stages
  <2>2. losses' \in Nat /\ lost' \in SUBSET Sites
    BY <1>14, LoseTypes DEF StatementFails
  <2>3. QED
    BY <1>0, <1>14, <2>1, <2>2 DEF StatementFails, panelVars, observed
<1>15. ASSUME Restart PROVE T
  <2>1. losses' \in Nat /\ lost' \in SUBSET Sites
    BY <1>15, LoseTypes DEF Restart
  <2>2. jobs' \in Seq(JobRows)
    BY <1>15, FailedRunning DEF Restart
  <2>3. at' \in [Workers -> Stages] /\ held' \in [Workers -> Nat] /\ on' \in [Workers -> Sites \cup {NoSite}]
    BY <1>15 DEF Restart, Stages
  <2>4. QED
    BY <1>0, <1>15, <2>1, <2>2, <2>3 DEF Restart, panelVars, observed
<1>16. ASSUME UNCHANGED vars PROVE T
  BY <1>0, <1>16 DEF vars, panelVars, workVars, observed
<1>17. QED
  BY <1>1, <1>2, <1>3, <1>4, <1>5, <1>6, <1>7, <1>8, <1>9, <1>10, <1>11, <1>12, <1>13, <1>14,
     <1>15, <1>16 DEF Next, Work
-------------------------------------------------------------------------------
(* The steps, column by column.  Each of the following says what one sort of
   step reads and writes; every step of the specification is of one of them. *)

Others(w) == \A v \in Workers \ {w} : at'[v] = at[v] /\ held'[v] = held[v] /\ on'[v] = on[v]
HandsKept == held' = held /\ on' = on
TablesKept == row' = row /\ parent' = parent /\ jobs' = jobs /\ unqueued' = unqueued
ObservedKept == lost' = lost /\ walked' = walked /\ raced' = raced /\ revived' = revived

(* A site's row is written, its job is still in the handler's hands. *)
InsertDoes(u) ==
    /\ u.kind \in Provisions /\ u.site \in Sites /\ u.status = "queued"
    /\ row[u.site] = "absent" /\ row' = [row EXCEPT ![u.site] = "provisioning"]
    /\ \A t \in Sites : parent'[t] = parent[t] \/ parent'[t] = NoSite
                        \/ (parent'[t] \in Sites /\ row[parent'[t]] # "absent")
    /\ unqueued' = unqueued \cup {u}
    /\ jobs' = jobs /\ at' = at /\ HandsKept /\ record' = record /\ ObservedKept

(* A job enters the table: that of a new site, or one for a site that is there. *)
AddDoes(u) ==
    /\ u.site \in Sites /\ u.status = "queued" /\ row[u.site] # "absent"
    /\ \/ u \in unqueued /\ unqueued' = unqueued \ {u}
       \/ u.kind \notin Provisions /\ unqueued' = unqueued
    /\ Len(jobs) + 1 \notin DOMAIN jobs
    /\ DOMAIN jobs' = DOMAIN jobs \cup {Len(jobs) + 1}
    /\ \A j \in DOMAIN jobs : jobs'[j] = jobs[j]
    /\ jobs'[Len(jobs) + 1] = u
    /\ row' = row /\ parent' = parent /\ at' = at /\ HandsKept /\ record' = record /\ ObservedKept

(* The foreign key refuses the job. *)
RefuseDoes(u) ==
    /\ u \in unqueued /\ row[u.site] \notin Live
    /\ unqueued' = unqueued \ {u}
    /\ row' = row /\ parent' = parent /\ jobs' = jobs
    /\ at' = at /\ HandsKept /\ record' = record /\ ObservedKept

ClaimDoes(w, j) ==
    /\ at[w] = "idle" /\ at'[w] = "claimed" /\ held'[w] = j /\ on'[w] = jobs[j].site /\ Others(w)
    /\ jobs[j].status = "queued" /\ \A i \in DOMAIN jobs : i < j => jobs[i].status # "queued"
    /\ DOMAIN jobs' = DOMAIN jobs
    /\ \A i \in DOMAIN jobs :
         /\ jobs'[i].kind = jobs[i].kind /\ jobs'[i].site = jobs[i].site
         /\ jobs'[i].status = IF i = j THEN "running" ELSE jobs[i].status
    /\ raced \subseteq raced'
    /\ \A v \in Workers : Busy(v) /\ on[v] = jobs[j].site /\ on[v] \in Sites => on[v] \in raced'
    /\ row' = row /\ parent' = parent /\ unqueued' = unqueued /\ record' = record
    /\ lost' = lost /\ walked' = walked /\ revived' = revived

(* A worker goes on: to the call, to a refusal, without a call, or with its
   answer lost. *)
MoveDoes(w, to) ==
    /\ Busy(w) /\ at'[w] = to /\ Others(w) /\ HandsKept
    /\ lost \subseteq lost' /\ walked \subseteq walked'
    /\ \/ to = "calling" /\ at[w] = "claimed" /\ on[w] \in Sites
       \/ to = "refused" /\ at[w] = "calling"
       \/ /\ to = "walking" /\ at[w] = "claimed"
          /\ on[w] \in Sites => on[w] \in walked' /\ Kind(w) = "import"
       \/ /\ to \in {"refused", "walking", "failing"} /\ (on[w] \in Sites => on[w] \in lost')
          /\ to = "refused" => at[w] \in {"calling", "accepted", "refused"}
    /\ TablesKept /\ record' = record /\ raced' = raced /\ revived' = revived

(* The agent does it; its answer may be lost. *)
PerformDoes(w, to) ==
    /\ at[w] = "calling" /\ at'[w] = to /\ Others(w) /\ HandsKept /\ lost \subseteq lost'
    /\ to = "accepted" \/ (to = "refused" /\ on[w] \in lost')
    /\ on[w] \in Sites /\ Accepts(Kind(w), on[w], Source(w))
    /\ record' = [record EXCEPT ![on[w]] = Leaves(Kind(w), on[w])]
    /\ revived' = IF Kind(w) = "push" /\ record[on[w]] = "none" THEN revived \cup {on[w]} ELSE revived
    /\ TablesKept /\ walked' = walked /\ raced' = raced

(* The row takes on what the job did; nothing is deleted. *)
ApplyDoes(w) ==
    /\ at[w] \in {"accepted", "walking"} /\ at'[w] = "succeeding" /\ Others(w) /\ HandsKept
    /\ \/ on[w] = NoSite /\ row' = row
       \/ on[w] \in Sites /\ row[on[w]] \notin Live /\ row' = row
       \/ /\ on[w] \in Sites /\ row[on[w]] \in Live /\ Kind(w) # "delete"
          /\ row' = [row EXCEPT ![on[w]] = EffectStatus(Kind(w), on[w])]
    /\ parent' = parent /\ jobs' = jobs /\ unqueued' = unqueued /\ record' = record /\ ObservedKept

DeleteDoes(w) ==
    /\ at[w] \in {"accepted", "walking"} /\ at'[w] = "succeeding" /\ Others(w) /\ HandsKept
    /\ on[w] \in Sites /\ row[on[w]] \in Live /\ Kind(w) = "delete"
    /\ row' = [row EXCEPT ![on[w]] = "deleted"]
    /\ \A t \in Sites : parent'[t] \in {parent[t], NoSite}
    /\ DOMAIN jobs' = DOMAIN jobs
    /\ \A j \in DOMAIN jobs :
         /\ jobs'[j].kind = jobs[j].kind /\ jobs'[j].status = jobs[j].status
         /\ jobs'[j].site = IF jobs[j].site = on[w] THEN NoSite ELSE jobs[j].site
    /\ unqueued' = unqueued /\ record' = record /\ ObservedKept

MarkDoes(w) ==
    /\ at[w] = "refused" /\ at'[w] = "failing" /\ Others(w) /\ HandsKept /\ on[w] \in Sites
    /\ row' = IF Kind(w) = "create" /\ row[on[w]] \in Live THEN [row EXCEPT ![on[w]] = "failed"] ELSE row
    /\ parent' = parent /\ jobs' = jobs /\ unqueued' = unqueued /\ record' = record /\ ObservedKept

FinishDoes(w) ==
    /\ at[w] \in {"succeeding", "failing"} /\ at'[w] = "idle"
    /\ held'[w] = 0 /\ on'[w] = NoSite /\ Others(w)
    /\ DOMAIN jobs' = DOMAIN jobs
    /\ \A j \in DOMAIN jobs :
         /\ jobs'[j].kind = jobs[j].kind /\ jobs'[j].site = jobs[j].site
         /\ jobs'[j].status = IF j # held[w] THEN jobs[j].status
                              ELSE IF at[w] = "succeeding" THEN "succeeded" ELSE "failed"
    /\ row' = row /\ parent' = parent /\ unqueued' = unqueued /\ record' = record /\ ObservedKept

RestartDoes ==
    /\ \A w \in Workers : at'[w] = "idle" /\ (on[w] \in Sites => on[w] \in lost')
    /\ \A u \in unqueued : u.site \in Sites => u.site \in lost'
    /\ unqueued' = {} /\ lost \subseteq lost'
    /\ DOMAIN jobs' = DOMAIN jobs
    /\ \A j \in DOMAIN jobs :
         /\ jobs'[j].kind = jobs[j].kind /\ jobs'[j].site = jobs[j].site
         /\ jobs'[j].status = IF jobs[j].status = "running" THEN "failed" ELSE jobs[j].status
    /\ row' = row /\ parent' = parent /\ record' = record
    /\ walked' = walked /\ raced' = raced /\ revived' = revived

NothingDoes == TablesKept /\ at' = at /\ HandsKept /\ record' = record /\ ObservedKept

SomethingDoes ==
    \/ \E u \in JobRows : InsertDoes(u) \/ AddDoes(u) \/ RefuseDoes(u)
    \/ \E w \in Workers, j \in DOMAIN jobs : ClaimDoes(w, j)
    \/ \E w \in Workers, to \in Stages : MoveDoes(w, to) \/ PerformDoes(w, to)
    \/ \E w \in Workers : ApplyDoes(w) \/ DeleteDoes(w) \/ MarkDoes(w) \/ FinishDoes(w)
    \/ RestartDoes
    \/ NothingDoes

LEMMA OthersStay ==
  ASSUME TypeOK, NEW w \in Workers, NEW from, NEW to, Goto(w, from, to), UNCHANGED <<held, on>>
  PROVE  at[w] \in from /\ at'[w] = to /\ Others(w) /\ HandsKept
BY GotoStage DEF Others, HandsKept

(* The handlers. *)
LEMMA HandlersDo ==
  ASSUME ControlAssumption, TypeOK, Refs, Ticket1,
         \/ \E k \in Provisions, s \in Sites, src \in Sites \cup {NoSite} : InsertSite(k, s, src)
         \/ \E u \in unqueued : EnqueueSite(u)
         \/ \E k \in Commands, s \in Sites : Command(k, s)
         \/ \E s \in Sites : Push(s)
  PROVE  SomethingDoes
<1>0. Provisions \cap Commands = {} /\ "push" \notin Provisions
  BY DEF Provisions, Commands
<1>1. ASSUME NEW k \in Provisions, NEW s \in Sites, NEW src \in Sites \cup {NoSite}, InsertSite(k, s, src)
      PROVE  SomethingDoes
  <2> DEFINE u == Job(k, s, src)
  <2>1. u \in JobRows /\ u.kind = k /\ u.site = s /\ u.status = "queued"
    BY JobIsRow DEF Kinds
  <2>2. src \in Sites => row[src] # "absent"
    BY <1>1 DEF InsertSite, Live, ControlAssumption
  <2>3. \A t \in Sites : parent'[t] = parent[t] \/ parent'[t] = NoSite
                         \/ (parent'[t] \in Sites /\ row[parent'[t]] # "absent")
    BY <1>1, <2>2 DEF InsertSite, TypeOK
  <2>4. InsertDoes(u)
    <3> HIDE DEF u
    <3>1. unqueued' = unqueued \cup {u}
      BY <1>1 DEF InsertSite, u
    <3>2. QED
      BY <1>1, <2>1, <2>3, <3>1 DEF InsertDoes, InsertSite, workVars, observed, HandsKept, ObservedKept
  <2>5. QED
    BY <2>1, <2>4 DEF SomethingDoes
<1>2. ASSUME NEW u \in unqueued, EnqueueSite(u) PROVE SomethingDoes
  <2>1. u \in JobRows /\ u.kind \in Provisions /\ u.site \in Sites /\ u.status = "queued"
    BY ColumnTypes DEF Ticket1
  <2>2. CASE row[u.site] \in Live
    <3>1. AddDoes(u)
      BY <1>2, <2>1, <2>2, InsertedJob
         DEF AddDoes, EnqueueSite, panelVars, workVars, observed, HandsKept, ObservedKept, Live
    <3>2. QED
      BY <2>1, <3>1 DEF SomethingDoes
  <2>3. CASE row[u.site] \notin Live
    <3>1. RefuseDoes(u)
      BY <1>2, <2>3 DEF RefuseDoes, EnqueueSite, panelVars, workVars, observed, HandsKept, ObservedKept
    <3>2. QED
      BY <2>1, <3>1 DEF SomethingDoes
  <2>4. QED
    BY <2>2, <2>3
<1>3. ASSUME NEW k \in Commands, NEW s \in Sites, Command(k, s) PROVE SomethingDoes
  <2> DEFINE u == Job(k, s, NoSite)
  <2>1. u \in JobRows /\ u.kind = k /\ u.site = s /\ u.status = "queued"
    BY JobIsRow DEF Kinds
  <2>2. AddDoes(u)
    <3>1. jobs' = Append(jobs, u)
      BY <1>3 DEF Command
    <3>2. row[s] # "absent" /\ k \notin Provisions
      BY <1>0, <1>3 DEF Command, Live
    <3> HIDE DEF u
    <3>3. QED
      BY <1>3, <2>1, <3>1, <3>2, InsertedJob
         DEF AddDoes, Command, panelVars, workVars, observed, HandsKept, ObservedKept
  <2>3. QED
    BY <2>1, <2>2 DEF SomethingDoes
<1>4. ASSUME NEW s \in Sites, Push(s) PROVE SomethingDoes
  <2> DEFINE u == Job("push", parent[s], s)
  <2>1. parent[s] \in Sites /\ row[parent[s]] # "absent"
    BY <1>4, ColumnTypes DEF Push, Refs
  <2>2. u \in JobRows /\ u.kind = "push" /\ u.site = parent[s] /\ u.status = "queued"
    <3>1. "push" \in Kinds
      BY DEF Kinds
    <3>2. QED
      BY <2>1, <3>1, JobIsRow
  <2>3. AddDoes(u)
    <3>1. jobs' = Append(jobs, u)
      BY <1>4 DEF Push
    <3> HIDE DEF u
    <3>2. QED
      BY <1>0, <1>4, <2>1, <2>2, <3>1, InsertedJob
         DEF AddDoes, Push, panelVars, workVars, observed, HandsKept, ObservedKept
  <2>4. QED
    BY <2>2, <2>3 DEF SomethingDoes
<1>5. QED
  BY <1>1, <1>2, <1>3, <1>4

(* A worker that takes a job, and one that is through with it. *)
LEMMA ClaimAndFinishDo ==
  ASSUME TypeOK, Claim1, NEW w \in Workers, Claim(w) \/ Finish(w)
  PROVE  SomethingDoes
<1>1. ASSUME Claim(w) PROVE SomethingDoes
  <2>1. PICK j \in DOMAIN jobs :
          /\ Goto(w, {"idle"}, "claimed")
          /\ jobs[j].status = "queued" /\ \A i \in 1..(j - 1) : jobs[i].status # "queued"
          /\ jobs' = [jobs EXCEPT ![j].status = "running"]
          /\ held' = [held EXCEPT ![w] = j]
          /\ on' = [on EXCEPT ![w] = jobs[j].site]
          /\ raced' = raced \cup {s \in {jobs[j].site} \cap Sites :
                                    \E v \in Workers : at[v] # "idle" /\ on[v] = s}
          /\ UNCHANGED <<panelVars, unqueued, record, losses, lost, walked, revived>>
    BY <1>1 DEF Claim
  <2>2. /\ DOMAIN jobs' = DOMAIN jobs
        /\ \A i \in DOMAIN jobs :
             /\ jobs'[i].kind = jobs[i].kind /\ jobs'[i].site = jobs[i].site
             /\ jobs'[i].status = IF i = j THEN "running" ELSE jobs[i].status
    BY <2>1, UpdatedStatus DEF Statuses
  <2>3. at[w] = "idle" /\ at'[w] = "claimed" /\ held'[w] = j /\ on'[w] = jobs[j].site /\ Others(w)
    BY <2>1, GotoStage, ColumnTypes DEF Others
  <2>4. /\ raced \subseteq raced'
        /\ \A v \in Workers : Busy(v) /\ on[v] = jobs[j].site /\ on[v] \in Sites => on[v] \in raced'
    BY <2>1 DEF Busy
  <2>5. \A i \in DOMAIN jobs : i < j => jobs[i].status # "queued"
    BY <2>1, JobsTable
  <2>6. ClaimDoes(w, j)
    BY <2>1, <2>2, <2>3, <2>4, <2>5 DEF ClaimDoes, panelVars
  <2>7. QED
    BY <2>6 DEF SomethingDoes
<1>2. ASSUME Finish(w) PROVE SomethingDoes
  <2>1. /\ at[w] \in {"succeeding", "failing"} /\ at'[w] = "idle"
        /\ held'[w] = 0 /\ on'[w] = NoSite /\ Others(w)
    BY <1>2, GotoStage, ColumnTypes DEF Finish, Others
  <2>2. held[w] \in DOMAIN jobs
    BY <2>1, HeldJob DEF Busy
  <2> DEFINE x == IF at[w] = "succeeding" THEN "succeeded" ELSE "failed"
  <2>3. jobs' = [jobs EXCEPT ![held[w]].status = x] /\ x \in Statuses
    BY <1>2 DEF Finish, Statuses
  <2> HIDE DEF x
  <2>4. /\ DOMAIN jobs' = DOMAIN jobs
        /\ \A j \in DOMAIN jobs :
             /\ jobs'[j].kind = jobs[j].kind /\ jobs'[j].site = jobs[j].site
             /\ jobs'[j].status = IF j = held[w] THEN x ELSE jobs[j].status
    BY <2>2, <2>3, UpdatedStatus
  <2>5. FinishDoes(w)
    BY <1>2, <2>1, <2>4 DEF FinishDoes, Finish, panelVars, observed, ObservedKept, x
  <2>6. QED
    BY <2>5 DEF SomethingDoes
<1>3. QED
  BY <1>1, <1>2

(* A worker that calls the agent, or whose answer is lost. *)
LEMMA CallsDo ==
  ASSUME ControlAssumption, TypeOK, Hand1, NEW w \in Workers,
         \/ Post(w) \/ WalkLocally(w) \/ Execute(w)
         \/ Timeout(w) \/ FlushFails(w) \/ StatementFails(w)
  PROVE  SomethingDoes
<1>0. on[w] \in Sites \cup {NoSite}
  BY ColumnTypes
<1>a. ASSUME NEW to \in Stages, MoveDoes(w, to) PROVE SomethingDoes
  BY <1>a DEF SomethingDoes
<1>b. ASSUME NEW to \in Stages, PerformDoes(w, to) PROVE SomethingDoes
  BY <1>b DEF SomethingDoes
<1>c. ASSUME at[w] = "calling", NEW to, at'[w] = to, Others(w), HandsKept, Perform(w), lost \subseteq lost',
             to = "accepted" \/ (to = "refused" /\ on[w] \in lost')
      PROVE  PerformDoes(w, to)
  BY <1>c DEF PerformDoes, Perform, Hand1, TablesKept, panelVars
<1>1. CASE Post(w)
  <2>1. at[w] \in {"claimed"} /\ at'[w] = "calling" /\ Others(w) /\ HandsKept
    BY <1>1, OthersStay DEF Post
  <2>2. MoveDoes(w, "calling")
    BY <1>0, <1>1, <2>1 DEF MoveDoes, Post, Busy, TablesKept, panelVars, observed
  <2>3. QED
    BY <1>a, <2>2 DEF Stages
<1>2. CASE WalkLocally(w)
  <2>1. at[w] \in {"claimed"} /\ at'[w] = "walking" /\ Others(w) /\ HandsKept
    BY <1>2, OthersStay DEF WalkLocally
  <2>2. MoveDoes(w, "walking")
    BY <1>0, <1>2, <2>1 DEF MoveDoes, WalkLocally, Busy, TablesKept, panelVars, ControlAssumption
  <2>3. QED
    BY <1>a, <2>2 DEF Stages
<1>3. CASE Execute(w)
  <2>1. CASE Goto(w, {"calling"}, "accepted") /\ Perform(w) /\ UNCHANGED <<losses, lost>>
    <3>1. at[w] \in {"calling"} /\ at'[w] = "accepted" /\ Others(w) /\ HandsKept
      BY <2>1, OthersStay DEF Perform
    <3>2. PerformDoes(w, "accepted")
      BY <1>c, <2>1, <3>1
    <3>3. QED
      BY <1>b, <3>2 DEF Stages
  <2>2. CASE /\ Goto(w, {"calling"}, "refused")
             /\ UNCHANGED <<panelVars, unqueued, jobs, held, on, record, losses, lost, observed>>
    <3>1. at[w] \in {"calling"} /\ at'[w] = "refused" /\ Others(w) /\ HandsKept
      BY <2>2, OthersStay
    <3>2. MoveDoes(w, "refused")
      BY <2>2, <3>1 DEF MoveDoes, Busy, TablesKept, panelVars, observed
    <3>3. QED
      BY <1>a, <3>2 DEF Stages
  <2>3. QED
    BY <1>3, <2>1, <2>2 DEF Execute
<1>4. CASE Timeout(w)
  <2>1. PICK to \in {"walking", "refused"} : Goto(w, {"calling", "accepted", "refused"}, to)
    BY <1>4 DEF Timeout
  <2>2. /\ at[w] \in {"calling", "accepted", "refused"} /\ at'[w] = to /\ Others(w) /\ HandsKept
    BY <1>4, <2>1, OthersStay DEF Timeout
  <2>3. lost \subseteq lost' /\ (on[w] \in Sites => on[w] \in lost')
    BY <1>4 DEF Timeout, Lose
  <2>4. MoveDoes(w, to)
    BY <1>4, <2>2, <2>3 DEF MoveDoes, Timeout, Busy, TablesKept, panelVars, observed
  <2>5. QED
    BY <1>a, <2>4 DEF Stages
<1>5. CASE FlushFails(w)
  <2>1. at[w] \in {"calling"} /\ at'[w] = "refused" /\ Others(w) /\ HandsKept
    BY <1>5, OthersStay DEF FlushFails, Perform
  <2>2. lost \subseteq lost' /\ on[w] \in lost'
    BY <1>5, <2>1 DEF FlushFails, Lose, Hand1
  <2>3. PerformDoes(w, "refused")
    BY <1>5, <1>c, <2>1, <2>2 DEF FlushFails
  <2>4. QED
    BY <1>b, <2>3 DEF Stages
<1>6. CASE StatementFails(w)
  <2>1. /\ at[w] \in {"claimed", "accepted", "walking", "refused", "succeeding"} /\ at'[w] = "failing"
        /\ Others(w) /\ HandsKept
    BY <1>6, OthersStay DEF StatementFails
  <2>2. lost \subseteq lost' /\ (on[w] \in Sites => on[w] \in lost')
    BY <1>6 DEF StatementFails, Lose
  <2>3. MoveDoes(w, "failing")
    BY <1>6, <2>1, <2>2 DEF MoveDoes, StatementFails, Busy, TablesKept, panelVars, observed
  <2>4. QED
    BY <1>a, <2>3 DEF Stages
<1>7. QED
  BY <1>1, <1>2, <1>3, <1>4, <1>5, <1>6

(* A worker that writes what its job did to the panel's tables. *)
LEMMA WritesDo ==
  ASSUME TypeOK, Hand1, NEW w \in Workers, Apply(w) \/ MarkSiteFailed(w)
  PROVE  SomethingDoes
<1>0. on[w] \in Sites \cup {NoSite}
  BY ColumnTypes
<1>1. CASE Apply(w)
  <2>1. at[w] \in {"accepted", "walking"} /\ at'[w] = "succeeding" /\ Others(w) /\ HandsKept
    BY <1>1, OthersStay DEF Apply
  <2>2. CASE on[w] = NoSite \/ row[on[w]] \notin Live
    <3>1. UNCHANGED <<panelVars, jobs>>
      BY <1>1, <2>2 DEF Apply, Effects
    <3>2. ApplyDoes(w)
      BY <1>0, <1>1, <2>1, <2>2, <3>1 DEF ApplyDoes, Apply, panelVars, observed, ObservedKept
    <3>3. QED
      BY <3>2 DEF SomethingDoes
  <2>3. CASE ~ (on[w] = NoSite \/ row[on[w]] \notin Live) /\ Kind(w) # "delete"
    <3>1. /\ row' = [row EXCEPT ![on[w]] = EffectStatus(Kind(w), on[w])]
          /\ UNCHANGED <<parent, jobs>>
      BY <1>1, <2>3 DEF Apply, Effects
    <3>2. ApplyDoes(w)
      BY <1>0, <1>1, <2>1, <2>3, <3>1 DEF ApplyDoes, Apply, observed, ObservedKept
    <3>3. QED
      BY <3>2 DEF SomethingDoes
  <2>4. CASE ~ (on[w] = NoSite \/ row[on[w]] \notin Live) /\ Kind(w) = "delete"
    <3> DEFINE s == on[w]
    <3>1. /\ row' = [row EXCEPT ![s] = EffectStatus(Kind(w), s)]
          /\ parent' = [t \in Sites |-> IF parent[t] = s THEN NoSite ELSE parent[t]]
          /\ jobs' = [j \in DOMAIN jobs |->
                        IF jobs[j].site = s THEN [jobs[j] EXCEPT !.site = NoSite] ELSE jobs[j]]
      BY <1>1, <2>4 DEF Apply, Effects
    <3>2. s \in Sites /\ row[s] \in Live /\ row' = [row EXCEPT ![s] = "deleted"]
      BY <1>0, <2>4, <3>1 DEF EffectStatus
    <3>3. \A t \in Sites : parent'[t] \in {parent[t], NoSite}
      BY <3>1
    <3>4. /\ DOMAIN jobs' = DOMAIN jobs
          /\ \A i \in DOMAIN jobs :
               /\ jobs'[i].kind = jobs[i].kind /\ jobs'[i].status = jobs[i].status
               /\ jobs'[i].site = IF jobs[i].site = s THEN NoSite ELSE jobs[i].site
      <4> HIDE DEF s
      <4>1. QED
        BY <3>1, <3>2, NulledSite
    <3>5. DeleteDoes(w)
      BY <1>1, <2>1, <2>4, <3>2, <3>3, <3>4 DEF DeleteDoes, Apply, observed, ObservedKept
    <3>6. QED
      BY <3>5 DEF SomethingDoes
  <2>5. QED
    BY <2>2, <2>3, <2>4
<1>2. CASE MarkSiteFailed(w)
  <2>1. at[w] \in {"refused"} /\ at'[w] = "failing" /\ Others(w) /\ HandsKept
    BY <1>2, OthersStay DEF MarkSiteFailed
  <2>2. MarkDoes(w)
    BY <1>2, <2>1 DEF MarkDoes, MarkSiteFailed, observed, ObservedKept, Hand1
  <2>3. QED
    BY <2>2 DEF SomethingDoes
<1>3. QED
  BY <1>1, <1>2

(* Every step is one of those. *)
LEMMA StepDoes ==
  ASSUME ControlAssumption, TypeOK, Claim1, Hand1, Refs, Ticket1, [Next]_vars
  PROVE  SomethingDoes
<1>1. CASE \/ \E k \in Provisions, s \in Sites, src \in Sites \cup {NoSite} : InsertSite(k, s, src)
           \/ \E u \in unqueued : EnqueueSite(u)
           \/ \E k \in Commands, s \in Sites : Command(k, s)
           \/ \E s \in Sites : Push(s)
  BY <1>1, HandlersDo
<1>2. CASE \E w \in Workers : Work(w) \/ Timeout(w) \/ FlushFails(w) \/ StatementFails(w)
  BY <1>2, ClaimAndFinishDo, CallsDo, WritesDo DEF Work
<1>3. CASE Restart
  <2>1. /\ \A w \in Workers : at'[w] = "idle" /\ (on[w] \in Sites => on[w] \in lost')
        /\ \A u \in unqueued : u.site \in Sites => u.site \in lost'
        /\ unqueued' = {} /\ lost \subseteq lost'
    BY <1>3 DEF Restart, Lose
  <2>2. /\ DOMAIN jobs' = DOMAIN jobs
        /\ \A j \in DOMAIN jobs :
             /\ jobs'[j].kind = jobs[j].kind /\ jobs'[j].site = jobs[j].site
             /\ jobs'[j].status = IF jobs[j].status = "running" THEN "failed" ELSE jobs[j].status
    BY <1>3, FailedRunning DEF Restart
  <2>3. RestartDoes
    BY <1>3, <2>1, <2>2 DEF RestartDoes, Restart, panelVars, observed
  <2>4. QED
    BY <2>3 DEF SomethingDoes
<1>4. CASE UNCHANGED vars
  BY <1>4 DEF SomethingDoes, NothingDoes, TablesKept, HandsKept, ObservedKept,
              vars, panelVars, workVars, observed
<1>5. QED
  BY <1>1, <1>2, <1>3, <1>4 DEF Next

-------------------------------------------------------------------------------
(* Workers and running jobs stay together, one to one. *)
LEMMA ClaimsStep ==
  ASSUME TypeOK, Claims, SomethingDoes
  PROVE  Claims'
<1> USE DEF Claims, Claim1, Claim2, Claim3, Busy, Others, HandsKept, TablesKept
<1>1. ASSUME NEW u \in JobRows, InsertDoes(u) PROVE Claims'
  BY <1>1 DEF InsertDoes
<1>2. ASSUME NEW u \in JobRows, AddDoes(u) PROVE Claims'
  BY <1>2 DEF AddDoes
<1>3. ASSUME NEW u \in JobRows, RefuseDoes(u) PROVE Claims'
  BY <1>3 DEF RefuseDoes
<1>4. ASSUME NEW w \in Workers, NEW j \in DOMAIN jobs, ClaimDoes(w, j) PROVE Claims'
  BY <1>4 DEF ClaimDoes
<1>5. ASSUME NEW w \in Workers, NEW to \in Stages, MoveDoes(w, to) PROVE Claims'
  BY <1>5 DEF MoveDoes
<1>6. ASSUME NEW w \in Workers, NEW to \in Stages, PerformDoes(w, to) PROVE Claims'
  BY <1>6 DEF PerformDoes
<1>7. ASSUME NEW w \in Workers, ApplyDoes(w) PROVE Claims'
  BY <1>7 DEF ApplyDoes
<1>8. ASSUME NEW w \in Workers, DeleteDoes(w) PROVE Claims'
  BY <1>8 DEF DeleteDoes
<1>9. ASSUME NEW w \in Workers, MarkDoes(w) PROVE Claims'
  BY <1>9 DEF MarkDoes
<1>10. ASSUME NEW w \in Workers, FinishDoes(w) PROVE Claims'
  BY <1>10 DEF FinishDoes
<1>11. ASSUME RestartDoes PROVE Claims'
  BY <1>11 DEF RestartDoes
<1>12. ASSUME NothingDoes PROVE Claims'
  BY <1>12 DEF NothingDoes
<1>13. QED
  BY <1>1, <1>2, <1>3, <1>4, <1>5, <1>6, <1>7, <1>8, <1>9, <1>10, <1>11, <1>12 DEF SomethingDoes

(* What a worker took from its job stays right until the site is deleted. *)
LEMMA HandStep ==
  ASSUME TypeOK, Claim1, Hand, SomethingDoes
  PROVE  Hand'
<1> USE DEF Hand, Hand1, Hand2, Hand3, Hand4, Claim1, Busy, Kind, Others, HandsKept, TablesKept, ObservedKept
<1>a. row \in [Sites -> Live \cup {"absent", "deleted"}] /\ on \in [Workers -> Sites \cup {NoSite}]
  BY ColumnTypes
<1>1. ASSUME NEW u \in JobRows, InsertDoes(u) PROVE Hand'
  BY <1>1 DEF InsertDoes
<1>2. ASSUME NEW u \in JobRows, AddDoes(u) PROVE Hand'
  BY <1>2 DEF AddDoes
<1>3. ASSUME NEW u \in JobRows, RefuseDoes(u) PROVE Hand'
  BY <1>3 DEF RefuseDoes
<1>4. ASSUME NEW w \in Workers, NEW j \in DOMAIN jobs, ClaimDoes(w, j) PROVE Hand'
  BY <1>4 DEF ClaimDoes
<1>5. ASSUME NEW w \in Workers, NEW to \in Stages, MoveDoes(w, to) PROVE Hand'
  BY <1>5 DEF MoveDoes
<1>6. ASSUME NEW w \in Workers, NEW to \in Stages, PerformDoes(w, to) PROVE Hand'
  BY <1>6 DEF PerformDoes
<1>7. ASSUME NEW w \in Workers, ApplyDoes(w) PROVE Hand'
  BY <1>7, <1>a DEF ApplyDoes, Live
<1>8. ASSUME NEW w \in Workers, DeleteDoes(w) PROVE Hand'
  BY <1>8, <1>a DEF DeleteDoes
<1>9. ASSUME NEW w \in Workers, MarkDoes(w) PROVE Hand'
  BY <1>9 DEF MarkDoes, Live
<1>10. ASSUME NEW w \in Workers, FinishDoes(w) PROVE Hand'
  BY <1>10 DEF FinishDoes
<1>11. ASSUME RestartDoes PROVE Hand'
  BY <1>11 DEF RestartDoes
<1>12. ASSUME NothingDoes PROVE Hand'
  BY <1>12 DEF NothingDoes
<1>13. QED
  BY <1>1, <1>2, <1>3, <1>4, <1>5, <1>6, <1>7, <1>8, <1>9, <1>10, <1>11, <1>12 DEF SomethingDoes

(* Nothing refers to a site before it has a row. *)
LEMMA RefsStep ==
  ASSUME ControlAssumption, TypeOK, Claim1, Hand1, Refs, Ticket1, SomethingDoes
  PROVE  Refs'
<1> USE DEF Refs, Claim1, Ticket1, Busy, Has, Kind, Others, HandsKept, TablesKept, ObservedKept
<1>a. row \in [Sites -> Live \cup {"absent", "deleted"}] /\ on \in [Workers -> Sites \cup {NoSite}]
  BY ColumnTypes
<1>1. ASSUME NEW u \in JobRows, InsertDoes(u) PROVE Refs'
  BY <1>1, <1>a DEF InsertDoes
<1>2. ASSUME NEW u \in JobRows, AddDoes(u) PROVE Refs'
  BY <1>2 DEF AddDoes
<1>3. ASSUME NEW u \in JobRows, RefuseDoes(u) PROVE Refs'
  BY <1>3 DEF RefuseDoes
<1>4. ASSUME NEW w \in Workers, NEW j \in DOMAIN jobs, ClaimDoes(w, j) PROVE Refs'
  BY <1>4 DEF ClaimDoes
<1>5. ASSUME NEW w \in Workers, NEW to \in Stages, MoveDoes(w, to) PROVE Refs'
  BY <1>5 DEF MoveDoes
<1>6. ASSUME NEW w \in Workers, NEW to \in Stages, PerformDoes(w, to) PROVE Refs'
  BY <1>6 DEF PerformDoes
<1>7. ASSUME NEW w \in Workers, ApplyDoes(w) PROVE Refs'
  BY <1>7, <1>a DEF ApplyDoes, EffectStatus, Live
<1>8. ASSUME NEW w \in Workers, DeleteDoes(w) PROVE Refs'
  BY <1>8 DEF DeleteDoes
<1>9. ASSUME NEW w \in Workers, MarkDoes(w) PROVE Refs'
  BY <1>9 DEF MarkDoes
<1>10. ASSUME NEW w \in Workers, FinishDoes(w) PROVE Refs'
  BY <1>10 DEF FinishDoes
<1>11. ASSUME RestartDoes PROVE Refs'
  BY <1>11 DEF RestartDoes
<1>12. ASSUME NothingDoes PROVE Refs'
  BY <1>12 DEF NothingDoes
<1>13. QED
  BY <1>1, <1>2, <1>3, <1>4, <1>5, <1>6, <1>7, <1>8, <1>9, <1>10, <1>11, <1>12 DEF SomethingDoes

(* A site is provisioned by one job only. *)
LEMMA TicketsStep ==
  ASSUME ControlAssumption, TypeOK, Claim1, Hand1, Refs, Tickets, SomethingDoes
  PROVE  Tickets'
<1> USE DEF Tickets, Ticket1, Ticket2, Ticket3, Ticket4, Ticket5, Ticket6, Ticket7, Refs, Claim1, Busy, Has, Kind, Others, HandsKept, TablesKept, ObservedKept
<1>1. ASSUME NEW u \in JobRows, InsertDoes(u) PROVE Tickets'
  BY <1>1 DEF InsertDoes
<1>2. ASSUME NEW u \in JobRows, AddDoes(u) PROVE Tickets'
  BY <1>2 DEF AddDoes
<1>3. ASSUME NEW u \in JobRows, RefuseDoes(u) PROVE Tickets'
  BY <1>3 DEF RefuseDoes
<1>4. ASSUME NEW w \in Workers, NEW j \in DOMAIN jobs, ClaimDoes(w, j) PROVE Tickets'
  BY <1>4 DEF ClaimDoes
<1>5. ASSUME NEW w \in Workers, NEW to \in Stages, MoveDoes(w, to) PROVE Tickets'
  BY <1>5 DEF MoveDoes
<1>6. ASSUME NEW w \in Workers, NEW to \in Stages, PerformDoes(w, to) PROVE Tickets'
  BY <1>6 DEF PerformDoes
<1>7. ASSUME NEW w \in Workers, ApplyDoes(w) PROVE Tickets'
  BY <1>7 DEF ApplyDoes
<1>8. ASSUME NEW w \in Workers, DeleteDoes(w) PROVE Tickets'
  BY <1>8 DEF DeleteDoes
<1>9. ASSUME NEW w \in Workers, MarkDoes(w) PROVE Tickets'
  BY <1>9 DEF MarkDoes
<1>10. ASSUME NEW w \in Workers, FinishDoes(w) PROVE Tickets'
  BY <1>10 DEF FinishDoes
<1>11. ASSUME RestartDoes PROVE Tickets'
  BY <1>11 DEF RestartDoes
<1>12. ASSUME NothingDoes PROVE Tickets'
  BY <1>12 DEF NothingDoes
<1>13. QED
  BY <1>1, <1>2, <1>3, <1>4, <1>5, <1>6, <1>7, <1>8, <1>9, <1>10, <1>11, <1>12 DEF SomethingDoes

-------------------------------------------------------------------------------
(* No step but an insert makes a site one that is still to be provisioned. *)
LEMMA UnexecutedStep ==
  ASSUME ControlAssumption, TypeOK, Claim1, NEW s \in Sites, Unexecuted(s)', SomethingDoes
  PROVE  Unexecuted(s) \/ row[s] = "absent"
<1> USE DEF Unexecuted, Busy, Has, Kind, Claim1, Others, HandsKept, TablesKept
<1>1. ASSUME NEW u \in JobRows, InsertDoes(u) PROVE Unexecuted(s) \/ row[s] = "absent"
  BY <1>1 DEF InsertDoes
<1>2. ASSUME NEW u \in JobRows, AddDoes(u) PROVE Unexecuted(s) \/ row[s] = "absent"
  BY <1>2 DEF AddDoes
<1>3. ASSUME NEW u \in JobRows, RefuseDoes(u) PROVE Unexecuted(s) \/ row[s] = "absent"
  BY <1>3 DEF RefuseDoes
<1>4. ASSUME NEW w \in Workers, NEW j \in DOMAIN jobs, ClaimDoes(w, j) PROVE Unexecuted(s) \/ row[s] = "absent"
  BY <1>4 DEF ClaimDoes
<1>5. ASSUME NEW w \in Workers, NEW to \in Stages, MoveDoes(w, to) PROVE Unexecuted(s) \/ row[s] = "absent"
  BY <1>5 DEF MoveDoes
<1>6. ASSUME NEW w \in Workers, NEW to \in Stages, PerformDoes(w, to) PROVE Unexecuted(s) \/ row[s] = "absent"
  BY <1>6 DEF PerformDoes
<1>7. ASSUME NEW w \in Workers, ApplyDoes(w) PROVE Unexecuted(s) \/ row[s] = "absent"
  BY <1>7 DEF ApplyDoes
<1>8. ASSUME NEW w \in Workers, DeleteDoes(w) PROVE Unexecuted(s) \/ row[s] = "absent"
  BY <1>8 DEF DeleteDoes
<1>9. ASSUME NEW w \in Workers, MarkDoes(w) PROVE Unexecuted(s) \/ row[s] = "absent"
  BY <1>9 DEF MarkDoes
<1>10. ASSUME NEW w \in Workers, FinishDoes(w) PROVE Unexecuted(s) \/ row[s] = "absent"
  BY <1>10 DEF FinishDoes
<1>11. ASSUME RestartDoes PROVE Unexecuted(s) \/ row[s] = "absent"
  BY <1>11 DEF RestartDoes
<1>12. ASSUME NothingDoes PROVE Unexecuted(s) \/ row[s] = "absent"
  BY <1>12 DEF NothingDoes
<1>13. QED
  BY <1>1, <1>2, <1>3, <1>4, <1>5, <1>6, <1>7, <1>8, <1>9, <1>10, <1>11, <1>12 DEF SomethingDoes

(* The history variables grow, and only an operation of the agent changes its
   records. *)
LEMMA RecordStep ==
  ASSUME SomethingDoes
  PROVE  /\ lost \subseteq lost' /\ walked \subseteq walked' /\ raced \subseteq raced' /\ revived \subseteq revived'
         /\ record' = record \/ \E w \in Workers, to \in Stages : PerformDoes(w, to)
BY DEF SomethingDoes, InsertDoes, AddDoes, RefuseDoes, ClaimDoes, MoveDoes, PerformDoes, ApplyDoes,
       DeleteDoes, MarkDoes, FinishDoes, RestartDoes, NothingDoes, ObservedKept

(* Once the agent has done the one job that provisions a site, none is left. *)
LEMMA Provisioned ==
  ASSUME TypeOK, Claim1, Tickets, NEW w \in Workers, NEW to \in Stages, PerformDoes(w, to),
         Kind(w) \in Provisions
  PROVE  ~ Unexecuted(on[w])'
<1>1. on[w] \in Sites /\ Has(w, on[w]) /\ jobs' = jobs /\ unqueued' = unqueued /\ HandsKept
  BY DEF PerformDoes, TablesKept, Has, Busy
<1>2. \A u \in unqueued' : u.site # on[w]
  BY <1>1 DEF Tickets, Ticket5
<1>3. \A j \in DOMAIN jobs' :
        jobs'[j].kind \in Provisions /\ jobs'[j].site = on[w] => jobs'[j].status = "running"
  BY <1>1 DEF Tickets, Ticket6, Claim1, Has
<1>4. ASSUME NEW v \in Workers, Has(v, on[w])', Kind(v)' \in Provisions PROVE at'[v] = to
  <2>1. CASE v = w
    BY <2>1 DEF PerformDoes
  <2>2. CASE v # w
    <3>1. Has(v, on[w]) /\ Kind(v) \in Provisions
      BY <1>1, <1>4, <2>2 DEF PerformDoes, Others, HandsKept, Has, Busy, Kind
    <3>2. QED
      BY <1>1, <2>2, <3>1 DEF Tickets, Ticket7, Has
  <2>3. QED
    BY <2>1, <2>2
<1>5. to \notin {"claimed", "calling"}
  BY DEF PerformDoes
<1>6. on'[w] = on[w]
  BY <1>1 DEF HandsKept
<1>7. QED
  BY <1>1, <1>2, <1>3, <1>4, <1>5, <1>6 DEF Unexecuted

(* The agent has no record of a site that is still to be provisioned. *)
LEMMA FreshStep ==
  ASSUME ControlAssumption, TypeOK, Claim1, Refs, Tickets, Fresh, SomethingDoes
  PROVE  Fresh'
<1> SUFFICES ASSUME NEW s \in Sites, s \notin lost', s \notin revived', Unexecuted(s)'
             PROVE  record'[s] = "none"
  BY DEF Fresh
<1>1. s \notin lost /\ s \notin revived
  BY RecordStep
<1>2. Unexecuted(s) \/ row[s] = "absent"
  BY UnexecutedStep
<1>3. record[s] = "none"
  BY <1>1, <1>2 DEF Fresh, Refs
<1>4. ASSUME NEW w \in Workers, NEW to \in Stages, PerformDoes(w, to) PROVE record'[s] = "none"
  <2>1. CASE on[w] # s
    BY <1>3, <1>4, <2>1 DEF PerformDoes
  <2>2. CASE on[w] = s /\ Kind(w) \in Provisions
    <3>1. on'[w] = on[w]
      BY <1>4 DEF PerformDoes, HandsKept
    <3>2. QED
      BY <1>4, <2>2, <3>1, Provisioned
  <2>3. CASE on[w] = s /\ Kind(w) = "push"
    BY <1>3, <1>4, <2>3 DEF PerformDoes
  <2>4. CASE on[w] = s /\ Kind(w) = "delete"
    BY <1>4, <2>4, ColumnTypes DEF PerformDoes, Leaves
  <2>5. CASE on[w] = s /\ Kind(w) \in {"start", "restart", "stop"}
    BY <1>3, <1>4, <2>5 DEF PerformDoes, Accepts
  <2>6. Kind(w) \in Kinds
    BY <1>4, HeldJob DEF PerformDoes, Busy
  <2>7. QED
    BY <2>1, <2>2, <2>3, <2>4, <2>5, <2>6 DEF Kinds, Commands
<1>5. QED
  BY <1>3, <1>4, RecordStep

(* A site is deleted: in the panel, or on the server with the panel to follow. *)
Deleted(s) == row[s] = "deleted" \/ \E v \in Workers : Done(v, s, {"delete"})

(* It was already, or the agent deletes it now, or an answer about it is lost. *)
Deleting(s) ==
    \/ Deleted(s) \/ s \in lost'
    \/ \E v \in Workers : on[v] = s /\ Kind(v) = "delete" /\ PerformDoes(v, "accepted")

(* What makes a site one that is deleted. *)
LEMMA DeletedBy ==
  ASSUME ControlAssumption, TypeOK, Claim1, Hand4, NEW s \in Sites,
         Deleted(s)', SomethingDoes
  PROVE  Deleting(s)
<1> USE DEF Deleted, Deleting, Done, Has, Busy, Kind, Hand4, Claim1, Others, HandsKept, TablesKept, ObservedKept
<1>a. row \in [Sites -> Live \cup {"absent", "deleted"}]
  BY ColumnTypes
<1>1. ASSUME NEW u \in JobRows, InsertDoes(u) PROVE Deleting(s)
  BY <1>1 DEF InsertDoes
<1>2. ASSUME NEW u \in JobRows, AddDoes(u) PROVE Deleting(s)
  BY <1>2 DEF AddDoes
<1>3. ASSUME NEW u \in JobRows, RefuseDoes(u) PROVE Deleting(s)
  BY <1>3 DEF RefuseDoes
<1>4. ASSUME NEW w \in Workers, NEW j \in DOMAIN jobs, ClaimDoes(w, j) PROVE Deleting(s)
  BY <1>4 DEF ClaimDoes
<1>5. ASSUME NEW w \in Workers, NEW to \in Stages, MoveDoes(w, to) PROVE Deleting(s)
  BY <1>5 DEF MoveDoes
<1>6. ASSUME NEW w \in Workers, NEW to \in Stages, PerformDoes(w, to) PROVE Deleting(s)
  BY <1>6 DEF PerformDoes
<1>7. ASSUME NEW w \in Workers, ApplyDoes(w) PROVE Deleting(s)
  BY <1>7, <1>a DEF ApplyDoes, EffectStatus, Live
<1>8. ASSUME NEW w \in Workers, DeleteDoes(w) PROVE Deleting(s)
  BY <1>8 DEF DeleteDoes
<1>9. ASSUME NEW w \in Workers, MarkDoes(w) PROVE Deleting(s)
  BY <1>9 DEF MarkDoes
<1>10. ASSUME NEW w \in Workers, FinishDoes(w) PROVE Deleting(s)
  BY <1>10 DEF FinishDoes
<1>11. ASSUME RestartDoes PROVE Deleting(s)
  BY <1>11 DEF RestartDoes
<1>12. ASSUME NothingDoes PROVE Deleting(s)
  BY <1>12 DEF NothingDoes
<1>13. QED
  BY <1>1, <1>2, <1>3, <1>4, <1>5, <1>6, <1>7, <1>8, <1>9, <1>10, <1>11, <1>12 DEF SomethingDoes

(* A site that is deleted has no record on the agent, and none is to come. *)
LEMMA GoneStep ==
  ASSUME ControlAssumption, TypeOK, Claim1, Hand4, Refs, Tickets, Fresh, Gone, SomethingDoes
  PROVE  Gone'
<1> SUFFICES ASSUME NEW s \in Sites, s \notin lost', s \notin revived', Deleted(s)'
             PROVE  record'[s] = "none" /\ ~ Unexecuted(s)'
  BY DEF Gone, Deleted
<1>1. s \notin lost /\ s \notin revived
  BY RecordStep
<1>2. row[s] # "absent" \/ ~ Deleted(s)
  BY DEF Refs, Deleted, Done
<1>3. CASE Deleted(s)
  <2>1. record[s] = "none" /\ ~ Unexecuted(s) /\ row[s] # "absent"
    BY <1>1, <1>2, <1>3 DEF Gone, Deleted
  <2>2. ~ Unexecuted(s)'
    BY <2>1, UnexecutedStep
  <2>3. ASSUME NEW w \in Workers, NEW to \in Stages, PerformDoes(w, to) PROVE record'[s] = "none"
    <3>1. CASE on[w] # s
      BY <2>1, <2>3, <3>1 DEF PerformDoes
    <3>2. CASE on[w] = s
      <4>1. Kind(w) \notin Provisions
        BY <2>1, <2>3, <3>2 DEF Unexecuted, PerformDoes, Has, Busy
      <4>2. Kind(w) # "push"
        BY <2>1, <2>3, <3>2 DEF PerformDoes
      <4>3. Kind(w) \notin {"start", "restart", "stop"}
        BY <2>1, <2>3, <3>2 DEF PerformDoes, Accepts
      <4>4. Kind(w) = "delete"
        BY <2>3, <4>1, <4>2, <4>3, HeldJob DEF PerformDoes, Busy, Kinds, Commands
      <4>5. QED
        BY <2>3, <3>2, <4>4, ColumnTypes DEF PerformDoes, Leaves
    <3>3. QED
      BY <3>1, <3>2
  <2>4. QED
    BY <2>1, <2>2, <2>3, RecordStep
<1>4. CASE \E v \in Workers : on[v] = s /\ Kind(v) = "delete" /\ PerformDoes(v, "accepted")
  <2>1. PICK v \in Workers : on[v] = s /\ Kind(v) = "delete" /\ PerformDoes(v, "accepted")
    BY <1>4
  <2>2. record'[s] = "none"
    BY <2>1, ColumnTypes DEF PerformDoes, Leaves
  <2>3. record[s] # "none"
    BY <2>1 DEF PerformDoes, Accepts
  <2>4. ~ Unexecuted(s) /\ row[s] # "absent"
    BY <1>1, <2>3 DEF Fresh, Refs
  <2>5. QED
    BY <2>2, <2>4, UnexecutedStep
<1>5. QED
  BY <1>3, <1>4, DeletedBy DEF Deleting

-------------------------------------------------------------------------------
(* The panel shows a site as there, or is about to; and a row that is gone, or
   is about to be. *)
Builds == Provisions \cup {"start", "restart", "stop"}
Showing(s) == row[s] \in {"online", "stopped"} \/ \E v \in Workers : Done(v, s, Builds)
Covered(s) == row[s] \notin Live \/ \E w \in Workers : Done(w, s, {"delete"})

(* What makes a site one that is shown. *)
LEMMA ShowingStep ==
  ASSUME TypeOK, Claim1, Hand4, NEW s \in Sites, Showing(s)', SomethingDoes
  PROVE  \/ Showing(s) \/ s \in lost' \cup walked'
         \/ \E v \in Workers : on[v] = s /\ Kind(v) \in Builds /\ PerformDoes(v, "accepted")
<1> DEFINE shows == \/ Showing(s) \/ s \in lost' \cup walked'
                    \/ \E v \in Workers : on[v] = s /\ Kind(v) \in Builds /\ PerformDoes(v, "accepted")
<1> SUFFICES shows
  OBVIOUS
<1> USE DEF Showing, Done, Has, Busy, Kind, Hand4, Claim1, Others, HandsKept, TablesKept, ObservedKept
<1>a. row \in [Sites -> Live \cup {"absent", "deleted"}]
  BY ColumnTypes
<1>b. \A w \in Workers : Busy(w) => Kind(w) \in Kinds
  BY HeldJob DEF Claim1
<1>1. ASSUME NEW u \in JobRows, InsertDoes(u) PROVE shows
  BY <1>1 DEF InsertDoes
<1>2. ASSUME NEW u \in JobRows, AddDoes(u) PROVE shows
  BY <1>2 DEF AddDoes
<1>3. ASSUME NEW u \in JobRows, RefuseDoes(u) PROVE shows
  BY <1>3 DEF RefuseDoes
<1>4. ASSUME NEW w \in Workers, NEW j \in DOMAIN jobs, ClaimDoes(w, j) PROVE shows
  BY <1>4 DEF ClaimDoes
<1>5. ASSUME NEW w \in Workers, NEW to \in Stages, MoveDoes(w, to) PROVE shows
  BY <1>5 DEF MoveDoes
<1>6. ASSUME NEW w \in Workers, NEW to \in Stages, PerformDoes(w, to) PROVE shows
  BY <1>6 DEF PerformDoes
<1>7. ASSUME NEW w \in Workers, ApplyDoes(w) PROVE shows
  BY <1>7, <1>a, <1>b DEF ApplyDoes, EffectStatus, Live, Builds, Kinds, Commands
<1>8. ASSUME NEW w \in Workers, DeleteDoes(w) PROVE shows
  BY <1>8 DEF DeleteDoes
<1>9. ASSUME NEW w \in Workers, MarkDoes(w) PROVE shows
  BY <1>9 DEF MarkDoes
<1>10. ASSUME NEW w \in Workers, FinishDoes(w) PROVE shows
  BY <1>10 DEF FinishDoes
<1>11. ASSUME RestartDoes PROVE shows
  BY <1>11 DEF RestartDoes
<1>12. ASSUME NothingDoes PROVE shows
  BY <1>12 DEF NothingDoes
<1>13. QED
  BY <1>1, <1>2, <1>3, <1>4, <1>5, <1>6, <1>7, <1>8, <1>9, <1>10, <1>11, <1>12 DEF SomethingDoes

(* A row that is gone stays so, and one to be deleted is, unless an answer is lost. *)
LEMMA CoveredStep ==
  ASSUME ControlAssumption, TypeOK, Claim1, NEW s \in Sites, Covered(s), SomethingDoes
  PROVE  Covered(s)' \/ s \in lost' \/ row[s] = "absent"
<1> USE DEF Covered, Done, Has, Busy, Kind, Claim1, Others, HandsKept, TablesKept, ObservedKept
<1>a. row \in [Sites -> Live \cup {"absent", "deleted"}]
  BY ColumnTypes
<1>1. ASSUME NEW u \in JobRows, InsertDoes(u) PROVE Covered(s)' \/ s \in lost' \/ row[s] = "absent"
  BY <1>1 DEF InsertDoes
<1>2. ASSUME NEW u \in JobRows, AddDoes(u) PROVE Covered(s)' \/ s \in lost' \/ row[s] = "absent"
  BY <1>2 DEF AddDoes
<1>3. ASSUME NEW u \in JobRows, RefuseDoes(u) PROVE Covered(s)' \/ s \in lost' \/ row[s] = "absent"
  BY <1>3 DEF RefuseDoes
<1>4. ASSUME NEW w \in Workers, NEW j \in DOMAIN jobs, ClaimDoes(w, j) PROVE Covered(s)' \/ s \in lost' \/ row[s] = "absent"
  BY <1>4 DEF ClaimDoes
<1>5. ASSUME NEW w \in Workers, NEW to \in Stages, MoveDoes(w, to) PROVE Covered(s)' \/ s \in lost' \/ row[s] = "absent"
  BY <1>5 DEF MoveDoes
<1>6. ASSUME NEW w \in Workers, NEW to \in Stages, PerformDoes(w, to) PROVE Covered(s)' \/ s \in lost' \/ row[s] = "absent"
  BY <1>6 DEF PerformDoes
<1>7. ASSUME NEW w \in Workers, ApplyDoes(w) PROVE Covered(s)' \/ s \in lost' \/ row[s] = "absent"
  BY <1>7, <1>a DEF ApplyDoes, Live, ControlAssumption
<1>8. ASSUME NEW w \in Workers, DeleteDoes(w) PROVE Covered(s)' \/ s \in lost' \/ row[s] = "absent"
  BY <1>8, <1>a DEF DeleteDoes, Live
<1>9. ASSUME NEW w \in Workers, MarkDoes(w) PROVE Covered(s)' \/ s \in lost' \/ row[s] = "absent"
  BY <1>9 DEF MarkDoes
<1>10. ASSUME NEW w \in Workers, FinishDoes(w) PROVE Covered(s)' \/ s \in lost' \/ row[s] = "absent"
  BY <1>10 DEF FinishDoes
<1>11. ASSUME RestartDoes PROVE Covered(s)' \/ s \in lost' \/ row[s] = "absent"
  BY <1>11 DEF RestartDoes
<1>12. ASSUME NothingDoes PROVE Covered(s)' \/ s \in lost' \/ row[s] = "absent"
  BY <1>12 DEF NothingDoes
<1>13. QED
  BY <1>1, <1>2, <1>3, <1>4, <1>5, <1>6, <1>7, <1>8, <1>9, <1>10, <1>11, <1>12 DEF SomethingDoes

(* The panel shows what the agent has, or is about to take it down. *)
LEMMA ShownStep ==
  ASSUME ControlAssumption, TypeOK, Claim1, Hand4, Refs, Shown, SomethingDoes
  PROVE  Shown'
<1> SUFFICES ASSUME NEW s \in Sites, s \notin lost', s \notin walked', record'[s] = "none", Showing(s)'
             PROVE  Covered(s)'
  BY DEF Shown, Showing, Covered, Builds
<1>1. s \notin lost /\ s \notin walked
  BY RecordStep
<1>2. CASE record[s] = "none"
  <2>1. Showing(s)
    <3>1. ASSUME NEW v \in Workers, on[v] = s, Kind(v) \in Builds, PerformDoes(v, "accepted")
          PROVE  FALSE
      <4>1. record'[s] = Leaves(Kind(v), s) /\ Leaves(Kind(v), s) # "none"
        BY <3>1, ColumnTypes DEF PerformDoes, Leaves, Accepts, Builds, Provisions
      <4>2. QED
        BY <4>1
    <3>2. QED
      BY <3>1, ShowingStep
  <2>2. Covered(s) /\ row[s] # "absent"
    BY <1>1, <1>2, <2>1 DEF Shown, Showing, Covered, Builds, Refs, Done
  <2>3. QED
    BY <2>2, CoveredStep
<1>3. CASE record[s] # "none"
  <2>1. PICK w \in Workers, to \in Stages : PerformDoes(w, to)
    BY <1>3, RecordStep
  <2>2. on[w] = s /\ Leaves(Kind(w), s) = "none"
    BY <1>3, <2>1, ColumnTypes DEF PerformDoes
  <2>3. Kind(w) = "delete" /\ to = "accepted"
    BY <1>3, <2>1, <2>2 DEF Leaves, PerformDoes
  <2>4. Done(w, s, {"delete"})'
    BY <2>1, <2>2, <2>3 DEF PerformDoes, Done, Has, Busy, Kind, HandsKept, TablesKept
  <2>5. QED
    BY <2>4 DEF Covered
<1>4. QED
  BY <1>2, <1>3

(* A worker that is through with a provisioning has taken the row on. *)
LEMMA MarkedStep ==
  ASSUME ControlAssumption, TypeOK, Claim1, Hand1, Hand4, Refs, Marked, SomethingDoes
  PROVE  Marked'
<1> USE DEF Marked, Hand1, Hand4, Refs, EffectStatus, Live, Busy, Has, Kind, Others, HandsKept, TablesKept, ObservedKept, Claim1
<1>a. row \in [Sites -> Live \cup {"absent", "deleted"}]
  BY ColumnTypes
<1>1. ASSUME NEW u \in JobRows, InsertDoes(u) PROVE Marked'
  BY <1>1 DEF InsertDoes
<1>2. ASSUME NEW u \in JobRows, AddDoes(u) PROVE Marked'
  BY <1>2 DEF AddDoes
<1>3. ASSUME NEW u \in JobRows, RefuseDoes(u) PROVE Marked'
  BY <1>3 DEF RefuseDoes
<1>4. ASSUME NEW w \in Workers, NEW j \in DOMAIN jobs, ClaimDoes(w, j) PROVE Marked'
  BY <1>4 DEF ClaimDoes
<1>5. ASSUME NEW w \in Workers, NEW to \in Stages, MoveDoes(w, to) PROVE Marked'
  BY <1>5 DEF MoveDoes
<1>6. ASSUME NEW w \in Workers, NEW to \in Stages, PerformDoes(w, to) PROVE Marked'
  BY <1>6 DEF PerformDoes
<1>7. ASSUME NEW w \in Workers, ApplyDoes(w) PROVE Marked'
  <2>1. \A t \in Sites : row'[t] = "provisioning" =>
                            row[t] = "provisioning" /\ (t = on[w] => Kind(w) = "push")
    BY <1>7, <1>a DEF ApplyDoes, EffectStatus, Live
  <2>2. "push" \notin Provisions
    BY DEF Provisions
  <2>3. QED
    BY <1>7, <2>1, <2>2 DEF ApplyDoes
<1>8. ASSUME NEW w \in Workers, DeleteDoes(w) PROVE Marked'
  BY <1>8, <1>a DEF DeleteDoes
<1>9. ASSUME NEW w \in Workers, MarkDoes(w) PROVE Marked'
  BY <1>9, <1>a DEF MarkDoes
<1>10. ASSUME NEW w \in Workers, FinishDoes(w) PROVE Marked'
  BY <1>10 DEF FinishDoes
<1>11. ASSUME RestartDoes PROVE Marked'
  BY <1>11 DEF RestartDoes
<1>12. ASSUME NothingDoes PROVE Marked'
  BY <1>12 DEF NothingDoes
<1>13. QED
  BY <1>1, <1>2, <1>3, <1>4, <1>5, <1>6, <1>7, <1>8, <1>9, <1>10, <1>11, <1>12 DEF SomethingDoes

(* A site stays under provisioning for the reasons named. *)
LEMMA StuckStep ==
  ASSUME ControlAssumption, TypeOK, Claims, Hand, Ticket1, Marked, StuckIsCopyOrLoss, SomethingDoes
  PROVE  StuckIsCopyOrLoss'
<1> USE DEF StuckIsCopyOrLoss, Claims, Claim3, Hand, Hand2, Ticket1, Marked, Busy, Has, Kind, Others, HandsKept, TablesKept, ObservedKept, Claim1
<1>a. row \in [Sites -> Live \cup {"absent", "deleted"}]
  BY ColumnTypes
<1>b. NoSite \notin Sites
  BY DEF ControlAssumption
<1>1. ASSUME NEW u \in JobRows, InsertDoes(u) PROVE StuckIsCopyOrLoss'
  BY <1>1 DEF InsertDoes
<1>2. ASSUME NEW u \in JobRows, AddDoes(u) PROVE StuckIsCopyOrLoss'
  BY <1>2 DEF AddDoes
<1>3. ASSUME NEW u \in JobRows, RefuseDoes(u) PROVE StuckIsCopyOrLoss'
  BY <1>3, <1>a DEF RefuseDoes
<1>4. ASSUME NEW w \in Workers, NEW j \in DOMAIN jobs, ClaimDoes(w, j) PROVE StuckIsCopyOrLoss'
  BY <1>4 DEF ClaimDoes
<1>5. ASSUME NEW w \in Workers, NEW to \in Stages, MoveDoes(w, to) PROVE StuckIsCopyOrLoss'
  BY <1>5 DEF MoveDoes
<1>6. ASSUME NEW w \in Workers, NEW to \in Stages, PerformDoes(w, to) PROVE StuckIsCopyOrLoss'
  BY <1>6 DEF PerformDoes
<1>7. ASSUME NEW w \in Workers, ApplyDoes(w) PROVE StuckIsCopyOrLoss'
  <2>1. \A t \in Sites : row'[t] = "provisioning" => row[t] = "provisioning"
    BY <1>7, <1>a DEF ApplyDoes, EffectStatus, Live
  <2>2. QED
    BY <1>7, <2>1 DEF ApplyDoes
<1>8. ASSUME NEW w \in Workers, DeleteDoes(w) PROVE StuckIsCopyOrLoss'
  BY <1>8, <1>a DEF DeleteDoes
<1>9. ASSUME NEW w \in Workers, MarkDoes(w) PROVE StuckIsCopyOrLoss'
  BY <1>9 DEF MarkDoes
<1>10. ASSUME NEW w \in Workers, FinishDoes(w) PROVE StuckIsCopyOrLoss'
  <2> SUFFICES ASSUME NEW s \in Sites, s \notin lost, row[s] = "provisioning",
                      ~ \E u \in unqueued : u.site = s
               PROVE  \E j \in DOMAIN jobs' :
                         /\ jobs'[j].site = s
                         /\ \/ jobs'[j].kind \in Provisions /\ jobs'[j].status \in {"queued", "running"}
                            \/ jobs'[j].kind \in {"copy", "import"} /\ jobs'[j].status = "failed"
    BY <1>10 DEF FinishDoes
  <2>1. PICK j \in DOMAIN jobs :
               /\ jobs[j].site = s
               /\ \/ jobs[j].kind \in Provisions /\ jobs[j].status \in {"queued", "running"}
                  \/ jobs[j].kind \in {"copy", "import"} /\ jobs[j].status = "failed"
    OBVIOUS
  <2>2. CASE j = held[w]
    <3>1. Busy(w) /\ jobs[j].status = "running" /\ Kind(w) \in Provisions
      BY <1>10, <2>1, <2>2 DEF FinishDoes, Claim1
    <3>2. on[w] = s
      BY <1>b, <2>1, <2>2, <3>1
    <3>3. at[w] = "failing" /\ Kind(w) # "create"
      BY <1>10, <3>1, <3>2 DEF FinishDoes
    <3>4. Kind(w) \in {"copy", "import"} /\ jobs'[j].status = "failed" /\ jobs'[j].kind = Kind(w)
      BY <1>10, <2>2, <3>1, <3>3 DEF FinishDoes, Provisions
    <3>5. QED
      BY <1>10, <2>1, <3>4 DEF FinishDoes
  <2>3. CASE j # held[w]
    BY <1>10, <2>1, <2>3 DEF FinishDoes
  <2>4. QED
    BY <2>2, <2>3
<1>11. ASSUME RestartDoes PROVE StuckIsCopyOrLoss'
  BY <1>11 DEF RestartDoes
<1>12. ASSUME NothingDoes PROVE StuckIsCopyOrLoss'
  BY <1>12 DEF NothingDoes
<1>13. QED
  BY <1>1, <1>2, <1>3, <1>4, <1>5, <1>6, <1>7, <1>8, <1>9, <1>10, <1>11, <1>12 DEF SomethingDoes

(* Jobs are claimed oldest first. *)
LEMMA OldestStep ==
  ASSUME TypeOK, Claim1, Oldest, SomethingDoes
  PROVE  Oldest'
<1> USE DEF Oldest, Claim1, Busy, TablesKept
<1>a. Len(jobs) \in Nat /\ DOMAIN jobs = 1..Len(jobs)
  BY JobsTable
<1>1. ASSUME NEW u \in JobRows, InsertDoes(u) PROVE Oldest'
  BY <1>1 DEF InsertDoes
<1>2. ASSUME NEW u \in JobRows, AddDoes(u) PROVE Oldest'
  BY <1>2, <1>a DEF AddDoes
<1>3. ASSUME NEW u \in JobRows, RefuseDoes(u) PROVE Oldest'
  BY <1>3 DEF RefuseDoes
<1>4. ASSUME NEW w \in Workers, NEW j \in DOMAIN jobs, ClaimDoes(w, j) PROVE Oldest'
  BY <1>4, <1>a DEF ClaimDoes
<1>5. ASSUME NEW w \in Workers, NEW to \in Stages, MoveDoes(w, to) PROVE Oldest'
  BY <1>5 DEF MoveDoes
<1>6. ASSUME NEW w \in Workers, NEW to \in Stages, PerformDoes(w, to) PROVE Oldest'
  BY <1>6 DEF PerformDoes
<1>7. ASSUME NEW w \in Workers, ApplyDoes(w) PROVE Oldest'
  BY <1>7 DEF ApplyDoes
<1>8. ASSUME NEW w \in Workers, DeleteDoes(w) PROVE Oldest'
  BY <1>8 DEF DeleteDoes
<1>9. ASSUME NEW w \in Workers, MarkDoes(w) PROVE Oldest'
  BY <1>9 DEF MarkDoes
<1>10. ASSUME NEW w \in Workers, FinishDoes(w) PROVE Oldest'
  BY <1>10, <1>a DEF FinishDoes
<1>11. ASSUME RestartDoes PROVE Oldest'
  BY <1>11 DEF RestartDoes
<1>12. ASSUME NothingDoes PROVE Oldest'
  BY <1>12 DEF NothingDoes
<1>13. QED
  BY <1>1, <1>2, <1>3, <1>4, <1>5, <1>6, <1>7, <1>8, <1>9, <1>10, <1>11, <1>12 DEF SomethingDoes

(* While one worker has a site, the later jobs for it wait. *)
LEMMA TurnStep ==
  ASSUME ControlAssumption, TypeOK, Claims, Hand1, Oldest, Turn, SomethingDoes
  PROVE  Turn'
<1> USE DEF Turn, Claims, Claim1, Busy, Has, Others, HandsKept, TablesKept, ObservedKept
<1>a. Len(jobs) \in Nat /\ DOMAIN jobs = 1..Len(jobs) /\ on \in [Workers -> Sites \cup {NoSite}]
  BY JobsTable, ColumnTypes
<1>b. NoSite \notin Sites
  BY DEF ControlAssumption
<1>1. ASSUME NEW u \in JobRows, InsertDoes(u) PROVE Turn'
  BY <1>1 DEF InsertDoes
<1>2. ASSUME NEW u \in JobRows, AddDoes(u) PROVE Turn'
  BY <1>2 DEF AddDoes
<1>3. ASSUME NEW u \in JobRows, RefuseDoes(u) PROVE Turn'
  BY <1>3 DEF RefuseDoes
<1>4. ASSUME NEW w \in Workers, NEW j \in DOMAIN jobs, ClaimDoes(w, j) PROVE Turn'
  BY <1>4, <1>a DEF ClaimDoes, Oldest
<1>5. ASSUME NEW w \in Workers, NEW to \in Stages, MoveDoes(w, to) PROVE Turn'
  BY <1>5 DEF MoveDoes
<1>6. ASSUME NEW w \in Workers, NEW to \in Stages, PerformDoes(w, to) PROVE Turn'
  BY <1>6 DEF PerformDoes
<1>7. ASSUME NEW w \in Workers, ApplyDoes(w) PROVE Turn'
  BY <1>7 DEF ApplyDoes
<1>8. ASSUME NEW w \in Workers, DeleteDoes(w) PROVE Turn'
  BY <1>8, <1>a, <1>b DEF DeleteDoes
<1>9. ASSUME NEW w \in Workers, MarkDoes(w) PROVE Turn'
  BY <1>9 DEF MarkDoes
<1>10. ASSUME NEW w \in Workers, FinishDoes(w) PROVE Turn'
  BY <1>10, <1>a, <1>b DEF FinishDoes
<1>11. ASSUME RestartDoes PROVE Turn'
  BY <1>11 DEF RestartDoes
<1>12. ASSUME NothingDoes PROVE Turn'
  BY <1>12 DEF NothingDoes
<1>13. QED
  BY <1>1, <1>2, <1>3, <1>4, <1>5, <1>6, <1>7, <1>8, <1>9, <1>10, <1>11, <1>12 DEF SomethingDoes

(* One worker has a site, or it is on record that two had. *)
LEMMA AloneStep ==
  ASSUME ControlAssumption, TypeOK, Claim1, Alone, SomethingDoes
  PROVE  Alone'
<1> USE DEF Alone, Busy, Has, Kind, Others, HandsKept, TablesKept, ObservedKept, Claim1
<1>1. ASSUME NEW u \in JobRows, InsertDoes(u) PROVE Alone'
  BY <1>1 DEF InsertDoes
<1>2. ASSUME NEW u \in JobRows, AddDoes(u) PROVE Alone'
  BY <1>2 DEF AddDoes
<1>3. ASSUME NEW u \in JobRows, RefuseDoes(u) PROVE Alone'
  BY <1>3 DEF RefuseDoes
<1>4. ASSUME NEW w \in Workers, NEW j \in DOMAIN jobs, ClaimDoes(w, j) PROVE Alone'
  BY <1>4 DEF ClaimDoes
<1>5. ASSUME NEW w \in Workers, NEW to \in Stages, MoveDoes(w, to) PROVE Alone'
  BY <1>5 DEF MoveDoes
<1>6. ASSUME NEW w \in Workers, NEW to \in Stages, PerformDoes(w, to) PROVE Alone'
  BY <1>6 DEF PerformDoes
<1>7. ASSUME NEW w \in Workers, ApplyDoes(w) PROVE Alone'
  BY <1>7 DEF ApplyDoes
<1>8. ASSUME NEW w \in Workers, DeleteDoes(w) PROVE Alone'
  BY <1>8 DEF DeleteDoes
<1>9. ASSUME NEW w \in Workers, MarkDoes(w) PROVE Alone'
  BY <1>9 DEF MarkDoes
<1>10. ASSUME NEW w \in Workers, FinishDoes(w) PROVE Alone'
  BY <1>10 DEF FinishDoes
<1>11. ASSUME RestartDoes PROVE Alone'
  BY <1>11 DEF RestartDoes
<1>12. ASSUME NothingDoes PROVE Alone'
  BY <1>12 DEF NothingDoes
<1>13. QED
  BY <1>1, <1>2, <1>3, <1>4, <1>5, <1>6, <1>7, <1>8, <1>9, <1>10, <1>11, <1>12 DEF SomethingDoes

(* A site that can be compared could be before, or is new. *)
LEMMA PlainStep ==
  ASSUME TypeOK, NEW s \in Sites, Plain(s)', SomethingDoes
  PROVE  Plain(s) \/ row[s] = "absent"
<1> USE DEF Plain, EffectStatus, Live, TablesKept, ObservedKept
<1>a. row \in [Sites -> Live \cup {"absent", "deleted"}] /\ record \in [Sites -> {"none", "up", "stopped"}]
  BY ColumnTypes
<1>1. ASSUME NEW u \in JobRows, InsertDoes(u) PROVE Plain(s) \/ row[s] = "absent"
  BY <1>1 DEF InsertDoes
<1>2. ASSUME NEW u \in JobRows, AddDoes(u) PROVE Plain(s) \/ row[s] = "absent"
  BY <1>2 DEF AddDoes
<1>3. ASSUME NEW u \in JobRows, RefuseDoes(u) PROVE Plain(s) \/ row[s] = "absent"
  BY <1>3 DEF RefuseDoes
<1>4. ASSUME NEW w \in Workers, NEW j \in DOMAIN jobs, ClaimDoes(w, j) PROVE Plain(s) \/ row[s] = "absent"
  BY <1>4 DEF ClaimDoes
<1>5. ASSUME NEW w \in Workers, NEW to \in Stages, MoveDoes(w, to) PROVE Plain(s) \/ row[s] = "absent"
  BY <1>5 DEF MoveDoes
<1>6. ASSUME NEW w \in Workers, NEW to \in Stages, PerformDoes(w, to) PROVE Plain(s) \/ row[s] = "absent"
  BY <1>6 DEF PerformDoes
<1>7. ASSUME NEW w \in Workers, ApplyDoes(w) PROVE Plain(s) \/ row[s] = "absent"
  BY <1>7, <1>a DEF ApplyDoes
<1>8. ASSUME NEW w \in Workers, DeleteDoes(w) PROVE Plain(s) \/ row[s] = "absent"
  BY <1>8 DEF DeleteDoes
<1>9. ASSUME NEW w \in Workers, MarkDoes(w) PROVE Plain(s) \/ row[s] = "absent"
  BY <1>9 DEF MarkDoes
<1>10. ASSUME NEW w \in Workers, FinishDoes(w) PROVE Plain(s) \/ row[s] = "absent"
  BY <1>10 DEF FinishDoes
<1>11. ASSUME RestartDoes PROVE Plain(s) \/ row[s] = "absent"
  BY <1>11 DEF RestartDoes
<1>12. ASSUME NothingDoes PROVE Plain(s) \/ row[s] = "absent"
  BY <1>12 DEF NothingDoes
<1>13. QED
  BY <1>1, <1>2, <1>3, <1>4, <1>5, <1>6, <1>7, <1>8, <1>9, <1>10, <1>11, <1>12 DEF SomethingDoes

(* What the agent did is what its record shows until the panel takes it over. *)
LEMMA Follow1Step ==
  ASSUME ControlAssumption, TypeOK, Claim1, Hand1, Refs, Alone, Follow1, SomethingDoes
  PROVE  Follow1'
<1> USE DEF Follow1, Leaves, Hand1, Refs, Alone, Done, Plain, Live, EffectStatus, Busy, Has, Kind, Others, HandsKept, TablesKept, ObservedKept, Claim1
<1>a. row \in [Sites -> Live \cup {"absent", "deleted"}] /\ record \in [Sites -> {"none", "up", "stopped"}]
  BY ColumnTypes
<1>1. ASSUME NEW u \in JobRows, InsertDoes(u) PROVE Follow1'
  BY <1>1 DEF InsertDoes
<1>2. ASSUME NEW u \in JobRows, AddDoes(u) PROVE Follow1'
  BY <1>2 DEF AddDoes
<1>3. ASSUME NEW u \in JobRows, RefuseDoes(u) PROVE Follow1'
  BY <1>3 DEF RefuseDoes
<1>4. ASSUME NEW w \in Workers, NEW j \in DOMAIN jobs, ClaimDoes(w, j) PROVE Follow1'
  BY <1>4 DEF ClaimDoes
<1>5. ASSUME NEW w \in Workers, NEW to \in Stages, MoveDoes(w, to) PROVE Follow1'
  BY <1>5 DEF MoveDoes
<1>6. ASSUME NEW w \in Workers, NEW to \in Stages, PerformDoes(w, to) PROVE Follow1'
  BY <1>6, <1>a DEF PerformDoes
<1>7. ASSUME NEW w \in Workers, ApplyDoes(w) PROVE Follow1'
  BY <1>7, <1>a DEF ApplyDoes
<1>8. ASSUME NEW w \in Workers, DeleteDoes(w) PROVE Follow1'
  BY <1>8 DEF DeleteDoes
<1>9. ASSUME NEW w \in Workers, MarkDoes(w) PROVE Follow1'
  BY <1>9 DEF MarkDoes
<1>10. ASSUME NEW w \in Workers, FinishDoes(w) PROVE Follow1'
  BY <1>10 DEF FinishDoes
<1>11. ASSUME RestartDoes PROVE Follow1'
  BY <1>11 DEF RestartDoes
<1>12. ASSUME NothingDoes PROVE Follow1'
  BY <1>12 DEF NothingDoes
<1>13. QED
  BY <1>1, <1>2, <1>3, <1>4, <1>5, <1>6, <1>7, <1>8, <1>9, <1>10, <1>11, <1>12 DEF SomethingDoes

(* After a start or a stop the row agrees with the record. *)
LEMMA Follow4Step ==
  ASSUME ControlAssumption, TypeOK, Claim1, Hand1, Hand4, Refs, Alone, Follow1, Follow4, SomethingDoes
  PROVE  Follow4'
<1> USE DEF Follow4, Agree, Hand1, Refs, Alone, Plain, Live, EffectStatus, Busy, Has, Kind, Others, HandsKept, TablesKept, ObservedKept, Claim1
<1>a. row \in [Sites -> Live \cup {"absent", "deleted"}] /\ record \in [Sites -> {"none", "up", "stopped"}]
  BY ColumnTypes
<1>1. ASSUME NEW u \in JobRows, InsertDoes(u) PROVE Follow4'
  BY <1>1 DEF InsertDoes
<1>2. ASSUME NEW u \in JobRows, AddDoes(u) PROVE Follow4'
  BY <1>2 DEF AddDoes
<1>3. ASSUME NEW u \in JobRows, RefuseDoes(u) PROVE Follow4'
  BY <1>3 DEF RefuseDoes
<1>4. ASSUME NEW w \in Workers, NEW j \in DOMAIN jobs, ClaimDoes(w, j) PROVE Follow4'
  BY <1>4 DEF ClaimDoes
<1>5. ASSUME NEW w \in Workers, NEW to \in Stages, MoveDoes(w, to) PROVE Follow4'
  BY <1>5 DEF MoveDoes
<1>6. ASSUME NEW w \in Workers, NEW to \in Stages, PerformDoes(w, to) PROVE Follow4'
  BY <1>6, <1>a DEF PerformDoes
<1>7. ASSUME NEW w \in Workers, ApplyDoes(w) PROVE Follow4'
  BY <1>7, <1>a DEF ApplyDoes, Follow1, Done, Leaves, Hand4, Kinds, Commands
<1>8. ASSUME NEW w \in Workers, DeleteDoes(w) PROVE Follow4'
  BY <1>8 DEF DeleteDoes
<1>9. ASSUME NEW w \in Workers, MarkDoes(w) PROVE Follow4'
  BY <1>9, <1>a DEF MarkDoes
<1>10. ASSUME NEW w \in Workers, FinishDoes(w) PROVE Follow4'
  BY <1>10 DEF FinishDoes
<1>11. ASSUME RestartDoes PROVE Follow4'
  BY <1>11 DEF RestartDoes
<1>12. ASSUME NothingDoes PROVE Follow4'
  BY <1>12 DEF NothingDoes
<1>13. QED
  BY <1>1, <1>2, <1>3, <1>4, <1>5, <1>6, <1>7, <1>8, <1>9, <1>10, <1>11, <1>12 DEF SomethingDoes

(* The agent has no record of a site whose only create it refused. *)
LEMMA Follow3Step ==
  ASSUME ControlAssumption, TypeOK, Claim1, Hand1, Refs, Fresh, Alone, Follow3, SomethingDoes
  PROVE  Follow3'
<1> USE DEF Follow3, Hand1, Refs, Fresh, Alone, Plain, Live, EffectStatus, Busy, Has, Kind, Others, HandsKept, TablesKept, ObservedKept, Claim1
<1>a. row \in [Sites -> Live \cup {"absent", "deleted"}] /\ record \in [Sites -> {"none", "up", "stopped"}]
  BY ColumnTypes
<1>c. \A w \in Workers : at[w] = "calling" /\ Kind(w) = "create" => Unexecuted(on[w])
  BY DEF Unexecuted, Has, Busy, Provisions
<1>1. ASSUME NEW u \in JobRows, InsertDoes(u) PROVE Follow3'
  BY <1>1 DEF InsertDoes
<1>2. ASSUME NEW u \in JobRows, AddDoes(u) PROVE Follow3'
  BY <1>2 DEF AddDoes
<1>3. ASSUME NEW u \in JobRows, RefuseDoes(u) PROVE Follow3'
  BY <1>3 DEF RefuseDoes
<1>4. ASSUME NEW w \in Workers, NEW j \in DOMAIN jobs, ClaimDoes(w, j) PROVE Follow3'
  BY <1>4 DEF ClaimDoes
<1>5. ASSUME NEW w \in Workers, NEW to \in Stages, MoveDoes(w, to) PROVE Follow3'
  BY <1>5, <1>c DEF MoveDoes
<1>6. ASSUME NEW w \in Workers, NEW to \in Stages, PerformDoes(w, to) PROVE Follow3'
  BY <1>6 DEF PerformDoes
<1>7. ASSUME NEW w \in Workers, ApplyDoes(w) PROVE Follow3'
  BY <1>7, <1>a DEF ApplyDoes
<1>8. ASSUME NEW w \in Workers, DeleteDoes(w) PROVE Follow3'
  BY <1>8 DEF DeleteDoes
<1>9. ASSUME NEW w \in Workers, MarkDoes(w) PROVE Follow3'
  BY <1>9 DEF MarkDoes
<1>10. ASSUME NEW w \in Workers, FinishDoes(w) PROVE Follow3'
  BY <1>10 DEF FinishDoes
<1>11. ASSUME RestartDoes PROVE Follow3'
  BY <1>11 DEF RestartDoes
<1>12. ASSUME NothingDoes PROVE Follow3'
  BY <1>12 DEF NothingDoes
<1>13. QED
  BY <1>1, <1>2, <1>3, <1>4, <1>5, <1>6, <1>7, <1>8, <1>9, <1>10, <1>11, <1>12 DEF SomethingDoes

(* A restart or a push that parted row and record did so until a start or a stop
   of the site succeeds. *)
LEMMA PartedStep ==
  ASSUME ControlAssumption, TypeOK, Claim1, Hand2, NEW s \in Sites, Parted(s), SomethingDoes
  PROVE  \/ Parted(s)' \/ row'[s] = "deleted"
         \/ \E w \in Workers : /\ FinishDoes(w) /\ Has(w, s)
                              /\ at[w] = "succeeding" /\ Kind(w) \in {"start", "stop"}
<1> DEFINE ends == \E w \in Workers : /\ FinishDoes(w) /\ Has(w, s)
                                    /\ at[w] = "succeeding" /\ Kind(w) \in {"start", "stop"}
           kept == Parted(s)' \/ row'[s] = "deleted" \/ ends
<1> SUFFICES kept
  OBVIOUS
<1> HIDE DEF ends
<1> USE DEF TablesKept
<1>a. PICK p \in DOMAIN jobs :
        /\ jobs[p].site = s /\ jobs[p].status = "succeeded" /\ jobs[p].kind \in {"restart", "push"}
        /\ \A i \in DOMAIN jobs : i > p /\ jobs[i].site = s /\ jobs[i].kind \in {"start", "stop"} =>
                                   jobs[i].status # "succeeded"
  BY DEF Parted
<1>b. ASSUME DOMAIN jobs \subseteq DOMAIN jobs',
             jobs'[p].site = s, jobs'[p].status = "succeeded", jobs'[p].kind = jobs[p].kind,
             \A i \in DOMAIN jobs' : /\ jobs'[i].status = "succeeded" /\ jobs'[i].site = s
                                     /\ jobs'[i].kind \in {"start", "stop"}
                => i \in DOMAIN jobs /\ jobs[i].status = "succeeded" /\ jobs[i].site = s /\ jobs[i].kind = jobs'[i].kind
      PROVE  kept
  BY <1>a, <1>b DEF Parted
<1>c. row \in [Sites -> Live \cup {"absent", "deleted"}] /\ NoSite \notin Sites
  BY ColumnTypes DEF ControlAssumption
<1>1. ASSUME NEW u \in JobRows, InsertDoes(u) PROVE kept
  BY <1>1, <1>a, <1>b DEF InsertDoes
<1>2. ASSUME NEW u \in JobRows, AddDoes(u) PROVE kept
  BY <1>2, <1>a, <1>b DEF AddDoes
<1>3. ASSUME NEW u \in JobRows, RefuseDoes(u) PROVE kept
  BY <1>3, <1>a, <1>b DEF RefuseDoes
<1>4. ASSUME NEW w \in Workers, NEW j \in DOMAIN jobs, ClaimDoes(w, j) PROVE kept
  BY <1>4, <1>a, <1>b DEF ClaimDoes
<1>5. ASSUME NEW w \in Workers, NEW to \in Stages, MoveDoes(w, to) PROVE kept
  BY <1>5, <1>a, <1>b DEF MoveDoes
<1>6. ASSUME NEW w \in Workers, NEW to \in Stages, PerformDoes(w, to) PROVE kept
  BY <1>6, <1>a, <1>b DEF PerformDoes
<1>7. ASSUME NEW w \in Workers, ApplyDoes(w) PROVE kept
  BY <1>7, <1>a, <1>b DEF ApplyDoes
<1>8. ASSUME NEW w \in Workers, DeleteDoes(w) PROVE kept
  <2>1. CASE on[w] = s
    BY <1>8, <1>c, <2>1 DEF DeleteDoes
  <2>2. CASE on[w] # s
    BY <1>8, <1>a, <1>b, <1>c, <2>2 DEF DeleteDoes
  <2>3. QED
    BY <2>1, <2>2
<1>9. ASSUME NEW w \in Workers, MarkDoes(w) PROVE kept
  BY <1>9, <1>a, <1>b DEF MarkDoes
<1>10. ASSUME NEW w \in Workers, FinishDoes(w) PROVE kept
  <2>1. Busy(w) /\ held[w] \in DOMAIN jobs /\ jobs[held[w]].status = "running"
    BY <1>10 DEF FinishDoes, Busy, Claim1
  <2>2. CASE at[w] = "succeeding" /\ on[w] = s /\ Kind(w) \in {"start", "stop"}
    BY <1>10, <2>1, <2>2 DEF ends, Has
  <2>3. CASE ~ (at[w] = "succeeding" /\ on[w] = s /\ Kind(w) \in {"start", "stop"})
    <3>1. jobs[held[w]].site = s => on[w] = s
      BY <1>c, <2>1 DEF Hand2
    <3>2. p # held[w]
      BY <1>a, <2>1
    <3>3. QED
      BY <1>10, <1>a, <1>b, <2>1, <2>3, <3>1, <3>2 DEF FinishDoes, Kind
  <2>4. QED
    BY <2>2, <2>3
<1>11. ASSUME RestartDoes PROVE kept
  BY <1>11, <1>a, <1>b DEF RestartDoes
<1>12. ASSUME NothingDoes PROVE kept
  BY <1>12, <1>a, <1>b DEF NothingDoes
<1>13. QED
  BY <1>1, <1>2, <1>3, <1>4, <1>5, <1>6, <1>7, <1>8, <1>9, <1>10, <1>11, <1>12 DEF SomethingDoes

(* A site that is new has a row and a record that agree. *)
LEMMA FreshRow ==
  ASSUME TypeOK, Refs, NEW s \in Sites, row[s] = "absent", Plain(s)', SomethingDoes
  PROVE  Agree(s)'
<1> USE DEF Agree, Plain, Refs, Live, EffectStatus, TablesKept
<1>a. row \in [Sites -> Live \cup {"absent", "deleted"}]
  BY ColumnTypes
<1>1. ASSUME NEW u \in JobRows, InsertDoes(u) PROVE Agree(s)'
  BY <1>1, <1>a DEF InsertDoes
<1>2. ASSUME NEW u \in JobRows, AddDoes(u) PROVE Agree(s)'
  BY <1>2 DEF AddDoes
<1>3. ASSUME NEW u \in JobRows, RefuseDoes(u) PROVE Agree(s)'
  BY <1>3 DEF RefuseDoes
<1>4. ASSUME NEW w \in Workers, NEW j \in DOMAIN jobs, ClaimDoes(w, j) PROVE Agree(s)'
  BY <1>4 DEF ClaimDoes
<1>5. ASSUME NEW w \in Workers, NEW to \in Stages, MoveDoes(w, to) PROVE Agree(s)'
  BY <1>5 DEF MoveDoes
<1>6. ASSUME NEW w \in Workers, NEW to \in Stages, PerformDoes(w, to) PROVE Agree(s)'
  BY <1>6 DEF PerformDoes
<1>7. ASSUME NEW w \in Workers, ApplyDoes(w) PROVE Agree(s)'
  BY <1>7, <1>a DEF ApplyDoes
<1>8. ASSUME NEW w \in Workers, DeleteDoes(w) PROVE Agree(s)'
  BY <1>8, <1>a DEF DeleteDoes
<1>9. ASSUME NEW w \in Workers, MarkDoes(w) PROVE Agree(s)'
  BY <1>9, <1>a DEF MarkDoes
<1>10. ASSUME NEW w \in Workers, FinishDoes(w) PROVE Agree(s)'
  BY <1>10 DEF FinishDoes
<1>11. ASSUME RestartDoes PROVE Agree(s)'
  BY <1>11 DEF RestartDoes
<1>12. ASSUME NothingDoes PROVE Agree(s)'
  BY <1>12 DEF NothingDoes
<1>13. QED
  BY <1>1, <1>2, <1>3, <1>4, <1>5, <1>6, <1>7, <1>8, <1>9, <1>10, <1>11, <1>12 DEF SomethingDoes

(* What the agent did reaches the row: they agree then, or part. *)
LEMMA AcceptedStep ==
  ASSUME ControlAssumption, TypeOK, Claim1, Alone, Follow1, NEW s \in Sites, NEW x \in Workers, Done(x, s, Kinds),
         Plain(s), Plain(s)', \A v \in Workers : ~ Done(v, s, Kinds)', SomethingDoes
  PROVE  Agree(s)' \/ Parting(s)'
<1> USE DEF Done, Plain, Live, Busy, Has, Kind, Others, HandsKept, TablesKept, ObservedKept, Claim1
<1>a. row \in [Sites -> Live \cup {"absent", "deleted"}] /\ Kind(x) \in Kinds /\ on[x] = s
      /\ held[x] \in DOMAIN jobs
  BY ColumnTypes
<1>b. record[s] = Leaves(Kind(x), s)
  BY DEF Follow1
<1>1. ASSUME NEW u \in JobRows, InsertDoes(u) PROVE Agree(s)' \/ Parting(s)'
  BY <1>1 DEF InsertDoes
<1>2. ASSUME NEW u \in JobRows, AddDoes(u) PROVE Agree(s)' \/ Parting(s)'
  BY <1>2 DEF AddDoes
<1>3. ASSUME NEW u \in JobRows, RefuseDoes(u) PROVE Agree(s)' \/ Parting(s)'
  BY <1>3 DEF RefuseDoes
<1>4. ASSUME NEW w \in Workers, NEW j \in DOMAIN jobs, ClaimDoes(w, j) PROVE Agree(s)' \/ Parting(s)'
  BY <1>4 DEF ClaimDoes
<1>5. ASSUME NEW w \in Workers, NEW to \in Stages, MoveDoes(w, to) PROVE Agree(s)' \/ Parting(s)'
  BY <1>5 DEF MoveDoes
<1>6. ASSUME NEW w \in Workers, NEW to \in Stages, PerformDoes(w, to) PROVE Agree(s)' \/ Parting(s)'
  BY <1>6 DEF PerformDoes
<1>7. ASSUME NEW w \in Workers, ApplyDoes(w) PROVE Agree(s)' \/ Parting(s)'
  <2>1. CASE w = x
    <3>1. CASE Kind(x) \in {"restart", "push"}
      BY <1>7, <1>a, <2>1, <3>1 DEF ApplyDoes, Parting
    <3>2. CASE Kind(x) \notin {"restart", "push"}
      <4>1. Kind(x) # "delete" /\ row'[s] = EffectStatus(Kind(x), s)
        BY <1>7, <1>a, <2>1 DEF ApplyDoes, ControlAssumption
      <4>2. record'[s] = record[s]
        BY <1>7 DEF ApplyDoes
      <4> HIDE DEF Kind
      <4>3. QED
        BY <1>b, <3>2, <4>1, <4>2 DEF Agree, EffectStatus, Leaves
    <3>3. QED
      BY <3>1, <3>2
  <2>2. CASE w # x
    BY <1>7, <1>a, <2>2 DEF ApplyDoes
  <2>3. QED
    BY <2>1, <2>2
<1>8. ASSUME NEW w \in Workers, DeleteDoes(w) PROVE Agree(s)' \/ Parting(s)'
  BY <1>8, <1>a DEF DeleteDoes
<1>9. ASSUME NEW w \in Workers, MarkDoes(w) PROVE Agree(s)' \/ Parting(s)'
  BY <1>9 DEF MarkDoes
<1>10. ASSUME NEW w \in Workers, FinishDoes(w) PROVE Agree(s)' \/ Parting(s)'
  BY <1>10 DEF FinishDoes
<1>11. ASSUME RestartDoes PROVE Agree(s)' \/ Parting(s)'
  BY <1>11 DEF RestartDoes
<1>12. ASSUME NothingDoes PROVE Agree(s)' \/ Parting(s)'
  BY <1>12 DEF NothingDoes
<1>13. QED
  BY <1>1, <1>2, <1>3, <1>4, <1>5, <1>6, <1>7, <1>8, <1>9, <1>10, <1>11, <1>12 DEF SomethingDoes

(* A row that agrees with the record goes on to, while nothing is done to it. *)
LEMMA AgreeStep ==
  ASSUME TypeOK, Claim1, Hand1, Hand4, Follow3, NEW s \in Sites, Agree(s),
         \A v \in Workers : ~ Done(v, s, Kinds), \A v \in Workers : ~ Done(v, s, Kinds)',
         Plain(s), Plain(s)', SomethingDoes
  PROVE  Agree(s)'
<1> USE DEF Agree, Done, Plain, Live, Hand1, Busy, Has, Kind, Others, HandsKept, TablesKept, ObservedKept, Claim1
<1>a. row \in [Sites -> Live \cup {"absent", "deleted"}] /\ record \in [Sites -> {"none", "up", "stopped"}]
  BY ColumnTypes
<1>c. \A w \in Workers : Busy(w) => Kind(w) \in Kinds
  BY HeldJob
<1>1. ASSUME NEW u \in JobRows, InsertDoes(u) PROVE Agree(s)'
  BY <1>1 DEF InsertDoes
<1>2. ASSUME NEW u \in JobRows, AddDoes(u) PROVE Agree(s)'
  BY <1>2 DEF AddDoes
<1>3. ASSUME NEW u \in JobRows, RefuseDoes(u) PROVE Agree(s)'
  BY <1>3 DEF RefuseDoes
<1>4. ASSUME NEW w \in Workers, NEW j \in DOMAIN jobs, ClaimDoes(w, j) PROVE Agree(s)'
  BY <1>4 DEF ClaimDoes
<1>5. ASSUME NEW w \in Workers, NEW to \in Stages, MoveDoes(w, to) PROVE Agree(s)'
  BY <1>5 DEF MoveDoes
<1>6. ASSUME NEW w \in Workers, NEW to \in Stages, PerformDoes(w, to) PROVE Agree(s)'
  BY <1>6, <1>a, <1>c DEF PerformDoes
<1>7. ASSUME NEW w \in Workers, ApplyDoes(w) PROVE Agree(s)'
  BY <1>7, <1>a, <1>c DEF ApplyDoes, Hand4
<1>8. ASSUME NEW w \in Workers, DeleteDoes(w) PROVE Agree(s)'
  BY <1>8, <1>a DEF DeleteDoes
<1>9. ASSUME NEW w \in Workers, MarkDoes(w) PROVE Agree(s)'
  BY <1>9, <1>a DEF MarkDoes, Follow3
<1>10. ASSUME NEW w \in Workers, FinishDoes(w) PROVE Agree(s)'
  BY <1>10 DEF FinishDoes
<1>11. ASSUME RestartDoes PROVE Agree(s)'
  BY <1>11 DEF RestartDoes
<1>12. ASSUME NothingDoes PROVE Agree(s)'
  BY <1>12 DEF NothingDoes
<1>13. QED
  BY <1>1, <1>2, <1>3, <1>4, <1>5, <1>6, <1>7, <1>8, <1>9, <1>10, <1>11, <1>12 DEF SomethingDoes

(* A restart or a push that is about to be marked as succeeded is, or its mark is
   lost. *)
LEMMA PartingStep ==
  ASSUME ControlAssumption, TypeOK, Claim1, Hand3, Turn, NEW s \in Sites, Parting(s),
         Plain(s), Plain(s)', SomethingDoes
  PROVE  Parted(s)' \/ Parting(s)'
<1> DEFINE goal == Parted(s)' \/ Parting(s)'
<1> SUFFICES goal
  OBVIOUS
<1>a. PICK x \in Workers : Has(x, s) /\ at[x] = "succeeding" /\ Kind(x) \in {"restart", "push"}
  BY DEF Parting
<1>b. held[x] \in DOMAIN jobs /\ jobs[held[x]].site = s /\ on[x] = s
  BY <1>a DEF Has, Busy, Claim1, Hand3, Plain, Live
<1>c. ASSUME Has(x, s)', at'[x] = "succeeding", Kind(x)' = Kind(x) PROVE goal
  BY <1>a, <1>c DEF Parting
<1> HIDE DEF goal
<1> USE DEF Plain, Live, Busy, Has, Kind, Others, HandsKept, TablesKept, ObservedKept
<1>1. ASSUME NEW u \in JobRows, InsertDoes(u) PROVE goal
  BY <1>1, <1>a, <1>b, <1>c DEF InsertDoes
<1>2. ASSUME NEW u \in JobRows, AddDoes(u) PROVE goal
  BY <1>2, <1>a, <1>b, <1>c DEF AddDoes
<1>3. ASSUME NEW u \in JobRows, RefuseDoes(u) PROVE goal
  BY <1>3, <1>a, <1>b, <1>c DEF RefuseDoes
<1>4. ASSUME NEW w \in Workers, NEW j \in DOMAIN jobs, ClaimDoes(w, j) PROVE goal
  BY <1>4, <1>a, <1>b, <1>c DEF ClaimDoes
<1>5. ASSUME NEW w \in Workers, NEW to \in Stages, MoveDoes(w, to) PROVE goal
  BY <1>5, <1>a, <1>b, <1>c DEF MoveDoes
<1>6. ASSUME NEW w \in Workers, NEW to \in Stages, PerformDoes(w, to) PROVE goal
  BY <1>6, <1>a, <1>b, <1>c DEF PerformDoes
<1>7. ASSUME NEW w \in Workers, ApplyDoes(w) PROVE goal
  BY <1>7, <1>a, <1>b, <1>c DEF ApplyDoes
<1>8. ASSUME NEW w \in Workers, DeleteDoes(w) PROVE goal
  BY <1>8, <1>a, <1>b, <1>c DEF DeleteDoes
<1>9. ASSUME NEW w \in Workers, MarkDoes(w) PROVE goal
  BY <1>9, <1>a, <1>b, <1>c DEF MarkDoes
<1>10. ASSUME NEW w \in Workers, FinishDoes(w) PROVE goal
  <2>1. CASE w = x
    <3>1. /\ held[x] \in DOMAIN jobs' /\ jobs'[held[x]].site = s /\ jobs'[held[x]].status = "succeeded"
          /\ jobs'[held[x]].kind \in {"restart", "push"}
      BY <1>10, <1>a, <1>b, <2>1 DEF FinishDoes
    <3>2. ASSUME NEW i \in DOMAIN jobs', i > held[x], jobs'[i].site = s PROVE jobs'[i].status # "succeeded"
      <4>1. i \in DOMAIN jobs /\ jobs[i].site = s /\ i # held[x]
        BY <1>10, <1>b, <3>2, JobsTable DEF FinishDoes
      <4>2. jobs[i].status = "queued" /\ jobs'[i].status = jobs[i].status
        BY <1>10, <1>a, <2>1, <3>2, <4>1 DEF FinishDoes, Turn
      <4>3. QED
        BY <4>2
    <3>3. QED
      BY <3>1, <3>2 DEF goal, Parted
  <2>2. CASE w # x
    BY <1>10, <1>a, <1>b, <1>c, <2>2 DEF FinishDoes
  <2>3. QED
    BY <2>1, <2>2
<1>11. ASSUME RestartDoes PROVE goal
  BY <1>11, <1>a, <1>b, <1>c DEF RestartDoes
<1>12. ASSUME NothingDoes PROVE goal
  BY <1>12, <1>a, <1>b, <1>c DEF NothingDoes
<1>13. QED
  BY <1>1, <1>2, <1>3, <1>4, <1>5, <1>6, <1>7, <1>8, <1>9, <1>10, <1>11, <1>12 DEF SomethingDoes

(* With nothing under way the row says stopped exactly when the record does, or a
   restart or a push has parted them. *)
LEMMA Follow2Step ==
  ASSUME ControlAssumption, TypeOK, Claim1, Hand, Refs, Turn, Alone,
         Follow1, Follow2, Follow3, Follow4, SomethingDoes
  PROVE  Follow2'
<1> SUFFICES ASSUME NEW s \in Sites, Plain(s)', \A w \in Workers : ~ Done(w, s, Kinds)'
             PROVE  (Agree(s) \/ Parted(s) \/ Parting(s))'
  BY DEF Follow2
<1> DEFINE goal == (Agree(s) \/ Parted(s) \/ Parting(s))'
<1>a. /\ row \in [Sites -> Live \cup {"absent", "deleted"}] /\ record \in [Sites -> {"none", "up", "stopped"}]
      /\ \A w \in Workers : Busy(w) => Kind(w) \in Kinds
  BY ColumnTypes, HeldJob
<1>b. CASE row[s] = "absent"
  <2>1. Agree(s)'
    BY <1>a, <1>b, FreshRow
  <2>2. QED
    BY <2>1
<1>c. CASE row[s] # "absent"
  <2>1. Plain(s)
    BY <1>c, PlainStep
  <2>2. ASSUME NEW w \in Workers, Done(w, s, Kinds) PROVE goal
    BY <1>a, <2>1, <2>2, AcceptedStep
  <2>3. ASSUME \A w \in Workers : ~ Done(w, s, Kinds) PROVE goal
    <3>1. CASE Agree(s)
      BY <2>1, <2>3, <3>1, AgreeStep DEF Hand
    <3>2. CASE Parting(s)
      BY <2>1, <3>2, PartingStep DEF Hand
    <3>3. CASE Parted(s) /\ ~ Agree(s)
      BY <2>1, <3>3, PartedStep DEF Follow4, Plain, Live, Hand
    <3>4. QED
      BY <2>1, <2>3, <3>1, <3>2, <3>3 DEF Follow2
  <2>4. QED
    BY <2>2, <2>3
<1>d. QED
  BY <1>b, <1>c

-------------------------------------------------------------------------------
LEMMA InitInv ==
  ASSUME ControlAssumption, Init
  PROVE  IInv
<1>1. PICK there \in SUBSET Sites :
         /\ row  = [s \in Sites |-> IF s \in there THEN "online" ELSE "absent"]
         /\ record = [s \in Sites |-> IF s \in there THEN "up" ELSE "none"]
  BY DEF Init
<1>2. /\ parent = [s \in Sites |-> NoSite] /\ staging = {} /\ unqueued = {} /\ jobs = <<>> /\ DOMAIN jobs = {}
      /\ at = [w \in Workers |-> "idle"] /\ held = [w \in Workers |-> 0]
      /\ on = [w \in Workers |-> NoSite]
      /\ losses = 0 /\ lost = {} /\ walked = {} /\ raced = {} /\ revived = {}
  BY DEF Init
<1>3. TypeOK
  <2>1. row \in [Sites -> Live \cup {"absent", "deleted"}] /\ record \in [Sites -> {"none", "up", "stopped"}]
    BY <1>1 DEF Live
  <2>2. jobs \in Seq(JobRows)
    BY <1>2, EmptySeq
  <2>3. parent \in [Sites -> Sites \cup {NoSite}] /\ staging \in SUBSET Sites
    BY <1>2
  <2>4. QED
    BY <1>2, <2>1, <2>2, <2>3 DEF TypeOK
<1>4. Claims /\ Hand /\ Tickets
  BY <1>2 DEF Claims, Claim1, Claim2, Claim3, Hand, Hand1, Hand2, Hand3, Hand4, Busy, Has,
              Tickets, Ticket1, Ticket2, Ticket3, Ticket4, Ticket5, Ticket6, Ticket7
<1>5. Refs
  BY <1>1, <1>2 DEF Refs, Has, Busy, ControlAssumption
<1>6. Fresh /\ Gone
  BY <1>1, <1>2 DEF Fresh, Gone, Unexecuted, Done, Has, Busy
<1>7. Shown /\ Marked
  BY <1>1, <1>2 DEF Shown, Marked, Done, Has, Busy
<1>8. StuckIsCopyOrLoss
  BY <1>1 DEF StuckIsCopyOrLoss
<1>9. Follow
  BY <1>1, <1>2 DEF Follow, Alone, Follow1, Follow2, Follow3, Follow4, Agree, Done, Has, Busy
<1>10. Order
  BY <1>2 DEF Order, Oldest, Turn
<1>11. QED
  BY <1>3, <1>4, <1>5, <1>6, <1>7, <1>8, <1>9, <1>10 DEF IInv

LEMMA StepInv ==
  ASSUME ControlAssumption, IInv, [Next]_vars
  PROVE  IInv'
<1> USE DEF IInv
<1>1. SomethingDoes
  BY StepDoes DEF Claims, Hand, Tickets
<1>2. TypeOK'
  BY TypeStep DEF Claims, Hand
<1>3. Claims' /\ Hand' /\ Refs' /\ Tickets'
  BY <1>1, ClaimsStep, HandStep, RefsStep, TicketsStep DEF Claims, Hand, Tickets
<1>4. Fresh' /\ Gone' /\ Shown'
  BY <1>1, FreshStep, GoneStep, ShownStep DEF Claims, Hand
<1>5. Marked' /\ StuckIsCopyOrLoss'
  BY <1>1, MarkedStep, StuckStep DEF Claims, Hand, Tickets
<1>6. Order'
  BY <1>1, OldestStep, TurnStep DEF Claims, Hand, Order
<1>7. Follow'
  BY <1>1, AloneStep, Follow1Step, Follow2Step, Follow3Step, Follow4Step DEF Claims, Hand, Order, Follow
<1>8. QED
  BY <1>2, <1>3, <1>4, <1>5, <1>6, <1>7

(* The inductive invariant holds of every reachable state. *)
THEOREM InvariantHolds == Spec => []IInv
<1>1. Init => IInv
  BY InitInv, ControlAssumption
<1>2. IInv /\ [Next]_vars => IInv'
  BY StepInv, ControlAssumption
<1>3. QED
  BY <1>1, <1>2, PTL DEF Spec

(* Every variable of the control plane keeps its type; in particular a row has
   one of the statuses the panel knows and a record one of the agent's. *)
THEOREM TypeCorrect == Spec => []TypeOK
<1>1. IInv => TypeOK
  BY DEF IInv
<1>2. QED
  BY <1>1, InvariantHolds, PTL

(* apply_effects and mark_site_failed: whatever jobs for a site overlap, a row
   that shows it online or stopped has a record on the agent, once no worker has
   the site in hand and unless an answer about it was lost or its import was
   worked off without the agent. *)
THEOREM ShownMeansThere == Spec => []RowHasRecord
<1>1. IInv => RowHasRecord
  <2> SUFFICES ASSUME IInv, NEW s \in Sites \ walked, Settled(s), row[s] \in {"online", "stopped"},
                      record[s] = "none"
               PROVE  FALSE
    BY DEF RowHasRecord
  <2>1. row[s] \notin Live \/ \E w \in Workers : Done(w, s, {"delete"})
    BY DEF IInv, Shown, Settled
  <2>2. QED
    BY <2>1 DEF Settled, Done, Has, Busy, Live
<1>2. QED
  BY <1>1, InvariantHolds, PTL

(* The delete of a site and every other job for it: a site deleted from the
   panel is not managed by the agent any more, unless a push rebuilt it or an
   answer was lost. *)
THEOREM DeletedMeansGone == Spec => []OnlyAPushRevives
<1>1. IInv => OnlyAPushRevives
  BY DEF IInv, Gone, OnlyAPushRevives, Settled
<1>2. QED
  BY <1>1, InvariantHolds, PTL

(* run, mark_site_failed and the handlers that insert a site: one that stays
   provisioning has its job to come or under way, or was a clone, a staging copy
   or an import that failed, or an answer about it was lost. *)
THEOREM ProvisioningEnds == Spec => []StuckIsCopyOrLoss
<1>1. IInv => StuckIsCopyOrLoss
  BY DEF IInv
<1>2. QED
  BY <1>1, InvariantHolds, PTL

(* apply_effects and the agent's start, stop, restart and clone: with one job for
   a site at a time, the row says stopped exactly when the agent's record does,
   until a restart or a push parts them, and again from the next start or stop. *)
THEOREM RowsFollowRecords == Spec => []StatusFollowsRecord
<1>1. IInv => StatusFollowsRecord
  <2> SUFFICES ASSUME IInv, NEW s \in Sites, s \notin raced \cup walked \cup revived, Settled(s), row[s] \in Live
               PROVE  Agree(s) \/ Parted(s)
    BY DEF StatusFollowsRecord, Agree
  <2>1. Plain(s) /\ ~ Parting(s) /\ \A w \in Workers : ~ Done(w, s, Kinds)
    BY DEF Plain, Parting, Settled, Done, Has, Busy
  <2>2. QED
    BY <2>1 DEF IInv, Follow, Follow2
<1>2. QED
  BY <1>1, InvariantHolds, PTL
-------------------------------------------------------------------------------
(* The jobs table implements JobLedger.                                      *)

(* Who inserts a job leaves room for those still in the handlers' hands. *)
Bounded == IsFiniteSet(unqueued) /\ Len(jobs) + Cardinality(unqueued) <= MaxJobs

LEMMA ColumnIs ==
  ASSUME ControlAssumption, TypeOK, Bounded
  PROVE  /\ Len(jobs) \in Nat /\ Cardinality(unqueued) \in Nat /\ MaxJobs \in Nat
         /\ DOMAIN jobs = 1..Len(jobs) /\ Len(jobs) <= MaxJobs
         /\ \A j \in 1..MaxJobs :
              StatusColumn[j] = IF j \in DOMAIN jobs THEN jobs[j].status ELSE "absent"
         /\ \A j \in DOMAIN jobs : j \in 1..MaxJobs /\ jobs[j].status \in Statuses
<1>1. Len(jobs) \in Nat /\ DOMAIN jobs = 1..Len(jobs) /\ \A j \in DOMAIN jobs : jobs[j].status \in Statuses
  BY JobsTable
<1>2. Cardinality(unqueued) \in Nat /\ MaxJobs \in Nat
  BY FS_CardinalityType DEF Bounded, ControlAssumption
<1>3. QED
  BY <1>1, <1>2 DEF Bounded, StatusColumn

(* An INSERT into jobs is the ledger's. *)
LEMMA InsertIsLedgers ==
  ASSUME ControlAssumption, TypeOK, Bounded, NEW u \in JobRows, u.status = "queued",
         jobs' = Append(jobs, u), Len(jobs) < MaxJobs
  PROVE  Ledger!Next /\ Len(jobs') = Len(jobs) + 1
<1> DEFINE j == Len(jobs) + 1
<1>1. /\ j \notin DOMAIN jobs /\ DOMAIN jobs' = DOMAIN jobs \cup {j}
      /\ \A i \in DOMAIN jobs : jobs'[i] = jobs[i]
      /\ jobs'[j] = u
  BY InsertedJob
<1>2. j \in 1..MaxJobs
  BY ColumnIs
<1>3. StatusColumn' = [StatusColumn EXCEPT ![j] = "queued"]
  BY <1>1 DEF StatusColumn
<1>4. StatusColumn[j] = "absent" /\ \A i \in 1..MaxJobs : i < j => StatusColumn[i] # "absent"
  BY <1>1, <1>2, ColumnIs DEF Statuses
<1>5. Ledger!Insert(j)
  BY <1>3, <1>4 DEF Ledger!Insert, Ledger!NextRow, Ledger!Jobs
<1>6. Len(jobs') = Len(jobs) + 1
  BY JobsTable, AppendProperties
<1>7. QED
  BY <1>2, <1>5, <1>6 DEF Ledger!Next, Ledger!Jobs

(* A statement that leaves the ids as they are changes statuses only. *)
LEMMA SameLength ==
  ASSUME TypeOK, jobs' \in Seq(JobRows), DOMAIN jobs' = DOMAIN jobs
  PROVE  Len(jobs') = Len(jobs)
<1>1. /\ DOMAIN jobs = 1..Len(jobs) /\ Len(jobs) \in Nat
      /\ DOMAIN jobs' = 1..Len(jobs') /\ Len(jobs') \in Nat
  BY JobsTable, LenProperties
<1>2. QED
  BY <1>1

LEMMA UpdateIsLedgers ==
  ASSUME TypeOK, NEW j \in DOMAIN jobs, NEW x \in Statuses, jobs' = [jobs EXCEPT ![j].status = x]
  PROVE  StatusColumn' = [StatusColumn EXCEPT ![j] = x] /\ Len(jobs') = Len(jobs)
<1>1. /\ jobs' \in Seq(JobRows) /\ DOMAIN jobs' = DOMAIN jobs
      /\ \A i \in DOMAIN jobs : jobs'[i].status = IF i = j THEN x ELSE jobs[i].status
  BY UpdatedStatus
<1>2. QED
  BY <1>1, SameLength DEF StatusColumn

LEMMA LedgerStep ==
  ASSUME ControlAssumption, TypeOK, Claim1, Ticket1, Bounded, [Next]_vars
  PROVE  Bounded' /\ [Ledger!Next]_StatusColumn
<1>0. /\ Len(jobs) \in Nat /\ Cardinality(unqueued) \in Nat /\ MaxJobs \in Nat
      /\ DOMAIN jobs = 1..Len(jobs) /\ Len(jobs) <= MaxJobs
      /\ \A j \in 1..MaxJobs : StatusColumn[j] = IF j \in DOMAIN jobs THEN jobs[j].status ELSE "absent"
      /\ \A j \in DOMAIN jobs : j \in 1..MaxJobs /\ jobs[j].status \in Statuses
  BY ColumnIs
<1>1. ASSUME jobs' = jobs, unqueued' = unqueued PROVE Bounded' /\ [Ledger!Next]_StatusColumn
  BY <1>1 DEF Bounded, StatusColumn
<1>2. ASSUME NEW u \in JobRows, u.status = "queued", Room, jobs' = Append(jobs, u), unqueued' = unqueued
      PROVE  Bounded' /\ [Ledger!Next]_StatusColumn
  <2>1. Len(jobs) < MaxJobs
    BY <1>0, <1>2 DEF Room
  <2>2. Ledger!Next /\ Len(jobs') = Len(jobs) + 1
    BY <1>2, <2>1, InsertIsLedgers
  <2>3. QED
    BY <1>0, <1>2, <2>2 DEF Bounded, Room
<1>3. ASSUME NEW k \in Provisions, NEW s \in Sites, NEW src \in Sites \cup {NoSite}, InsertSite(k, s, src)
      PROVE  Bounded' /\ [Ledger!Next]_StatusColumn
  <2>1. unqueued' = unqueued \cup {Job(k, s, src)} /\ jobs' = jobs /\ Room
    BY <1>3 DEF InsertSite
  <2>2. IsFiniteSet(unqueued') /\ Cardinality(unqueued') \in {Cardinality(unqueued), Cardinality(unqueued) + 1}
    BY <2>1, FS_AddElement DEF Bounded
  <2>3. QED
    BY <1>0, <2>1, <2>2 DEF Bounded, Room, StatusColumn
<1>4. ASSUME NEW u \in unqueued, u.status = "queued", EnqueueSite(u)
      PROVE  Bounded' /\ [Ledger!Next]_StatusColumn
  <2>1. IsFiniteSet(unqueued') /\ Cardinality(unqueued') = Cardinality(unqueued) - 1
    BY <1>4, FS_RemoveElement DEF Bounded, EnqueueSite
  <2>2. u \in JobRows
    BY ColumnTypes
  <2>3. CASE jobs' = Append(jobs, u)
    <3>1. Cardinality(unqueued') \in Nat
      BY <2>1, FS_CardinalityType
    <3>2. Len(jobs) < MaxJobs
      BY <1>0, <2>1, <3>1 DEF Bounded
    <3>3. Ledger!Next /\ Len(jobs') = Len(jobs) + 1
      BY <1>4, <2>2, <2>3, <3>2, InsertIsLedgers
    <3>4. QED
      BY <1>0, <2>1, <3>3 DEF Bounded
  <2>4. CASE jobs' = jobs
    BY <1>0, <2>1, <2>4 DEF Bounded, StatusColumn
  <2>5. QED
    BY <1>4, <2>3, <2>4 DEF EnqueueSite
<1>5. ASSUME NEW k \in Commands, NEW s \in Sites, Command(k, s)
      PROVE  Bounded' /\ [Ledger!Next]_StatusColumn
  <2>1. Job(k, s, NoSite) \in JobRows /\ Job(k, s, NoSite).status = "queued"
    BY JobIsRow DEF Kinds
  <2>2. QED
    BY <1>2, <1>5, <2>1 DEF Command
<1>6. ASSUME NEW s \in Sites, Push(s) PROVE Bounded' /\ [Ledger!Next]_StatusColumn
  <2>1. parent[s] \in Sites \cup {NoSite}
    BY ColumnTypes
  <2>2. Job("push", parent[s], s) \in JobRows /\ Job("push", parent[s], s).status = "queued"
    BY <2>1, JobIsRow DEF Kinds
  <2>3. QED
    BY <1>2, <1>6, <2>2 DEF Push
<1>7. ASSUME NEW w \in Workers, Claim(w) PROVE Bounded' /\ [Ledger!Next]_StatusColumn
  <2>1. PICK j \in DOMAIN jobs :
          /\ jobs[j].status = "queued" /\ \A i \in 1..(j - 1) : jobs[i].status # "queued"
          /\ jobs' = [jobs EXCEPT ![j].status = "running"] /\ unqueued' = unqueued
    BY <1>7 DEF Claim
  <2>2. StatusColumn' = [StatusColumn EXCEPT ![j] = "running"] /\ Len(jobs') = Len(jobs)
    BY <2>1, UpdateIsLedgers DEF Statuses
  <2>3. StatusColumn[j] = "queued" /\ \A i \in 1..MaxJobs : i < j => StatusColumn[i] # "queued"
    BY <1>0, <2>1
  <2>4. Ledger!Start(j) /\ j \in 1..MaxJobs
    BY <1>0, <2>2, <2>3 DEF Ledger!Start, Ledger!OldestQueued, Ledger!Jobs
  <2>5. QED
    BY <2>1, <2>2, <2>4 DEF Bounded, Ledger!Next, Ledger!Jobs
<1>8. ASSUME NEW w \in Workers, Finish(w) PROVE Bounded' /\ [Ledger!Next]_StatusColumn
  <2> DEFINE j == held[w]
             how == IF at[w] = "succeeding" THEN "succeeded" ELSE "failed"
  <2>1. j \in DOMAIN jobs /\ jobs[j].status = "running"
    BY <1>8 DEF Finish, Goto, Claim1, Busy
  <2>2. jobs' = [jobs EXCEPT ![j].status = how] /\ unqueued' = unqueued /\ how \in Ledger!Ended
        /\ how \in Statuses
    BY <1>8 DEF Finish, Ledger!Ended, Statuses
  <2> HIDE DEF j, how
  <2>3. StatusColumn' = [StatusColumn EXCEPT ![j] = how] /\ Len(jobs') = Len(jobs)
    BY <2>1, <2>2, UpdateIsLedgers
  <2>4. Ledger!End(j, how) /\ j \in 1..MaxJobs
    BY <1>0, <2>1, <2>3 DEF Ledger!End
  <2>5. QED
    BY <2>2, <2>3, <2>4 DEF Bounded, Ledger!Next, Ledger!Jobs
<1>9. ASSUME NEW w \in Workers, Apply(w) PROVE Bounded' /\ [Ledger!Next]_StatusColumn
  <2>1. unqueued' = unqueued /\ Effects(Kind(w), on[w]) /\ on[w] \in Sites \cup {NoSite}
    BY <1>9, ColumnTypes DEF Apply
  <2>2. CASE jobs' = jobs
    BY <1>1, <2>1, <2>2
  <2>3. CASE /\ on[w] \in Sites
             /\ jobs' = [j \in DOMAIN jobs |->
                           IF jobs[j].site = on[w] THEN [jobs[j] EXCEPT !.site = NoSite] ELSE jobs[j]]
    <3>1. /\ jobs' \in Seq(JobRows) /\ DOMAIN jobs' = DOMAIN jobs
          /\ \A i \in DOMAIN jobs : jobs'[i].status = jobs[i].status
      BY <2>3, NulledSite
    <3>2. Len(jobs') = Len(jobs) /\ StatusColumn' = StatusColumn
      BY <3>1, SameLength DEF StatusColumn
    <3>3. QED
      BY <2>1, <3>2 DEF Bounded
  <2>4. QED
    BY <2>1, <2>2, <2>3 DEF Effects
<1>10. ASSUME Restart PROVE Bounded' /\ [Ledger!Next]_StatusColumn
  <2>1. /\ jobs' \in Seq(JobRows) /\ DOMAIN jobs' = DOMAIN jobs
        /\ \A i \in DOMAIN jobs :
             jobs'[i].status = IF jobs[i].status = "running" THEN "failed" ELSE jobs[i].status
    BY <1>10, FailedRunning DEF Restart
  <2>2. StatusColumn' = [j \in 1..MaxJobs |-> IF StatusColumn[j] = "running" THEN "failed" ELSE StatusColumn[j]]
    BY <2>1 DEF StatusColumn
  <2>3. Len(jobs') = Len(jobs) /\ unqueued' = {}
    BY <1>10, <2>1, SameLength DEF Restart
  <2>4. Bounded'
    BY <1>0, <2>3, FS_EmptySet DEF Bounded
  <2>5. QED
    BY <2>2, <2>4 DEF Ledger!Next, Ledger!Restart, Ledger!Jobs
<1>11. ASSUME NEW w \in Workers,
              \/ Post(w) \/ WalkLocally(w) \/ Execute(w) \/ MarkSiteFailed(w)
              \/ Timeout(w) \/ FlushFails(w) \/ StatementFails(w)
       PROVE  jobs' = jobs /\ unqueued' = unqueued
  BY <1>11 DEF Post, WalkLocally, Execute, MarkSiteFailed, Timeout, FlushFails, StatementFails, Perform
<1>12. ASSUME UNCHANGED vars PROVE jobs' = jobs /\ unqueued' = unqueued
  BY <1>12 DEF vars
<1>13. ASSUME NEW w \in Workers, Work(w) \/ Timeout(w) \/ FlushFails(w) \/ StatementFails(w)
       PROVE  Bounded' /\ [Ledger!Next]_StatusColumn
  BY <1>1, <1>7, <1>8, <1>9, <1>11, <1>13 DEF Work
<1>14. ASSUME NEW u \in unqueued, EnqueueSite(u) PROVE Bounded' /\ [Ledger!Next]_StatusColumn
  BY <1>4, <1>14 DEF Ticket1
<1>15. QED
  BY <1>1, <1>3, <1>5, <1>6, <1>10, <1>12, <1>13, <1>14 DEF Next

(* The handlers that insert, claim_next, finish and requeue_orphans, with sites
   and agents around them, implement JobLedger: whatever is lost, a job is queued
   once, started once, oldest first, and ended once. *)
THEOREM ImplementsLedger == Spec => LedgerSpec
<1>1. Init => Ledger!Init /\ Bounded
  <2> SUFFICES ASSUME Init PROVE Ledger!Init /\ Bounded
    OBVIOUS
  <2>1. jobs = <<>> /\ unqueued = {}
    BY DEF Init
  <2>2. Bounded
    BY <2>1, FS_EmptySet, ControlAssumption DEF Bounded, ControlAssumption
  <2>3. Ledger!Init
    BY <2>1 DEF StatusColumn, Ledger!Init, Ledger!Jobs
  <2>4. QED
    BY <2>2, <2>3
<1>2. IInv /\ Bounded /\ [Next]_vars => Bounded' /\ [Ledger!Next]_StatusColumn
  BY LedgerStep, ControlAssumption DEF IInv, Claims, Tickets
<1>3. Spec => [](IInv /\ Bounded)
  BY InvariantHolds, <1>1, <1>2, PTL DEF Spec
<1>4. QED
  BY <1>1, <1>2, <1>3, PTL DEF Spec, LedgerSpec, Ledger!Spec

===============================================================================
