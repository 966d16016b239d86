------------------------------ MODULE HostProofs ------------------------------
(***************************************************************************)
(* Proofs about the two components that live on a host: SiteHost, the      *)
(* agent's handlers, and PageCache, what nginx and WordPress make of one   *)
(* of its sites.                                                           *)
(*                                                                         *)
(* SiteHost is for any sites and PHP versions and any number of handlers   *)
(* and restarts.  Three arguments run side by side: the uids that are      *)
(* handed out stay apart and low; what is left of a plan says what its     *)
(* handler may still do; and on a live agent no container ever has the     *)
(* name the handlers ask for, so that a create does not reach its put.     *)
(*                                                                         *)
(* PageCache is for the three classes of pages the model has, any of them  *)
(* followed under a second key, any number rendered at once and any number *)
(* of rewrites of the vhost.  StaleHasCause is strengthened by what a      *)
(* delete needs: while it is under way, every entry of the post's pages is *)
(* about to be purged or has a cause already, for the row that goes asks   *)
(* for nothing.                                                            *)
(***************************************************************************)
EXTENDS SiteHost, PageCache, FiniteSetTheorems, SequenceTheorems, FunctionTheorems, WellFoundedInduction, TLAPS

-------------------------------------------------------------------------------
(* SiteHost.                                                                   *)

(* The steps of the plans. *)
Steps == {"account", "plain", "run", "named", "vhost", "tls vhost", "reload", "try certificate",
          "certificate", "other certificate", "renew", "rewrite", "inspect", "inspect new", "remove", "remove old",
          "remove vhost", "userdel", "put", "forget"}

(* A handler at work. *)
Work == [site: Sites, rec: Record, was: Versions \cup {None}, todo: Seq(Steps)]

-------------------------------------------------------------------------------
(* Uids. *)

UsedUids == {store[s].uid : s \in Recorded}

LEMMA RecordedTypes ==
  ASSUME TypeOK
  PROVE  /\ Recorded \subseteq Sites
         /\ \A s \in Recorded : store[s] \in Record /\ store[s].uid \in Uids /\ store[s].php \in Versions
BY DEF TypeOK, Recorded, Record

(* A non-empty set of numbers has a least one. *)
LEMMA LeastNumber ==
  ASSUME NEW T \in SUBSET Nat, T # {}
  PROVE  \E x \in T : \A y \in T : x <= y
<1>1. PICK x \in T : \A y \in T : ~ (<<y, x>> \in OpToRel(<, Nat))
  BY NatLessThanWellFounded, WFMin, Zenon
<1>2. \A y \in T : ~ (y < x)
  BY <1>1, Zenon DEF OpToRel
<1>3. QED
  BY <1>2

(* One of any set of numbers larger than the index is free. *)
LEMMA OneIsFree ==
  ASSUME TypeOK, SiteHostAssumption, NEW n \in Nat, n > Cardinality(Recorded)
  PROVE  \E u \in 1..n : u \notin UsedUids
<1>1. IsFiniteSet(Recorded) /\ Cardinality(Recorded) \in Nat
  BY RecordedTypes, FS_Subset, FS_CardinalityType DEF SiteHostAssumption
<1>2. SUFFICES ASSUME \A u \in 1..n : u \in UsedUids PROVE FALSE
  OBVIOUS
<1>3. \A u \in 1..n : \E s \in Recorded : store[s].uid = u
  BY <1>2 DEF UsedUids
<1> DEFINE f == [u \in 1..n |-> CHOOSE s \in Recorded : store[s].uid = u]
<1>4. \A u \in 1..n : f[u] \in Recorded /\ store[f[u]].uid = u
  BY <1>3
<1>5. f \in [1..n -> Recorded]
  BY <1>4
<1>6. IsFiniteSet(1..n) /\ Cardinality(1..n) = n
  BY FS_Interval
<1>7. PICK x, y \in 1..n : x # y /\ f[x] = f[y]
  <2> HIDE DEF f
  <2> QED
    BY <1>1, <1>5, <1>6, FS_PigeonHole
<1>8. QED
  BY <1>4, <1>7

(* next_uid finds one, no record has it, and it is at most one more than    *)
(* there are records.                                                       *)
LEMMA NextUidIsFree ==
  ASSUME TypeOK, SiteHostAssumption
  PROVE  /\ NextUid \in Uids
         /\ \A s \in Recorded : store[s].uid # NextUid
         /\ NextUid <= Cardinality(Recorded) + 1
<1>1. /\ Cardinality(Recorded) \in Nat /\ Cardinality(Sites) \in Nat
      /\ Cardinality(Recorded) <= Cardinality(Sites)
  BY RecordedTypes, FS_Subset, FS_CardinalityType DEF SiteHostAssumption
<1> DEFINE free == {u \in Uids : u \notin UsedUids}
<1>2. PICK u \in free : u <= Cardinality(Recorded) + 1
  <2>1. PICK u \in 1..(Cardinality(Recorded) + 1) : u \notin UsedUids
    BY <1>1, OneIsFree
  <2>2. QED
    BY <1>1, <2>1 DEF Uids
<1>3. PICK x \in free : \A y \in free : x <= y
  <2>1. free \in SUBSET Nat /\ free # {}
    BY <1>1, <1>2 DEF Uids
  <2> HIDE DEF free
  <2> QED
    BY <2>1, LeastNumber
<1>4. /\ \A s \in Recorded : store[s].uid # x
      /\ \A w \in Uids : w < x => \E s \in Recorded : store[s].uid = w
  BY <1>1, <1>3 DEF UsedUids, Uids
<1>5. /\ NextUid \in Uids
      /\ \A s \in Recorded : store[s].uid # NextUid
      /\ \A w \in Uids : w < NextUid => \E s \in Recorded : store[s].uid = w
  BY <1>3, <1>4 DEF NextUid
<1>6. ~ (u < NextUid)
  BY <1>2, <1>5 DEF UsedUids
<1>7. QED
  BY <1>1, <1>2, <1>5, <1>6 DEF Uids

-------------------------------------------------------------------------------
(* What is left of a plan. *)

NoTls    == Seq(Steps \ {"tls vhost"})
NoSwitch == Seq(Steps \ {"inspect new", "remove old"})
Quiet    == Seq(Steps \ {"tls vhost", "inspect new", "remove old"})
(* A plan that puts its record last, after the health check. *)
Ends(q)  == \E p \in Seq(Steps \ {"put"}) : q = p \o <<"inspect", "put">>

LEMMA PlansAreQuiet ==
  /\ \A install, ssl \in BOOLEAN : CreatePlan(install, ssl) \in Quiet /\ Ends(CreatePlan(install, ssl))
  /\ \A rewrite \in BOOLEAN : ClonePlan(rewrite) \in Quiet /\ Ends(ClonePlan(rewrite))
  /\ ImportPlan \in Quiet /\ Ends(ImportPlan)
  /\ {ResyncPlan, DeletePlan, StartPlan, StopPlan, RestartPlan, LimitsPlan, DomainsPlan, RenewPlan,
      CachePlan, ClearPlan, InstallPlan, UpdatePlan, BackupPlan, RestorePlan, ManagePlan,
      IssueOtherPlan} \subseteq Quiet
<1> DEFINE S == Steps \ {"tls vhost", "inspect new", "remove old"}
           P == Steps \ {"put"}
<1> USE DEF ServePlan, Steps
<1>1. ASSUME NEW a \in Seq(S), NEW b \in Seq(S) PROVE a \o b \in Seq(S)
  BY ConcatProperties
<1>2. ASSUME NEW a \in Seq(P), NEW b \in Seq(P) PROVE a \o b \in Seq(P)
  BY ConcatProperties
<1>3. <<"inspect", "put">> \in Seq(S)
  OBVIOUS
<1>4. ASSUME NEW install \in BOOLEAN, NEW ssl \in BOOLEAN
      PROVE  CreatePlan(install, ssl) \in Quiet /\ Ends(CreatePlan(install, ssl))
  <2> DEFINE a == <<"account", "plain", "run">>
             b == IF install THEN <<"named">> ELSE <<>>
             c == <<"vhost", "reload">>
             d == <<"plain">>
             e == IF ssl THEN <<"try certificate">> ELSE <<>>
             m == a \o b \o c \o d \o e
  <2>1. a \in Seq(S) /\ b \in Seq(S) /\ c \in Seq(S) /\ d \in Seq(S) /\ e \in Seq(S)
    <3>1. <<"named">> \in Seq(S) /\ <<"try certificate">> \in Seq(S) /\ <<>> \in Seq(S)
      OBVIOUS
    <3>2. a \in Seq(S) /\ c \in Seq(S) /\ d \in Seq(S)
      OBVIOUS
    <3>3. QED
      BY <3>1, <3>2, Zenon
  <2>2. a \in Seq(P) /\ b \in Seq(P) /\ c \in Seq(P) /\ d \in Seq(P) /\ e \in Seq(P)
    <3>1. <<"named">> \in Seq(P) /\ <<"try certificate">> \in Seq(P) /\ <<>> \in Seq(P)
      OBVIOUS
    <3>2. a \in Seq(P) /\ c \in Seq(P) /\ d \in Seq(P)
      OBVIOUS
    <3>3. QED
      BY <3>1, <3>2, Zenon
  <2>3. CreatePlan(install, ssl) = m \o <<"inspect", "put">>
    BY DEF CreatePlan
  <2> HIDE DEF a, b, c, d, e, S, P
  <2>4. m \in Seq(S) /\ m \in Seq(P)
    BY <1>1, <1>2, <2>1, <2>2
  <2> HIDE DEF m
  <2>5. m \o <<"inspect", "put">> \in Seq(S)
    BY <1>1, <1>3, <2>4
  <2>6. QED
    BY <2>3, <2>4, <2>5 DEF Quiet, Ends, S, P
<1>5. ASSUME NEW rewrite \in BOOLEAN PROVE ClonePlan(rewrite) \in Quiet /\ Ends(ClonePlan(rewrite))
  <2> DEFINE a == <<"account", "plain", "named", "run">>
             b == IF rewrite THEN <<"named">> ELSE <<>>
             c == <<"vhost", "reload">>
             m == a \o b \o c
  <2>1. a \in Seq(S) /\ b \in Seq(S) /\ c \in Seq(S) /\ a \in Seq(P) /\ b \in Seq(P) /\ c \in Seq(P)
    <3>1. /\ <<"named">> \in Seq(S) /\ <<>> \in Seq(S)
          /\ <<"named">> \in Seq(P) /\ <<>> \in Seq(P)
      OBVIOUS
    <3>2. a \in Seq(S) /\ c \in Seq(S) /\ a \in Seq(P) /\ c \in Seq(P)
      OBVIOUS
    <3>3. QED
      BY <3>1, <3>2, Zenon
  <2>2. ClonePlan(rewrite) = m \o <<"inspect", "put">>
    BY DEF ClonePlan
  <2> HIDE DEF a, b, c, S, P
  <2>3. m \in Seq(S) /\ m \in Seq(P)
    BY <1>1, <1>2, <2>1
  <2> HIDE DEF m
  <2>4. m \o <<"inspect", "put">> \in Seq(S)
    BY <1>1, <1>3, <2>3
  <2>5. QED
    BY <2>2, <2>3, <2>4 DEF Quiet, Ends, S, P
<1>6. ImportPlan \in Quiet /\ Ends(ImportPlan)
  <2> DEFINE a == <<"plain", "account", "plain", "run", "named">>
             c == <<"vhost", "reload">>
             m == a \o c
  <2>1. a \in Seq(S) /\ c \in Seq(S) /\ a \in Seq(P) /\ c \in Seq(P)
    OBVIOUS
  <2>2. ImportPlan = m \o <<"inspect", "put">>
    BY DEF ImportPlan
  <2> HIDE DEF a, c, S, P
  <2>3. m \in Seq(S) /\ m \in Seq(P)
    BY <1>1, <1>2, <2>1
  <2> HIDE DEF m
  <2>4. m \o <<"inspect", "put">> \in Seq(S)
    BY <1>1, <1>3, <2>3
  <2>5. QED
    BY <2>2, <2>3, <2>4 DEF Quiet, Ends, S, P
<1>7. ResyncPlan \in Quiet
  <2>1. <<"plain", "run">> \in Seq(S) /\ <<"vhost", "reload">> \in Seq(S)
    OBVIOUS
  <2>2. QED
    BY <1>1, <1>3, <2>1 DEF ResyncPlan, Quiet
<1>8. DomainsPlan \in Quiet
  <2>1. <<"put">> \in Seq(S) /\ <<"vhost", "reload">> \in Seq(S)
    OBVIOUS
  <2>2. QED
    BY <1>1, <2>1 DEF DomainsPlan, Quiet
<1>9. /\ DeletePlan \in Quiet /\ StartPlan \in Quiet /\ StopPlan \in Quiet /\ RestartPlan \in Quiet
      /\ LimitsPlan \in Quiet /\ RenewPlan \in Quiet /\ CachePlan \in Quiet /\ ClearPlan \in Quiet
  BY DEF DeletePlan, StartPlan, StopPlan, RestartPlan, LimitsPlan, RenewPlan, CachePlan, ClearPlan, Quiet
<1>10. /\ InstallPlan \in Quiet /\ UpdatePlan \in Quiet /\ BackupPlan \in Quiet /\ RestorePlan \in Quiet
       /\ ManagePlan \in Quiet /\ IssueOtherPlan \in Quiet
  BY DEF IssueOtherPlan, InstallPlan, UpdatePlan, BackupPlan, RestorePlan, ManagePlan, Quiet
<1>11. QED
  BY <1>4, <1>5, <1>6, <1>7, <1>8, <1>9, <1>10

(* What a handler begins with. *)
Starts(s, rec, was, plan) ==
    /\ rec \in Record
    /\ was \in Versions \cup {None}
    /\ plan \in Seq(Steps)
    /\ rec.uid = NextUid \/ (s \in Recorded /\ rec.uid = store[s].uid)
    /\ \/ plan \in Quiet
       \/ plan = IssuePlan
       \/ plan = SwitchPlan /\ s \in Recorded /\ was = store[s].php /\ rec.php # was
    /\ s \in Recorded \/ Ends(plan)

LEMMA QuietSteps == Quiet \subseteq Seq(Steps) /\ Quiet \subseteq NoTls /\ Quiet \subseteq NoSwitch
<1> DEFINE S == Steps \ {"tls vhost", "inspect new", "remove old"}
<1>1. ASSUME NEW T, S \subseteq T PROVE Seq(S) \subseteq Seq(T)
  BY <1>1, SeqMonotonic
<1>2. /\ S \subseteq Steps /\ S \subseteq Steps \ {"tls vhost"}
      /\ S \subseteq Steps \ {"inspect new", "remove old"}
  OBVIOUS
<1> HIDE DEF S
<1>3. QED
  BY <1>1, <1>2 DEF Quiet, NoTls, NoSwitch, S

LEMMA OddPlans ==
  /\ IssuePlan = <<"certificate", "tls vhost", "reload">>
  /\ IssuePlan \in Seq(Steps) /\ IssuePlan \in NoSwitch
  /\ SwitchPlan \in Seq(Steps) /\ SwitchPlan \in NoTls
<1>1. IssuePlan = <<"certificate", "tls vhost", "reload">>
  <2> DEFINE a == <<"certificate">>
             b == <<"tls vhost", "reload">>
             c == <<"certificate", "tls vhost", "reload">>
  <2>1. a \in Seq(Steps) /\ b \in Seq(Steps) /\ c \in Seq(Steps)
    BY DEF Steps
  <2>2. Len(a) = 1 /\ Len(b) = 2 /\ Len(c) = 3
    OBVIOUS
  <2>3. c[1] = a[1] /\ c[2] = b[1] /\ c[3] = b[2]
    OBVIOUS
  <2> HIDE DEF a, b, c
  <2>4. /\ a \o b \in Seq(Steps)
        /\ Len(a \o b) = Len(a) + Len(b)
        /\ \A i \in 1..Len(a) + Len(b) : (a \o b)[i] = IF i <= Len(a) THEN a[i] ELSE b[i - Len(a)]
    BY <2>1, ConcatProperties
  <2>5. (a \o b)[1] = c[1] /\ (a \o b)[2] = c[2] /\ (a \o b)[3] = c[3]
    BY <2>2, <2>3, <2>4
  <2>6. a \o b = c
    BY <2>1, <2>2, <2>4, <2>5, SeqEqual
  <2>7. QED
    BY <2>6 DEF IssuePlan, TlsPlan, a, b, c
<1>2. <<"certificate", "tls vhost", "reload">> \in Seq(Steps)
  BY DEF Steps
<1>3. <<"certificate", "tls vhost", "reload">> \in Seq(Steps \ {"inspect new", "remove old"})
  BY DEF Steps
<1>4. SwitchPlan \in Seq(Steps)
  BY DEF SwitchPlan, Steps
<1>5. SwitchPlan \in Seq(Steps \ {"tls vhost"})
  BY DEF SwitchPlan, Steps
<1>6. QED
  BY <1>1, <1>2, <1>3, <1>4, <1>5 DEF NoTls, NoSwitch

LEMMA DispatchShape ==
  ASSUME TypeOK, SiteHostAssumption, NEW s \in Sites, Dispatch(s)
  PROVE  \E rec, was, plan : Begin(s, rec, was, plan) /\ Starts(s, rec, was, plan)
<1>1. ASSUME NEW v \in Versions, NEW plan \in Quiet, Ends(plan), Begin(s, New(s, v), None, plan)
      PROVE  \E rec, was, q : Begin(s, rec, was, q) /\ Starts(s, rec, was, q)
  <2>1. New(s, v) \in Record /\ New(s, v).uid = NextUid
    BY NextUidIsFree DEF New, Record
  <2>2. Starts(s, New(s, v), None, plan)
    BY <1>1, <2>1, QuietSteps DEF Starts
  <2>3. QED
    BY <1>1, <2>2
<1>2. ASSUME NEW plan \in Quiet \cup {IssuePlan}, Found(s, plan)
      PROVE  \E rec, was, q : Begin(s, rec, was, q) /\ Starts(s, rec, was, q)
  <2>1. /\ s \in Recorded /\ store[s] \in Record /\ store[s].php \in Versions
        /\ Begin(s, store[s], store[s].php, plan)
    BY <1>2, RecordedTypes DEF Found
  <2>2. Starts(s, store[s], store[s].php, plan)
    BY <1>2, <2>1, QuietSteps, OddPlans DEF Starts
  <2>3. QED
    BY <2>1, <2>2
<1>3. CASE Create(s)
  BY <1>1, <1>3, PlansAreQuiet DEF Create
<1>4. CASE Clone(s)
  BY <1>1, <1>4, PlansAreQuiet DEF Clone
<1>5. CASE Import(s)
  BY <1>1, <1>5, PlansAreQuiet DEF Import
<1>6. CASE SwitchPhp(s)
  <2>1. PICK v \in Versions : /\ s \in Recorded
                              /\ v # store[s].php
                              /\ Begin(s, [store[s] EXCEPT !.php = v], store[s].php, SwitchPlan)
    BY <1>6 DEF SwitchPhp
  <2>2. /\ [store[s] EXCEPT !.php = v] \in Record
        /\ [store[s] EXCEPT !.php = v].php = v
        /\ [store[s] EXCEPT !.php = v].uid = store[s].uid
    BY <2>1, RecordedTypes DEF Record
  <2>3. Starts(s, [store[s] EXCEPT !.php = v], store[s].php, SwitchPlan)
    BY <2>1, <2>2, RecordedTypes, OddPlans DEF Starts
  <2>4. QED
    BY <2>1, <2>3
<1>7. CASE \/ Resync(s) \/ Delete(s) \/ Start(s) \/ Stop(s) \/ RestartSite(s) \/ SetLimits(s)
           \/ ChangeDomains(s) \/ IssueCertificate(s) \/ RenewCertificate(s) \/ SetCache(s)
           \/ ClearCache(s) \/ InstallWordpress(s) \/ UpdateWordpress(s) \/ Backup(s) \/ Restore(s)
           \/ ManageWordpress(s)
  BY <1>2, <1>7, PlansAreQuiet, Zenon
     DEF Resync, Delete, Start, Stop, RestartSite, SetLimits, ChangeDomains, IssueCertificate,
         RenewCertificate, SetCache, ClearCache, InstallWordpress, UpdateWordpress, Backup, Restore,
         ManageWordpress
<1>8. QED
  BY <1>3, <1>4, <1>5, <1>6, <1>7 DEF Dispatch

(* The handler after a step: gone, or the same with the rest of its plan. *)
LEMMA RestShape ==
  ASSUME doing \in Work, NEW q \in Seq(Steps)
  PROVE  \/ Rest(q) = Idle
         \/ /\ Rest(q) \in Work
            /\ Rest(q).site = doing.site /\ Rest(q).rec = doing.rec /\ Rest(q).was = doing.was
            /\ Rest(q).todo = q
BY DEF Rest, Work

LEMMA AtWork ==
  ASSUME doing = Idle \/ doing \in Work, doing.todo # <<>>
  PROVE  /\ doing \in Work /\ doing # Idle
         /\ doing.todo \in Seq(Steps) /\ Head(doing.todo) \in Steps /\ Tail(doing.todo) \in Seq(Steps)
<1>1. doing \in Work
  BY DEF Idle
<1>2. doing.todo \in Seq(Steps)
  BY <1>1 DEF Work
<1>3. QED
  BY <1>1, <1>2, HeadTailProperties DEF Idle

-------------------------------------------------------------------------------
(* Types.  On a live agent a container always carries its PHP version. *)

TypeInv ==
    /\ TypeOK
    /\ doing = Idle \/ doing \in Work
    /\ containers \subseteq Sites \X Versions

LEMMA NoneAnswers ==
  ASSUME TypeInv, SiteHostAssumption, NEW d \in Sites
  PROVE  ~ Answers(d)
BY DEF TypeInv, SiteHostAssumption, Answers, Unversioned

(* The handler goes on with what is left of its plan. *)
Resumes ==
    /\ doing \in Work
    /\ doing.todo # <<>>
    /\ doing' \in Work
    /\ doing'.site = doing.site
    /\ doing'.rec = doing.rec
    /\ doing'.was = doing.was
    /\ \/ doing'.todo = Tail(doing.todo)
       \/ /\ At("try certificate")
          /\ doing'.todo = TlsPlan \o Tail(doing.todo)
          /\ dryRun \/ doing.site \in certs'

LEMMA TlsPlanSteps == TlsPlan \in Seq(Steps) /\ TlsPlan \in NoSwitch /\ TlsPlan \in Seq(Steps \ {"put"})
<1>1. TlsPlan \in Seq(Steps)
  BY DEF TlsPlan, Steps
<1>2. TlsPlan \in Seq(Steps \ {"inspect new", "remove old"})
  BY DEF TlsPlan, Steps
<1>3. TlsPlan \in Seq(Steps \ {"put"})
  BY DEF TlsPlan, Steps
<1>4. QED
  BY <1>1, <1>2, <1>3 DEF NoSwitch

LEMMA StepShape ==
  ASSUME TypeInv, Command \/ Rehearse \/ Put \/ Forget \/ GiveUp \/ Boot
  PROVE  doing' = Idle \/ Resumes
<1>1. ASSUME NEW q \in Seq(Steps), doing \in Work, doing' = Rest(q) \/ doing' = Idle
      PROVE  \/ doing' = Idle
             \/ /\ doing' \in Work
                /\ doing'.site = doing.site /\ doing'.rec = doing.rec /\ doing'.was = doing.was
                /\ doing'.todo = q
  BY <1>1, RestShape
<1>2. ASSUME doing.todo # <<>>, Onward \/ doing' = Rest(Tail(doing.todo)) PROVE doing' = Idle \/ Resumes
  BY <1>1, <1>2, AtWork DEF TypeInv, Onward, Resumes
<1>3. ASSUME doing.todo # <<>>, At("try certificate"), dryRun \/ doing.site \in certs',
             doing' \in {Rest(TlsPlan \o Tail(doing.todo)), Idle}
      PROVE  doing' = Idle \/ Resumes
  <2>1. doing \in Work /\ TlsPlan \o Tail(doing.todo) \in Seq(Steps)
    BY <1>3, AtWork, TlsPlanSteps, ConcatProperties DEF TypeInv
  <2>2. QED
    BY <1>1, <1>3, <2>1 DEF Resumes
<1>4. CASE Command
  <2>1. CASE UserAdd \/ UserDel \/ StartPhp \/ InspectNew \/ RemoveOld \/ RemoveNamed
    BY <1>2, <2>1 DEF UserAdd, UserDel, StartPhp, InspectNew, RemoveOld, RemoveNamed, Live, At
  <2>2. CASE WriteSite \/ Reload \/ OtherCertificate \/ NoCertificate \/ Renew \/ OtherCommand
    BY <1>2, <2>2 DEF WriteSite, Reload, OtherCertificate, NoCertificate, Renew, OtherCommand, Live, At
  <2>3. CASE Certificate
    <3>1. CASE Live("certificate") /\ Onward
      BY <1>2, <3>1 DEF Live, At
    <3>2. CASE Live("try certificate") /\ doing' \in {Rest(TlsPlan \o Tail(doing.todo)), Idle}
      <4>1. Here \in certs' /\ At("try certificate") /\ doing.todo # <<>>
        BY <2>3, <3>2 DEF Certificate, Live, At
      <4>2. QED
        BY <1>3, <3>2, <4>1 DEF Here
    <3>3. QED
      BY <2>3, <3>1, <3>2 DEF Certificate
  <2>4. QED
    BY <1>4, <2>1, <2>2, <2>3 DEF Command
<1>5. CASE Rehearse
  <2>1. CASE At("try certificate")
    BY <1>3, <1>5, <2>1 DEF Rehearse
  <2>2. CASE ~ At("try certificate")
    <3>1. Tail(doing.todo) \in Seq(Steps)
      BY <1>5, AtWork DEF Rehearse, TypeInv
    <3>2. <<>> \o Tail(doing.todo) = Tail(doing.todo)
      BY <3>1, ConcatEmptySeq
    <3>3. QED
      BY <1>2, <1>5, <2>2, <3>2 DEF Rehearse
  <2>3. QED
    BY <2>1, <2>2
<1>6. CASE Put \/ Forget \/ GiveUp \/ Boot
  BY <1>6 DEF Put, Forget, GiveUp, Boot, Write
<1>7. QED
  BY <1>4, <1>5, <1>6

(* Commands change the host alone, and only on a live agent. *)
LEMMA CommandStep ==
  ASSUME TypeInv, Command
  PROVE  /\ UNCHANGED <<index, agent, begun>>
         /\ ~dryRun /\ doing \in Work /\ doing.todo # <<>>
         /\ doing.site \in Sites /\ doing.rec \in Record
<1>1. UNCHANGED <<index, agent, begun>> /\ ~dryRun /\ doing.todo # <<>>
  BY DEF Command, UserAdd, UserDel, StartPhp, InspectNew, RemoveOld, RemoveNamed, WriteSite, Reload,
         Certificate, OtherCertificate, NoCertificate, Renew, OtherCommand, Live, At
<1>2. doing \in Work
  BY <1>1, AtWork DEF TypeInv
<1>3. QED
  BY <1>1, <1>2 DEF Work

LEMMA CommandTypes ==
  ASSUME TypeInv, Command
  PROVE  /\ accounts' \in [Sites -> Uids \cup {0}]
         /\ containers' \subseteq Sites \X Versions
         /\ vhost' \in [Sites -> {"none", "http", "tls"}]
         /\ loaded' \in [Sites -> {"none", "http", "tls"}]
         /\ certs' \subseteq Sites /\ tlsForced' \subseteq Sites
<1>1. doing.site \in Sites /\ doing.rec.uid \in Uids /\ doing.rec.php \in Versions
  BY CommandStep DEF Record
<1> USE DEF TypeInv, TypeOK, Here, host
<1>2. CASE UserAdd \/ UserDel
  BY <1>1, <1>2 DEF UserAdd, UserDel
<1>3. CASE StartPhp \/ InspectNew \/ RemoveOld \/ RemoveNamed
  <2>1. UNCHANGED <<accounts, vhost, loaded, certs, tlsForced>>
    BY <1>3 DEF StartPhp, InspectNew, RemoveOld, RemoveNamed
  <2>2. containers' \subseteq containers \cup {<<doing.site, doing.rec.php>>}
    BY <1>3 DEF StartPhp, InspectNew, RemoveOld, RemoveNamed, Versioned
  <2>3. QED
    BY <1>1, <2>1, <2>2
<1>4. CASE WriteSite
  <2>1. PICK w \in {"none", "http", "tls"} : vhost' = [vhost EXCEPT ![doing.site] = w]
    BY <1>4 DEF WriteSite
  <2>2. tlsForced' \subseteq Sites /\ UNCHANGED <<accounts, containers, loaded, certs>>
    BY <1>1, <1>4 DEF WriteSite
  <2>3. QED
    BY <1>1, <2>1, <2>2
<1>5. CASE Reload
  BY <1>5 DEF Reload
<1>6. CASE Certificate \/ OtherCertificate
  BY <1>1, <1>6 DEF Certificate, OtherCertificate
<1>7. CASE NoCertificate \/ Renew \/ OtherCommand
  BY <1>7 DEF NoCertificate, Renew, OtherCommand
<1>8. QED
  BY <1>2, <1>3, <1>4, <1>5, <1>6, <1>7 DEF Command

(* What becomes of the handler has its type. *)
LEMMA HandlerTypes ==
  ASSUME TypeInv, SiteHostAssumption, Next
  PROVE  /\ doing' = Idle \/ doing' \in Work
         /\ doing' = Idle \/ (doing'.site \in Sites /\ doing'.rec \in Record)
<1>1. ASSUME NEW s \in Sites, Dispatch(s) PROVE doing' \in Work
  <2>1. PICK rec, was, plan : Begin(s, rec, was, plan) /\ Starts(s, rec, was, plan)
    BY <1>1, DispatchShape DEF TypeInv
  <2>2. QED
    BY <2>1 DEF Begin, Starts, Work
<1>2. ASSUME Command \/ Rehearse \/ Put \/ Forget \/ GiveUp \/ Boot
      PROVE  doing' = Idle \/ doing' \in Work
  BY <1>2, StepShape DEF Resumes
<1>3. doing' = Idle \/ doing' \in Work
  BY <1>1, <1>2 DEF Next
<1>4. QED
  BY <1>3 DEF Work

LEMMA TypeInvKept ==
  ASSUME TypeInv, SiteHostAssumption, [Next]_vars
  PROVE  TypeInv'
<1> USE DEF index, host, agent
<1>1. CASE UNCHANGED vars
  BY <1>1 DEF vars, TypeInv, TypeOK
<1>2. CASE Command
  BY <1>2, CommandStep, CommandTypes, HandlerTypes DEF Next, TypeInv, TypeOK
<1>3. CASE Rehearse \/ GiveUp \/ Boot
  <2>1. UNCHANGED <<index, host, begun>> /\ boots' \in 0..MaxBoots /\ dryRun' \in BOOLEAN
    <3>1. CASE Rehearse \/ GiveUp
      BY <3>1 DEF Rehearse, GiveUp, TypeInv, TypeOK
    <3>2. CASE Boot
      BY <3>2 DEF Boot, TypeInv, TypeOK, SiteHostAssumption
    <3>3. QED
      BY <1>3, <3>1, <3>2
  <2>2. QED
    BY <1>3, <2>1, HandlerTypes DEF Next, TypeInv, TypeOK
<1>4. CASE Put \/ Forget
  <2>1. doing.todo # <<>>
    BY <1>4 DEF Put, Forget, At
  <2>2. doing.site \in Sites /\ doing.rec \in Record
    BY <2>1, AtWork DEF TypeInv, Work
  <2>3. store' \in [Sites -> Record \cup {None}] /\ everKnown' \subseteq Sites
    BY <1>4, <2>2 DEF Put, Forget, Write, TypeInv, TypeOK
  <2>4. UNCHANGED <<host, agent, begun>>
    BY <1>4 DEF Put, Forget, Write
  <2>5. QED
    BY <1>4, <2>3, <2>4, HandlerTypes DEF Next, TypeInv, TypeOK
<1>5. ASSUME NEW s \in Sites, Dispatch(s) PROVE TypeInv'
  <2>1. PICK rec, was, plan : Begin(s, rec, was, plan)
    BY <1>5, DispatchShape DEF TypeInv
  <2>2. UNCHANGED <<index, host, agent>> /\ begun' \in 0..MaxOps
    BY <2>1 DEF Begin, TypeInv, TypeOK, SiteHostAssumption
  <2>3. QED
    BY <1>5, <2>2, HandlerTypes DEF Next, TypeInv, TypeOK
<1>6. QED
  BY <1>1, <1>2, <1>3, <1>4, <1>5 DEF Next

-------------------------------------------------------------------------------
(* Uids stay apart and low. *)

Low == Cardinality(everKnown) + 1

UidInv ==
    /\ UidsApart
    /\ Recorded \subseteq everKnown
    /\ \A s \in Recorded : store[s].uid <= Low
    /\ doing.todo # <<>> =>
           /\ doing.rec.uid <= Low
           /\ \A s \in Recorded : s # doing.site => store[s].uid # doing.rec.uid
    /\ \A d \in Sites : accounts[d] <= Low
    /\ \A d, e \in Sites : d # e /\ accounts[d] # 0 => accounts[d] # accounts[e]

LEMMA LowTypes ==
  ASSUME TypeInv, SiteHostAssumption
  PROVE  /\ IsFiniteSet(everKnown) /\ Cardinality(everKnown) \in Nat /\ Low \in Nat
         /\ \A d \in Sites : IsFiniteSet(everKnown \cup {d})
                             /\ Cardinality(everKnown) <= Cardinality(everKnown \cup {d})
                             /\ Cardinality(everKnown \cup {d}) \in Nat
<1>1. IsFiniteSet(everKnown)
  BY FS_Subset DEF TypeInv, TypeOK, SiteHostAssumption
<1>2. \A d \in Sites : IsFiniteSet(everKnown \cup {d})
  BY <1>1, FS_AddElement
<1>3. \A d \in Sites : Cardinality(everKnown) <= Cardinality(everKnown \cup {d})
  BY <1>2, FS_Subset
<1>4. QED
  BY <1>1, <1>2, <1>3, FS_CardinalityType DEF Low

LEMMA UidInvKept ==
  ASSUME TypeInv, UidInv, SiteHostAssumption, [Next]_vars
  PROVE  UidInv'
<1> USE DEF index, host, agent, UidsApart
<1>1. CASE UNCHANGED vars
  BY <1>1 DEF vars, UidInv, Low, Recorded
<1>2. ASSUME NEW s \in Sites, Dispatch(s) PROVE UidInv'
  <2>1. PICK rec, was, plan : Begin(s, rec, was, plan) /\ Starts(s, rec, was, plan)
    BY <1>2, DispatchShape DEF TypeInv
  <2>2. UNCHANGED <<index, host>> /\ doing'.site = s /\ doing'.rec = rec
    BY <2>1 DEF Begin
  <2>3. NextUid <= Low /\ \A t \in Recorded : store[t].uid # NextUid
    <3>1. Cardinality(Recorded) <= Cardinality(everKnown) /\ Cardinality(Recorded) \in Nat
      BY LowTypes, FS_Subset, FS_CardinalityType DEF UidInv
    <3>2. NextUid \in Nat
      BY NextUidIsFree DEF TypeInv, Uids
    <3>3. QED
      BY <3>1, <3>2, LowTypes, NextUidIsFree DEF Low, TypeInv
  <2>4. rec.uid <= Low /\ \A t \in Recorded : t # s => store[t].uid # rec.uid
    BY <2>1, <2>3 DEF Starts, UidInv
  <2>5. QED
    BY <2>2, <2>4 DEF UidInv, Low, Recorded
<1>3. ASSUME UNCHANGED index, doing' = Idle \/ Resumes,
             \/ UNCHANGED accounts
             \/ /\ doing.todo # <<>> /\ doing.site \in Sites
                /\ \/ accounts' = [accounts EXCEPT ![doing.site] = 0]
                   \/ /\ accounts' = [accounts EXCEPT ![doing.site] = doing.rec.uid]
                      /\ \A d \in Sites : accounts[d] # doing.rec.uid
      PROVE UidInv'
  <2>1. doing'.todo # <<>> => doing.todo # <<>> /\ doing'.site = doing.site /\ doing'.rec = doing.rec
    <3>1. CASE doing' = Idle
      BY <3>1 DEF Idle
    <3>2. CASE Resumes
      BY <3>2, Zenon DEF Resumes
    <3>3. QED
      BY <1>3, <3>1, <3>2
  <2>2. /\ \A d \in Sites : accounts'[d] <= Low
        /\ \A d, e \in Sites : d # e /\ accounts'[d] # 0 => accounts'[d] # accounts'[e]
    BY <1>3, LowTypes DEF UidInv, TypeInv, TypeOK
  <2>3. QED
    BY <1>3, <2>1, <2>2 DEF UidInv, Low, Recorded
<1>4. CASE Command
  <2>1. UNCHANGED index /\ doing.site \in Sites /\ doing.todo # <<>>
    BY <1>4, CommandStep
  <2>2. \/ UNCHANGED accounts
        \/ accounts' = [accounts EXCEPT ![doing.site] = 0]
        \/ /\ accounts' = [accounts EXCEPT ![doing.site] = doing.rec.uid]
           /\ \A d \in Sites : accounts[d] # doing.rec.uid
    BY <1>4 DEF Command, UserAdd, UserDel, StartPhp, InspectNew, RemoveOld, RemoveNamed, WriteSite,
           Reload, Certificate, OtherCertificate, NoCertificate, Renew, OtherCommand, Here
  <2>3. QED
    BY <1>3, <1>4, <2>1, <2>2, StepShape
<1>5. CASE Rehearse \/ GiveUp \/ Boot
  <2>1. UNCHANGED <<index, host>>
    BY <1>5 DEF Rehearse, GiveUp, Boot
  <2>2. QED
    BY <1>3, <1>5, <2>1, StepShape
<1>6. CASE Put
  <2>1. /\ doing.todo # <<>> /\ doing' = Idle /\ UNCHANGED accounts
        /\ store' = [store EXCEPT ![doing.site] = doing.rec]
        /\ everKnown' = everKnown \cup {doing.site}
    BY <1>6 DEF Put, Write, At
  <2>2. doing.site \in Sites /\ doing.rec \in Record
    BY <2>1, AtWork DEF TypeInv, Work
  <2>3. /\ \A t \in Sites : store'[t] = IF t = doing.site THEN doing.rec ELSE store[t]
        /\ Recorded' \subseteq Recorded \cup {doing.site}
    BY <2>1, <2>2 DEF TypeInv, TypeOK, Recorded
  <2>4. Low' \in Nat /\ Low <= Low'
    <3>1. /\ Cardinality(everKnown) \in Nat /\ Cardinality(everKnown \cup {doing.site}) \in Nat
          /\ Cardinality(everKnown) <= Cardinality(everKnown \cup {doing.site})
      BY <2>2, LowTypes
    <3>2. Low' = Cardinality(everKnown \cup {doing.site}) + 1
      BY <2>1 DEF Low
    <3>3. QED
      BY <3>1, <3>2 DEF Low
  <2>5. \A t \in Recorded' : store'[t].uid <= Low /\ store'[t].uid \in Nat
    BY <2>1, <2>2, <2>3, RecordedTypes DEF UidInv, TypeInv, Record, Uids
  <2>6. \A d \in Sites : accounts[d] <= Low /\ accounts[d] \in Nat
    BY DEF UidInv, TypeInv, TypeOK, Uids
  <2>7. UidsApart'
    BY <2>1, <2>2, <2>3 DEF UidInv, Recorded
  <2>8. /\ \A t \in Recorded' : store'[t].uid <= Low'
        /\ \A d \in Sites : accounts'[d] <= Low'
    BY <2>1, <2>4, <2>5, <2>6, LowTypes
  <2>9. Recorded' \subseteq everKnown' /\ doing'.todo = <<>>
    BY <2>1, <2>3 DEF UidInv, Idle
  <2>10. QED
    BY <2>1, <2>7, <2>8, <2>9 DEF UidInv
<1>7. CASE Forget
  <2>1. /\ doing.todo # <<>> /\ doing' = Idle /\ UNCHANGED <<accounts, everKnown>>
        /\ store' = [store EXCEPT ![doing.site] = None]
    BY <1>7 DEF Forget, Write, At
  <2>2. doing.site \in Sites
    BY <2>1, AtWork DEF TypeInv, Work
  <2>3. /\ Recorded' \subseteq Recorded
        /\ \A t \in Recorded' : store'[t] = store[t]
    BY <2>1, <2>2 DEF TypeInv, TypeOK, Recorded
  <2>4. QED
    BY <2>1, <2>3 DEF UidInv, Idle, Low
<1>8. QED
  BY <1>1, <1>2, <1>4, <1>5, <1>6, <1>7 DEF Next

(* Accounts with uids that are apart and low are few. *)
LEMMA FewAccounts == ASSUME TypeInv, UidInv, SiteHostAssumption PROVE AtMostOneMore
<1> DEFINE D == {d \in Sites : accounts[d] # 0}
           f == [d \in D |-> accounts[d]]
<1>1. \A d \in D : accounts[d] \in 1..Low
  BY LowTypes DEF UidInv, TypeInv, TypeOK, Uids
<1>2. f \in Injection(D, 1..Low)
  BY <1>1 DEF UidInv, Injection, IsInjective
<1>3. IsFiniteSet(1..Low) /\ Cardinality(1..Low) = Low
  BY LowTypes, FS_Interval
<1>4. Cardinality(D) <= Low
  <2> HIDE DEF D, f
  <2> QED
    BY <1>2, <1>3, FS_Injection
<1>5. QED
  BY <1>4 DEF AtMostOneMore, Low

-------------------------------------------------------------------------------
(* What a live handler may still do. *)

(* A TLS vhost is written after the certificate is there. *)
TlsInv ==
    ~dryRun /\ doing.todo # <<>> =>
        doing.site \in certs \/ doing.todo \in NoTls \/ doing.todo = IssuePlan

(* The rest of a switch, before and after the new container is started. *)
Before == {SwitchPlan, <<"run", "inspect new", "rewrite", "reload", "remove old", "put">>}
After  == {<<"inspect new", "rewrite", "reload", "remove old", "put">>,
           <<"rewrite", "reload", "remove old", "put">>,
           <<"reload", "remove old", "put">>,
           <<"remove old", "put">>}
(* With the reload next, and after it. *)
Written == <<"reload", "remove old", "put">>
Loaded  == <<"remove old", "put">>

Switching ==
    /\ doing.site \in Recorded
    /\ doing.was = store[doing.site].php
    /\ doing.rec.php # doing.was
    /\ \/ doing.todo \in Before
       \/ /\ doing.todo \in After
          /\ <<doing.site, doing.rec.php>> \in containers
          /\ doing.todo = Written => vhost[doing.site] = "tls"
          /\ doing.todo = Loaded => loaded[doing.site] = "tls"

(* The old container is removed while the new one runs, behind the vhost    *)
(* the switch wrote.                                                        *)
SwitchInv == ~dryRun /\ doing.todo # <<>> => doing.todo \in NoSwitch \/ Switching

(* A site the index does not have is put after its health check. *)
PutInv == ~dryRun /\ doing.todo # <<>> /\ doing.site \notin Recorded => Ends(doing.todo)

LEMMA LastTwo == <<"inspect", "put">> \in Seq(Steps)
<1>1. "inspect" \in Steps /\ "put" \in Steps
  BY DEF Steps
<1>2. QED
  BY <1>1

LEMMA TailsKeep ==
  /\ \A q \in NoTls : q # <<>> => Head(q) # "tls vhost" /\ Tail(q) \in NoTls
  /\ \A q \in NoSwitch : q # <<>> =>
        Head(q) \notin {"inspect new", "remove old"} /\ Tail(q) \in NoSwitch
<1>1. ASSUME NEW q \in NoTls, q # <<>> PROVE Head(q) # "tls vhost" /\ Tail(q) \in NoTls
  <2>1. Head(q) \in Steps \ {"tls vhost"} /\ Tail(q) \in Seq(Steps \ {"tls vhost"})
    BY <1>1, HeadTailProperties DEF NoTls
  <2>2. QED
    BY <2>1 DEF NoTls
<1>2. ASSUME NEW q \in NoSwitch, q # <<>>
      PROVE  Head(q) \notin {"inspect new", "remove old"} /\ Tail(q) \in NoSwitch
  <2>1. /\ Head(q) \in Steps \ {"inspect new", "remove old"}
        /\ Tail(q) \in Seq(Steps \ {"inspect new", "remove old"})
    BY <1>2, HeadTailProperties DEF NoSwitch
  <2>2. QED
    BY <2>1 DEF NoSwitch
<1>3. QED
  BY <1>1, <1>2

(* Head and tail of a sequence that is written out. *)
LEMMA TailIs ==
  ASSUME NEW S, NEW q \in Seq(S), NEW r \in Seq(S), Len(q) = Len(r) + 1,
         \A i \in 1..Len(r) : q[i + 1] = r[i]
  PROVE  Tail(q) = r /\ Head(q) = q[1]
<1>1. q # <<>>
  <2>1. Len(r) \in Nat
    OBVIOUS
  <2>2. QED
    BY <2>1
<1>2. /\ Tail(q) \in Seq(S) /\ Len(Tail(q)) = Len(q) - 1
      /\ \A i \in 1..Len(Tail(q)) : Tail(q)[i] = q[i + 1]
  BY <1>1, HeadTailProperties
<1>3. Len(Tail(q)) = Len(r) /\ \A i \in 1..Len(r) : Tail(q)[i] = r[i]
  BY <1>2
<1>4. Tail(q) = r
  BY <1>2, <1>3, SeqEqual
<1>5. QED
  BY <1>1, <1>4

LEMMA SwitchTails ==
  /\ \A q \in Before : \/ Head(q) = "plain" /\ Tail(q) \in Before
                       \/ Head(q) = "run" /\ Tail(q) \in After
  /\ \A q \in After : \/ Head(q) \in {"inspect new", "rewrite", "reload"} /\ Tail(q) \in After
                      \/ Head(q) = "remove old" /\ Tail(q) \in NoSwitch
  /\ \A q \in Before : Tail(q) # Written /\ Tail(q) # Loaded
  /\ \A q \in After : /\ Tail(q) = Written => Head(q) = "rewrite"
                      /\ Tail(q) = Loaded => Head(q) = "reload" /\ q = Written
                      /\ Head(q) = "remove old" => q = Loaded
<1> DEFINE q1 == SwitchPlan
           q2 == <<"run", "inspect new", "rewrite", "reload", "remove old", "put">>
           q3 == <<"inspect new", "rewrite", "reload", "remove old", "put">>
           q4 == <<"rewrite", "reload", "remove old", "put">>
           q5 == <<"reload", "remove old", "put">>
           q6 == <<"remove old", "put">>
<1>0. /\ q1 \in Seq(Steps) /\ q2 \in Seq(Steps) /\ q3 \in Seq(Steps)
      /\ q4 \in Seq(Steps) /\ q5 \in Seq(Steps) /\ q6 \in Seq(Steps)
  <2>1. q1 \in Seq(Steps)
    BY DEF Steps, SwitchPlan
  <2>2. q2 \in Seq(Steps)
    BY DEF Steps
  <2>3. q3 \in Seq(Steps)
    BY DEF Steps
  <2>4. q4 \in Seq(Steps)
    BY DEF Steps
  <2>5. q5 \in Seq(Steps)
    BY DEF Steps
  <2>6. q6 \in Seq(Steps)
    BY DEF Steps
  <2>7. QED
    BY <2>1, <2>2, <2>3, <2>4, <2>5, <2>6, Zenon
<1>1. Head(q1) = "plain" /\ Tail(q1) = q2
  <2>1. Len(q1) = 7 /\ Len(q2) = 6
    BY DEF SwitchPlan
  <2>2. q1[1] = "plain" /\ q1[2] = q2[1] /\ q1[3] = q2[2] /\ q1[4] = q2[3]
      /\ q1[5] = q2[4] /\ q1[6] = q2[5] /\ q1[7] = q2[6]
    BY DEF SwitchPlan
  <2> HIDE DEF q1, q2, q3, q4, q5, q6
  <2>3. \A i \in 1..6 : i = 1 \/ i = 2 \/ i = 3 \/ i = 4 \/ i = 5 \/ i = 6
    OBVIOUS
  <2>4. \A i \in 1..Len(q2) : q1[i + 1] = q2[i]
    BY <2>1, <2>2, <2>3
  <2>5. Len(q1) = Len(q2) + 1
    BY <2>1
  <2>6. QED
    BY <1>0, <2>2, <2>4, <2>5, TailIs
<1>2. Head(q2) = "run" /\ Tail(q2) = q3
  <2>1. Len(q2) = 6 /\ Len(q3) = 5
    OBVIOUS
  <2>2. q2[1] = "run" /\ q2[2] = q3[1] /\ q2[3] = q3[2] /\ q2[4] = q3[3] /\ q2[5] = q3[4] /\ q2[6] = q3[5]
    OBVIOUS
  <2> HIDE DEF q1, q2, q3, q4, q5, q6
  <2>3. \A i \in 1..5 : i = 1 \/ i = 2 \/ i = 3 \/ i = 4 \/ i = 5
    OBVIOUS
  <2>4. \A i \in 1..Len(q3) : q2[i + 1] = q3[i]
    BY <2>1, <2>2, <2>3
  <2>5. Len(q2) = Len(q3) + 1
    BY <2>1
  <2>6. QED
    BY <1>0, <2>2, <2>4, <2>5, TailIs
<1>3. Head(q3) = "inspect new" /\ Tail(q3) = q4
  <2>1. Len(q3) = 5 /\ Len(q4) = 4
    OBVIOUS
  <2>2. q3[1] = "inspect new" /\ q3[2] = q4[1] /\ q3[3] = q4[2] /\ q3[4] = q4[3] /\ q3[5] = q4[4]
    OBVIOUS
  <2> HIDE DEF q1, q2, q3, q4, q5, q6
  <2>3. \A i \in 1..4 : i = 1 \/ i = 2 \/ i = 3 \/ i = 4
    OBVIOUS
  <2>4. \A i \in 1..Len(q4) : q3[i + 1] = q4[i]
    <3>1. ASSUME NEW i \in 1..4 PROVE q3[i + 1] = q4[i]
      <4>1. \/ i = 1 /\ i + 1 = 2
            \/ i = 2 /\ i + 1 = 3
            \/ i = 3 /\ i + 1 = 4
            \/ i = 4 /\ i + 1 = 5
        BY <2>3
      <4>2. QED
        BY <2>2, <4>1, Zenon
    <3>2. QED
      BY <2>1, <3>1
  <2>5. Len(q3) = Len(q4) + 1
    BY <2>1
  <2>6. QED
    BY <1>0, <2>2, <2>4, <2>5, TailIs
<1>4. Head(q4) = "rewrite" /\ Tail(q4) = q5
  <2>1. Len(q4) = 4 /\ Len(q5) = 3
    OBVIOUS
  <2>2. q4[1] = "rewrite" /\ q4[2] = q5[1] /\ q4[3] = q5[2] /\ q4[4] = q5[3]
    OBVIOUS
  <2> HIDE DEF q1, q2, q3, q4, q5, q6
  <2>3. \A i \in 1..3 : i = 1 \/ i = 2 \/ i = 3
    OBVIOUS
  <2>4. \A i \in 1..Len(q5) : q4[i + 1] = q5[i]
    BY <2>1, <2>2, <2>3
  <2>5. Len(q4) = Len(q5) + 1
    BY <2>1
  <2>6. QED
    BY <1>0, <2>2, <2>4, <2>5, TailIs
<1>5. Head(q5) = "reload" /\ Tail(q5) = q6
  <2>1. Len(q5) = 3 /\ Len(q6) = 2
    OBVIOUS
  <2>2. q5[1] = "reload" /\ q5[2] = q6[1] /\ q5[3] = q6[2]
    OBVIOUS
  <2> HIDE DEF q1, q2, q3, q4, q5, q6
  <2>3. \A i \in 1..2 : i = 1 \/ i = 2
    OBVIOUS
  <2>4. \A i \in 1..Len(q6) : q5[i + 1] = q6[i]
    BY <2>1, <2>2, <2>3
  <2>5. Len(q5) = Len(q6) + 1
    BY <2>1
  <2>6. QED
    BY <1>0, <2>2, <2>4, <2>5, TailIs
<1>6. Head(q6) = "remove old" /\ Tail(q6) = <<"put">>
  OBVIOUS
<1>7. <<"put">> \in NoSwitch
  <2>1. "put" \in Steps \ {"inspect new", "remove old"}
    BY DEF Steps
  <2>2. QED
    BY <2>1 DEF NoSwitch
<1>8. Before = {q1, q2} /\ After = {q3, q4, q5, q6}
  BY DEF Before, After
<1>9. Written = q5 /\ Loaded = q6
  BY DEF Written, Loaded
<1>10. /\ Len(q2) = 6 /\ Len(q3) = 5 /\ Len(q4) = 4 /\ Len(q5) = 3 /\ Len(q6) = 2
       /\ Len(<<"put">>) = 1
  OBVIOUS
<1> HIDE DEF q1, q2, q3, q4, q5, q6
<1>11. \A q \in Before : Tail(q) # Written /\ Tail(q) # Loaded
  <2>1. q2 # q5 /\ q2 # q6 /\ q3 # q5 /\ q3 # q6
    BY <1>10
  <2>2. QED
    BY <1>1, <1>2, <1>8, <1>9, <2>1
<1>12. \A q \in After : /\ Tail(q) = Written => Head(q) = "rewrite"
                        /\ Tail(q) = Loaded => Head(q) = "reload" /\ q = Written
                        /\ Head(q) = "remove old" => q = Loaded
  <2>1. /\ q4 # q5 /\ q4 # q6 /\ q5 # q6 /\ <<"put">> # q5 /\ <<"put">> # q6
    BY <1>10
  <2>2. QED
    BY <1>3, <1>4, <1>5, <1>6, <1>8, <1>9, <2>1
<1>13. \A q \in Before : \/ Head(q) = "plain" /\ Tail(q) \in Before
                         \/ Head(q) = "run" /\ Tail(q) \in After
  BY <1>1, <1>2, <1>8
<1>14. \A q \in After : \/ Head(q) \in {"inspect new", "rewrite", "reload"} /\ Tail(q) \in After
                        \/ Head(q) = "remove old" /\ Tail(q) \in NoSwitch
  BY <1>3, <1>4, <1>5, <1>6, <1>7, <1>8
<1>15. QED
  BY <1>11, <1>12, <1>13, <1>14

LEMMA EndsTail ==
  ASSUME NEW q, Ends(q)
  PROVE  Head(q) # "put" /\ (Head(q) = "inspect" \/ Ends(Tail(q)))
<1> DEFINE P == Steps \ {"put"}
           r == <<"inspect", "put">>
<1>1. PICK p \in Seq(P) : q = p \o r
  BY DEF Ends
<1>2. r \in Seq(Steps) /\ Len(r) = 2 /\ r[1] = "inspect"
  BY LastTwo
<1>3. p \in Seq(Steps)
  BY <1>1, SeqMonotonic
<1> HIDE DEF r
<1>4. /\ q \in Seq(Steps)
      /\ Len(q) = Len(p) + Len(r)
      /\ \A i \in 1..Len(p) + Len(r) : q[i] = IF i <= Len(p) THEN p[i] ELSE r[i - Len(p)]
  BY <1>1, <1>2, <1>3, ConcatProperties
<1>5. CASE p = <<>>
  BY <1>2, <1>4, <1>5
<1>6. CASE p # <<>>
  <2>1. /\ Head(p) \in P /\ Tail(p) \in Seq(P) /\ Tail(p) \in Seq(Steps)
        /\ Len(Tail(p)) = Len(p) - 1 /\ Len(p) \in Nat \ {0}
        /\ \A i \in 1..Len(Tail(p)) : Tail(p)[i] = p[i + 1]
    BY <1>1, <1>3, <1>6, HeadTailProperties, EmptySeq
  <2>2. /\ q # <<>> /\ Tail(q) \in Seq(Steps) /\ Len(Tail(q)) = Len(q) - 1
        /\ \A i \in 1..Len(Tail(q)) : Tail(q)[i] = q[i + 1]
    <3>1. q # <<>>
      BY <1>2, <1>4, <2>1
    <3>2. QED
      BY <1>4, <3>1, HeadTailProperties
  <2>3. /\ Tail(p) \o r \in Seq(Steps)
        /\ Len(Tail(p) \o r) = Len(Tail(p)) + Len(r)
        /\ \A i \in 1..Len(Tail(p)) + Len(r) :
              (Tail(p) \o r)[i] = IF i <= Len(Tail(p)) THEN Tail(p)[i] ELSE r[i - Len(Tail(p))]
    BY <1>2, <2>1, ConcatProperties
  <2>4. Len(Tail(q)) = Len(Tail(p) \o r)
    BY <1>2, <1>4, <2>1, <2>2, <2>3
  <2>5. ASSUME NEW i \in 1..Len(Tail(q)) PROVE Tail(q)[i] = (Tail(p) \o r)[i]
    <3>1. i + 1 \in 1..Len(p) + Len(r) /\ i \in 1..Len(Tail(p)) + Len(r) /\ i \in Nat
      BY <1>2, <1>4, <2>1, <2>2
    <3>2. Tail(q)[i] = IF i + 1 <= Len(p) THEN p[i + 1] ELSE r[i + 1 - Len(p)]
      BY <1>4, <2>2, <3>1
    <3>3. CASE i + 1 <= Len(p)
      BY <2>1, <2>3, <3>1, <3>2, <3>3
    <3>4. CASE ~(i + 1 <= Len(p))
      <4>1. i + 1 - Len(p) = i - Len(Tail(p)) /\ ~(i <= Len(Tail(p)))
        BY <2>1, <3>1, <3>4
      <4>2. QED
        BY <2>3, <3>1, <3>2, <3>4, <4>1
    <3>5. QED
      BY <3>3, <3>4
  <2>6. Tail(q) = Tail(p) \o r
    BY <2>2, <2>3, <2>4, <2>5, SeqEqual
  <2>7. Head(q) = Head(p)
    BY <1>2, <1>4, <2>1, <2>2
  <2>8. QED
    BY <2>1, <2>6, <2>7 DEF Ends, r
<1>7. QED
  BY <1>5, <1>6

LEMMA EndsAfterTls == ASSUME NEW q, Ends(q) PROVE Ends(TlsPlan \o q)
<1>1. PICK p \in Seq(Steps \ {"put"}) : q = p \o <<"inspect", "put">>
  BY DEF Ends
<1>2. TlsPlan \o p \in Seq(Steps \ {"put"})
  BY <1>1, TlsPlanSteps, ConcatProperties
<1>3. p \in Seq(Steps) /\ TlsPlan \in Seq(Steps) /\ <<"inspect", "put">> \in Seq(Steps)
  <2>1. p \in Seq(Steps)
    BY <1>1, SeqMonotonic
  <2>2. QED
    BY <2>1, LastTwo, TlsPlanSteps
<1>4. TlsPlan \o q = (TlsPlan \o p) \o <<"inspect", "put">>
  BY <1>1, <1>3, ConcatAssociative
<1>5. QED
  BY <1>2, <1>4 DEF Ends

LEMMA IssueHead == IssuePlan # <<>> /\ Head(IssuePlan) = "certificate"
<1> DEFINE c == <<"certificate", "tls vhost", "reload">>
<1>1. IssuePlan = c /\ c \in Seq(Steps)
  BY OddPlans, Zenon
<1>2. Len(c) = 3 /\ c[1] = "certificate"
  OBVIOUS
<1> HIDE DEF c
<1>3. c # <<>>
  <2>1. Len(<<>>) = 0
    OBVIOUS
  <2>2. QED
    BY <1>2, <2>1
<1>4. Head(c) = c[1]
  BY <1>1, <1>3
<1>5. QED
  BY <1>1, <1>2, <1>3, <1>4

(* A command asks for a certificate before it goes past that step. *)
LEMMA CommandCerts ==
  ASSUME Command
  PROVE  certs \subseteq certs' /\ (Head(doing.todo) = "certificate" => doing.site \in certs')
BY DEF Command, UserAdd, UserDel, StartPhp, InspectNew, RemoveOld, RemoveNamed, WriteSite, Reload,
       Certificate, OtherCertificate, NoCertificate, Renew, OtherCommand, Live, At, host, Here

(* A handler keeps clear of "tls vhost" until it has its certificate. *)
LEMMA TlsInvKept ==
  ASSUME TypeInv, TlsInv, SiteHostAssumption, [Next]_vars
  PROVE  TlsInv'
<1>1. CASE UNCHANGED vars
  BY <1>1 DEF vars, host, agent, TlsInv
<1>2. CASE Rehearse
  BY <1>2 DEF Rehearse, agent, TlsInv
<1>3. CASE Put \/ Forget \/ GiveUp \/ Boot
  BY <1>3 DEF Put, Forget, GiveUp, Boot, Write, Idle, TlsInv
<1>4. ASSUME NEW s \in Sites, Dispatch(s) PROVE TlsInv'
  <2>1. PICK rec, was, plan : Begin(s, rec, was, plan) /\ Starts(s, rec, was, plan)
    BY <1>4, DispatchShape DEF TypeInv
  <2>2. plan \in NoTls \/ plan = IssuePlan
    BY <2>1, QuietSteps, OddPlans DEF Starts
  <2>3. doing'.todo = plan
    BY <2>1 DEF Begin
  <2>4. QED
    BY <2>2, <2>3 DEF TlsInv
<1>5. CASE Command
  <2>1. CASE doing' = Idle
    BY <2>1 DEF Idle, TlsInv
  <2>2. CASE Resumes
    <3>1. /\ ~dryRun /\ doing.todo # <<>> /\ doing'.site = doing.site
          /\ doing'.todo = Tail(doing.todo) \/ doing.site \in certs'
      BY <1>5, <2>2, CommandStep DEF Resumes
    <3>2. doing.site \in certs' \/ doing.todo \in NoTls \/ Head(doing.todo) = "certificate"
      BY <1>5, <3>1, CommandCerts, IssueHead DEF TlsInv
    <3>3. doing'.site \in certs' \/ doing'.todo \in NoTls
      BY <1>5, <3>1, <3>2, CommandCerts, TailsKeep
    <3>4. QED
      BY <3>3 DEF TlsInv
  <2>3. QED
    BY <1>5, <2>1, <2>2, StepShape
<1>6. QED
  BY <1>1, <1>2, <1>3, <1>4, <1>5 DEF Next

(* A TLS vhost without a certificate is one a "rewrite" made. *)
LEMMA PoisonKept ==
  ASSUME TypeInv, TlsInv, PoisonOnlyByRewrite, SiteHostAssumption, [Next]_vars
  PROVE  PoisonOnlyByRewrite'
<1>1. CASE UNCHANGED host
  BY <1>1 DEF host, PoisonOnlyByRewrite
<1>2. CASE Command
  <2>1. CASE UNCHANGED vhost
    <3>1. tlsForced \subseteq tlsForced'
      BY <1>2 DEF Command, UserAdd, UserDel, StartPhp, InspectNew, RemoveOld, RemoveNamed, WriteSite,
             Reload, Certificate, OtherCertificate, NoCertificate, Renew, OtherCommand, host
    <3>2. QED
      BY <1>2, <2>1, <3>1, CommandCerts DEF PoisonOnlyByRewrite
  <2>2. CASE WriteSite
    <3>1. PICK step \in {"vhost", "tls vhost", "rewrite", "remove vhost"},
               w \in {"none", "http", "tls"} :
            /\ At(step) /\ ~dryRun
            /\ w = "tls" => step \in {"tls vhost", "rewrite"}
            /\ vhost' = [vhost EXCEPT ![doing.site] = w]
            /\ tlsForced' = IF step = "rewrite" THEN tlsForced \cup {doing.site} ELSE tlsForced
            /\ UNCHANGED certs
      BY <2>2 DEF WriteSite, Live, Here, At
    <3>2. step = "tls vhost" => doing.site \in certs
      <4>1. SUFFICES ASSUME step = "tls vhost" PROVE doing.site \in certs
        OBVIOUS
      <4>2. doing.todo # <<>> /\ Head(doing.todo) = "tls vhost"
        BY <3>1, <4>1 DEF At
      <4>3. doing.todo \notin NoTls /\ doing.todo # IssuePlan
        BY <4>2, TailsKeep, IssueHead
      <4>4. QED
        BY <3>1, <4>2, <4>3 DEF TlsInv
    <3>3. \A d \in Sites : vhost'[d] = IF d = doing.site THEN w ELSE vhost[d]
      BY <3>1 DEF TypeInv, TypeOK
    <3>4. QED
      BY <3>1, <3>2, <3>3 DEF PoisonOnlyByRewrite
  <2>3. QED
    BY <1>2, <2>1, <2>2
       DEF Command, UserAdd, UserDel, StartPhp, InspectNew, RemoveOld, RemoveNamed, Reload,
           Certificate, OtherCertificate, NoCertificate, Renew, OtherCommand, host
<1>3. CASE Next /\ ~Command
  <2>1. ASSUME NEW s \in Sites, Dispatch(s) PROVE UNCHANGED host
    BY <2>1, DispatchShape DEF TypeInv, Begin
  <2>2. CASE Rehearse \/ Put \/ Forget \/ GiveUp \/ Boot
    BY <1>1, <2>2 DEF Rehearse, Put, Forget, GiveUp, Boot, Write
  <2>3. QED
    BY <1>1, <1>3, <2>1, <2>2 DEF Next
<1>4. QED
  BY <1>1, <1>2, <1>3 DEF vars

(* A container goes with a command that removes it. *)
LEMMA CommandContainers ==
  ASSUME TypeInv, Command
  PROVE  \/ containers \subseteq containers'
         \/ /\ At("inspect new") /\ doing' = Idle
            /\ containers' = containers \ {<<doing.site, doing.rec.php>>}
         \/ At("remove old") /\ containers' = containers \ {<<doing.site, doing.was>>}
         \/ containers' = containers \ {<<doing.site, None>>}
BY DEF Command, UserAdd, UserDel, StartPhp, InspectNew, RemoveOld, RemoveNamed, WriteSite, Reload,
       Certificate, OtherCertificate, NoCertificate, Renew, OtherCommand, Live, host, Here, Versioned, Unversioned

LEMMA RunStarts ==
  ASSUME Command, At("run")
  PROVE  <<doing.site, doing.rec.php>> \in containers'
BY DEF Command, UserAdd, UserDel, StartPhp, InspectNew, RemoveOld, RemoveNamed, WriteSite, Reload,
       Certificate, OtherCertificate, NoCertificate, Renew, OtherCommand, Live, At, Here, Versioned

LEMMA RewriteWrites ==
  ASSUME TypeInv, Command, At("rewrite")
  PROVE  vhost'[doing.site] = "tls"
<1>1. doing.site \in Sites /\ vhost \in [Sites -> {"none", "http", "tls"}]
  BY CommandStep DEF TypeInv, TypeOK
<1>2. vhost' = [vhost EXCEPT ![doing.site] = "tls"]
  BY DEF Command, UserAdd, UserDel, StartPhp, InspectNew, RemoveOld, RemoveNamed, WriteSite, Reload,
         Certificate, OtherCertificate, NoCertificate, Renew, OtherCommand, Live, At, Here
<1>3. QED
  BY <1>1, <1>2

LEMMA ReloadLoads ==
  ASSUME Command, At("reload")
  PROVE  loaded' = vhost
BY DEF Command, UserAdd, UserDel, StartPhp, InspectNew, RemoveOld, RemoveNamed, WriteSite, Reload,
       Certificate, OtherCertificate, NoCertificate, Renew, OtherCommand, Live, At

LEMMA SwitchInvKept ==
  ASSUME TypeInv, SwitchInv, SiteHostAssumption, [Next]_vars
  PROVE  SwitchInv'
<1>1. CASE UNCHANGED vars
  BY <1>1 DEF vars, host, agent, index, SwitchInv, Switching, Recorded
<1>2. CASE Rehearse
  BY <1>2 DEF Rehearse, agent, SwitchInv
<1>3. CASE Put \/ Forget \/ GiveUp \/ Boot
  BY <1>3 DEF Put, Forget, GiveUp, Boot, Write, Idle, SwitchInv
<1>4. ASSUME NEW s \in Sites, Dispatch(s) PROVE SwitchInv'
  <2>1. PICK rec, was, plan : Begin(s, rec, was, plan) /\ Starts(s, rec, was, plan)
    BY <1>4, DispatchShape DEF TypeInv
  <2>2. /\ doing'.todo = plan /\ doing'.site = s /\ doing'.rec = rec /\ doing'.was = was
        /\ UNCHANGED <<store, containers>>
    BY <2>1 DEF Begin, index, host
  <2>3. CASE plan \in NoSwitch
    BY <2>2, <2>3 DEF SwitchInv
  <2>4. CASE plan = SwitchPlan /\ s \in Recorded /\ was = store[s].php /\ rec.php # was
    BY <2>2, <2>4 DEF SwitchInv, Switching, Before, Recorded
  <2>5. QED
    BY <2>1, <2>3, <2>4, QuietSteps, OddPlans DEF Starts
<1>5. CASE Command
  <2>1. CASE doing' = Idle
    BY <2>1 DEF Idle, SwitchInv
  <2>2. CASE Resumes /\ doing' # Idle
    <3>1. /\ ~dryRun /\ doing.todo # <<>> /\ doing'.site = doing.site /\ doing'.rec = doing.rec
          /\ doing'.was = doing.was /\ store' = store
      BY <1>5, <2>2, CommandStep DEF Resumes, index
    <3>2. CASE doing.todo \in NoSwitch
      <4>1. Tail(doing.todo) \in NoSwitch
        BY <3>1, <3>2, TailsKeep
      <4>2. TlsPlan \o Tail(doing.todo) \in NoSwitch
        BY <4>1, TlsPlanSteps, ConcatProperties DEF NoSwitch
      <4>3. doing'.todo \in NoSwitch
        BY <2>2, <4>1, <4>2 DEF Resumes
      <4>4. QED
        BY <4>3 DEF SwitchInv
    <3>3. CASE Switching
      <4>1. Head(doing.todo) # "try certificate"
        BY <3>3, SwitchTails DEF Switching
      <4>2. doing'.todo = Tail(doing.todo)
        BY <2>2, <4>1 DEF Resumes, At
      <4>3. CASE doing.todo \in Before
        BY <1>5, <3>1, <3>3, <4>2, <4>3, SwitchTails, RunStarts
           DEF SwitchInv, Switching, Recorded, At
      <4>4. CASE /\ doing.todo \in After
                 /\ <<doing.site, doing.rec.php>> \in containers
                 /\ doing.todo = Written => vhost[doing.site] = "tls"
                 /\ doing.todo = Loaded => loaded[doing.site] = "tls"
        <5>1. <<doing.site, doing.rec.php>> \in containers'
          <6>1. doing.rec.php \in Versions
            BY <1>5, CommandStep DEF Record
          <6>2. doing.rec.php # None /\ doing.rec.php # doing.was
            BY <3>3, <6>1 DEF SiteHostAssumption, Switching
          <6>3. QED
            BY <1>5, <2>2, <4>4, <6>2, CommandContainers
        <5>2. Tail(doing.todo) \in After \/ Tail(doing.todo) \in NoSwitch
          BY <4>4, SwitchTails
        <5>3. Tail(doing.todo) = Written => vhost'[doing.site] = "tls"
          BY <1>5, <3>1, <4>4, SwitchTails, RewriteWrites DEF At
        <5>4. Tail(doing.todo) = Loaded => loaded'[doing.site] = "tls"
          BY <1>5, <3>1, <4>4, SwitchTails, ReloadLoads DEF At
        <5>5. QED
          BY <3>1, <3>3, <4>2, <5>1, <5>2, <5>3, <5>4 DEF SwitchInv, Switching, Recorded
      <4>5. QED
        BY <3>3, <4>3, <4>4 DEF Switching
    <3>4. QED
      BY <3>1, <3>2, <3>3 DEF SwitchInv
  <2>3. QED
    BY <1>5, <2>1, <2>2, StepShape
<1>6. QED
  BY <1>1, <1>2, <1>3, <1>4, <1>5 DEF Next

LEMMA PutInvKept ==
  ASSUME TypeInv, PutInv, SiteHostAssumption, [Next]_vars
  PROVE  PutInv'
<1>1. CASE UNCHANGED vars
  BY <1>1 DEF vars, agent, index, PutInv, Recorded
<1>2. CASE Rehearse
  BY <1>2 DEF Rehearse, agent, PutInv
<1>3. CASE Put \/ Forget \/ GiveUp \/ Boot
  BY <1>3 DEF Put, Forget, GiveUp, Boot, Write, Idle, PutInv
<1>4. ASSUME NEW s \in Sites, Dispatch(s) PROVE PutInv'
  <2>1. PICK rec, was, plan : Begin(s, rec, was, plan) /\ Starts(s, rec, was, plan)
    BY <1>4, DispatchShape DEF TypeInv
  <2>2. doing'.todo = plan /\ doing'.site = s /\ UNCHANGED store
    BY <2>1 DEF Begin, index
  <2>3. QED
    BY <2>1, <2>2 DEF PutInv, Starts, Recorded
<1>5. CASE Command
  <2>1. CASE doing' = Idle
    BY <2>1 DEF Idle, PutInv
  <2>2. CASE Resumes
    <3>1. SUFFICES ASSUME doing'.site \notin Recorded' PROVE Ends(doing'.todo)
      BY DEF PutInv
    <3>2. ~dryRun /\ doing.todo # <<>> /\ doing.site \in Sites /\ doing.site \notin Recorded
      BY <1>5, <2>2, <3>1, CommandStep DEF Resumes, index, Recorded
    <3>3. Ends(doing.todo)
      BY <3>2 DEF PutInv
    <3>4. Head(doing.todo) # "inspect"
      <4>1. ~ Answers(doing.site)
        BY <3>2, NoneAnswers
      <4>2. QED
        BY <1>5, <4>1
           DEF Command, UserAdd, UserDel, StartPhp, InspectNew, RemoveOld, RemoveNamed, WriteSite,
               Reload, Certificate, OtherCertificate, NoCertificate, Renew, OtherCommand, Live, At, Here
    <3>5. Ends(Tail(doing.todo))
      BY <3>3, <3>4, EndsTail
    <3>6. Ends(TlsPlan \o Tail(doing.todo))
      BY <3>5, EndsAfterTls
    <3>7. QED
      BY <2>2, <3>5, <3>6 DEF Resumes
  <2>3. QED
    BY <1>5, <2>1, <2>2, StepShape
<1>6. QED
  BY <1>1, <1>2, <1>3, <1>4, <1>5 DEF Next

-------------------------------------------------------------------------------
(* The theorems. *)

IInv ==
    /\ TypeInv
    /\ UidInv
    /\ TlsInv /\ PoisonOnlyByRewrite
    /\ SwitchInv
    /\ PutInv

LEMMA InitEstablishes == Init /\ SiteHostAssumption => IInv
<1> SUFFICES ASSUME Init, SiteHostAssumption PROVE IInv
  OBVIOUS
<1>1. doing.todo = <<>> /\ Recorded = {}
  BY DEF Init, Idle, Recorded
<1>2. TypeInv
  BY DEF Init, TypeInv, TypeOK, SiteHostAssumption
<1>3. UidInv
  <2>1. Low \in Nat /\ Low >= 0
    BY <1>2, LowTypes
  <2>2. QED
    BY <1>1, <2>1 DEF Init, UidInv, UidsApart
<1>4. QED
  BY <1>1, <1>2, <1>3 DEF Init, IInv, TlsInv, SwitchInv, PutInv, PoisonOnlyByRewrite

(* IInv is inductive. *)
THEOREM InvariantHolds == Spec => []IInv
<1>1. IInv /\ [Next]_vars => IInv'
  BY SiteHostAssumption, TypeInvKept, UidInvKept, TlsInvKept, PoisonKept, SwitchInvKept, PutInvKept
     DEF IInv
<1>2. QED
  BY InitEstablishes, SiteHostAssumption, <1>1, PTL DEF Spec

(* Every variable keeps its type. *)
THEOREM TypesHold == Spec => []TypeOK
<1>1. IInv => TypeOK
  BY DEF IInv, TypeInv
<1>2. QED
  BY InvariantHolds, <1>1, PTL

(* next_uid never gives a uid that a recorded site has. *)
THEOREM NoSharedUid == Spec => []UidsApart
<1>1. IInv => UidsApart
  BY DEF IInv, UidInv
<1>2. QED
  BY InvariantHolds, <1>1, PTL

(* However many creates fail, they leave one account more than sites.  *)
THEOREM LeftoversAreBounded == Spec => []AtMostOneMore
<1>1. IInv => AtMostOneMore
  BY FewAccounts, SiteHostAssumption DEF IInv
<1>2. QED
  BY InvariantHolds, <1>1, PTL

(* A vhost nginx refuses comes from a handler that rewrites it with TLS     *)
(* without a certificate of the site's own name.                            *)
THEOREM IssuingIsSafe == Spec => []PoisonOnlyByRewrite
<1>1. IInv => PoisonOnlyByRewrite
  BY DEF IInv
<1>2. QED
  BY InvariantHolds, <1>1, PTL

(* The container a site has goes only in a switch whose new container runs  *)
(* and whose vhost nginx has loaded.                                        *)
THEOREM SwitchIsSeamless == Spec => SwitchKeepsServing
<1>1. IInv /\ [Next]_vars =>
        [\A s \in Sites : store[s] # None =>
            (Versioned(s, store[s].php) \in containers \ containers' =>
                /\ loaded[s] = "tls"
                /\ \E v \in Versions : Versioned(s, v) \in containers')]_vars
  <2> SUFFICES ASSUME IInv, Next, NEW s \in Recorded, <<s, store[s].php>> \in containers,
                      <<s, store[s].php>> \notin containers'
      PROVE  loaded[s] = "tls" /\ \E v \in Versions : <<s, v>> \in containers'
    BY DEF vars, Versioned, Recorded
  <2>1. store[s].php \in Versions /\ store[s].php # None
    BY SiteHostAssumption, RecordedTypes DEF IInv, TypeInv
  <2>2. CASE containers \subseteq containers'
    BY <2>1, <2>2
  <2>3. CASE Command
    <3>1. ~dryRun /\ doing.todo # <<>> /\ doing.rec.php \in Versions
      BY <2>3, CommandStep DEF IInv, Record
    <3>2. CASE containers' = containers \ {<<doing.site, None>>}
      BY <2>1, <3>2
    <3>3. CASE At("inspect new") /\ containers' = containers \ {<<doing.site, doing.rec.php>>}
      <4>1. Switching
        BY <3>1, <3>3, TailsKeep DEF IInv, SwitchInv, At
      <4>2. QED
        BY <2>1, <3>3, <4>1 DEF Switching
    <3>4. CASE At("remove old") /\ containers' = containers \ {<<doing.site, doing.was>>}
      <4>1. Switching
        BY <3>1, <3>4, TailsKeep DEF IInv, SwitchInv, At
      <4>2. /\ <<doing.site, doing.rec.php>> \in containers /\ doing.rec.php # doing.was
            /\ loaded[doing.site] = "tls"
        BY <3>4, <4>1, SwitchTails DEF Switching, At
      <4>3. QED
        BY <2>1, <3>1, <3>4, <4>2
    <3>5. QED
      BY <2>2, <2>3, <3>2, <3>3, <3>4, CommandContainers DEF IInv
  <2>4. ASSUME NEW t \in Sites, Dispatch(t) PROVE containers' = containers
    BY <2>4, DispatchShape, SiteHostAssumption DEF IInv, TypeInv, Begin, host
  <2>5. CASE Rehearse \/ Put \/ Forget \/ GiveUp \/ Boot
    BY <2>2, <2>5 DEF Rehearse, Put, Forget, GiveUp, Boot, Write, host
  <2>6. QED
    BY <2>2, <2>3, <2>4, <2>5 DEF Next
<1>2. QED
  BY InvariantHolds, <1>1, PTL DEF Spec, SwitchKeepsServing

(* No create, clone or import of a live agent reaches its put. *)
THEOREM LiveCreatesFail == Spec => LiveAddsNoSite
<1>1. IInv /\ [Next]_vars =>
        [~dryRun /\ boots' = boots =>
            \A s \in Sites : store'[s] # None => store[s] # None]_vars
  <2> SUFFICES ASSUME IInv, Next, ~dryRun, NEW s \in Sites, store'[s] # None
      PROVE  store[s] # None
    BY DEF vars
  <2>1. CASE Put
    <3>1. /\ doing.todo # <<>> /\ Head(doing.todo) = "put"
          /\ store' = [store EXCEPT ![doing.site] = doing.rec]
      BY <2>1 DEF Put, At, Write
    <3>2. doing.site \in Recorded
      BY <3>1, EndsTail DEF IInv, PutInv
    <3>3. QED
      BY <3>1, <3>2 DEF Recorded, IInv, TypeInv, TypeOK
  <2>2. CASE Forget
    BY <2>2 DEF Forget, Write, IInv, TypeInv, TypeOK
  <2>3. CASE Command
    BY <2>3, CommandStep DEF IInv, index
  <2>4. ASSUME NEW t \in Sites, Dispatch(t) PROVE store' = store
    BY <2>4, DispatchShape, SiteHostAssumption DEF IInv, TypeInv, Begin, index
  <2>5. CASE Rehearse \/ GiveUp \/ Boot
    BY <2>5 DEF Rehearse, GiveUp, Boot, index
  <2>6. QED
    BY <2>1, <2>2, <2>3, <2>4, <2>5 DEF Next
<1>2. QED
  BY InvariantHolds, <1>1, PTL DEF Spec, LiveAddsNoSite

-------------------------------------------------------------------------------
(* PageCache.                                                                  *)

(* What a page's entry under its named key must have, and during a delete   *)
(* every entry of the post's own pages.                                     *)
Explained(p) ==
    /\ cache[Named(p)] = "edited" => Accounted(p)
    /\ deleting /\ p \in OwnPages /\ cache[Named(p)] # "empty" => Accounted(p)

CacheInv == CacheTypeOK /\ \A p \in Pages : Explained(p)

LEMMA NamedIsKey == \A p \in Pages : Named(p) \in Keys
BY DEF Keys

LEMMA KeyShape ==
  ASSUME NEW k \in Keys
  PROVE  /\ k[2] \in Pages
         /\ \/ k[1] = "named" /\ k = Named(k[2])
            \/ k[1] = "unnamed"
<1>1. CASE k \in {Named(p) : p \in Pages}
  BY <1>1 DEF Named
<1>2. CASE k \in {"unnamed"} \X Aliased
  BY <1>2, PageCacheAssumption DEF Pages
<1>3. QED
  BY <1>1, <1>2 DEF Keys

LEMMA CacheInitInv == CacheInit => CacheInv
<1> SUFFICES ASSUME CacheInit PROVE CacheInv
  OBVIOUS
<1>1. Nothing \in [Keys -> Slots]
  BY DEF Nothing, Slots
<1>2. CacheTypeOK
  <2>1. module \in BOOLEAN /\ tls \in BOOLEAN /\ deleting \in BOOLEAN
    BY DEF CacheInit
  <2>2. cache \in [Keys -> Slots] /\ fetching \in [Keys -> Slots]
    BY <1>1 DEF CacheInit
  <2>3. writes \in 0..MaxWrites /\ purging \subseteq Pages /\ known \subseteq Causes \X Pages
    BY PageCacheAssumption DEF CacheInit
  <2>4. QED
    BY <2>1, <2>2, <2>3 DEF CacheTypeOK
<1>3. \A p \in Pages : Explained(p)
  BY NamedIsKey DEF CacheInit, Nothing, Explained
<1>4. QED
  BY <1>2, <1>3 DEF CacheInv

(* A change leaves no entry where there was none, and marks "edited" only   *)
(* what a hook promises to purge.                                           *)
LEMMA Aging ==
  ASSUME NEW slots \in [Keys -> Slots], NEW promised, NEW changed
  PROVE  /\ Age(slots, promised, changed) \in [Keys -> Slots]
         /\ \A k \in Keys : LET new == Age(slots, promised, changed)[k]
                           IN  /\ new # "empty" => slots[k] # "empty"
                               /\ new = "edited" => slots[k] = "edited" \/ k[2] \in promised
  BY DEF Age, Slots

(* A change whose promised pages are asked for, or are those of the post    *)
(* that is being deleted, keeps CacheInv; so does a delete that begins by   *)
(* asking for the post's pages.                                             *)
LEMMA ChangeKeeps ==
  ASSUME CacheInv, NEW promised, NEW changed, NEW asked \in SUBSET Pages,
         promised \subseteq asked \/ (deleting /\ promised \subseteq OwnPages),
         Change(promised, changed, asked), deleting' \in BOOLEAN,
         deleting' => deleting \/ OwnPages \subseteq asked
  PROVE  CacheInv'
<1>1. CacheTypeOK /\ \A p \in Pages : Explained(p)
  BY DEF CacheInv
<1>2. cache' \in [Keys -> Slots] /\ fetching' \in [Keys -> Slots]
  BY <1>1, Aging DEF Change, CacheTypeOK
<1>3. purging' = purging \cup asked /\ known' = known
  BY DEF Change
<1>4. CacheTypeOK'
  BY <1>1, <1>2, <1>3 DEF Change, CacheTypeOK, site
<1>5. ASSUME NEW p \in Pages PROVE Explained(p)'
  <2>1. /\ cache'[Named(p)] # "empty" => cache[Named(p)] # "empty"
        /\ cache'[Named(p)] = "edited" => cache[Named(p)] = "edited" \/ p \in promised
    <3>1. Named(p) \in Keys /\ Named(p)[2] = p
      BY NamedIsKey DEF Named
    <3>2. cache \in [Keys -> Slots] /\ cache' = Age(cache, promised, changed)
      BY <1>1 DEF CacheTypeOK, Change
    <3>3. QED
      BY <3>1, <3>2, Aging
  <2>2. Accounted(p) \/ p \in asked => Accounted(p)'
    BY <1>3 DEF Accounted
  <2>3. cache'[Named(p)] = "edited" => Accounted(p)'
    <3>1. SUFFICES ASSUME cache'[Named(p)] = "edited" PROVE Accounted(p) \/ p \in asked
      BY <2>2
    <3>2. CASE cache[Named(p)] = "edited"
      BY <1>1, <3>2 DEF Explained
    <3>3. CASE p \in promised
      <4>1. CASE promised \subseteq asked
        BY <3>3, <4>1
      <4>2. CASE deleting /\ promised \subseteq OwnPages
        BY <1>1, <2>1, <3>1, <3>3, <4>2 DEF Explained
      <4>3. QED
        BY <4>1, <4>2
    <3>4. QED
      BY <2>1, <3>1, <3>2, <3>3
  <2>4. deleting' /\ p \in OwnPages /\ cache'[Named(p)] # "empty" => Accounted(p)'
    BY <1>1, <2>1, <2>2 DEF Explained
  <2>5. QED
    BY <2>3, <2>4 DEF Explained
<1>6. QED
  BY <1>4, <1>5 DEF CacheInv

(* WordPress and the plugin. *)
LEMMA ContentStep ==
  ASSUME CacheInv,
         \/ Edit \/ Unpublish \/ BeforeDelete \/ DeleteRow \/ EditTerm \/ SwitchTheme
  PROVE  CacheInv'
<1> USE DEF Pages, OwnPages, PostPages
<1>1. deleting \in BOOLEAN
  BY DEF CacheInv, CacheTypeOK
<1>2. CASE Edit
  BY <1>1, <1>2, ChangeKeeps DEF Edit
<1>3. CASE Unpublish
  BY <1>1, <1>3, ChangeKeeps DEF Unpublish
<1>4. CASE BeforeDelete
  BY <1>1, <1>4, ChangeKeeps DEF BeforeDelete
<1>5. CASE DeleteRow
  <2>1. /\ deleting /\ deleting' = FALSE /\ OwnPages \subseteq Pages
        /\ {} \in SUBSET Pages /\ Change(OwnPages, Pages, {})
    BY <1>5 DEF DeleteRow
  <2> HIDE DEF OwnPages, Pages
  <2>2. QED
    BY <2>1, ChangeKeeps
<1>6. CASE EditTerm
  BY <1>1, <1>6, ChangeKeeps DEF EditTerm
<1>7. CASE SwitchTheme
  BY <1>1, <1>7, ChangeKeeps DEF SwitchTheme
<1>8. QED
  BY <1>2, <1>3, <1>4, <1>5, <1>6, <1>7

(* A response that is stored over the entry of a page. *)
LEMMA StoreKeeps ==
  ASSUME CacheInv, NEW k \in Keys, Store(k)
  PROVE  CacheInv'
<1>1. CacheTypeOK /\ \A p \in Pages : Explained(p)
  BY DEF CacheInv
<1>2. LateCauses(k) \X {k[2]} \subseteq Causes \X Pages
  BY KeyShape DEF LateCauses, Causes
<1>3. CacheTypeOK'
  BY <1>1, <1>2 DEF Store, CacheTypeOK, site, Slots
<1>4. cache' = [cache EXCEPT ![k] = fetching[k]] /\ purging' = purging /\ deleting' = deleting
  BY DEF Store
<1>5. ASSUME NEW p \in Pages PROVE Explained(p)'
  <2>1. CASE k = Named(p)
    <3>1. cache'[Named(p)] = fetching[k] /\ k[1] = "named" /\ k[2] = p
      BY <1>1, <1>4, <2>1 DEF CacheTypeOK, Named
    <3>2. \A why \in LateCauses(k) : <<why, p>> \in known' /\ why \in Causes
      BY <3>1 DEF Store, LateCauses, Causes
    <3>3. p \notin purging /\ fetching[k] = "edited" => "overtaken" \in LateCauses(k)
      BY <3>1 DEF LateCauses
    <3>4. p \notin purging /\ deleting => "early" \in LateCauses(k)
      BY <3>1 DEF LateCauses
    <3>5. QED
      BY <1>4, <3>1, <3>2, <3>3, <3>4 DEF Explained, Accounted
  <2>2. CASE k # Named(p)
    <3>1. cache'[Named(p)] = cache[Named(p)]
      BY <1>1, <1>4, <2>2, NamedIsKey DEF CacheTypeOK
    <3>2. \A why \in Causes : <<why, p>> \in known => <<why, p>> \in known'
      <4>1. CASE k[1] = "named"
        <5>1. k[2] # p
          BY <2>2, <4>1, KeyShape
        <5>2. QED
          BY <4>1, <5>1 DEF Store
      <4>2. CASE k[1] # "named"
        BY <4>2 DEF Store
      <4>3. QED
        BY <4>1, <4>2
    <3>3. QED
      BY <1>1, <1>4, <3>1, <3>2 DEF Explained, Accounted
  <2>3. QED
    BY <2>1, <2>2
<1>6. QED
  BY <1>3, <1>5 DEF CacheInv

(* What Note keeps, for a step that empties entries and makes no other.     *)
LEMMA NoteKeeps ==
  ASSUME CacheInv, NEW causes \in SUBSET (Causes \X Pages), NEW gone \in SUBSET Pages,
         CacheTypeOK', Note(causes),
         deleting' = deleting, known \subseteq causes \/ \A p \in Pages : cache'[Named(p)] = "empty",
         purging \subseteq purging' \cup gone,
         \A p \in gone : cache'[Named(p)] = "empty" \/ <<"missed", p>> \in causes,
         \A p \in Pages : cache'[Named(p)] \in {"empty", cache[Named(p)]}
  PROVE  CacheInv'
<1>1. ASSUME NEW p \in Pages PROVE Explained(p)'
  <2>1. CASE cache'[Named(p)] = "empty"
    BY <2>1 DEF Explained
  <2>2. CASE cache'[Named(p)] # "empty"
    <3>1. cache'[Named(p)] = cache[Named(p)] /\ known \subseteq causes
      BY <2>2
    <3>2. \A why \in Causes : <<why, p>> \in causes => <<why, p>> \in known'
      BY <2>2 DEF Note
    <3>3. Accounted(p) => Accounted(p)'
      BY <2>2, <3>1, <3>2 DEF Accounted, Causes
    <3>4. QED
      BY <3>1, <3>3 DEF CacheInv, Explained
  <2>3. QED
    BY <2>1, <2>2
<1>2. QED
  BY <1>1 DEF CacheInv

(* nginx and the panel. *)
LEMMA CacheStep ==
  ASSUME CacheInv,
         \/ \E k \in Keys : Fetch(k) \/ Store(k) \/ FetchFails(k)
         \/ \E p \in Pages : Purge(p) \/ PurgeMissed(p)
         \/ EmptyCache \/ SwitchTls
  PROVE  CacheInv'
<1>1. CacheTypeOK /\ \A p \in Pages : Explained(p)
  BY DEF CacheInv
<1>2. ASSUME CacheTypeOK', UNCHANGED <<cache, purging, deleting, known>> PROVE CacheInv'
  BY <1>1, <1>2 DEF CacheInv, Explained, Accounted
<1>3. ASSUME NEW k \in Keys, Fetch(k) \/ FetchFails(k) PROVE CacheInv'
  <2>1. CacheTypeOK'
    BY <1>1, <1>3 DEF Fetch, FetchFails, CacheTypeOK, site, Slots
  <2>2. QED
    BY <1>2, <1>3, <2>1 DEF Fetch, FetchFails
<1>4. ASSUME NEW p \in Pages, Purge(p) PROVE CacheInv'
  <2>1. cache' \in [Keys -> Slots] /\ known' \subseteq known
    BY <1>1, <1>4 DEF Purge, Note, CacheTypeOK, Slots
  <2>2. CacheTypeOK'
    BY <1>1, <1>4, <2>1 DEF Purge, CacheTypeOK, site
  <2>3. /\ cache'[Named(p)] = "empty"
        /\ \A q \in Pages : cache'[Named(q)] \in {"empty", cache[Named(q)]}
    BY <1>1, <1>4, NamedIsKey DEF Purge, CacheTypeOK
  <2>4. known \in SUBSET (Causes \X Pages) /\ purging \subseteq purging' \cup {p}
    BY <1>1, <1>4 DEF Purge, CacheTypeOK
  <2>5. Note(known) /\ deleting' = deleting
    BY <1>4 DEF Purge
  <2>6. QED
    BY <2>2, <2>3, <2>4, <2>5, NoteKeeps
<1>5. ASSUME NEW p \in Pages, PurgeMissed(p) PROVE CacheInv'
  <2> DEFINE causes == known \cup {<<"missed", p>>}
  <2>1. causes \in SUBSET (Causes \X Pages)
    BY <1>1 DEF CacheTypeOK, Causes
  <2>2. known' \subseteq causes /\ Note(causes)
    BY <1>5 DEF PurgeMissed, Note
  <2>3. CacheTypeOK'
    BY <1>1, <1>5, <2>1, <2>2 DEF PurgeMissed, CacheTypeOK, site
  <2>4. cache' = cache /\ deleting' = deleting /\ purging' = purging \ {p}
    BY <1>5 DEF PurgeMissed
  <2>5. /\ known \subseteq causes /\ purging \subseteq purging' \cup {p} /\ {p} \in SUBSET Pages
        /\ \A q \in {p} : <<"missed", q>> \in causes
        /\ \A q \in Pages : cache'[Named(q)] \in {"empty", cache[Named(q)]}
    BY <2>4
  <2> HIDE DEF causes
  <2>6. QED
    BY <2>1, <2>2, <2>3, <2>4, <2>5, NoteKeeps
<1>6. CASE EmptyCache
  <2>1. cache' \in [Keys -> Slots] /\ \A k \in Keys : cache'[k] = "empty"
    BY <1>6 DEF EmptyCache, Nothing, Slots
  <2>2. CacheTypeOK'
    BY <1>1, <1>6, <2>1 DEF EmptyCache, Note, CacheTypeOK, site
  <2>3. \A p \in Pages : cache'[Named(p)] = "empty"
    BY <2>1, NamedIsKey
  <2>4. QED
    BY <2>2, <2>3 DEF CacheInv, Explained
<1>7. CASE SwitchTls
  <2>1. CacheTypeOK'
    BY <1>1, <1>7, PageCacheAssumption DEF SwitchTls, CacheTypeOK
  <2>2. QED
    BY <1>2, <1>7, <2>1 DEF SwitchTls
<1>8. QED
  BY <1>3, <1>4, <1>5, <1>6, <1>7, StoreKeeps

(* CacheInv is inductive. *)
THEOREM CacheInvariantHolds == CacheSpec => []CacheInv
<1>1. CacheInv /\ [CacheNext]_cacheVars => CacheInv'
  <2> SUFFICES ASSUME CacheInv, [CacheNext]_cacheVars PROVE CacheInv'
    OBVIOUS
  <2>1. CASE CacheNext
    BY <2>1, ContentStep, CacheStep DEF CacheNext
  <2>2. CASE UNCHANGED cacheVars
    BY <2>2 DEF cacheVars, site, CacheInv, CacheTypeOK, Explained, Accounted
  <2>3. QED
    BY <2>1, <2>2
<1>2. QED
  BY CacheInitInv, <1>1, PTL DEF CacheSpec

(* Every variable keeps its type. *)
THEOREM CacheTypesHold == CacheSpec => []CacheTypeOK
<1>1. CacheInv => CacheTypeOK
  BY DEF CacheInv
<1>2. QED
  BY CacheInvariantHolds, <1>1, PTL

(* An entry that lacks what a hook's comment promises to purge is about to  *)
(* be purged, is under a key no purge names, or has one of the three causes *)
(* that were seen to happen.                                                *)
THEOREM StalenessIsExplained == CacheSpec => []StaleHasCause
<1>1. CacheInv => StaleHasCause
  <2> SUFFICES ASSUME CacheInv, NEW k \in Keys, cache[k] = "edited", k[1] # "unnamed"
      PROVE  Accounted(k[2])
    BY DEF StaleHasCause
  <2>1. k[2] \in Pages /\ k = Named(k[2])
    BY KeyShape
  <2>2. QED
    BY <2>1 DEF CacheInv, Explained
<1>2. QED
  BY CacheInvariantHolds, <1>1, PTL

=============================================================================
