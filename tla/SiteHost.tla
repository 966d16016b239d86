------------------------------- MODULE SiteHost -------------------------------
(***************************************************************************)
(* One node as the agent's site operations change it: system accounts, PHP *)
(* containers, vhost files and what nginx has loaded, certificates, and    *)
(* the agent's own index of sites (store.rs).                              *)
(*                                                                         *)
(* A handler of ops/site.rs or ops/import.rs is a plan, a sequence of      *)
(* steps each of which is one host command or one write of the index.  It  *)
(* returns at the first step that fails (`?`), undoing nothing, and its    *)
(* future may be dropped between two steps or while a command is running   *)
(* (AgentApi).  Handlers run one at a time, under the agent's permit.      *)
(*                                                                         *)
(* In a dry run a command is logged and answered with success; the index   *)
(* is written all the same.  The flag is read when the agent starts, and   *)
(* the index outlives it.                                                  *)
(*                                                                         *)
(* A site is its domain: the panel keeps domains unique.  An index that is *)
(* changed and not written (ControlPlane's FlushFails) is left to that     *)
(* module.                                                                 *)
(*                                                                         *)
(* A domain's file tree and database are left out of the state: they are   *)
(* made with "if not exists" and no step looks at them.  So are the fields *)
(* of a record that only decide what is written into a file.               *)
(***************************************************************************)
EXTENDS Naturals, Sequences, FiniteSets

CONSTANTS
    Sites,       \* sites of the panel, each with a domain of its own
    Versions,    \* PHP versions
    None,        \* no record, no version
    MaxOps,      \* bound: handlers begun in a behaviour
    MaxBoots     \* bound: restarts of the agent in a behaviour

ASSUME SiteHostAssumption ==
    /\ MaxOps \in Nat
    /\ MaxBoots \in Nat
    /\ None \notin Versions
    /\ IsFiniteSet(Sites)

VARIABLES
    dryRun,      \* the agent's --dry-run
    store,       \* [site -> its record, or None]: the index
    accounts,    \* [site -> uid of its system account, 0 when there is none]
    containers,  \* names of the running PHP containers: <<site, version>>
    vhost,       \* [site -> its vhost file: "none", "http" or "tls"]
    loaded,      \* [site -> the vhost nginx is running with]
    certs,       \* sites with a certificate under /etc/letsencrypt/live
    doing,       \* the handler that holds the permit
    begun,       \* handlers begun so far
    boots,       \* restarts so far
    everKnown,   \* observed: sites that have been in the index
    tlsForced    \* observed: sites whose vhost was rewritten with TLS unasked

index == <<store, everKnown>>
host  == <<accounts, containers, vhost, loaded, certs, tlsForced>>
agent == <<dryRun, boots>>
vars  == <<index, host, agent, doing, begun>>

Uids    == 1..(Cardinality(Sites) + 1)
Record  == [uid: Uids, php: Versions]

Idle       == [todo |-> <<>>]
Recorded   == {s \in Sites : store[s] # None}

(* The container a version gets, and the name the handlers that have only a *)
(* record use for it.                                                       *)
Versioned(d, v) == <<d, v>>
Unversioned(d)  == <<d, None>>

(* Mutant: the next uid counts the records. *)
CountUid == Cardinality(Recorded) + 1
(* The lowest uid no record has. *)
NextUid == CHOOSE u \in Uids :
    /\ \A s \in Recorded : store[s].uid # u
    /\ \A w \in Uids : w < u => \E s \in Recorded : store[s].uid = w

Init ==
    /\ dryRun \in BOOLEAN
    /\ store = [s \in Sites |-> None]
    /\ accounts = [d \in Sites |-> 0]
    /\ containers = {}
    /\ vhost = [d \in Sites |-> "none"]
    /\ loaded = vhost
    /\ certs \in SUBSET Sites
    /\ doing = Idle
    /\ begun = 0
    /\ boots = 0
    /\ everKnown = {}
    /\ tlsForced = {}

-----------------------------------------------------------------------------
(* The plans.  "plain" stands for one or more commands in a row that may    *)
(* fail and change nothing kept here: mkdir and chown, mysql, rsync, ssh,   *)
(* restic, docker pull, find -delete, writing the cache plugin.  "named" is *)
(* a command on the record's container: exec, stop, restart, update.        *)

ServePlan == <<"vhost", "reload">>
TlsPlan   == <<"tls vhost", "reload">>

CreatePlan(install, ssl) ==
    <<"account", "plain", "run">>
    \o (IF install THEN <<"named">> ELSE <<>>)
    \o ServePlan \o <<"plain">>
    \o (IF ssl THEN <<"try certificate">> ELSE <<>>)
    \o <<"inspect", "put">>

ClonePlan(rewrite) ==
    <<"account", "plain", "named", "run">>
    \o (IF rewrite THEN <<"named">> ELSE <<>>)
    \o ServePlan \o <<"inspect", "put">>
ImportPlan  == <<"plain", "account", "plain", "run", "named">> \o ServePlan \o <<"inspect", "put">>
ResyncPlan  == <<"plain", "run">> \o ServePlan \o <<"inspect", "put">>
DeletePlan  == <<"remove", "remove vhost", "reload", "plain", "userdel", "forget">>
StartPlan   == <<"run", "inspect", "put">>
StopPlan    == <<"named", "put">>
RestartPlan == <<"named", "inspect">>
(* Mutant: the old container goes before nginx has loaded the new vhost. *)
HastySwitchPlan == <<"plain", "run", "inspect new", "remove old", "rewrite", "reload", "put">>
SwitchPlan  == <<"plain", "run", "inspect new", "rewrite", "reload", "remove old", "put">>
LimitsPlan  == <<"named", "put">>
DomainsPlan == ServePlan \o <<"put">>
(* Mutant: the vhost is written before the certificate is asked for. *)
EagerIssuePlan == TlsPlan \o <<"certificate">>
IssuePlan   == <<"certificate">> \o TlsPlan
(* The caller's list begins with another name than the site's own domain. *)
IssueOtherPlan == <<"other certificate", "rewrite", "reload">>
RenewPlan   == <<"renew", "reload">>
CachePlan   == <<"rewrite", "reload", "plain", "put">>
ClearPlan   == <<"plain", "named">>
InstallPlan == <<"named">>
UpdatePlan  == <<"plain", "named", "inspect">>
BackupPlan  == <<"plain">>
RestorePlan == <<"plain", "named", "inspect">>
ManagePlan  == <<"named">>

(* A handler takes the permit and looks its site up: rec is the record it   *)
(* will put, was the PHP version it found.                                  *)
Begin(s, rec, was, plan) ==
    /\ doing = Idle
    /\ begun < MaxOps
    /\ begun' = begun + 1
    /\ doing' = [site |-> s, rec |-> rec, was |-> was, todo |-> plan]
    /\ UNCHANGED <<index, host, agent>>

(* Handlers that build a record of their own. *)
New(s, v) == [uid |-> NextUid, php |-> v]

Create(s) == \E v \in Versions, install, ssl \in BOOLEAN :
    Begin(s, New(s, v), None, CreatePlan(install, ssl))

Clone(s) == \E t \in Recorded, v \in Versions, rewrite \in BOOLEAN :
    /\ t # s
    /\ Begin(s, New(s, v), None, ClonePlan(rewrite))

Import(s) == \E v \in Versions :
    /\ s \notin Recorded
    /\ Begin(s, New(s, v), None, ImportPlan)

(* Handlers that look the site up and give up when the index has none. *)
Found(s, plan) ==
    /\ s \in Recorded
    /\ Begin(s, store[s], store[s].php, plan)

Resync(s)  == Found(s, ResyncPlan)
Delete(s)  == Found(s, DeletePlan)
Start(s)   == Found(s, StartPlan)
Stop(s)    == Found(s, StopPlan)
RestartSite(s) == Found(s, RestartPlan)

SwitchPhp(s) == \E v \in Versions :
    /\ s \in Recorded
    /\ v # store[s].php
    /\ Begin(s, [store[s] EXCEPT !.php = v], store[s].php, SwitchPlan)

SetLimits(s)        == Found(s, LimitsPlan)
ChangeDomains(s)    == Found(s, DomainsPlan)
IssueCertificate(s) == Found(s, IssuePlan) \/ Found(s, IssueOtherPlan)
RenewCertificate(s) == Found(s, RenewPlan)
SetCache(s)         == Found(s, CachePlan)
ClearCache(s)       == Found(s, ClearPlan)
InstallWordpress(s) == Found(s, InstallPlan)
UpdateWordpress(s)  == Found(s, UpdatePlan)
Backup(s)           == Found(s, BackupPlan)
Restore(s)          == Found(s, RestorePlan)
ManageWordpress(s)  == Found(s, ManagePlan)

-----------------------------------------------------------------------------
(* The steps of the handler at work. *)

Here     == doing.site
At(step) == doing.todo # <<>> /\ Head(doing.todo) = step

Rest(todo) == IF todo = <<>> THEN Idle ELSE [doing EXCEPT !.todo = todo]

(* The command did its work; the handler goes on, or is gone by then. *)
Onward == doing' \in {Rest(Tail(doing.todo)), Idle}

(* A command of a live agent: some of host changes, the index does not. *)
Live(step) ==
    /\ At(step)
    /\ ~dryRun
    /\ UNCHANGED <<index, agent, begun>>

(* Mutant: useradd takes a uid that is in use. *)
UserAddShared ==
    /\ Live("account")
    /\ accounts[Here] = 0
    /\ accounts' = [accounts EXCEPT ![Here] = doing.rec.uid]
    /\ Onward
    /\ UNCHANGED <<containers, vhost, loaded, certs, tlsForced>>
UserAdd ==
    /\ Live("account")
    /\ accounts[Here] = 0
    /\ \A d \in Sites : accounts[d] # doing.rec.uid
    /\ accounts' = [accounts EXCEPT ![Here] = doing.rec.uid]
    /\ Onward
    /\ UNCHANGED <<containers, vhost, loaded, certs, tlsForced>>

UserDel ==
    /\ Live("userdel")
    /\ accounts[Here] # 0
    /\ accounts' = [accounts EXCEPT ![Here] = 0]
    /\ Onward
    /\ UNCHANGED <<containers, vhost, loaded, certs, tlsForced>>

(* docker run refuses a name that is taken. *)
StartPhp ==
    /\ Live("run")
    /\ Versioned(Here, doing.rec.php) \notin containers
    /\ containers' = containers \cup {Versioned(Here, doing.rec.php)}
    /\ Onward
    /\ UNCHANGED <<accounts, vhost, loaded, certs, tlsForced>>

(* The new container is inspected under its own name; one that is found not *)
(* running is removed, and the handler gives up.                            *)
InspectNew ==
    /\ Live("inspect new")
    /\ Versioned(Here, doing.rec.php) \in containers
    /\ \/ Onward /\ UNCHANGED containers
       \/ /\ containers' = containers \ {Versioned(Here, doing.rec.php)}
          /\ doing' = Idle
    /\ UNCHANGED <<accounts, vhost, loaded, certs, tlsForced>>

RemoveOld ==
    /\ Live("remove old")
    /\ containers' = containers \ {Versioned(Here, doing.was)}
    /\ Onward
    /\ UNCHANGED <<accounts, vhost, loaded, certs, tlsForced>>

RemoveNamed ==
    /\ Live("remove")
    /\ containers' = containers \ {Unversioned(Here)}
    /\ Onward
    /\ UNCHANGED <<accounts, vhost, loaded, certs, tlsForced>>

WriteSite ==
    /\ \/ Live("vhost") /\ vhost' = [vhost EXCEPT ![Here] = "http"]
       \/ Live("tls vhost") /\ vhost' = [vhost EXCEPT ![Here] = "tls"]
       \/ Live("rewrite") /\ vhost' = [vhost EXCEPT ![Here] = "tls"]
       \/ Live("remove vhost") /\ vhost' = [vhost EXCEPT ![Here] = "none"]
    /\ tlsForced' = IF At("rewrite") THEN tlsForced \cup {Here} ELSE tlsForced
    /\ Onward
    /\ UNCHANGED <<accounts, containers, loaded, certs>>

(* nginx -t reads every vhost on the host, and wants every certificate. *)
NginxAccepts == \A d \in Sites : vhost[d] = "tls" => d \in certs

Reload ==
    /\ Live("reload")
    /\ NginxAccepts
    /\ loaded' = vhost
    /\ Onward
    /\ UNCHANGED <<accounts, containers, vhost, certs, tlsForced>>

(* certbot keeps a certificate it has; a new one needs the challenge to be  *)
(* answered from /var/www/acme, which the default server and the TLS vhost  *)
(* do and the plain vhost does not.                                         *)
CertbotIssues(d) == d \in certs \/ loaded[d] # "http"

Certificate ==
    /\ \/ Live("certificate") /\ Onward
       \/ Live("try certificate") /\ doing' \in {Rest(TlsPlan \o Tail(doing.todo)), Idle}
    /\ CertbotIssues(Here)
    /\ certs' = certs \cup {Here}
    /\ UNCHANGED <<accounts, containers, vhost, loaded, tlsForced>>

(* certbot names the certificate after the first domain of the list: with   *)
(* another one there it is kept for another site, or for no site at all.    *)
OtherCertificate ==
    /\ Live("other certificate")
    /\ certs' = certs \/ \E d \in Sites \ {Here} : CertbotIssues(d) /\ certs' = certs \cup {d}
    /\ Onward
    /\ UNCHANGED <<accounts, containers, vhost, loaded, tlsForced>>

(* create goes on without a certificate. *)
NoCertificate ==
    /\ At("try certificate")
    /\ ~dryRun
    /\ doing' = Rest(Tail(doing.todo))
    /\ UNCHANGED <<index, host, agent, begun>>

Renew ==
    /\ Live("renew")
    /\ Here \in certs
    /\ Onward
    /\ UNCHANGED host

(* Mutant: commands on the container use the name start_php gave. *)
AnswersVersioned(d) == Versioned(d, doing.rec.php) \in containers
(* docker exec, inspect, stop, restart and update fail on an unknown name.  *)
Answers(d) == Unversioned(d) \in containers

OtherCommand ==
    /\ doing.todo # <<>>
    /\ Live(Head(doing.todo))
    /\ Head(doing.todo) \in {"plain", "named", "inspect"}
    /\ ~ At("plain") => Answers(Here)
    /\ Onward
    /\ UNCHANGED host

(* In a dry run a command is only logged, and a container always healthy. *)
Rehearse ==
    /\ doing.todo # <<>>
    /\ dryRun
    /\ ~ (At("put") \/ At("forget"))
    /\ doing' = Rest((IF At("try certificate") THEN TlsPlan ELSE <<>>) \o Tail(doing.todo))
    /\ UNCHANGED <<index, host, agent, begun>>

(* The index is written; should the flush fail, only the answer is an error. *)
Write(s, rec) ==
    /\ store' = [store EXCEPT ![s] = rec]
    /\ doing' = Idle
    /\ UNCHANGED <<host, agent, begun>>

Put ==
    /\ At("put")
    /\ Write(doing.site, doing.rec)
    /\ everKnown' = everKnown \cup {doing.site}

Forget ==
    /\ At("forget")
    /\ Write(doing.site, None)
    /\ UNCHANGED everKnown

(* The step fails, or the handler is dropped before it. *)
GiveUp ==
    /\ doing # Idle
    /\ doing' = Idle
    /\ UNCHANGED <<index, host, agent, begun>>

(* The agent is started again, with or without --dry-run. *)
Boot ==
    /\ boots < MaxBoots
    /\ boots' = boots + 1
    /\ dryRun' \in BOOLEAN
    /\ doing' = Idle
    /\ UNCHANGED <<index, host, begun>>

Dispatch(s) ==
    \/ Create(s) \/ Clone(s) \/ Import(s) \/ Resync(s) \/ Delete(s)
    \/ Start(s) \/ Stop(s) \/ RestartSite(s) \/ SwitchPhp(s)
    \/ SetLimits(s) \/ ChangeDomains(s) \/ IssueCertificate(s) \/ RenewCertificate(s)
    \/ SetCache(s) \/ ClearCache(s) \/ InstallWordpress(s) \/ UpdateWordpress(s)
    \/ Backup(s) \/ Restore(s) \/ ManageWordpress(s)

Command ==
    \/ UserAdd \/ UserDel
    \/ StartPhp \/ InspectNew \/ RemoveOld \/ RemoveNamed
    \/ WriteSite \/ Reload
    \/ Certificate \/ OtherCertificate \/ NoCertificate \/ Renew
    \/ OtherCommand

Next ==
    \/ \E s \in Sites : Dispatch(s)
    \/ Command \/ Rehearse
    \/ Put \/ Forget \/ GiveUp
    \/ Boot

Spec == Init /\ [][Next]_vars

-----------------------------------------------------------------------------
(* What holds. *)

(* Every variable keeps its type. *)
TypeOK ==
    /\ dryRun \in BOOLEAN
    /\ store \in [Sites -> Record \cup {None}]
    /\ accounts \in [Sites -> Uids \cup {0}]
    /\ containers \subseteq Sites \X (Versions \cup {None})
    /\ vhost \in [Sites -> {"none", "http", "tls"}]
    /\ loaded \in [Sites -> {"none", "http", "tls"}]
    /\ certs \subseteq Sites
    /\ doing = Idle \/ (doing.site \in Sites /\ doing.rec \in Record)
    /\ begun \in 0..MaxOps
    /\ boots \in 0..MaxBoots
    /\ everKnown \subseteq Sites
    /\ tlsForced \subseteq Sites

(* No two sites of the index share a uid. *)
UidsApart == \A s, t \in Recorded : s # t => store[s].uid # store[t].uid

(* next_uid looks at the index, which a failed create never reaches: the    *)
(* uid it took is offered again, and useradd refuses it.                    *)
AtMostOneMore ==
    Cardinality({d \in Sites : accounts[d] # 0}) <= Cardinality(everKnown) + 1

(* A vhost that names a certificate the host does not have, and so stops    *)
(* every reload on the host, was last written with TLS by a handler that    *)
(* had not asked for a certificate under the site's own name: switch_php,   *)
(* set_cache, or issue_certificate for a list that begins with another name.*)
(* Issuing under the site's own name, create with TLS and the changes of    *)
(* domains never leave one.                                                 *)
PoisonOnlyByRewrite == \A d \in Sites :
    vhost[d] = "tls" /\ d \notin certs => d \in tlsForced

(* The container of a recorded site goes only when another container of the *)
(* site runs and nginx has loaded the vhost the switch wrote, with TLS.     *)
SwitchKeepsServing == [][
    \A s \in Sites : store[s] # None =>
        (Versioned(s, store[s].php) \in containers \ containers' =>
            /\ loaded[s] = "tls"
            /\ \E v \in Versions : Versioned(s, v) \in containers')]_vars

(* A live agent never adds a site to its index. *)
LiveAddsNoSite == [][
    ~dryRun /\ boots' = boots => \A s \in Sites : store'[s] # None => store[s] # None ]_vars

(* The health check of a create tells whether the container it started runs. *)
HealthFollowsContainer ==
    At("inspect") /\ ~dryRun =>
        (Answers(Here) <=> Versioned(Here, doing.rec.php) \in containers)

=============================================================================
