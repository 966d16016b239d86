------------------------------- MODULE AgentApi -------------------------------
(***************************************************************************)
(* The agent's one endpoint, POST /v1/operations: the map of request ids   *)
(* that keeps an operation from being executed twice, the permit that      *)
(* serialises operations, and the commands an operation runs on the host.  *)
(*                                                                         *)
(* A call is one HTTP exchange.  Its handler is a future that dies when    *)
(* the client closes the connection, at whatever point it stands; a        *)
(* command it has started is a process of its own and lives on.            *)
(***************************************************************************)
EXTENDS Naturals, Sequences, FiniteSets, SequencesExt

CONSTANTS
    Calls,         \* HTTP exchanges
    Ids,           \* request_id values; a client may use one in several calls
    None,          \* no call, no id
    MaxCommands,   \* bound: commands of one operation
    MaxRestarts    \* bound: restarts of the agent in a behaviour

ASSUME AgentAssumption ==
    /\ None \notin Calls \cup Ids
    /\ MaxCommands \in Nat
    /\ MaxRestarts \in Nat

VARIABLES
    at,         \* [call -> where its handler stands]
    id,         \* [call -> its request_id]
    seen,       \* SEEN: the ids on record
    aged,       \* those of them older than IDEMPOTENCY_WINDOW
    holder,     \* the call that has the permit of the lock
    waiting,    \* the calls that wait for it, first come first
    left,       \* [call -> commands its operation has still to start]
    running,    \* calls with a command running on the host
    restarts,   \* restarts of the agent so far
    executed,   \* observed: [id -> operations dispatched under it]
    forgotten   \* observed: [id -> times the agent forgot it]

handler  == <<at, id, left>>
lock     == <<holder, waiting>>
memory   == <<seen, aged>>
observed == <<executed, forgotten>>
vars == <<handler, lock, memory, running, restarts, observed>>

Init ==
    /\ at = [c \in Calls |-> "new"]
    /\ id = [c \in Calls |-> None]
    /\ seen = {} /\ aged = {}
    /\ holder = None /\ waiting = <<>>
    /\ left = [c \in Calls |-> 0]
    /\ running = {}
    /\ restarts = 0
    /\ executed = [i \in Ids |-> 0]
    /\ forgotten = [i \in Ids |-> 0]

(* What the agent no longer knows. *)
Forget(ids) ==
    forgotten' = [i \in Ids |-> IF i \in ids THEN forgotten[i] + 1 ELSE forgotten[i]]
-------------------------------------------------------------------------------
(* Wrong token, unreadable body, other protocol version: answered at once. *)
Reject(c) ==
    /\ at[c] = "new"
    /\ at' = [at EXCEPT ![c] = "rejected"]
    /\ UNCHANGED <<id, left, lock, memory, running, restarts, observed>>

(* The window of an id passes; nobody looks until the next call. *)
Age(i) ==
    /\ i \in seen \ aged
    /\ aged' = aged \cup {i}
    /\ UNCHANGED <<handler, lock, seen, running, restarts, observed>>

(* Mutant: the id is put on record when the operation is over. *)
AdmitUnrecorded(c, i) ==
    /\ at[c] = "new"
    /\ id' = [id EXCEPT ![c] = i]
    /\ Forget(aged)
    /\ aged' = {} /\ seen' = seen \ aged
    /\ IF i \in seen \ aged
       THEN at' = [at EXCEPT ![c] = "duplicate"] /\ UNCHANGED waiting
       ELSE at' = [at EXCEPT ![c] = "waiting"] /\ waiting' = Append(waiting, c)
    /\ UNCHANGED <<left, holder, running, restarts, executed>>

(* Mutant: an id that comes back keeps the age it had. *)
AdmitStillAged(c, i) ==
    /\ at[c] = "new"
    /\ id' = [id EXCEPT ![c] = i]
    /\ Forget(aged)
    /\ seen' = (seen \ aged) \cup {i}
    /\ IF i \in seen \ aged
       THEN at' = [at EXCEPT ![c] = "duplicate"] /\ UNCHANGED waiting
       ELSE at' = [at EXCEPT ![c] = "waiting"] /\ waiting' = Append(waiting, c)
    /\ UNCHANGED <<aged, left, holder, running, restarts, executed>>

(* already_handled drops what has aged, answers a call whose id is on record,
   done or not, and puts any other id on record before its operation starts. *)
Admit(c, i) ==
    /\ at[c] = "new"
    /\ id' = [id EXCEPT ![c] = i]
    /\ Forget(aged)
    /\ aged' = {}
    /\ seen' = (seen \ aged) \cup {i}
    /\ IF i \in seen \ aged
       THEN at' = [at EXCEPT ![c] = "duplicate"] /\ UNCHANGED waiting
       ELSE at' = [at EXCEPT ![c] = "waiting"] /\ waiting' = Append(waiting, c)
    /\ UNCHANGED <<left, holder, running, restarts, executed>>

(* A waiter goes; those behind it move up. *)
LeavesQueue(c) == \E k \in DOMAIN waiting : waiting[k] = c /\ waiting' = RemoveAt(waiting, k)

(* Mutant: the operation starts without waiting for the permit. *)
DispatchUnlocked(c) ==
    /\ at[c] = "waiting"
    /\ LeavesQueue(c)
    /\ holder' = c
    /\ at' = [at EXCEPT ![c] = "working"]
    /\ executed' = [executed EXCEPT ![id[c]] = @ + 1]
    /\ \E n \in 0..MaxCommands : left' = [left EXCEPT ![c] = n]
    /\ UNCHANGED <<id, memory, running, restarts, forgotten>>

(* The permit goes to the call that has waited longest, and dispatch begins. *)
Dispatch(c) ==
    /\ holder = None
    /\ waiting # <<>> /\ Head(waiting) = c
    /\ waiting' = Tail(waiting)
    /\ holder' = c
    /\ at' = [at EXCEPT ![c] = "working"]
    /\ executed' = [executed EXCEPT ![id[c]] = @ + 1]
    /\ \E n \in 0..MaxCommands : left' = [left EXCEPT ![c] = n]
    /\ UNCHANGED <<id, memory, running, restarts, forgotten>>

(* exec::run: one command at a time, awaited to its end. *)
StartCommand(c) ==
    /\ at[c] = "working" /\ c \notin running
    /\ left[c] > 0
    /\ left' = [left EXCEPT ![c] = @ - 1]
    /\ running' = running \cup {c}
    /\ UNCHANGED <<at, id, lock, memory, restarts, observed>>

(* The process ends.  A failure ends the operation too; when the handler is
   gone nobody learns of either. *)
CommandEnds(c) ==
    /\ c \in running
    /\ running' = running \ {c}
    /\ left' \in {left, [left EXCEPT ![c] = 0]}
    /\ UNCHANGED <<at, id, lock, memory, restarts, observed>>

Answer(c) ==
    /\ at[c] = "working" /\ c \notin running
    /\ left[c] = 0
    /\ at' = [at EXCEPT ![c] = "answered"]
    /\ holder' = None
    /\ UNCHANGED <<id, left, waiting, memory, running, restarts, observed>>

(* Mutant: the permit is not returned by a handler that is dropped. *)
DropForgetsPermit(c) ==
    /\ at[c] \in {"waiting", "working"}
    /\ at' = [at EXCEPT ![c] = "dropped"]
    /\ IF at[c] = "waiting" THEN LeavesQueue(c) ELSE UNCHANGED waiting
    /\ UNCHANGED <<id, left, holder, memory, running, restarts, observed>>

(* The client hangs up; the panel's client does after 300 s.  The permit is
   returned, the command is not waited for. *)
Drop(c) ==
    /\ at[c] \in {"waiting", "working"}
    /\ at' = [at EXCEPT ![c] = "dropped"]
    /\ IF at[c] = "waiting" THEN LeavesQueue(c) ELSE UNCHANGED waiting
    /\ holder' = IF holder = c THEN None ELSE holder
    /\ UNCHANGED <<id, left, memory, running, restarts, observed>>

(* The service stops with its whole control group and starts again: SEEN was
   memory. *)
Restart ==
    /\ restarts < MaxRestarts
    /\ restarts' = restarts + 1
    /\ at' = [c \in Calls |-> IF at[c] \in {"waiting", "working"} THEN "dropped" ELSE at[c]]
    /\ holder' = None /\ waiting' = <<>>
    /\ running' = {}
    /\ Forget(seen)
    /\ seen' = {} /\ aged' = {}
    /\ UNCHANGED <<id, left, executed>>

Handle(c) == Dispatch(c) \/ StartCommand(c) \/ Answer(c)

Next ==
    \/ \E c \in Calls : Reject(c) \/ (\E i \in Ids : Admit(c, i))
                        \/ Handle(c) \/ CommandEnds(c) \/ Drop(c)
    \/ \E i \in Ids : Age(i)
    \/ Restart

Spec == Init /\ [][Next]_vars

(* Handlers are polled and clients give up.  Nothing is owed by a command: no
   timeout is set on one. *)
FairSpec == Spec /\ \A c \in Calls : WF_vars(Handle(c)) /\ WF_vars(Drop(c))
-------------------------------------------------------------------------------
Admitted == {"waiting", "working", "answered", "dropped"}

(* Every variable keeps its type. *)
TypeOK ==
    /\ at \in [Calls -> {"new", "rejected", "duplicate"} \cup Admitted]
    /\ id \in [Calls -> Ids \cup {None}]
    /\ seen \in SUBSET Ids
    /\ aged \in SUBSET seen
    /\ holder \in Calls \cup {None}
    /\ waiting \in Seq(Calls)
    /\ left \in [Calls -> Nat]
    /\ running \in SUBSET Calls
    /\ restarts \in Nat
    /\ executed \in [Ids -> Nat]
    /\ forgotten \in [Ids -> Nat]

(* One operation per id, however many calls carry it and in whatever state
   they meet: a second one takes an expired window or a restart in between. *)
RepeatedOnlyIfForgotten == \A i \in Ids : executed[i] <= forgotten[i] + 1

(* Two commands run at once only when a client hung up on one of them: among
   handlers that are still there the permit keeps them apart. *)
OverlapOnlyByDrop ==
    \A c, d \in running : c # d => at[c] = "dropped" \/ at[d] = "dropped"

(* What the lock is for: two commands never run at once. *)
OneCommandAtATime == \A c, d \in running : c = d

(* The permit is always returned, even by an operation whose command hangs. *)
PermitReturns == \A c \in Calls : (holder = c) ~> (holder # c)
===============================================================================
