------------------------------ MODULE AgentApiProofs ------------------------------
(***************************************************************************)
(* Proofs about AgentApi, for any calls and ids, any number of commands    *)
(* and restarts.  Two arguments: the permit says where the handlers stand, *)
(* so that two commands under way at once have lost at least one of their  *)
(* handlers; and an account per id, in which every operation dispatched    *)
(* and every call still waiting is paid for by an entry on record or by    *)
(* one the agent has forgotten.                                            *)
(***************************************************************************)
EXTENDS AgentApi, FiniteSetTheorems, SequenceTheorems, TLAPS

Places == {"new", "rejected", "duplicate"} \cup Admitted

(* What a step that only moves handlers may do to the queue. *)
LEMMA TailOfWaiting ==
  ASSUME TypeOK, waiting # <<>>
  PROVE  /\ Head(waiting) = waiting[1] /\ 1 \in DOMAIN waiting
         /\ Tail(waiting) \in Seq(Calls)
         /\ \A k \in DOMAIN Tail(waiting) :
              k + 1 \in DOMAIN waiting /\ Tail(waiting)[k] = waiting[k + 1]
<1>1. waiting \in Seq(Calls)
  BY DEF TypeOK
<1>2. /\ Tail(waiting) \in Seq(Calls) /\ Len(Tail(waiting)) = Len(waiting) - 1
      /\ \A k \in 1..Len(Tail(waiting)) : Tail(waiting)[k] = waiting[k + 1]
  BY <1>1, HeadTailProperties
<1>3. Len(waiting) \in Nat /\ Len(waiting) # 0 /\ DOMAIN waiting = 1..Len(waiting)
  BY <1>1, EmptySeq, LenProperties
<1>4. DOMAIN Tail(waiting) = 1..(Len(waiting) - 1)
  BY <1>2, LenProperties
<1>5. Head(waiting) = waiting[1]
  BY DEF Head
<1>6. QED
  BY <1>2, <1>3, <1>4, <1>5

(* A queue keeps its other members, in their order, when one leaves it. *)
LEMMA QueueWithoutOne ==
  ASSUME NEW S, NEW q \in Seq(S), NEW k \in DOMAIN q
  PROVE  /\ RemoveAt(q, k) \in Seq(S)
         /\ DOMAIN RemoveAt(q, k) = 1..(Len(q) - 1)
         /\ \A i \in 1..(Len(q) - 1) : RemoveAt(q, k)[i] = IF i < k THEN q[i] ELSE q[i + 1]
<1> DEFINE front == SubSeq(q, 1, k - 1)
           back  == SubSeq(q, k + 1, Len(q))
<1>1. Len(q) \in Nat /\ k \in 1..Len(q) /\ \A i \in 1..Len(q) : q[i] \in S
  BY LenProperties, ElementOfSeq
<1>2. /\ front \in Seq(S) /\ Len(front) = k - 1
      /\ \A i \in 1..(k - 1) : front[i] = q[i]
  BY <1>1, SubSeqProperties
<1>3. /\ back \in Seq(S) /\ Len(back) = Len(q) - k
      /\ \A i \in 1..(Len(q) - k) : back[i] = q[k + i]
  BY <1>1, SubSeqProperties
<1>4. RemoveAt(q, k) = front \o back
  BY DEF RemoveAt
<1>5. /\ front \o back \in Seq(S) /\ Len(front \o back) = Len(q) - 1
      /\ \A i \in 1..(Len(q) - 1) :
           (front \o back)[i] = IF i <= k - 1 THEN front[i] ELSE back[i - (k - 1)]
  <2> HIDE DEF front, back
  <2>1. Len(front) + Len(back) = Len(q) - 1
    BY <1>1, <1>2, <1>3
  <2>2. /\ front \o back \in Seq(S) /\ Len(front \o back) = Len(front) + Len(back)
        /\ \A i \in 1..(Len(front) + Len(back)) :
             (front \o back)[i] = IF i <= Len(front) THEN front[i] ELSE back[i - Len(front)]
    BY <1>2, <1>3, ConcatProperties
  <2>3. QED
    BY <1>2, <2>1, <2>2
<1>6. DOMAIN (front \o back) = 1..(Len(q) - 1)
  BY <1>5, LenProperties
<1>7. ASSUME NEW i \in 1..(Len(q) - 1)
      PROVE  (front \o back)[i] = IF i < k THEN q[i] ELSE q[i + 1]
  <2> HIDE DEF front, back
  <2>1. CASE i < k
    BY <1>1, <1>2, <1>5, <2>1
  <2>2. CASE ~ (i < k)
    <3>1. i - (k - 1) \in 1..(Len(q) - k) /\ k + (i - (k - 1)) = i + 1
      BY <1>1, <2>2
    <3>2. (front \o back)[i] = back[i - (k - 1)]
      BY <1>1, <1>5, <2>2
    <3>3. QED
      BY <1>3, <2>2, <3>1, <3>2
  <2>3. QED
    BY <2>1, <2>2
<1>8. QED
  BY <1>4, <1>5, <1>6, <1>7

-------------------------------------------------------------------------------
(* The inductive invariant. *)

(* The permit is with the handler at work, and only a handler at work or one
   that is gone has a command on the host. *)
Permit ==
    /\ \A c \in Calls : at[c] = "working" <=> holder = c
    /\ \A c \in running : at[c] \in {"working", "dropped"}

(* The queue holds the waiting handlers, each once, and nobody else. *)
Queue ==
    /\ \A k \in DOMAIN waiting : at[waiting[k]] = "waiting"
    /\ \A j, k \in DOMAIN waiting : waiting[j] = waiting[k] => j = k
    /\ \A c \in Calls : at[c] = "waiting" => \E k \in DOMAIN waiting : waiting[k] = c

Named == \A c \in Calls : at[c] = "waiting" => id[c] \in Ids

(* The account of an id: an operation dispatched or about to be is paid for by
   the entry on record or by one that was forgotten. *)
Waits(i)    == {c \in Calls : at[c] = "waiting" /\ id[c] = i}
OnRecord(i) == IF i \in seen THEN 1 ELSE 0
Account ==
    \A i \in Ids :
        /\ IsFiniteSet(Waits(i))
        /\ executed[i] + Cardinality(Waits(i)) <= forgotten[i] + OnRecord(i)

IInv == TypeOK /\ Permit /\ Queue /\ Named /\ Account
-------------------------------------------------------------------------------
LEMMA InitInv == AgentAssumption /\ Init => IInv
<1> SUFFICES ASSUME AgentAssumption, Init PROVE IInv
  OBVIOUS
<1> USE DEF Init
<1>1. TypeOK
  BY EmptySeq DEF TypeOK, Admitted
<1>2. Permit
  BY DEF Permit, AgentAssumption
<1>3. Queue
  BY DEF Queue
<1>4. Named
  BY DEF Named
<1>5. Account
  <2> SUFFICES ASSUME NEW i \in Ids
               PROVE  /\ IsFiniteSet(Waits(i))
                      /\ executed[i] + Cardinality(Waits(i)) <= forgotten[i] + OnRecord(i)
    BY DEF Account
  <2>1. Waits(i) = {}
    BY DEF Waits
  <2>2. IsFiniteSet(Waits(i)) /\ Cardinality(Waits(i)) = 0
    BY <2>1, FS_EmptySet
  <2>3. QED
    BY <2>2 DEF OnRecord
<1>6. QED
  BY <1>1, <1>2, <1>3, <1>4, <1>5 DEF IInv

(* A handler that leaves the queue. *)
LEMMA LeavingTypes ==
  ASSUME TypeOK, NEW c \in Calls, LeavesQueue(c)
  PROVE  waiting' \in Seq(Calls)
BY QueueWithoutOne DEF TypeOK, LeavesQueue

(* Every step keeps the types. *)
LEMMA TypeStep ==
  ASSUME AgentAssumption, TypeOK, [Next]_vars
  PROVE  TypeOK'
<1> USE DEF Admitted
<1>1. ASSUME NEW c \in Calls, Reject(c) PROVE TypeOK'
  BY <1>1 DEF TypeOK, Reject, lock, memory, observed
<1>2. ASSUME NEW c \in Calls, NEW i \in Ids, Admit(c, i) PROVE TypeOK'
  <2>1. waiting' \in Seq(Calls)
    <3>1. waiting \in Seq(Calls) /\ Append(waiting, c) \in Seq(Calls)
      BY AppendProperties DEF TypeOK
    <3>2. QED
      BY <1>2, <3>1 DEF Admit
  <2>2. forgotten' \in [Ids -> Nat]
    BY <1>2 DEF TypeOK, Admit, Forget
  <2>3. at' \in [Calls -> {"new", "rejected", "duplicate"} \cup Admitted]
    BY <1>2 DEF TypeOK, Admit
  <2>4. QED
    BY <1>2, <2>1, <2>2, <2>3 DEF TypeOK, Admit
<1>3. ASSUME NEW c \in Calls, Dispatch(c) PROVE TypeOK'
  <2>1. waiting' \in Seq(Calls)
    BY <1>3, TailOfWaiting DEF Dispatch
  <2>2. executed' \in [Ids -> Nat]
    <3>1. executed \in [Ids -> Nat] /\ executed' = [executed EXCEPT ![id[c]] = @ + 1]
      BY <1>3 DEF TypeOK, Dispatch
    <3>2. CASE id[c] \in Ids
      BY <3>1, <3>2
    <3>3. CASE id[c] \notin Ids
      BY <3>1, <3>3
    <3>4. QED
      BY <3>2, <3>3
  <2>3. left' \in [Calls -> Nat]
    BY <1>3 DEF TypeOK, Dispatch, AgentAssumption
  <2>4. QED
    BY <1>3, <2>1, <2>2, <2>3 DEF TypeOK, Dispatch, memory
<1>4. ASSUME NEW c \in Calls, StartCommand(c) PROVE TypeOK'
  BY <1>4 DEF TypeOK, StartCommand, lock, memory, observed
<1>5. ASSUME NEW c \in Calls, Answer(c) PROVE TypeOK'
  BY <1>5 DEF TypeOK, Answer, memory, observed
<1>6. ASSUME NEW c \in Calls, CommandEnds(c) PROVE TypeOK'
  BY <1>6 DEF TypeOK, CommandEnds, lock, memory, observed
<1>7. ASSUME NEW c \in Calls, Drop(c) PROVE TypeOK'
  <2>1. waiting' \in Seq(Calls)
    BY <1>7, LeavingTypes DEF TypeOK, Drop
  <2>2. QED
    BY <1>7, <2>1 DEF TypeOK, Drop, memory, observed
<1>8. ASSUME NEW i \in Ids, Age(i) PROVE TypeOK'
  BY <1>8 DEF TypeOK, Age, handler, lock, observed
<1>9. ASSUME Restart PROVE TypeOK'
  <2>1. waiting' \in Seq(Calls)
    BY <1>9, EmptySeq DEF Restart
  <2>2. forgotten' \in [Ids -> Nat]
    BY <1>9 DEF TypeOK, Restart, Forget
  <2>3. QED
    BY <1>9, <2>1, <2>2 DEF TypeOK, Restart
<1>10. ASSUME UNCHANGED vars PROVE TypeOK'
  BY <1>10 DEF TypeOK, vars, handler, lock, memory, observed
<1>11. QED
  BY <1>1, <1>2, <1>3, <1>4, <1>5, <1>6, <1>7, <1>8, <1>9, <1>10 DEF Next, Handle
-------------------------------------------------------------------------------
(* The queue as its members come and go. *)

LEMMA QueueGrows ==
  ASSUME TypeOK, Queue, NEW c \in Calls, at[c] # "waiting",
         waiting' = Append(waiting, c), at' = [at EXCEPT ![c] = "waiting"]
  PROVE  Queue'
<1>1. /\ waiting \in Seq(Calls) /\ Len(waiting) \in Nat /\ DOMAIN waiting = 1..Len(waiting)
      /\ \A k \in DOMAIN waiting : waiting[k] \in Calls
  BY LenProperties, ElementOfSeq DEF TypeOK
<1>2. /\ DOMAIN waiting' = 1..(Len(waiting) + 1)
      /\ \A k \in 1..Len(waiting) : waiting'[k] = waiting[k]
      /\ waiting'[Len(waiting) + 1] = c
  BY <1>1, AppendProperties, LenProperties
<1>3. at \in [Calls -> Places]
  BY DEF TypeOK, Places
<1>4. \A k \in DOMAIN waiting : waiting[k] # c
  BY DEF Queue
<1>5. \A k \in DOMAIN waiting' : at'[waiting'[k]] = "waiting"
  BY <1>1, <1>2, <1>3 DEF Queue
<1>6. \A j, k \in DOMAIN waiting' : waiting'[j] = waiting'[k] => j = k
  BY <1>1, <1>2, <1>4 DEF Queue
<1>7. ASSUME NEW d \in Calls, at'[d] = "waiting" PROVE \E k \in DOMAIN waiting' : waiting'[k] = d
  <2>1. CASE d = c
    BY <1>1, <1>2, <2>1
  <2>2. CASE d # c
    <3>1. PICK k \in DOMAIN waiting : waiting[k] = d
      BY <1>3, <1>7, <2>2 DEF Queue
    <3>2. QED
      BY <1>1, <1>2, <3>1
  <2>3. QED
    BY <2>1, <2>2
<1>8. QED
  BY <1>5, <1>6, <1>7 DEF Queue

LEMMA QueueShrinks ==
  ASSUME TypeOK, Queue, NEW p \in DOMAIN waiting, NEW to, to # "waiting",
         waiting' = RemoveAt(waiting, p), at' = [at EXCEPT ![waiting[p]] = to]
  PROVE  Queue'
<1>1. /\ waiting \in Seq(Calls) /\ Len(waiting) \in Nat /\ DOMAIN waiting = 1..Len(waiting)
      /\ \A k \in DOMAIN waiting : waiting[k] \in Calls
  BY LenProperties, ElementOfSeq DEF TypeOK
<1>2. /\ DOMAIN waiting' = 1..(Len(waiting) - 1)
      /\ \A k \in 1..(Len(waiting) - 1) :
           waiting'[k] = IF k < p THEN waiting[k] ELSE waiting[k + 1]
  BY <1>1, QueueWithoutOne
<1>3. at \in [Calls -> Places]
  BY DEF TypeOK, Places
<1>4. \A k \in DOMAIN waiting' : at'[waiting'[k]] = "waiting"
  <2> TAKE k \in DOMAIN waiting'
  <2> DEFINE l == IF k < p THEN k ELSE k + 1
  <2>1. l \in DOMAIN waiting /\ l # p /\ waiting'[k] = waiting[l]
    BY <1>1, <1>2
  <2> HIDE DEF l
  <2>2. waiting[l] # waiting[p]
    BY <2>1 DEF Queue
  <2>3. QED
    BY <1>1, <1>3, <2>1, <2>2 DEF Queue
<1>5. \A j, k \in DOMAIN waiting' : waiting'[j] = waiting'[k] => j = k
  <2> TAKE j, k \in DOMAIN waiting'
  <2> DEFINE old(n) == IF n < p THEN n ELSE n + 1
  <2>1. /\ old(j) \in DOMAIN waiting /\ waiting'[j] = waiting[old(j)]
        /\ old(k) \in DOMAIN waiting /\ waiting'[k] = waiting[old(k)]
    BY <1>1, <1>2
  <2>2. old(j) = old(k) => j = k
    <3>1. j \in Nat /\ k \in Nat /\ p \in Nat
      BY <1>1, <1>2
    <3>2. QED
      BY <3>1
  <2> HIDE DEF old
  <2>3. QED
    BY <2>1, <2>2 DEF Queue
<1>6. ASSUME NEW d \in Calls, at'[d] = "waiting" PROVE \E k \in DOMAIN waiting' : waiting'[k] = d
  <2>1. d # waiting[p] /\ at[d] = "waiting"
    BY <1>1, <1>3, <1>6
  <2>2. PICK l \in DOMAIN waiting : waiting[l] = d
    BY <2>1 DEF Queue
  <2>3. CASE l < p
    BY <1>1, <1>2, <2>2, <2>3
  <2>4. CASE l > p
    <3>1. l - 1 \in DOMAIN waiting' /\ waiting'[l - 1] = waiting[l]
      BY <1>1, <1>2, <2>4
    <3>2. QED
      BY <2>2, <3>1
  <2>5. QED
    BY <1>1, <2>1, <2>2, <2>3, <2>4
<1>7. QED
  BY <1>4, <1>5, <1>6 DEF Queue

LEMMA QueueStays ==
  ASSUME TypeOK, Queue, UNCHANGED waiting,
         NEW c \in Calls, NEW to, at[c] # "waiting", to # "waiting", at' = [at EXCEPT ![c] = to]
  PROVE  Queue'
<1>1. \A d \in Calls : at[d] = "waiting" <=> at'[d] = "waiting"
  BY DEF TypeOK
<1>2. \A k \in DOMAIN waiting : waiting[k] \in Calls
  BY ElementOfSeq, LenProperties DEF TypeOK
<1>3. QED
  BY <1>1, <1>2 DEF Queue

(* Every step keeps the permit with the handler at work. *)
LEMMA PermitStep ==
  ASSUME AgentAssumption, TypeOK, Permit, Queue, [Next]_vars
  PROVE  Permit'
<1> USE DEF Admitted
<1>0. at \in [Calls -> Places] /\ running \subseteq Calls /\ None \notin Calls
  BY DEF TypeOK, Places, AgentAssumption
<1>1. ASSUME NEW c \in Calls, Reject(c) PROVE Permit'
  BY <1>0, <1>1 DEF Permit, Reject, lock
<1>2. ASSUME NEW c \in Calls, NEW i \in Ids, Admit(c, i) PROVE Permit'
  BY <1>0, <1>2 DEF Permit, Admit
<1>3. ASSUME NEW c \in Calls, Dispatch(c) PROVE Permit'
  BY <1>0, <1>3 DEF Permit, Dispatch
<1>4. ASSUME NEW c \in Calls, StartCommand(c) PROVE Permit'
  BY <1>0, <1>4 DEF Permit, StartCommand, lock
<1>5. ASSUME NEW c \in Calls, Answer(c) PROVE Permit'
  BY <1>0, <1>5 DEF Permit, Answer
<1>6. ASSUME NEW c \in Calls, CommandEnds(c) PROVE Permit'
  BY <1>0, <1>6 DEF Permit, CommandEnds, lock
<1>7. ASSUME NEW c \in Calls, Drop(c) PROVE Permit'
  BY <1>0, <1>7 DEF Permit, Drop
<1>8. ASSUME NEW i \in Ids, Age(i) PROVE Permit'
  BY <1>8 DEF Permit, Age, handler, lock
<1>9. ASSUME Restart PROVE Permit'
  BY <1>0, <1>9 DEF Permit, Restart
<1>10. ASSUME UNCHANGED vars PROVE Permit'
  BY <1>10 DEF Permit, vars, handler, lock
<1>11. QED
  BY <1>1, <1>2, <1>3, <1>4, <1>5, <1>6, <1>7, <1>8, <1>9, <1>10 DEF Next, Handle

(* Every step keeps the queue the list of those that wait. *)
LEMMA QueueStep ==
  ASSUME AgentAssumption, TypeOK, Permit, Queue, [Next]_vars
  PROVE  Queue'
<1>1. ASSUME NEW c \in Calls, Reject(c) PROVE Queue'
  BY <1>1, QueueStays DEF Reject, lock
<1>2. ASSUME NEW c \in Calls, NEW i \in Ids, Admit(c, i) PROVE Queue'
  <2>1. CASE i \in seen \ aged
    BY <1>2, <2>1, QueueStays DEF Admit
  <2>2. CASE i \notin seen \ aged
    BY <1>2, <2>2, QueueGrows DEF Admit
  <2>3. QED
    BY <2>1, <2>2
<1>3. ASSUME NEW c \in Calls, Dispatch(c) PROVE Queue'
  <2>1. 1 \in DOMAIN waiting /\ waiting[1] = c
    BY <1>3, TailOfWaiting DEF Dispatch
  <2>2. waiting' = RemoveAt(waiting, 1)
    <3>1. waiting \in Seq(Calls)
      BY DEF TypeOK
    <3>2. /\ RemoveAt(waiting, 1) \in Seq(Calls) /\ Len(RemoveAt(waiting, 1)) = Len(waiting) - 1
          /\ \A i \in 1..(Len(waiting) - 1) : RemoveAt(waiting, 1)[i] = waiting[i + 1]
      <4>1. /\ RemoveAt(waiting, 1) \in Seq(Calls)
            /\ DOMAIN RemoveAt(waiting, 1) = 1..(Len(waiting) - 1)
            /\ \A i \in 1..(Len(waiting) - 1) :
                 RemoveAt(waiting, 1)[i] = IF i < 1 THEN waiting[i] ELSE waiting[i + 1]
        BY <2>1, <3>1, QueueWithoutOne
      <4>2. Len(waiting) - 1 \in Nat
        BY <2>1, <3>1, LenProperties
      <4>3. QED
        BY <4>1, <4>2, LenProperties
    <3>3. /\ Tail(waiting) \in Seq(Calls) /\ Len(Tail(waiting)) = Len(waiting) - 1
          /\ \A i \in 1..Len(Tail(waiting)) : Tail(waiting)[i] = waiting[i + 1]
      BY <1>3, <3>1, HeadTailProperties DEF Dispatch
    <3>4. Tail(waiting) = RemoveAt(waiting, 1)
      BY <3>2, <3>3, SeqEqual
    <3>5. QED
      BY <1>3, <3>4 DEF Dispatch
  <2>3. at' = [at EXCEPT ![waiting[1]] = "working"]
    BY <1>3, <2>1 DEF Dispatch
  <2>4. QED
    BY <2>1, <2>2, <2>3, QueueShrinks
<1>4. ASSUME NEW c \in Calls, StartCommand(c) PROVE Queue'
  BY <1>4 DEF Queue, StartCommand, lock
<1>5. ASSUME NEW c \in Calls, Answer(c) PROVE Queue'
  BY <1>5, QueueStays DEF Answer
<1>6. ASSUME NEW c \in Calls, CommandEnds(c) PROVE Queue'
  BY <1>6 DEF Queue, CommandEnds, lock
<1>7. ASSUME NEW c \in Calls, Drop(c) PROVE Queue'
  <2>1. CASE at[c] = "waiting"
    <3>1. PICK k \in DOMAIN waiting : waiting[k] = c /\ waiting' = RemoveAt(waiting, k)
      BY <1>7, <2>1 DEF Drop, LeavesQueue
    <3>2. at' = [at EXCEPT ![waiting[k]] = "dropped"]
      BY <1>7, <3>1 DEF Drop
    <3>3. QED
      BY <3>1, <3>2, QueueShrinks
  <2>2. CASE at[c] # "waiting"
    BY <1>7, <2>2, QueueStays DEF Drop
  <2>3. QED
    BY <2>1, <2>2
<1>8. ASSUME NEW i \in Ids, Age(i) PROVE Queue'
  BY <1>8 DEF Queue, Age, handler, lock
<1>9. ASSUME Restart PROVE Queue'
  <2>1. \A c \in Calls : at'[c] # "waiting"
    BY <1>9 DEF Restart
  <2>2. DOMAIN waiting' = {}
    BY <1>9 DEF Restart
  <2>3. QED
    BY <2>1, <2>2 DEF Queue
<1>10. ASSUME UNCHANGED vars PROVE Queue'
  BY <1>10 DEF Queue, vars, handler, lock
<1>11. QED
  BY <1>1, <1>2, <1>3, <1>4, <1>5, <1>6, <1>7, <1>8, <1>9, <1>10 DEF Next, Handle
-------------------------------------------------------------------------------
(* The account. *)

LEMMA NamedStep ==
  ASSUME TypeOK, Named, [Next]_vars
  PROVE  Named'
<1> USE DEF Admitted
<1>0. at \in [Calls -> Places] /\ id \in [Calls -> Ids \cup {None}]
  BY DEF TypeOK, Places
<1>1. ASSUME NEW c \in Calls, NEW i \in Ids, Admit(c, i) PROVE Named'
  BY <1>0, <1>1 DEF Named, Admit
<1>2. ASSUME NEW c \in Calls, Reject(c) \/ Handle(c) \/ CommandEnds(c) \/ Drop(c) PROVE Named'
  BY <1>0, <1>2 DEF Named, Reject, Handle, Dispatch, StartCommand, Answer, CommandEnds, Drop
<1>3. ASSUME NEW i \in Ids, Age(i) PROVE Named'
  BY <1>3 DEF Named, Age, handler
<1>4. ASSUME Restart PROVE Named'
  BY <1>0, <1>4 DEF Named, Restart
<1>5. ASSUME UNCHANGED vars PROVE Named'
  BY <1>5 DEF Named, vars, handler
<1>6. QED
  BY <1>1, <1>2, <1>3, <1>4, <1>5 DEF Next

(* A handler that stops waiting is taken off its id's account, and off no other. *)
LEMMA WaitsShrink ==
  ASSUME TypeOK, Account, NEW c \in Calls, NEW to, to # "waiting",
         at' = [at EXCEPT ![c] = to], UNCHANGED id, NEW i \in Ids
  PROVE  /\ IsFiniteSet(Waits(i)) /\ Cardinality(Waits(i)) \in Nat
         /\ IsFiniteSet(Waits(i)') /\ Cardinality(Waits(i)') \in Nat
         /\ Cardinality(Waits(i)') =
              IF at[c] = "waiting" /\ id[c] = i THEN Cardinality(Waits(i)) - 1
                                                ELSE Cardinality(Waits(i))
<1>1. IsFiniteSet(Waits(i)) /\ Cardinality(Waits(i)) \in Nat
  BY FS_CardinalityType DEF Account
<1>2. Waits(i)' = Waits(i) \ {c}
  BY DEF Waits, TypeOK
<1>3. c \in Waits(i) <=> at[c] = "waiting" /\ id[c] = i
  BY DEF Waits
<1>4. /\ IsFiniteSet(Waits(i) \ {c})
      /\ Cardinality(Waits(i) \ {c}) =
           IF c \in Waits(i) THEN Cardinality(Waits(i)) - 1 ELSE Cardinality(Waits(i))
  BY <1>1, FS_RemoveElement
<1>5. Cardinality(Waits(i) \ {c}) \in Nat
  BY <1>4, FS_CardinalityType
<1>6. QED
  BY <1>1, <1>2, <1>3, <1>4, <1>5

(* Forgetting an id and losing its entry cancel out. *)
LEMMA ForgetCounts ==
  ASSUME TypeOK, NEW ids \in SUBSET seen, Forget(ids), NEW i \in Ids
  PROVE  forgotten[i] \in Nat /\ forgotten'[i] = forgotten[i] + (IF i \in ids THEN 1 ELSE 0)
BY DEF TypeOK, Forget

LEMMA AdmitAccount ==
  ASSUME AgentAssumption, TypeOK, Account, NEW c \in Calls, NEW n \in Ids, Admit(c, n)
  PROVE  Account'
<1> SUFFICES ASSUME NEW i \in Ids
             PROVE  /\ IsFiniteSet(Waits(i)')
                    /\ executed'[i] + Cardinality(Waits(i)') <= forgotten'[i] + OnRecord(i)'
  BY DEF Account
<1> DEFINE new == i = n /\ n \notin seen \ aged
<1>1. /\ IsFiniteSet(Waits(i)) /\ Cardinality(Waits(i)) \in Nat
      /\ executed[i] + Cardinality(Waits(i)) <= forgotten[i] + OnRecord(i)
      /\ executed'[i] = executed[i] /\ executed[i] \in Nat
  BY FS_CardinalityType DEF Account, TypeOK, Admit
<1>2. forgotten[i] \in Nat /\ forgotten'[i] = forgotten[i] + (IF i \in aged THEN 1 ELSE 0)
  BY ForgetCounts DEF Admit, TypeOK
<1>3. OnRecord(i)' = IF i \in (seen \ aged) \cup {n} THEN 1 ELSE 0
  BY DEF OnRecord, Admit
<1>4. at \in [Calls -> Places] /\ id \in [Calls -> Ids \cup {None}] /\ at[c] = "new" /\ c \notin Waits(i)
  BY DEF TypeOK, Places, Admit, Admitted, Waits
<1>5. Waits(i)' = IF new THEN Waits(i) \cup {c} ELSE Waits(i)
  BY <1>4 DEF Waits, Admit
<1>6. /\ IsFiniteSet(Waits(i) \cup {c})
      /\ Cardinality(Waits(i) \cup {c}) = Cardinality(Waits(i)) + 1
  BY <1>1, <1>4, FS_AddElement
<1>7. aged \subseteq seen
  BY DEF TypeOK
<1>8. CASE new
  BY <1>1, <1>2, <1>3, <1>5, <1>6, <1>7, <1>8 DEF OnRecord
<1>9. CASE ~ new
  BY <1>1, <1>2, <1>3, <1>5, <1>7, <1>9 DEF OnRecord
<1>10. QED
  BY <1>8, <1>9

(* Every step keeps the accounts. *)
LEMMA AccountStep ==
  ASSUME AgentAssumption, TypeOK, Permit, Queue, Named, Account, [Next]_vars
  PROVE  Account'
<1>1. ASSUME NEW c \in Calls, NEW i \in Ids, Admit(c, i) PROVE Account'
  BY <1>1, AdmitAccount
<1>2. ASSUME NEW c \in Calls, Dispatch(c) PROVE Account'
  <2>1. at[c] = "waiting" /\ id[c] \in Ids
    <3>1. 1 \in DOMAIN waiting /\ waiting[1] = c
      BY <1>2, TailOfWaiting DEF Dispatch
    <3>2. QED
      BY <3>1 DEF Queue, Named
  <2> SUFFICES ASSUME NEW i \in Ids
               PROVE  /\ IsFiniteSet(Waits(i)')
                      /\ executed'[i] + Cardinality(Waits(i)') <= forgotten'[i] + OnRecord(i)'
    BY DEF Account
  <2>2. /\ executed[i] + Cardinality(Waits(i)) <= forgotten[i] + OnRecord(i)
        /\ executed[i] \in Nat /\ forgotten[i] \in Nat /\ OnRecord(i) \in Nat
    BY DEF Account, TypeOK, OnRecord
  <2>3. executed'[i] = IF id[c] = i THEN executed[i] + 1 ELSE executed[i]
    BY <1>2 DEF TypeOK, Dispatch
  <2>4. /\ Cardinality(Waits(i)) \in Nat /\ IsFiniteSet(Waits(i)') /\ Cardinality(Waits(i)') \in Nat
        /\ Cardinality(Waits(i)') = IF id[c] = i THEN Cardinality(Waits(i)) - 1
                                                 ELSE Cardinality(Waits(i))
    BY <1>2, <2>1, WaitsShrink DEF Dispatch
  <2>5. forgotten' = forgotten /\ OnRecord(i)' = OnRecord(i)
    BY <1>2 DEF Dispatch, memory, OnRecord
  <2>6. QED
    BY <2>2, <2>3, <2>4, <2>5
<1>3. ASSUME NEW c \in Calls, NEW to, to # "waiting", at' = [at EXCEPT ![c] = to],
             UNCHANGED <<id, seen, executed, forgotten>>
      PROVE  Account'
  <2> SUFFICES ASSUME NEW i \in Ids
               PROVE  /\ IsFiniteSet(Waits(i)')
                      /\ executed'[i] + Cardinality(Waits(i)') <= forgotten'[i] + OnRecord(i)'
    BY DEF Account
  <2>1. /\ executed[i] + Cardinality(Waits(i)) <= forgotten[i] + OnRecord(i)
        /\ executed[i] \in Nat /\ forgotten[i] \in Nat /\ OnRecord(i) \in Nat
    BY DEF Account, TypeOK, OnRecord
  <2>2. /\ Cardinality(Waits(i)) \in Nat /\ IsFiniteSet(Waits(i)') /\ Cardinality(Waits(i)') \in Nat
        /\ Cardinality(Waits(i)') <= Cardinality(Waits(i))
    <3>1. at' = [at EXCEPT ![c] = to] /\ UNCHANGED id /\ to # "waiting"
      BY <1>3
    <3>2. /\ Cardinality(Waits(i)) \in Nat /\ IsFiniteSet(Waits(i)') /\ Cardinality(Waits(i)') \in Nat
          /\ Cardinality(Waits(i)') =
               IF at[c] = "waiting" /\ id[c] = i THEN Cardinality(Waits(i)) - 1
                                                 ELSE Cardinality(Waits(i))
      BY <3>1, WaitsShrink
    <3>3. QED
      BY <3>2
  <2>3. OnRecord(i)' = OnRecord(i)
    BY <1>3 DEF OnRecord
  <2>4. QED
    BY <1>3, <2>1, <2>2, <2>3
<1>4. ASSUME UNCHANGED <<at, id, seen, executed, forgotten>> PROVE Account'
  BY <1>4 DEF Account, Waits, OnRecord
<1>5. ASSUME NEW c \in Calls, Reject(c) \/ Answer(c) \/ Drop(c) PROVE Account'
  BY <1>3, <1>5 DEF Reject, Answer, Drop, memory, observed
<1>6. ASSUME NEW c \in Calls, StartCommand(c) \/ CommandEnds(c) PROVE Account'
  BY <1>4, <1>6 DEF StartCommand, CommandEnds, memory, observed
<1>7. ASSUME NEW i \in Ids, Age(i) PROVE Account'
  BY <1>4, <1>7 DEF Age, handler, observed
<1>8. ASSUME Restart PROVE Account'
  <2> SUFFICES ASSUME NEW i \in Ids
               PROVE  /\ IsFiniteSet(Waits(i)')
                      /\ executed'[i] + Cardinality(Waits(i)') <= forgotten'[i] + OnRecord(i)'
    BY DEF Account
  <2>1. Waits(i)' = {}
    BY <1>8 DEF Waits, Restart
  <2>2. IsFiniteSet(Waits(i)') /\ Cardinality(Waits(i)') = 0
    BY <2>1, FS_EmptySet
  <2>3. /\ executed[i] + Cardinality(Waits(i)) <= forgotten[i] + OnRecord(i)
        /\ executed[i] \in Nat /\ Cardinality(Waits(i)) \in Nat /\ executed' = executed
    BY <1>8, FS_CardinalityType DEF Account, TypeOK, Restart
  <2>4. forgotten[i] \in Nat /\ forgotten'[i] = forgotten[i] + (IF i \in seen THEN 1 ELSE 0)
    BY <1>8, ForgetCounts DEF Restart
  <2>5. OnRecord(i)' = 0
    BY <1>8 DEF OnRecord, Restart
  <2>6. QED
    BY <2>2, <2>3, <2>4, <2>5 DEF OnRecord
<1>9. ASSUME UNCHANGED vars PROVE Account'
  BY <1>4, <1>9 DEF vars, handler, memory, observed
<1>10. QED
  BY <1>1, <1>2, <1>5, <1>6, <1>7, <1>8, <1>9 DEF Next, Handle
-------------------------------------------------------------------------------
(* The inductive invariant holds of every reachable state. *)
THEOREM InvariantHolds == Spec => []IInv
<1>1. Init => IInv
  BY InitInv, AgentAssumption
<1>2. IInv /\ [Next]_vars => IInv'
  BY AgentAssumption, TypeStep, PermitStep, QueueStep, NamedStep, AccountStep DEF IInv
<1>3. QED
  BY <1>1, <1>2, PTL DEF Spec

(* Every variable of the agent's endpoint keeps its type; in particular what
   has aged is on record, since already_handled looks before it answers. *)
THEOREM TypeCorrect == Spec => []TypeOK
<1>1. IInv => TypeOK
  BY DEF IInv
<1>2. QED
  BY <1>1, InvariantHolds, PTL

(* already_handled, operations: however many calls carry one request_id, and
   wherever clients hang up or the agent restarts, an operation is dispatched
   again only after its id was forgotten. *)
THEOREM OneOperationPerId == Spec => []RepeatedOnlyIfForgotten
<1>1. IInv => RepeatedOnlyIfForgotten
  <2> SUFFICES ASSUME IInv, NEW i \in Ids PROVE executed[i] <= forgotten[i] + 1
    BY DEF RepeatedOnlyIfForgotten
  <2>1. /\ executed[i] \in Nat /\ forgotten[i] \in Nat /\ Cardinality(Waits(i)) \in Nat
        /\ executed[i] + Cardinality(Waits(i)) <= forgotten[i] + OnRecord(i)
    BY FS_CardinalityType DEF IInv, TypeOK, Account
  <2>2. QED
    BY <2>1 DEF OnRecord
<1>2. QED
  BY <1>1, InvariantHolds, PTL

(* The permit of operations: of two commands that run on the host at once, one
   belongs to a client that hung up. *)
THEOREM OverlapNeedsAHangUp == Spec => []OverlapOnlyByDrop
<1>1. IInv => OverlapOnlyByDrop
  <2> SUFFICES ASSUME IInv, NEW c \in running, NEW d \in running, c # d
               PROVE  at[c] = "dropped" \/ at[d] = "dropped"
    BY DEF OverlapOnlyByDrop
  <2>1. c \in Calls /\ d \in Calls
    BY DEF IInv, TypeOK
  <2>2. QED
    BY <2>1 DEF IInv, Permit
<1>2. QED
  BY <1>1, InvariantHolds, PTL
===============================================================================
