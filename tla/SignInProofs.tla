----------------------------- MODULE SignInProofs ------------------------------
(***************************************************************************)
(* Proofs about SignIn, for any number of browsers and any limit of        *)
(* failures.  The argument: a request that saw the account ask for a code  *)
(* all along means that it asks for one now; a confirm either has the      *)
(* secret of now or somebody overwrote what it read; and every check under *)
(* way was admitted below the limit, so the failures on record and the     *)
(* checks under way together are bounded.                                  *)
(***************************************************************************)
EXTENDS SignIn, FiniteSetTheorems, TLAPS

(* What a request holds of the account is still so.  A session is opened on *)
(* a code where one was asked for; a confirm knows the secret of now, or    *)
(* what it knows was overwritten.                                           *)
RequestsKnow == \A b \in Browsers : at[b] # Idle =>
    /\ at[b].guarded => confirmed
    /\ At(b, "session") => (at[b].guarded => at[b].code)
    /\ At(b, "confirm") => (at[b].same => secret)
    /\ At(b, "confirm") /\ ~at[b].same => (secret /\ proven) \/ overwritten

(* The checks that may still end as a failure. *)
Checking == {b \in Browsers : at[b].step \in {"password", "code", "failed"}}

(* ChecksBounded holds whatever becomes of the checks under way. *)
ChecksAhead ==
    attempts.checked + Cardinality(Checking) <= MaxFailures - 1 + Cardinality(Browsers)

(* The inductive invariant. *)
IInv ==
    /\ TypeOK
    /\ RequestsKnow
    /\ ChecksAhead
    /\ SecondFactorHeld
    /\ UnprovenOnlyByOverwrite

(* A request is never the idle one. *)
LEMMA IdleIsNone == Idle \notin Request /\ Idle.step = "idle"
  BY DEF Idle, Request

(* Cardinalities of sets of browsers are numbers that grow with the set. *)
LEMMA CountGrows ==
  ASSUME NEW S \in SUBSET Browsers, NEW T \in SUBSET S
  PROVE  /\ Cardinality(S) \in Nat /\ Cardinality(T) \in Nat
         /\ Cardinality(T) <= Cardinality(S)
<1>1. IsFiniteSet(S)
  BY SignInAssumption, FS_Subset
<1>2. QED
  BY <1>1, FS_Subset, FS_CardinalityType

LEMMA InitEstablishes == Init => IInv
<1> SUFFICES ASSUME Init PROVE IInv
  OBVIOUS
<1>1. TypeOK
  BY DEF Init, TypeOK, Basis
<1>2. RequestsKnow /\ SecondFactorHeld /\ UnprovenOnlyByOverwrite
  BY DEF Init, RequestsKnow, SecondFactorHeld, UnprovenOnlyByOverwrite
<1>3. ChecksAhead
  <2>1. Checking = {}
    BY IdleIsNone DEF Init, Checking
  <2>2. Cardinality(Checking) = 0 /\ Cardinality(Browsers) \in Nat
    BY <2>1, CountGrows, FS_EmptySet
  <2>3. QED
    BY <2>2, SignInAssumption DEF Init, ChecksAhead
<1>4. QED
  BY <1>1, <1>2, <1>3 DEF IInv

-------------------------------------------------------------------------------
(* Counting one attempt more or less. *)
LEMMA Counts ==
  ASSUME TypeOK
  PROVE  /\ [attempts EXCEPT !.checked = @ + 1] \in [checked : Nat, refused : Nat]
         /\ [attempts EXCEPT !.refused = @ + 1] \in [checked : Nat, refused : Nat]
         /\ attempts.checked > 0 =>
                [attempts EXCEPT !.checked = @ - 1] \in [checked : Nat, refused : Nat]
         /\ attempts.refused > 0 =>
                [attempts EXCEPT !.refused = @ - 1] \in [checked : Nat, refused : Nat]
<1>1. PICK c \in Nat, r \in Nat : attempts = [checked |-> c, refused |-> r]
  BY DEF TypeOK
<1>2. /\ [attempts EXCEPT !.checked = @ + 1] = [checked |-> c + 1, refused |-> r]
      /\ [attempts EXCEPT !.refused = @ + 1] = [checked |-> c, refused |-> r + 1]
      /\ [attempts EXCEPT !.checked = @ - 1] = [checked |-> c - 1, refused |-> r]
      /\ [attempts EXCEPT !.refused = @ - 1] = [checked |-> c, refused |-> r - 1]
  BY <1>1
<1>3. QED
  BY <1>1, <1>2

(* What Replaced makes of the other requests. *)
LEMMA Replacing ==
  ASSUME TypeOK, NEW b \in Browsers, NEW g \in BOOLEAN, Replaced(b, g)
  PROVE  /\ at' \in [Browsers -> Request \cup {Idle}]
         /\ at'[b] = Idle
         /\ \A c \in Browsers : at'[c] # Idle =>
              /\ at[c] # Idle /\ at'[c].step = at[c].step /\ at'[c].code = at[c].code
              /\ ~at'[c].same
              /\ at'[c].guarded <=> (at[c].guarded /\ g)
<1>1. ASSUME NEW r \in Request, NEW q, q = [r EXCEPT !.same = FALSE, !.guarded = r.guarded /\ g]
      PROVE  /\ q \in Request /\ q.step = r.step /\ q.code = r.code
             /\ ~q.same /\ (q.guarded <=> (r.guarded /\ g))
  BY <1>1 DEF Request
<1>2. ASSUME NEW c \in Browsers, c # b, at[c] # Idle
      PROVE  /\ at'[c] \in Request /\ at'[c].step = at[c].step /\ at'[c].code = at[c].code
             /\ ~at'[c].same /\ (at'[c].guarded <=> (at[c].guarded /\ g))
  <2>1. at[c] \in Request
    BY <1>2 DEF TypeOK
  <2>2. at'[c] = [at[c] EXCEPT !.same = FALSE, !.guarded = at[c].guarded /\ g]
    BY <1>2 DEF Replaced
  <2>3. QED
    BY <1>1, <2>1, <2>2
<1>3. \A c \in Browsers : c = b \/ at[c] = Idle => at'[c] = Idle
  BY DEF Replaced
<1>4. at' = [c \in Browsers |-> at'[c]]
  BY DEF Replaced
<1>5. \A c \in Browsers : at'[c] \in Request \cup {Idle}
  BY <1>2, <1>3
<1>6. at' \in [Browsers -> Request \cup {Idle}]
  BY <1>4, <1>5
<1>7. ASSUME NEW c \in Browsers, at'[c] # Idle
      PROVE  /\ at[c] # Idle /\ at'[c].step = at[c].step /\ at'[c].code = at[c].code
             /\ ~at'[c].same
             /\ at'[c].guarded <=> (at[c].guarded /\ g)
  BY <1>2, <1>3, <1>7
<1>8. QED
  BY <1>3, <1>6, <1>7

(* A request that starts, and one that goes on. *)
LEMMA Moving ==
  ASSUME TypeOK, NEW b \in Browsers, NEW step \in Steps
  PROVE  /\ Starts(b, step) => at' \in [Browsers -> Request \cup {Idle}]
         /\ at[b] # Idle /\ Goes(b, step) => at' \in [Browsers -> Request \cup {Idle}]
<1>1. [step |-> step, code |-> FALSE, guarded |-> confirmed, same |-> TRUE] \in Request
  BY DEF TypeOK, Request
<1>2. at[b] # Idle => [at[b] EXCEPT !.step = step] \in Request
  BY DEF TypeOK, Request
<1>3. QED
  BY <1>1, <1>2 DEF TypeOK, Starts, Goes

(* Types are preserved. *)
LEMMA TypeStep == IInv /\ [Next]_vars => TypeOK'
<1> SUFFICES ASSUME IInv, [Next]_vars PROVE TypeOK'
  OBVIOUS
<1> USE IdleIsNone DEF TypeOK, account
<1>1. TypeOK
  BY DEF IInv
<1>2. ASSUME NEW b \in Browsers, Step(b) PROVE TypeOK'
  <2> USE DEF Request, Steps, Idle
  <2>1. CASE Submit(b)
    BY <1>1, <2>1, Moving DEF Submit
  <2>2. CASE Refuse(b) \/ RecordFailure(b) \/ ClearFailures(b) \/ Drop(b)
    BY <1>1, <2>2, Counts DEF Refuse, RecordFailure, ClearFailures, Drop, Ends, At
  <2>3. CASE CheckPassword(b)
    <3>1. at[b] # Idle
      BY <2>3 DEF CheckPassword, At
    <3>2. at' \in [Browsers -> Request \cup {Idle}]
      BY <1>1, <2>3, <3>1, Moving DEF CheckPassword, PasswordRight, Ends
    <3>3. QED
      BY <1>1, <2>3, <3>2 DEF CheckPassword, PasswordRight
  <2>4. CASE CheckCode(b)
    <3>1. at[b] \in Request
      BY <1>1, <2>4 DEF CheckCode, At
    <3>2. at' \in [Browsers -> Request \cup {Idle}]
      BY <1>1, <2>4, <3>1 DEF CheckCode, Goes
    <3>3. QED
      BY <1>1, <2>4, <3>2 DEF CheckCode
  <2>5. CASE StartSession(b)
    <3>1. at[b] \in Request /\ sessions' \subseteq Basis
      BY <1>1, <2>5 DEF StartSession, At, Basis
    <3>2. at' \in [Browsers -> Request \cup {Idle}]
      BY <1>1, <2>5, <3>1 DEF StartSession, Goes
    <3>3. QED
      BY <1>1, <2>5, <3>1, <3>2 DEF StartSession
  <2>6. CASE \E what \in {"enable", "confirm", "disable"} : AskTotp(b, what)
    BY <1>1, <2>6, Moving DEF AskTotp
  <2>7. CASE TotpEnable(b) \/ TotpDisable(b)
    <3>1. at' \in [Browsers -> Request \cup {Idle}]
      BY <1>1, <2>7, Replacing DEF TotpEnable, TotpDisable
    <3>2. QED
      BY <1>1, <2>7, <3>1 DEF TotpEnable, TotpDisable, At, ConfirmUnderWay
  <2>8. CASE TotpConfirm(b)
    BY <1>1, <2>8 DEF TotpConfirm, Ends, At
  <2>9. QED
    BY <1>2, <2>1, <2>2, <2>3, <2>4, <2>5, <2>6, <2>7, <2>8 DEF Step
<1>3. CASE AttemptAges \/ ChallengeExpires \/ SessionEnds
  BY <1>1, <1>3, Counts DEF AttemptAges, ChallengeExpires, SessionEnds
<1>4. CASE Restart
  BY <1>1, <1>4 DEF Restart
<1>5. CASE UNCHANGED vars
  BY <1>1, <1>5 DEF vars
<1>6. QED
  BY <1>2, <1>3, <1>4, <1>5 DEF Next

-------------------------------------------------------------------------------
(* What a request holds of the account stays so. *)
LEMMA KnowledgeStep == IInv /\ [Next]_vars => RequestsKnow'
<1> SUFFICES ASSUME IInv, [Next]_vars PROVE RequestsKnow'
  OBVIOUS
<1> USE IdleIsNone DEF account
<1>1. TypeOK /\ RequestsKnow
  BY DEF IInv
<1>2. ASSUME NEW b \in Browsers, Step(b) PROVE RequestsKnow'
  <2>1. CASE \/ Submit(b)
             \/ \E what \in {"enable", "confirm", "disable"} : AskTotp(b, what)
    <3>1. PICK step \in Steps :
            /\ Starts(b, step)
            /\ step # "session"
            /\ step = "confirm" => secret
            /\ UNCHANGED account
      BY <2>1 DEF Submit, AskTotp, Steps
    <3>2. /\ at'[b] = [step |-> step, code |-> FALSE, guarded |-> confirmed, same |-> TRUE]
          /\ \A c \in Browsers \ {b} : at'[c] = at[c]
      BY <1>1, <3>1 DEF Starts, TypeOK
    <3>3. QED
      BY <1>1, <3>1, <3>2 DEF RequestsKnow, At
  <2>2. CASE \/ Refuse(b) \/ RecordFailure(b) \/ ClearFailures(b) \/ Drop(b)
             \/ CheckPassword(b) /\ at'[b] = Idle
    BY <1>1, <2>2 DEF Refuse, RecordFailure, ClearFailures, Drop, CheckPassword, PasswordRight,
           Goes, Ends, RequestsKnow, At, TypeOK
  <2>3. CASE CheckPassword(b) /\ at'[b] # Idle
    <3>1. /\ at[b] # Idle /\ UNCHANGED account
          /\ \E step \in {"session", "failed"} : Goes(b, step) /\ (step = "session" => ~confirmed)
      BY <1>1, <2>3 DEF CheckPassword, PasswordRight, Ends, At, TypeOK
    <3>2. PICK step \in {"session", "failed"} :
            at' = [at EXCEPT ![b].step = step] /\ (step = "session" => ~confirmed)
      BY <3>1 DEF Goes
    <3>3. /\ at'[b].step = step /\ at'[b].guarded = at[b].guarded
          /\ \A c \in Browsers \ {b} : at'[c] = at[c]
      BY <1>1, <3>1, <3>2 DEF TypeOK, Request
    <3>4. QED
      BY <1>1, <3>1, <3>2, <3>3 DEF RequestsKnow, At
  <2>4. CASE CheckCode(b) \/ StartSession(b)
    <3>1. at[b] # Idle /\ at[b] \in Request /\ UNCHANGED account
      BY <1>1, <2>4 DEF CheckCode, StartSession, At, TypeOK
    <3>2. /\ at'[b].step \in {"session", "failed", "clear"}
          /\ at'[b].guarded = at[b].guarded
          /\ at'[b].step = "session" => at'[b].code
          /\ \A c \in Browsers \ {b} : at'[c] = at[c]
      BY <1>1, <2>4, <3>1 DEF CheckCode, StartSession, Goes, TypeOK, Request
    <3>3. QED
      BY <1>1, <3>1, <3>2 DEF RequestsKnow, At
  <2>5. CASE TotpEnable(b)
    <3>1. \A c \in Browsers : at'[c] # Idle =>
            /\ at[c] # Idle /\ at'[c].step = at[c].step /\ at'[c].code = at[c].code
            /\ ~at'[c].same
            /\ at'[c].guarded <=> (at[c].guarded /\ TRUE)
      BY <1>1, <2>5, Replacing DEF TotpEnable
    <3>2. confirmed' = confirmed /\ overwritten' = (overwritten \/ confirmed \/ ConfirmUnderWay)
      BY <2>5 DEF TotpEnable
    <3>3. QED
      BY <1>1, <3>1, <3>2 DEF RequestsKnow, At, ConfirmUnderWay
  <2>6. CASE TotpDisable(b)
    <3>1. \A c \in Browsers : at'[c] # Idle =>
            /\ at[c] # Idle /\ at'[c].step = at[c].step /\ at'[c].code = at[c].code
            /\ ~at'[c].same
            /\ at'[c].guarded <=> (at[c].guarded /\ FALSE)
      BY <1>1, <2>6, Replacing DEF TotpDisable
    <3>2. overwritten' = ConfirmUnderWay
      BY <2>6 DEF TotpDisable
    <3>3. QED
      BY <1>1, <3>1, <3>2 DEF RequestsKnow, At, ConfirmUnderWay
  <2>7. CASE TotpConfirm(b)
    <3>1. /\ at[b] # Idle /\ confirmed' = TRUE /\ secret' = secret
          /\ proven' = (proven \/ at[b].same)
          /\ overwritten' = (overwritten /\ ~at[b].same)
          /\ at[b].same => secret
          /\ at'[b] = Idle /\ \A c \in Browsers \ {b} : at'[c] = at[c]
      BY <1>1, <2>7 DEF TotpConfirm, Ends, At, RequestsKnow, TypeOK
    <3>2. QED
      BY <1>1, <3>1 DEF RequestsKnow, At
  <2>8. QED
    BY <1>2, <2>1, <2>2, <2>3, <2>4, <2>5, <2>6, <2>7 DEF Step
<1>3. CASE AttemptAges \/ ChallengeExpires \/ SessionEnds
  BY <1>1, <1>3 DEF AttemptAges, ChallengeExpires, SessionEnds, RequestsKnow, At
<1>4. CASE Restart
  BY <1>4 DEF Restart, RequestsKnow
<1>5. CASE UNCHANGED vars
  BY <1>1, <1>5 DEF vars, RequestsKnow, At
<1>6. QED
  BY <1>2, <1>3, <1>4, <1>5 DEF Next

(* Sessions are opened on a code when one was asked for, and a code that is *)
(* asked for is one somebody has shown to have, or was overwritten.         *)
LEMMA FactorsStep == IInv /\ [Next]_vars => (SecondFactorHeld /\ UnprovenOnlyByOverwrite)'
<1> SUFFICES ASSUME IInv, [Next]_vars PROVE (SecondFactorHeld /\ UnprovenOnlyByOverwrite)'
  OBVIOUS
<1> USE IdleIsNone DEF account, SecondFactorHeld, UnprovenOnlyByOverwrite
<1>1. TypeOK /\ RequestsKnow /\ SecondFactorHeld /\ UnprovenOnlyByOverwrite
  BY DEF IInv
<1>2. ASSUME NEW b \in Browsers, Step(b)
      PROVE  (SecondFactorHeld /\ UnprovenOnlyByOverwrite)'
  <2>1. CASE StartSession(b)
    <3>1. at[b] # Idle /\ at[b].guarded => at[b].code
      BY <1>1, <2>1 DEF StartSession, RequestsKnow, At
    <3>2. QED
      BY <1>1, <2>1, <3>1 DEF StartSession, At
  <2>2. CASE TotpEnable(b) \/ TotpDisable(b)
    <3>1. sessions' = sessions
      BY <2>2 DEF TotpEnable, TotpDisable
    <3>2. confirmed' => overwritten'
      BY <1>1, <2>2, Zenon DEF TotpEnable, TotpDisable
    <3>3. QED
      BY <1>1, <3>1, <3>2
  <2>3. CASE TotpConfirm(b)
    <3>1. /\ at[b].same => secret
          /\ ~at[b].same => (secret /\ proven) \/ overwritten
      BY <1>1, <2>3 DEF TotpConfirm, RequestsKnow, At
    <3>2. QED
      BY <1>1, <2>3, <3>1 DEF TotpConfirm
  <2>4. CASE \/ Submit(b) \/ Refuse(b) \/ CheckPassword(b) \/ CheckCode(b)
             \/ RecordFailure(b) \/ ClearFailures(b) \/ Drop(b)
             \/ \E what \in {"enable", "confirm", "disable"} : AskTotp(b, what)
    BY <1>1, <2>4 DEF Submit, Refuse, CheckPassword, CheckCode, RecordFailure, ClearFailures,
           Drop, AskTotp
  <2>5. QED
    BY <1>2, <2>1, <2>2, <2>3, <2>4 DEF Step
<1>3. CASE AttemptAges \/ ChallengeExpires \/ SessionEnds \/ Restart
  BY <1>1, <1>3 DEF AttemptAges, ChallengeExpires, SessionEnds, Restart
<1>4. CASE UNCHANGED vars
  BY <1>1, <1>4 DEF vars
<1>5. QED
  BY <1>2, <1>3, <1>4 DEF Next

-------------------------------------------------------------------------------
(* The checks under way are few enough. *)

(* A step that adds no check and no failure keeps the bound. *)
LEMMA FewerChecks ==
  ASSUME TypeOK, TypeOK', ChecksAhead, Checking' \subseteq Checking,
         attempts'.checked <= attempts.checked
  PROVE  ChecksAhead'
<1>1. /\ Cardinality(Checking) \in Nat /\ Cardinality(Checking') \in Nat
      /\ Cardinality(Checking') <= Cardinality(Checking)
      /\ Cardinality(Browsers) \in Nat
  BY CountGrows DEF Checking
<1>2. attempts.checked \in Nat /\ attempts'.checked \in Nat
  BY DEF TypeOK
<1>3. QED
  BY <1>1, <1>2, SignInAssumption DEF ChecksAhead

LEMMA ChecksStep == IInv /\ [Next]_vars => ChecksAhead'
<1> SUFFICES ASSUME IInv, [Next]_vars PROVE ChecksAhead'
  OBVIOUS
<1> USE IdleIsNone
<1>1. TypeOK /\ TypeOK' /\ ChecksAhead
  BY TypeStep DEF IInv
<1>2. attempts.checked \in Nat /\ attempts.refused \in Nat
  BY <1>1 DEF TypeOK
<1>3. /\ Cardinality(Checking) \in Nat /\ Cardinality(Checking') \in Nat
      /\ Cardinality(Checking') <= Cardinality(Browsers) /\ Cardinality(Browsers) \in Nat
  BY CountGrows DEF Checking
<1>4. ASSUME NEW b \in Browsers, Step(b) PROVE ChecksAhead'
  <2>1. CASE Submit(b) /\ ~IsLocked
    <3>1. attempts' = attempts /\ attempts.checked + attempts.refused <= MaxFailures - 1
      BY <1>2, <2>1, SignInAssumption DEF Submit, IsLocked
    <3>2. QED
      BY <1>2, <1>3, <3>1, SignInAssumption DEF ChecksAhead
  <2>2. CASE RecordFailure(b)
    <3>1. attempts'.checked = attempts.checked + 1
      BY <1>1, <2>2 DEF RecordFailure, TypeOK
    <3>2. b \in Checking /\ Checking' = Checking \ {b}
      BY <1>1, <2>2 DEF RecordFailure, Ends, At, Checking, TypeOK
    <3>3. Cardinality(Checking') = Cardinality(Checking) - 1
      <4>1. IsFiniteSet(Checking)
        BY SignInAssumption, FS_Subset DEF Checking
      <4>2. QED
        BY <3>2, <4>1, FS_RemoveElement
    <3>4. QED
      BY <1>1, <1>2, <1>3, <3>1, <3>3, SignInAssumption DEF ChecksAhead
  <2>3. CASE ClearFailures(b)
    <3>1. attempts'.checked = 0
      BY <2>3 DEF ClearFailures
    <3>2. QED
      BY <1>3, <3>1, SignInAssumption DEF ChecksAhead
  <2>4. CASE \/ Submit(b) /\ IsLocked
             \/ \E what \in {"enable", "confirm", "disable"} : AskTotp(b, what)
    <3>1. PICK step \in {"refused", "enable", "confirm", "disable"} :
            Starts(b, step) /\ UNCHANGED attempts
      BY <2>4 DEF Submit, AskTotp
    <3>2. Checking' \subseteq Checking
      BY <1>1, <3>1 DEF Starts, Checking, TypeOK
    <3>3. QED
      BY <1>1, <1>2, <3>1, <3>2, FewerChecks
  <2>5. CASE Refuse(b) \/ Drop(b)
    <3>1. Checking' \subseteq Checking
      BY <1>1, <2>5 DEF Refuse, Drop, Ends, Checking, TypeOK
    <3>2. attempts'.checked = attempts.checked
      BY <1>1, <2>5 DEF Refuse, Drop, TypeOK
    <3>3. QED
      BY <1>1, <1>2, <3>1, <3>2, FewerChecks
  <2>6. CASE CheckPassword(b) \/ CheckCode(b) \/ StartSession(b)
    <3>1. /\ UNCHANGED attempts
          /\ \A c \in Browsers \ {b} : at'[c] = at[c]
          /\ at'[b].step \in {"password", "code", "failed"} => b \in Checking
      BY <1>1, <2>6 DEF CheckPassword, PasswordRight, CheckCode, StartSession, Goes, Ends,
             At, Checking, TypeOK, Request
    <3>2. Checking' \subseteq Checking
      BY <3>1 DEF Checking
    <3>3. QED
      BY <1>1, <1>2, <3>1, <3>2, FewerChecks
  <2>7. CASE TotpEnable(b) \/ TotpDisable(b)
    <3>1. UNCHANGED attempts /\ \E g \in BOOLEAN : Replaced(b, g)
      BY <2>7 DEF TotpEnable, TotpDisable
    <3>2. \A c \in Browsers : at'[c] # Idle => at'[c].step = at[c].step
      BY <1>1, <3>1, Replacing
    <3>3. Checking' \subseteq Checking
      BY <3>2 DEF Checking
    <3>4. QED
      BY <1>1, <1>2, <3>1, <3>3, FewerChecks
  <2>8. CASE TotpConfirm(b)
    <3>1. UNCHANGED attempts /\ Checking' \subseteq Checking
      BY <1>1, <2>8 DEF TotpConfirm, Ends, Checking, TypeOK
    <3>2. QED
      BY <1>1, <1>2, <3>1, FewerChecks
  <2>9. QED
    BY <1>4, <2>1, <2>2, <2>3, <2>4, <2>5, <2>6, <2>7, <2>8 DEF Step
<1>5. CASE AttemptAges
  <2>1. attempts'.checked <= attempts.checked /\ at' = at
    BY <1>1, <1>2, <1>5 DEF AttemptAges, TypeOK
  <2>2. QED
    BY <1>1, <2>1, FewerChecks DEF Checking
<1>6. CASE ChallengeExpires \/ SessionEnds \/ UNCHANGED vars
  BY <1>1, <1>2, <1>6, FewerChecks DEF ChallengeExpires, SessionEnds, vars, Checking
<1>7. CASE Restart
  <2>1. attempts' = attempts /\ Checking' = {}
    BY <1>7 DEF Restart, Checking
  <2>2. QED
    BY <1>1, <1>2, <2>1, FewerChecks
<1>8. QED
  BY <1>4, <1>5, <1>6, <1>7 DEF Next

-------------------------------------------------------------------------------
(* IInv is inductive. *)
THEOREM InvariantHolds == Spec => []IInv
<1>1. IInv /\ [Next]_vars => IInv'
  BY TypeStep, KnowledgeStep, FactorsStep, ChecksStep DEF IInv
<1>2. QED
  BY InitEstablishes, <1>1, PTL DEF Spec

(* Every variable keeps its type. *)
THEOREM TypesHold == Spec => []TypeOK
<1>1. IInv => TypeOK
  BY DEF IInv
<1>2. QED
  BY InvariantHolds, <1>1, PTL

(* Failed checks in parallel pass the throttle by at most one for every     *)
(* request under way, for any limit and any number of browsers.             *)
THEOREM FailuresAreBounded == Spec => []ChecksBounded
<1>1. IInv => ChecksBounded
  <2> SUFFICES ASSUME IInv PROVE ChecksBounded
    OBVIOUS
  <2>1. Cardinality(Checking) \in Nat /\ Cardinality(Browsers) \in Nat
    BY CountGrows DEF Checking
  <2>2. QED
    BY <2>1, SignInAssumption DEF IInv, TypeOK, ChecksAhead, ChecksBounded
<1>2. QED
  BY InvariantHolds, <1>1, PTL

(* No session is opened on the password alone while a code is asked for.    *)
THEOREM SecondFactorAlways == Spec => []SecondFactorHeld
<1>1. IInv => SecondFactorHeld
  BY DEF IInv
<1>2. QED
  BY InvariantHolds, <1>1, PTL

(* A code that is asked for and that nobody has shown to have was written   *)
(* over a confirmed one, or under a confirm.                                *)
THEOREM UnprovenIsOverwritten == Spec => []UnprovenOnlyByOverwrite
<1>1. IInv => UnprovenOnlyByOverwrite
  BY DEF IInv
<1>2. QED
  BY InvariantHolds, <1>1, PTL

=============================================================================
