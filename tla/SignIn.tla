--------------------------------- MODULE SignIn --------------------------------
(***************************************************************************)
(* Signing in to the panel: password, then a TOTP code when the account    *)
(* has confirmed one, with the throttle of auth.rs in front of both stages, *)
(* and the settings page that enables, confirms and disables the code.     *)
(*                                                                         *)
(* A request is a handler that awaits one statement after another: the     *)
(* failures are counted in one, the account is read in a second, and a     *)
(* failure or a session is written in a third.  The settings handlers work *)
(* on the account as the middleware read it.  A handler may end after any  *)
(* statement: the next one fails, or the browser goes away.                *)
(*                                                                         *)
(* Modelled are one account and one address.  A request that presents no   *)
(* session, or a form of another session or boot, changes nothing and is   *)
(* left out; so are API tokens, which no sign-in reads.                    *)
(***************************************************************************)
EXTENDS Naturals, FiniteSets

CONSTANTS
    Browsers,      \* each has at most one request under way
    MaxFailures,   \* THROTTLE_MAX_FAILURES
    MaxRefused     \* bound: refusals on record

ASSUME SignInAssumption ==
    /\ IsFiniteSet(Browsers)
    /\ MaxFailures \in Nat \ {0}
    /\ MaxRefused \in Nat

VARIABLES
    attempts,      \* failed attempts of the last 15 minutes, by what failed
    secret,        \* the account has a totp_secret
    confirmed,     \* the account has a totp_confirmed_at
    challenge,     \* a challenge is out that would verify now
    sessions,      \* what the live sessions were opened on
    at,            \* [browser -> the request it has under way]
    proven,        \* observed: a code of the secret of now has been checked
    overwritten    \* observed: enable or disable passed a confirmed secret or a confirm

account == <<secret, confirmed, proven, overwritten>>
vars    == <<attempts, account, challenge, sessions, at>>

(* code: the request passed a TOTP code.  guarded: the account asked for    *)
(* one all along.  same: the secret is still the one the request has read.  *)
Basis   == [code: BOOLEAN, guarded: BOOLEAN]
Steps   == {"refused", "password", "code", "failed", "session", "clear",
            "enable", "confirm", "disable"}
Request == [step: Steps, code: BOOLEAN, guarded: BOOLEAN, same: BOOLEAN]
Idle    == [step |-> "idle"]

Init ==
    /\ attempts = [checked |-> 0, refused |-> 0]
    /\ secret = FALSE
    /\ confirmed = FALSE
    /\ challenge = FALSE
    /\ sessions = {}
    /\ at = [b \in Browsers |-> Idle]
    /\ proven = FALSE
    /\ overwritten = FALSE

Starts(b, step) ==
    /\ at[b] = Idle
    /\ at' = [at EXCEPT ![b] =
           [step |-> step, code |-> FALSE, guarded |-> confirmed, same |-> TRUE]]
Goes(b, step) == at' = [at EXCEPT ![b].step = step]
Ends(b)       == at' = [at EXCEPT ![b] = Idle]
At(b, step)   == at[b].step = step

-----------------------------------------------------------------------------
(* Signing in. *)

(* Mutant: one failure more is let through. *)
IsLockedLate == attempts.checked + attempts.refused > MaxFailures
IsLocked == attempts.checked + attempts.refused >= MaxFailures

(* Both stages ask the throttle first.  A challenge that does not verify, by *)
(* age, boot or MAC, is a failed attempt.                                    *)
Submit(b) ==
    /\ IF IsLocked
       THEN Starts(b, "refused")
       ELSE \/ Starts(b, "password")
            \/ challenge /\ Starts(b, "code")
            \/ Starts(b, "failed")
    /\ UNCHANGED <<attempts, account, challenge, sessions>>

Refuse(b) ==
    /\ At(b, "refused")
    /\ attempts.refused < MaxRefused
    /\ attempts' = [attempts EXCEPT !.refused = @ + 1]
    /\ Ends(b)
    /\ UNCHANGED <<account, challenge, sessions>>

(* Mutant: the session is opened before the second factor is asked for. *)
PasswordOpens(b) == Goes(b, "session") /\ UNCHANGED challenge
(* The right password: a challenge for an account with a code, else a session. *)
PasswordRight(b) ==
    IF confirmed
    THEN Ends(b) /\ challenge' = TRUE
    ELSE Goes(b, "session") /\ UNCHANGED challenge

CheckPassword(b) ==
    /\ At(b, "password")
    /\ \/ PasswordRight(b)
       \/ Goes(b, "failed") /\ UNCHANGED challenge
    /\ UNCHANGED <<attempts, account, sessions>>

(* The challenge stays good after a wrong code, and after a right one. *)
CheckCode(b) ==
    /\ At(b, "code")
    /\ \/ secret /\ at' = [at EXCEPT ![b].step = "session", ![b].code = TRUE]
       \/ Goes(b, "failed")
    /\ UNCHANGED <<attempts, account, challenge, sessions>>

RecordFailure(b) ==
    /\ At(b, "failed")
    /\ attempts' = [attempts EXCEPT !.checked = @ + 1]
    /\ Ends(b)
    /\ UNCHANGED <<account, challenge, sessions>>

StartSession(b) ==
    /\ At(b, "session")
    /\ sessions' = sessions \cup {[code |-> at[b].code, guarded |-> at[b].guarded]}
    /\ Goes(b, "clear")
    /\ UNCHANGED <<attempts, account, challenge>>

ClearFailures(b) ==
    /\ At(b, "clear")
    /\ attempts' = [checked |-> 0, refused |-> 0]
    /\ Ends(b)
    /\ UNCHANGED <<account, challenge, sessions>>

-----------------------------------------------------------------------------
(* The settings page.  The middleware reads the account by its session; the *)
(* code is checked against the secret it read, and a later statement        *)
(* overwrites the account.  A wrong code changes nothing.                   *)

AskTotp(b, what) ==
    /\ sessions # {}
    /\ what = "enable" \/ secret
    /\ Starts(b, what)
    /\ UNCHANGED <<attempts, account, challenge, sessions>>

ConfirmUnderWay == \E b \in Browsers : At(b, "confirm")

(* The other requests no longer have the account's secret. *)
Replaced(b, guards) == at' = [c \in Browsers |->
    IF c = b \/ at[c] = Idle THEN Idle
    ELSE [at[c] EXCEPT !.same = FALSE, !.guarded = @ /\ guards]]

(* The secret is replaced, the confirmation of the old one stays. *)
TotpEnable(b) ==
    /\ At(b, "enable")
    /\ secret' = TRUE
    /\ proven' = FALSE
    /\ overwritten' = (overwritten \/ confirmed \/ ConfirmUnderWay)
    /\ Replaced(b, TRUE)
    /\ UNCHANGED <<confirmed, attempts, challenge, sessions>>

TotpConfirm(b) ==
    /\ At(b, "confirm")
    /\ confirmed' = TRUE
    /\ proven' = (proven \/ at[b].same)
    /\ overwritten' = (overwritten /\ ~at[b].same)
    /\ Ends(b)
    /\ UNCHANGED <<secret, attempts, challenge, sessions>>

(* Mutant: the secret goes and its confirmation stays. *)
DisableSecret(b) ==
    /\ At(b, "disable")
    /\ secret' = FALSE
    /\ proven' = FALSE
    /\ overwritten' = ConfirmUnderWay
    /\ Replaced(b, FALSE)
    /\ UNCHANGED <<confirmed, attempts, challenge, sessions>>
TotpDisable(b) ==
    /\ At(b, "disable")
    /\ secret' = FALSE
    /\ confirmed' = FALSE
    /\ proven' = FALSE
    /\ overwritten' = ConfirmUnderWay
    /\ Replaced(b, FALSE)
    /\ UNCHANGED <<attempts, challenge, sessions>>

-----------------------------------------------------------------------------
(* Time, and the process. *)

(* The handler ends between two statements. *)
Drop(b) ==
    /\ at[b] # Idle
    /\ Ends(b)
    /\ UNCHANGED <<attempts, account, challenge, sessions>>

(* An attempt leaves the throttle's window. *)
AttemptAges ==
    /\ \/ attempts.checked > 0 /\ attempts' = [attempts EXCEPT !.checked = @ - 1]
       \/ attempts.refused > 0 /\ attempts' = [attempts EXCEPT !.refused = @ - 1]
    /\ UNCHANGED <<account, challenge, sessions, at>>

(* Five minutes. *)
ChallengeExpires ==
    /\ challenge
    /\ challenge' = FALSE
    /\ UNCHANGED <<attempts, account, sessions, at>>

(* A logout, or fourteen days. *)
SessionEnds ==
    /\ \E s \in sessions : sessions' = sessions \ {s}
    /\ UNCHANGED <<attempts, account, challenge, at>>

(* A new CSRF key is drawn at boot: no challenge of before verifies. *)
Restart ==
    /\ at' = [b \in Browsers |-> Idle]
    /\ challenge' = FALSE
    /\ UNCHANGED <<attempts, account, sessions>>

Step(b) ==
    \/ Submit(b) \/ Refuse(b)
    \/ CheckPassword(b) \/ CheckCode(b) \/ RecordFailure(b)
    \/ StartSession(b) \/ ClearFailures(b)
    \/ \E what \in {"enable", "confirm", "disable"} : AskTotp(b, what)
    \/ TotpEnable(b) \/ TotpConfirm(b) \/ TotpDisable(b)
    \/ Drop(b)

Next ==
    \/ \E b \in Browsers : Step(b)
    \/ AttemptAges \/ ChallengeExpires \/ SessionEnds
    \/ Restart

Spec == Init /\ [][Next]_vars

-----------------------------------------------------------------------------
(* Every variable keeps its type. *)
TypeOK ==
    /\ attempts \in [checked: Nat, refused: Nat]
    /\ secret \in BOOLEAN /\ confirmed \in BOOLEAN
    /\ challenge \in BOOLEAN
    /\ sessions \subseteq Basis
    /\ at \in [Browsers -> Request \cup {Idle}]
    /\ proven \in BOOLEAN /\ overwritten \in BOOLEAN

(* The throttle counts before the check and records after it, so requests   *)
(* in parallel all pass it: beyond MaxFailures, at most one failed check    *)
(* for every request that was already under way.  What is bounded are the   *)
(* failures on record: a check whose request is cut off before it records   *)
(* anything (Drop) counts nowhere, and nothing bounds those.                *)
ChecksBounded == attempts.checked <= MaxFailures - 1 + Cardinality(Browsers)

(* No session is opened on the password alone while the account asks for a  *)
(* code, from the request's first statement to the session's insert.        *)
SecondFactorHeld == \A s \in sessions : s.guarded => s.code

(* An account asks for codes of a secret nobody has shown to have, or of    *)
(* none, only when enable went over a confirmed secret, or enable or        *)
(* disable fell between the check of a confirm and its write.               *)
UnprovenOnlyByOverwrite == confirmed /\ ~(secret /\ proven) => overwritten

=============================================================================
