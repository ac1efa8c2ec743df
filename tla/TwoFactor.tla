----------------------------- MODULE TwoFactor ------------------------------
(***************************************************************************)
(* The second factor of one user: enrolment, login with a TOTP or a        *)
(* recovery code, disabling, regeneration of recovery codes, the step-up   *)
(* before account deletion, the deletion, login challenges and the count   *)
(* of failures (TwoFactorService, AuthChallengeService,                    *)
(* AuthThrottleService, TotpService, RecoveryCodeService, and what         *)
(* AuthService.login, UserDeletionService and its worker do to them).      *)
(*                                                                         *)
(* A handler is a sequence of database operations with awaits between      *)
(* them, so requests interleave between the steps below.  Inside           *)
(* withTransaction everything read is also written: the transaction is one *)
(* step, or it meets too much contention and is none (Contend).  The reads *)
(* before it, which only let the request go on, are one step too; `now` is *)
(* read there once and kept through the steps that follow.                 *)
(*                                                                         *)
(* Time is counted in TOTP steps of thirty seconds.  A code is known by    *)
(* what it matches: the step of the stored secret it was made for, or a    *)
(* stored recovery digest; everything else is a wrong code.                *)
(***************************************************************************)
EXTENDS Integers, FiniteSets

CONSTANTS
    Request,         \* requests that may be in flight at a time
    Challenge,       \* ids of login challenges
    None,            \* no challenge
    MaxSecrets,      \* bound on the secrets generated
    MaxCodes,        \* bound on the recovery codes generated
    CodesPerSet,     \* recovery codes per set: ten
    MaxTime,         \* bound on the clock
    MaxStep,         \* bound on the time steps codes are made for
    SetupTtl,        \* life of a pending setup
    ChallengeTtl,    \* life of a challenge
    ChallengeLimit,  \* failures that end a challenge
    FailureLimit,    \* failures that block the second factor
    WindowTime,      \* the window they are counted in
    BlockTime        \* how long the block lasts

(* All of them come from the environment; a time under thirty seconds is 0. *)
ASSUME TwoFactorAssumption ==
    /\ IsFiniteSet(Request) /\ None \notin Challenge
    /\ {MaxSecrets, MaxCodes, MaxTime, MaxStep, SetupTtl, ChallengeTtl} \subseteq Nat
    /\ MaxTime >= 2
    /\ {CodesPerSet, ChallengeLimit, FailureLimit} \subseteq Nat \ {0}
    /\ WindowTime \in Nat /\ BlockTime \in Nat

VARIABLES
    clock,
    credential,   \* the UserTwoFactor document
    authVersion,  \* of the user document
    deletion,     \* how far the deletion of the user has come
    audit,        \* security events: type -> how many
    challenges,   \* the stored challenges: id -> document
    requests,     \* what each request in flight has come to
    secrets,      \* how many secrets were generated
    codes,        \* how many recovery codes were generated
    issued,       \* the challenge ids that were generated
    accepted,     \* history: what was accepted as proof, once
    reused,       \* history: and what was accepted again
    replaced      \* history: secrets a setup took from an enabled factor

stored == <<credential, authVersion, deletion, audit, challenges>>
generated == <<secrets, codes, issued>>
history == <<accepted, reused, replaced>>
vars == <<clock, stored, requests, generated, history>>

(* The clock starts at 2, so 0 is before any time step a code is made for. *)
Never == 0
Time == 2 .. MaxTime
Factor == {"totp", "recovery"}
Change == {"enrolled", "disabled", "regenerated"}

CredentialDocument ==
    [status : {"none", "pending", "enabled"}, id : Nat, secret : Nat,
     expiresAt : Nat, codes : SUBSET (1 .. MaxCodes), lastStep : Nat,
     failed : Nat, windowStart : Nat, blockedUntil : Nat]

NoCredential ==
    [status |-> "none", id |-> 0, secret |-> 0, expiresAt |-> Never,
     codes |-> {}, lastStep |-> Never, failed |-> 0, windowStart |-> Never,
     blockedUntil |-> Never]

ChallengeDocument ==
    [authVersion : Nat, failed : 0 .. ChallengeLimit, expiresAt : Nat,
     consumed : BOOLEAN]

Idle ==
    [pc |-> "idle", op |-> "none", now |-> Never, challenge |-> None,
     version |-> 0, secret |-> 0, step |-> Never, owes |-> {}]

RequestState ==
    [pc : {"idle", "upsert", "work", "accept", "fail", "issue", "delete"},
     op : {"none", "setup", "confirm", "login", "disable", "regenerate",
           "stepUp", "password"},
     now : {Never} \cup Time, challenge : Challenge \cup {None}, version : Nat,
     secret : Nat, step : Nat, owes : SUBSET {"challenge", "factor"}]

Begin(q, op, pc) ==
    /\ requests[q].pc = "idle"
    /\ requests' = [requests EXCEPT ![q] =
            [Idle EXCEPT !.pc = pc, !.op = op, !.now = clock]]

At(q, pc, op) == requests[q].pc = pc /\ requests[q].op = op

Finish(q) == requests' = [requests EXCEPT ![q] = Idle]

-----------------------------------------------------------------------------
(* Proofs of the second factor.                                            *)

Enabled == credential.status = "enabled"

(* The status filter of JwtStrategy, login and every read of the user.     *)
Active == deletion = "none"

(* verify accepts the step of now and its two neighbours; the update       *)
(* insists that it is later than the last one accepted.                    *)
ValidSteps(now) ==
    {step \in (now - 1) .. (now + 1) : step <= MaxStep /\ step > credential.lastStep}

Totp(step) == <<"totp", credential.secret, step>>

(* Accepting a proof, in history.                                          *)
Accept(proofs) ==
    /\ accepted' = accepted \cup proofs
    /\ reused' = reused \cup (proofs \cap accepted)
    /\ UNCHANGED replaced

(* Mutant of Versioned: the user's authVersion is left as it is.           *)
NotVersioned(change) ==
    /\ Active
    /\ audit' = [audit EXCEPT ![change] = @ + 1]
    /\ UNCHANGED <<authVersion, deletion>>

(* incrementAuthVersion, which finds active users only, and                *)
(* auditService.record, in one transaction.                                *)
Versioned(change) ==
    /\ Active
    /\ audit' = [audit EXCEPT ![change] = @ + 1]
    /\ authVersion' = authVersion + 1
    /\ UNCHANGED deletion

(* generate: a set of codes never seen before.                             *)
NewCodes == (codes + 1) .. (codes + CodesPerSet)

CanGenerate == codes + CodesPerSet <= MaxCodes

-----------------------------------------------------------------------------
(* Counting failures.                                                      *)

(* assertSecondFactorAllowed.                                              *)
Allowed(now) == credential.blockedUntil <= now

(* The first stage of the update pipeline: a window that began too long    *)
(* ago, or a missing one, which compares below any date, begins anew.      *)
Counted(c, now) ==
    IF c.windowStart = Never \/ c.windowStart < now - WindowTime
    THEN [c EXCEPT !.failed = 1, !.windowStart = now]
    ELSE [c EXCEPT !.failed = @ + 1]

(* The second stage.                                                       *)
Blocked(c, now) ==
    IF c.failed >= FailureLimit
    THEN [c EXCEPT !.blockedUntil = now + BlockTime] ELSE c

AfterFailure(c, now) ==
    IF c.status = "none" THEN c ELSE Blocked(Counted(c, now), now)

(* A transaction that rejects the code leaves these failures to count.     *)
Reject(q, owes) ==
    /\ requests' = [requests EXCEPT ![q] =
            [Idle EXCEPT !.pc = "fail", !.now = requests[q].now,
                         !.challenge = requests[q].challenge, !.owes = owes]]
    /\ UNCHANGED <<clock, stored, generated, history>>

(* The record of one failure written, in whichever order they come.        *)
Pay(q, failure) ==
    /\ requests[q].pc = "fail" /\ failure \in requests[q].owes
    /\ requests' = [requests EXCEPT ![q] =
            IF requests[q].owes = {failure} THEN Idle
            ELSE [requests[q] EXCEPT !.owes = @ \ {failure}]]

RecordFactorFailure(q) ==
    /\ Pay(q, "factor")
    /\ credential' = AfterFailure(credential, requests[q].now)
    /\ UNCHANGED <<clock, authVersion, deletion, audit, challenges, generated, history>>

(* Mutant of Usable: an off-by-one at the limit of failures.               *)
UsableOnceMore(h, now) ==
    /\ h \in DOMAIN challenges
    /\ ~challenges[h].consumed
    /\ challenges[h].failed <= ChallengeLimit
    /\ challenges[h].expiresAt > now

(* The filter resolve, recordFailure and consume share.                    *)
Usable(h, now) ==
    /\ h \in DOMAIN challenges
    /\ ~challenges[h].consumed
    /\ challenges[h].failed < ChallengeLimit
    /\ challenges[h].expiresAt > now

(* recordFailure of a challenge: one that is over answers 401 all the same. *)
RecordChallengeFailure(q) ==
    LET h == requests[q].challenge
    IN  /\ Pay(q, "challenge")
        /\ challenges' = IF Usable(h, requests[q].now)
                         THEN [challenges EXCEPT ![h].failed = @ + 1]
                         ELSE challenges
        /\ UNCHANGED <<clock, credential, authVersion, deletion, audit, generated, history>>

-----------------------------------------------------------------------------
(* Enrolment.                                                              *)

(* startSetup: the password, then the stored credential.                   *)
StartSetup(q) ==
    /\ Active /\ ~Enabled
    /\ secrets < MaxSecrets
    /\ Begin(q, "setup", "upsert")
    /\ UNCHANGED <<clock, stored, generated, history>>

(* Its upsert, which asks nothing of the credential it replaces.           *)
UpsertSetup(q) ==
    /\ At(q, "upsert", "setup")
    /\ secrets < MaxSecrets
    /\ secrets' = secrets + 1
    /\ credential' = [NoCredential EXCEPT
            !.status = "pending", !.secret = secrets',
            !.id = IF credential.status = "none" THEN secrets' ELSE credential.id,
            !.expiresAt = requests[q].now + SetupTtl]
    /\ replaced' = IF Enabled THEN replaced \cup {credential.secret} ELSE replaced
    /\ Finish(q)
    /\ UNCHANGED <<clock, authVersion, deletion, audit, challenges, codes, issued,
                   accepted, reused>>

(* The TTL index on pending documents.                                     *)
ExpirePending ==
    /\ credential.status = "pending"
    /\ credential.expiresAt <= clock
    /\ credential' = NoCredential
    /\ UNCHANGED <<clock, authVersion, deletion, audit, challenges, requests, generated,
                   history>>

BeginConfirm(q) ==
    /\ Active /\ Allowed(clock)
    /\ Begin(q, "confirm", "work")
    /\ UNCHANGED <<clock, stored, generated, history>>

SetupIsLive(now) == credential.status = "pending" /\ credential.expiresAt > now

(* Neither a stale setup nor a late one counts as a failed code.           *)
NothingToConfirm(q) ==
    /\ At(q, "work", "confirm")
    /\ ~SetupIsLive(requests[q].now)
    /\ Finish(q)
    /\ UNCHANGED <<clock, stored, generated, history>>

ConfirmSetup(q, step) ==
    /\ At(q, "work", "confirm")
    /\ SetupIsLive(requests[q].now)
    /\ step \in ValidSteps(requests[q].now)
    /\ CanGenerate
    /\ codes' = codes + CodesPerSet
    /\ credential' = [credential EXCEPT
            !.status = "enabled", !.codes = NewCodes, !.lastStep = step,
            !.failed = 0, !.expiresAt = Never, !.blockedUntil = Never]
    /\ Versioned("enrolled")
    /\ Accept({Totp(step)})
    /\ Finish(q)
    /\ UNCHANGED <<clock, challenges, secrets, issued>>

-----------------------------------------------------------------------------
(* Login.                                                                  *)

(* AuthService.login: the password, getStatus and the authVersion a        *)
(* challenge is issued for.                                                *)
BeginLogin(q) ==
    /\ Active /\ Enabled
    /\ Challenge # issued
    /\ requests[q].pc = "idle"
    /\ requests' = [requests EXCEPT ![q] =
            [Idle EXCEPT !.pc = "issue", !.op = "password", !.version = authVersion]]
    /\ UNCHANGED <<clock, stored, generated, history>>

(* issue, under a token never seen before.                                 *)
IssueChallenge(q, h) ==
    /\ At(q, "issue", "password")
    /\ h \notin issued
    /\ issued' = issued \cup {h}
    /\ challenges' = [x \in DOMAIN challenges \cup {h} |->
            IF x = h
            THEN [authVersion |-> requests[q].version, failed |-> 0,
                  expiresAt |-> clock + ChallengeTtl, consumed |-> FALSE]
            ELSE challenges[x]]
    /\ Finish(q)
    /\ UNCHANGED <<clock, credential, authVersion, deletion, audit, secrets, codes,
                   history>>

(* Challenges are deleted.                                                 *)
Forget(hs) == challenges' = [h \in DOMAIN challenges \ hs |-> challenges[h]]

(* The TTL index on challenges.                                            *)
ExpireChallenge(h) ==
    /\ h \in DOMAIN challenges
    /\ challenges[h].expiresAt <= clock
    /\ Forget({h})
    /\ UNCHANGED <<clock, credential, authVersion, deletion, audit, requests, generated,
                   history>>

(* resolve, findAuthenticationState and the comparison of their versions.  *)
ResolveChallenge(q, h) ==
    /\ Active /\ Usable(h, clock)
    /\ challenges[h].authVersion = authVersion
    /\ Allowed(clock)
    /\ requests[q].pc = "idle"
    /\ requests' = [requests EXCEPT ![q] =
            [Idle EXCEPT !.pc = "work", !.op = "login", !.now = clock,
                         !.challenge = h, !.version = authVersion]]
    /\ UNCHANGED <<clock, stored, generated, history>>

LoginFailures == {"challenge", "factor"}

(* consume, for the version the request read when it began.                *)
MayConsume(q) ==
    LET h == requests[q].challenge
    IN  Usable(h, requests[q].now)
        /\ challenges[h].authVersion = requests[q].version

Consume(q) ==
    challenges' = [challenges EXCEPT ![requests[q].challenge].consumed = TRUE]

(* Mutant of ForgetFailures: the count is kept.                            *)
ForgetBlock(c) ==
    [c EXCEPT !.blockedUntil = Never, !.windowStart = Never]

(* resetSecondFactorFailures.                                              *)
ForgetFailures(c) ==
    [c EXCEPT !.failed = 0, !.blockedUntil = Never, !.windowStart = Never]

LoginByTotp(q, step) ==
    /\ At(q, "work", "login")
    /\ Enabled /\ step \in ValidSteps(requests[q].now) /\ MayConsume(q)
    /\ credential' = ForgetFailures([credential EXCEPT !.lastStep = step])
    /\ Consume(q)
    /\ Accept({Totp(step), <<"challenge", requests[q].challenge>>})
    /\ Finish(q)
    /\ UNCHANGED <<clock, authVersion, deletion, audit, generated>>

LoginByRecovery(q, code) ==
    /\ At(q, "work", "login")
    /\ Enabled /\ code \in credential.codes /\ MayConsume(q)
    /\ credential' = ForgetFailures([credential EXCEPT !.codes = @ \ {code}])
    /\ Consume(q)
    /\ Accept({<<"recovery", code>>, <<"challenge", requests[q].challenge>>})
    /\ Finish(q)
    /\ UNCHANGED <<clock, authVersion, deletion, audit, generated>>

(* A good code for a challenge that is over: rolled back, nothing counted. *)
ChallengeIsOver(q) ==
    /\ At(q, "work", "login")
    /\ Enabled /\ ~MayConsume(q)
    /\ Finish(q)
    /\ UNCHANGED <<clock, stored, generated, history>>

-----------------------------------------------------------------------------
(* Disabling and regenerating, and the step-up before account deletion.    *)

BeginChange(q, op) ==
    /\ op \in {"disable", "regenerate"}
    /\ Active /\ Allowed(clock)
    /\ Begin(q, op, "work")
    /\ UNCHANGED <<clock, stored, generated, history>>

Disable(q, proof) ==
    /\ At(q, "work", "disable")
    /\ Enabled
    /\ credential' = NoCredential
    /\ Versioned("disabled")
    /\ Accept({proof})
    /\ Finish(q)
    /\ UNCHANGED <<clock, challenges, generated>>

DisableProofs(now) ==
    {Totp(step) : step \in ValidSteps(now)}
        \cup {<<"recovery", code>> : code \in credential.codes}

Regenerate(q, step) ==
    /\ At(q, "work", "regenerate")
    /\ Enabled /\ step \in ValidSteps(requests[q].now)
    /\ CanGenerate
    /\ codes' = codes + CodesPerSet
    /\ credential' = [credential EXCEPT !.codes = NewCodes, !.lastStep = step]
    /\ Versioned("regenerated")
    /\ Accept({Totp(step)})
    /\ Finish(q)
    /\ UNCHANGED <<clock, challenges, secrets, issued>>

(* A wrong code, or no enabled factor to check it against.                 *)
WrongCode(q) ==
    /\ requests[q].pc = "work"
    /\ \/ requests[q].op = "login" /\ Reject(q, LoginFailures)
       \/ requests[q].op \in {"disable", "regenerate"} /\ Reject(q, {"factor"})
       \/ /\ requests[q].op = "confirm" /\ SetupIsLive(requests[q].now)
          /\ Reject(q, {"factor"})

(* isTransactionContention: withTransaction has given up retrying.         *)
Contend(q) ==
    /\ requests[q].pc = "work"
    /\ \/ requests[q].op = "login" /\ Reject(q, LoginFailures)
       \/ requests[q].op \in {"disable", "regenerate"} /\ Reject(q, {"factor"})
       \/ /\ requests[q].op = "confirm"
          /\ Finish(q)
          /\ UNCHANGED <<clock, stored, generated, history>>

(* incrementAuthVersion finds no active user: all is rolled back, and      *)
(* nothing is counted.                                                     *)
UserIsGone(q) ==
    /\ requests[q].pc = "work" /\ requests[q].op \in {"confirm", "disable", "regenerate"}
    /\ ~Active
    /\ Finish(q)
    /\ UNCHANGED <<clock, stored, generated, history>>

-----------------------------------------------------------------------------
(* The deletion of the user.                                               *)

(* requestAccountDeletion goes on to the request.                          *)
Delete(q) ==
    requests' = [requests EXCEPT ![q] = [Idle EXCEPT !.pc = "delete", !.op = "stepUp"]]

(* Without a second factor the password is enough.                         *)
BeginDeletion(q) ==
    /\ Active /\ ~Enabled
    /\ requests[q].pc = "idle"
    /\ Delete(q)
    /\ UNCHANGED <<clock, stored, generated, history>>

(* assertDeletionStepUp verifies a code of the secret it read; a failure   *)
(* is not counted.                                                         *)
BeginStepUp(q, step) ==
    /\ Active /\ Enabled /\ step \in ValidSteps(clock)
    /\ requests[q].pc = "idle"
    /\ requests' = [requests EXCEPT ![q] =
            [Idle EXCEPT !.pc = "accept", !.op = "stepUp", !.version = credential.id,
                         !.secret = credential.secret, !.step = step]]
    /\ UNCHANGED <<clock, stored, generated, history>>

(* Mutant of StepUpMatches: its update asks nothing of the last step.      *)
StepUpMatchesAnyStep(r) == Enabled /\ credential.id = r.version

(* The filter of its update, which is outside a transaction.               *)
StepUpMatches(r) ==
    Enabled /\ credential.id = r.version /\ r.step > credential.lastStep

AcceptStepUp(q) ==
    /\ At(q, "accept", "stepUp")
    /\ StepUpMatches(requests[q])
    /\ credential' = [credential EXCEPT !.lastStep = requests[q].step]
    /\ Accept({<<"totp", requests[q].secret, requests[q].step>>})
    /\ Delete(q)
    /\ UNCHANGED <<clock, authVersion, deletion, audit, challenges, generated>>

RefuseStepUp(q) ==
    /\ At(q, "accept", "stepUp")
    /\ ~StepUpMatches(requests[q])
    /\ Finish(q)
    /\ UNCHANGED <<clock, stored, generated, history>>

(* UserDeletionService.request.                                            *)
RequestDeletion(q) ==
    /\ At(q, "delete", "stepUp")
    /\ Active
    /\ deletion' = "requested"
    /\ authVersion' = authVersion + 1
    /\ Finish(q)
    /\ UNCHANGED <<clock, credential, audit, challenges, generated, history>>

(* Deletion is off, the user owns a space, or he is no longer active.      *)
RefuseDeletion(q) ==
    /\ At(q, "delete", "stepUp")
    /\ Finish(q)
    /\ UNCHANGED <<clock, stored, generated, history>>

(* The auth_data stage of the worker, which may run more than once: first  *)
(* the challenges, then the credential.                                    *)
ClearChallenges ==
    /\ ~Active
    /\ deletion' = "clearing"
    /\ Forget(DOMAIN challenges)
    /\ UNCHANGED <<clock, credential, authVersion, audit, requests, generated, history>>

ClearCredential ==
    /\ deletion = "clearing"
    /\ credential' = NoCredential
    /\ UNCHANGED <<clock, authVersion, deletion, audit, challenges, requests, generated,
                   history>>

-----------------------------------------------------------------------------
(* The process serving a request ends.                                     *)
Crash(q) ==
    /\ requests[q].pc # "idle"
    /\ Finish(q)
    /\ UNCHANGED <<clock, stored, generated, history>>

Tick ==
    /\ clock < MaxTime
    /\ clock' = clock + 1
    /\ UNCHANGED <<stored, requests, generated, history>>

Init ==
    /\ clock = 2
    /\ credential = NoCredential
    /\ authVersion = 0 /\ deletion = "none"
    /\ audit = [change \in Change |-> 0]
    /\ challenges = [h \in {} |-> None]
    /\ requests = [q \in Request |-> Idle]
    /\ secrets = 0 /\ codes = 0 /\ issued = {}
    /\ accepted = {} /\ reused = {} /\ replaced = {}

Setup(q) ==
    \/ StartSetup(q) \/ UpsertSetup(q)
    \/ BeginConfirm(q) \/ NothingToConfirm(q)
    \/ \E step \in ValidSteps(requests[q].now) : ConfirmSetup(q, step)

Login(q) ==
    \/ BeginLogin(q) \/ ChallengeIsOver(q)
    \/ \E h \in Challenge : IssueChallenge(q, h) \/ ResolveChallenge(q, h)
    \/ \E step \in ValidSteps(requests[q].now) : LoginByTotp(q, step)
    \/ \E code \in credential.codes : LoginByRecovery(q, code)

ChangeFactor(q) ==
    \/ \E op \in {"disable", "regenerate"} : BeginChange(q, op)
    \/ \E proof \in DisableProofs(requests[q].now) : Disable(q, proof)
    \/ \E step \in ValidSteps(requests[q].now) : Regenerate(q, step)
    \/ UserIsGone(q)

Deletion(q) ==
    \/ \E step \in ValidSteps(clock) : BeginStepUp(q, step)
    \/ AcceptStepUp(q) \/ RefuseStepUp(q)
    \/ BeginDeletion(q) \/ RequestDeletion(q) \/ RefuseDeletion(q)

Failure(q) ==
    WrongCode(q) \/ Contend(q) \/ RecordFactorFailure(q) \/ RecordChallengeFailure(q)

Step(q) ==
    \/ Setup(q) \/ Login(q) \/ ChangeFactor(q) \/ Deletion(q)
    \/ Failure(q) \/ Crash(q)

Next ==
    \/ \E q \in Request : Step(q)
    \/ \E h \in Challenge : ExpireChallenge(h)
    \/ ExpirePending \/ ClearChallenges \/ ClearCredential \/ Tick

Spec == Init /\ [][Next]_vars

-----------------------------------------------------------------------------
(* Type correctness.                                                       *)
TypeOK ==
    /\ clock \in Time
    /\ credential \in CredentialDocument
    /\ authVersion \in Nat
    /\ deletion \in {"none", "requested", "clearing"}
    /\ audit \in [Change -> Nat]
    /\ DOMAIN challenges \subseteq issued /\ issued \subseteq Challenge
    /\ challenges \in [DOMAIN challenges -> ChallengeDocument]
    /\ requests \in [Request -> RequestState]
    /\ secrets \in Nat /\ codes \in Nat

(* Nothing is accepted twice: no code of one time step of a secret, no     *)
(* recovery code and no challenge completes two of the requests that ask   *)
(* for it - login, confirmation, disabling, regeneration, the step-up      *)
(* before deletion - whichever race.  A step-up that verified a code of a  *)
(* secret which startSetup took from the enabled factor meanwhile          *)
(* (SetupKeepsActive) may still accept that code's step once more.         *)
UsedOnce ==
    \A proof \in reused : proof[1] = "totp" /\ proof[2] \in replaced

(* What the two-factor specification promises of startSetup: an enabled    *)
(* factor is answered 409 and not replaced, so it never turns pending.     *)
SetupKeepsActive == [][Enabled => credential'.status # "pending"]_vars

(* One change of the factor: its version, its event.                       *)
Became(change) ==
    /\ authVersion' = authVersion + 1
    /\ audit' = [audit EXCEPT ![change] = @ + 1]

(* The request for deletion, which leaves the factor to the worker.        *)
LeftForDeletion ==
    /\ deletion = "none" /\ deletion' = "requested"
    /\ authVersion' = authVersion + 1
    /\ UNCHANGED <<credential, audit>>

ChangedStep ==
    /\ (Enabled /\ ~Enabled') =>
            \/ Became("disabled")
            \/ deletion = "clearing" /\ credential' = NoCredential
            \/ credential'.status = "pending"
    /\ (~Enabled /\ Enabled') => Became("enrolled")
    /\ (Enabled /\ Enabled') =>
            /\ credential'.secret = credential.secret
            /\ credential'.codes \subseteq credential.codes \/ Became("regenerated")
    /\ authVersion' # authVersion =>
            \/ Enabled /\ ~Enabled' /\ Became("disabled")
            \/ ~Enabled /\ Enabled' /\ Became("enrolled")
            \/ /\ Enabled /\ Enabled' /\ Became("regenerated")
               /\ credential'.codes \cap credential.codes = {}
            \/ LeftForDeletion
    /\ audit' # audit \/ Active # Active' => authVersion' # authVersion

(* Each enrolment, disabling and regeneration moves authVersion by one, in *)
(* the same step as the credential and the audit event, so every token     *)
(* issued before it stops being current; besides these only the request    *)
(* for deletion moves the version, when the user stops being active.  An   *)
(* enabled factor goes by being disabled, by the worker's clearing of a    *)
(* user under deletion, or by the one way that SetupKeepsActive shows to   *)
(* contradict the specification: a startSetup that overwrites it.          *)
ChangesAreVersioned == [][ChangedStep]_vars

(* The count of failures and the block move together: whichever requests   *)
(* overlap, confirm, log in or start over, a count that reached the limit  *)
(* never stands without a block.                                           *)
LimitBlocks ==
    credential.failed >= FailureLimit => credential.blockedUntil # Never
=============================================================================
