-------------------------- MODULE TwoFactorProofs --------------------------
(***************************************************************************)
(* Theorems of TwoFactor, for every finite set of requests, every set of   *)
(* challenges and every value of the limits and lifetimes.                 *)
(***************************************************************************)
EXTENDS TwoFactor, TLAPS

(* A stored recovery code, secret or id is one that was generated.         *)
CredentialInv ==
    /\ credential.codes \subseteq 1 .. codes
    /\ credential.status # "none" =>
            credential.secret \in 1 .. secrets /\ credential.id \in 1 .. secrets

(* A request that will write the time it began has read the clock.         *)
RequestsInv ==
    \A q \in Request :
        requests[q].pc \in {"upsert", "work", "fail"} => requests[q].now \in Time

(* What a step-up under way has verified: a code of the secret the         *)
(* credential still has, unless that was taken from the enabled factor.    *)
Verified(r) ==
    /\ r.secret \in 1 .. secrets /\ r.version \in 1 .. secrets
    /\ credential.id = r.version =>
            (Enabled /\ credential.secret = r.secret) \/ r.secret \in replaced

StepUpsInv == \A q \in Request : requests[q].pc = "accept" => Verified(requests[q])

(* The proof p is not good any more: its secret has been replaced or its   *)
(* step passed, its recovery code deleted, its challenge consumed or gone. *)
UsedTotp(p) ==
    \E s \in 1 .. secrets, step \in Nat :
        /\ p = <<"totp", s, step>>
        /\ s = credential.secret => step <= credential.lastStep

UsedCode(p) ==
    \E code \in 1 .. codes : p = <<"recovery", code>> /\ code \notin credential.codes

UsedChallenge(p) ==
    \E h \in issued :
        /\ p = <<"challenge", h>>
        /\ h \in DOMAIN challenges => challenges[h].consumed

Used(p) == UsedTotp(p) \/ UsedCode(p) \/ UsedChallenge(p)

AcceptedAreUsed == \A p \in accepted : Used(p)

(* A code of a secret that startSetup took from the enabled factor.        *)
Excused(p) == p[1] = "totp" /\ p[2] \in replaced

IInv ==
    /\ TypeOK
    /\ CredentialInv
    /\ RequestsInv
    /\ StepUpsInv
    /\ AcceptedAreUsed
    /\ UsedOnce
    /\ LimitBlocks

-----------------------------------------------------------------------------
(* The requests.                                                           *)

RequestsOK == requests \in [Request -> RequestState] /\ RequestsInv

(* A step after which no other step-up is under way than before.           *)
NoNewStepUp ==
    \A q \in Request : requests'[q].pc = "accept" => requests'[q] = requests[q]

RequestsMove == RequestsOK' /\ NoNewStepUp

LEMMA RequestFacts ==
    ASSUME IInv
    PROVE  RequestsOK /\ clock \in Time /\ \A q \in Request : requests[q] \in RequestState
BY DEF IInv, TypeOK, RequestsOK

LEMMA TimeFacts ==
    /\ Time \subseteq Nat \ {0} /\ 2 \in Time
    /\ \A now \in Time : now <= MaxTime
BY TwoFactorAssumption DEF Time

LEMMA RequestKeeps ==
    ASSUME RequestsOK, NEW q \in Request, NEW r \in RequestState,
           r.pc \in {"upsert", "work", "fail"} => r.now \in Time,
           r.pc # "accept", requests' = [requests EXCEPT ![q] = r]
    PROVE  RequestsMove
BY DEF RequestsMove, NoNewStepUp, RequestsOK, RequestsInv

LEMMA FinishKeeps ==
    ASSUME RequestsOK, NEW q \in Request, Finish(q)
    PROVE  RequestsMove
<1>1. Idle \in RequestState /\ Idle.pc = "idle" /\ Idle.challenge = None
  BY DEF Idle, RequestState, Never
<1>2. QED
  BY <1>1, RequestKeeps DEF Finish

LEMMA BeginKeeps ==
    ASSUME RequestsOK, clock \in Time, NEW q \in Request,
           NEW op \in {"setup", "confirm", "disable", "regenerate"},
           NEW pc \in {"upsert", "work"}, Begin(q, op, pc)
    PROVE  RequestsMove
<1>1. [Idle EXCEPT !.pc = pc, !.op = op, !.now = clock] \in RequestState
      /\ [Idle EXCEPT !.pc = pc, !.op = op, !.now = clock].now = clock
      /\ [Idle EXCEPT !.pc = pc, !.op = op, !.now = clock].pc = pc
  BY DEF Idle, RequestState, Never
<1>2. QED
  BY <1>1, RequestKeeps DEF Begin

LEMMA RejectKeeps ==
    ASSUME RequestsOK, NEW q \in Request, requests[q].pc = "work",
           NEW owes \in SUBSET {"challenge", "factor"}, Reject(q, owes)
    PROVE  RequestsMove
<1> DEFINE r == [Idle EXCEPT !.pc = "fail", !.now = requests[q].now,
                             !.challenge = requests[q].challenge, !.owes = owes]
<1>1. requests[q] \in RequestState /\ requests[q].now \in Time
  BY DEF RequestsOK, RequestsInv
<1>2. r \in RequestState /\ r.now = requests[q].now /\ r.pc = "fail"
  BY <1>1 DEF RequestState, Idle, Never
<1>3. requests' = [requests EXCEPT ![q] = r]
  BY DEF Reject
<1>4. QED
  BY <1>1, <1>2, <1>3, RequestKeeps

LEMMA PayKeeps ==
    ASSUME RequestsOK, NEW q \in Request, NEW failure, Pay(q, failure)
    PROVE  RequestsMove /\ requests[q].now \in Time
<1> DEFINE r == [requests[q] EXCEPT !.owes = @ \ {failure}]
<1>1. requests[q] \in RequestState /\ requests[q].now \in Time /\ requests[q].pc = "fail"
  BY DEF RequestsOK, RequestsInv, Pay
<1>2. CASE requests[q].owes = {failure}
  <2>1. Finish(q)
    BY <1>2 DEF Pay, Finish, RequestsOK
  <2>2. QED
    BY <1>1, <2>1, FinishKeeps
<1>3. CASE requests[q].owes # {failure}
  <2>1. r \in RequestState /\ r.now = requests[q].now /\ r.pc = "fail"
    BY <1>1 DEF RequestState
  <2>2. requests' = [requests EXCEPT ![q] = IF requests[q].owes = {failure} THEN Idle
                                            ELSE r]
    BY DEF Pay
  <2>3. requests' = [requests EXCEPT ![q] = r]
    BY <1>3, <2>2
  <2> HIDE DEF r
  <2>4. QED
    BY <1>1, <2>1, <2>3, RequestKeeps
<1>4. QED
  BY <1>2, <1>3

(* The steps that only move a request on.                                  *)
ReadStep(q) ==
    \/ StartSetup(q) \/ BeginConfirm(q) \/ NothingToConfirm(q)
    \/ BeginLogin(q) \/ ChallengeIsOver(q)
    \/ \E h \in Challenge : ResolveChallenge(q, h)
    \/ \E op \in {"disable", "regenerate"} : BeginChange(q, op)
    \/ UserIsGone(q) \/ BeginDeletion(q) \/ RefuseStepUp(q) \/ RefuseDeletion(q)
    \/ WrongCode(q) \/ Contend(q) \/ Crash(q)

LEMMA DeleteKeeps ==
    ASSUME RequestsOK, NEW q \in Request, Delete(q)
    PROVE  RequestsMove
<1> DEFINE r == [Idle EXCEPT !.pc = "delete", !.op = "stepUp"]
<1>1. r \in RequestState /\ r.pc = "delete"
  BY DEF RequestState, Idle, Never
<1>2. QED
  BY <1>1, RequestKeeps DEF Delete

LEMMA BeginLoginKeeps ==
    ASSUME IInv, NEW q \in Request, BeginLogin(q)
    PROVE  RequestsMove
<1> DEFINE r == [Idle EXCEPT !.pc = "issue", !.op = "password", !.version = authVersion]
<1>1. authVersion \in Nat /\ RequestsOK
  BY RequestFacts DEF IInv, TypeOK
<1>2. r \in RequestState /\ r.pc = "issue"
  BY <1>1 DEF RequestState, Idle, Never
<1>3. QED
  BY <1>1, <1>2, RequestKeeps DEF BeginLogin

LEMMA ResolveChallengeKeeps ==
    ASSUME IInv, NEW q \in Request, NEW h \in Challenge, ResolveChallenge(q, h)
    PROVE  RequestsMove
<1> DEFINE r == [Idle EXCEPT !.pc = "work", !.op = "login", !.now = clock,
                             !.challenge = h, !.version = authVersion]
<1>1. authVersion \in Nat /\ clock \in Time
  BY DEF IInv, TypeOK
<1>2. r \in RequestState /\ r.now = clock /\ r.pc = "work"
  BY <1>1 DEF RequestState, Idle, Never
<1>3. QED
  BY <1>1, <1>2, RequestFacts, RequestKeeps DEF ResolveChallenge

(* A step that only writes a request.                                      *)
LEMMA ReadKeeps ==
    ASSUME IInv, UNCHANGED <<clock, stored, generated, history>>, RequestsOK', StepUpsInv'
    PROVE  IInv'
<1>1. /\ clock' = clock /\ credential' = credential /\ authVersion' = authVersion
      /\ deletion' = deletion /\ audit' = audit /\ challenges' = challenges
      /\ secrets' = secrets /\ codes' = codes /\ issued' = issued
      /\ accepted' = accepted /\ reused' = reused /\ replaced' = replaced
  BY DEF stored, generated, history
<1>2. TypeOK' /\ RequestsInv'
  BY <1>1 DEF IInv, TypeOK, RequestsOK
<1>3. \A p : Used(p) => Used(p)'
  BY <1>1 DEF Used, UsedTotp, UsedCode, UsedChallenge
<1>4. CredentialInv' /\ AcceptedAreUsed' /\ UsedOnce' /\ LimitBlocks'
  BY <1>1, <1>3 DEF IInv, CredentialInv, AcceptedAreUsed, UsedOnce, LimitBlocks
<1>5. QED
  BY <1>2, <1>4 DEF IInv

LEMMA BeginStepUpKeeps ==
    ASSUME IInv, NEW q \in Request, NEW step \in ValidSteps(clock), BeginStepUp(q, step)
    PROVE  IInv'
<1> DEFINE r == [Idle EXCEPT !.pc = "accept", !.op = "stepUp", !.version = credential.id,
                             !.secret = credential.secret, !.step = step]
<1>1. /\ credential.id \in Nat /\ credential.secret \in Nat
      /\ credential.lastStep \in Nat /\ clock \in Nat
  BY TimeFacts DEF IInv, TypeOK, CredentialDocument
<1>2. step \in Nat
  BY <1>1 DEF ValidSteps
<1>3. /\ r \in RequestState /\ r.pc = "accept"
      /\ r.version = credential.id /\ r.secret = credential.secret
  BY <1>1, <1>2 DEF RequestState, Idle, Never
<1>4. UNCHANGED <<clock, stored, generated, history>>
  BY DEF BeginStepUp
<1>5. /\ clock' = clock /\ credential' = credential /\ secrets' = secrets
      /\ replaced' = replaced
  BY <1>4 DEF stored, generated, history
<1>6. requests' = [requests EXCEPT ![q] = r]
  BY DEF BeginStepUp
<1> HIDE DEF r
<1>7. RequestsOK'
  BY <1>3, <1>5, <1>6, RequestFacts DEF RequestsOK, RequestsInv
<1>8. Verified(r)
  BY <1>3 DEF BeginStepUp, Enabled, IInv, CredentialInv, Verified
<1>9. StepUpsInv'
  <2>1. ASSUME NEW x \in Request, requests'[x].pc = "accept"
        PROVE  Verified(requests'[x])
    BY <1>6, <1>8, <2>1, RequestFacts DEF IInv, StepUpsInv, RequestsOK
  <2>2. QED
    BY <1>5, <2>1 DEF StepUpsInv, Verified, Enabled
<1>10. QED
  BY <1>4, <1>7, <1>9, ReadKeeps

LEMMA ReadStepKeeps ==
    ASSUME IInv, NEW q \in Request, ReadStep(q)
    PROVE  IInv'
<1>1. UNCHANGED <<clock, stored, generated, history>>
  BY DEF ReadStep, StartSetup, BeginConfirm, NothingToConfirm, BeginLogin,
     ChallengeIsOver, ResolveChallenge, BeginChange, UserIsGone, BeginDeletion,
     RefuseStepUp, RefuseDeletion, WrongCode, Contend, Crash, Reject
<1>2. RequestsMove
  <2>1. CASE StartSetup(q) \/ BeginConfirm(q)
    BY <2>1, RequestFacts, BeginKeeps DEF StartSetup, BeginConfirm
  <2>2. ASSUME NEW op \in {"disable", "regenerate"}, BeginChange(q, op) PROVE RequestsMove
    BY <2>2, RequestFacts, BeginKeeps DEF BeginChange
  <2>3. CASE NothingToConfirm(q) \/ ChallengeIsOver(q) \/ Crash(q)
    BY <2>3, RequestFacts, FinishKeeps DEF NothingToConfirm, ChallengeIsOver, Crash
  <2>4. CASE UserIsGone(q) \/ RefuseStepUp(q) \/ RefuseDeletion(q)
    BY <2>4, RequestFacts, FinishKeeps DEF UserIsGone, RefuseStepUp, RefuseDeletion
  <2>5. CASE BeginDeletion(q)
    BY <2>5, RequestFacts, DeleteKeeps DEF BeginDeletion
  <2>6. CASE WrongCode(q)
    BY <2>6, RequestFacts, RejectKeeps DEF WrongCode, LoginFailures
  <2>7. CASE Contend(q)
    BY <2>7, RequestFacts, RejectKeeps, FinishKeeps DEF Contend, LoginFailures
  <2>8. QED
    BY <2>1, <2>2, <2>3, <2>4, <2>5, <2>6, <2>7, BeginLoginKeeps, ResolveChallengeKeeps
       DEF ReadStep
<1>3. credential' = credential /\ secrets' = secrets /\ replaced' = replaced
  BY <1>1 DEF stored, generated, history
<1>4. StepUpsInv'
  BY <1>2, <1>3 DEF IInv, RequestsMove, NoNewStepUp, StepUpsInv, Verified, Enabled
<1>5. QED
  BY <1>1, <1>2, <1>4, ReadKeeps DEF RequestsMove

-----------------------------------------------------------------------------
(* What is accepted.                                                       *)

DocumentsOK ==
    /\ credential \in CredentialDocument
    /\ authVersion \in Nat
    /\ deletion \in {"none", "requested", "clearing"}
    /\ audit \in [Change -> Nat]
    /\ DOMAIN challenges \subseteq issued /\ issued \subseteq Challenge
    /\ challenges \in [DOMAIN challenges -> ChallengeDocument]
    /\ secrets \in Nat /\ codes \in Nat

(* The credential is a new document or none, or the same one as before:    *)
(* of the same secret, or of another that startSetup gave it.              *)
SameFactor ==
    \/ credential'.id \notin 1 .. secrets
    \/ /\ credential'.id = credential.id /\ credential'.secret = credential.secret
       /\ Enabled => Enabled'
    \/ credential'.id = credential.id /\ (Enabled => credential.secret \in replaced')

(* Nothing once used becomes good again.                                   *)
Forward ==
    /\ secrets <= secrets' /\ codes <= codes'
    /\ issued \subseteq issued' /\ replaced \subseteq replaced'
    /\ SameFactor
    /\ credential'.secret \in 1 .. secrets =>
            /\ credential'.secret = credential.secret
            /\ credential.lastStep <= credential'.lastStep
    /\ credential'.codes \cap (1 .. codes) \subseteq credential.codes
    /\ \A h \in issued \cap DOMAIN challenges' :
            /\ h \in DOMAIN challenges
            /\ challenges[h].consumed => challenges'[h].consumed

LEMMA DocumentFacts ==
    ASSUME IInv
    PROVE  /\ DocumentsOK /\ credential \in CredentialDocument
           /\ secrets \in Nat /\ codes \in Nat
           /\ \A h \in DOMAIN challenges : challenges[h] \in ChallengeDocument
BY DEF IInv, TypeOK, DocumentsOK

LEMMA UsedStays ==
    ASSUME DocumentsOK, DocumentsOK', Forward, NEW p, Used(p)
    PROVE  Used(p)'
<1>1. /\ secrets \in Nat /\ codes \in Nat /\ secrets' \in Nat /\ codes' \in Nat
      /\ credential.lastStep \in Nat /\ credential'.lastStep \in Nat
  BY DEF DocumentsOK, CredentialDocument
<1>2. CASE UsedTotp(p)
  <2>1. PICK s \in 1 .. secrets, step \in Nat :
            /\ p = <<"totp", s, step>>
            /\ s = credential.secret => step <= credential.lastStep
    BY <1>2 DEF UsedTotp
  <2>2. s \in 1 .. secrets'
    BY <1>1 DEF Forward
  <2>3. s = credential'.secret => step <= credential'.lastStep
    BY <1>1, <2>1, TwoFactorAssumption DEF Forward
  <2>4. QED
    BY <2>1, <2>2, <2>3 DEF Used, UsedTotp
<1>3. CASE UsedCode(p)
  <2>1. PICK code \in 1 .. codes : p = <<"recovery", code>> /\ code \notin credential.codes
    BY <1>3 DEF UsedCode
  <2>2. code \in 1 .. codes' /\ code \notin credential'.codes
    BY <1>1, <2>1 DEF Forward
  <2>3. QED
    BY <2>1, <2>2 DEF Used, UsedCode
<1>4. CASE UsedChallenge(p)
  BY <1>4 DEF Used, UsedChallenge, Forward
<1>5. QED
  BY <1>2, <1>3, <1>4 DEF Used

(* What a step-up has verified stays so.                                   *)
LEMMA VerifiedStays ==
    ASSUME DocumentsOK, DocumentsOK', Forward, NEW r, Verified(r)
    PROVE  Verified(r)'
<1>1. secrets \in Nat /\ secrets' \in Nat
  BY DEF DocumentsOK
<1>2. r.secret \in 1 .. secrets' /\ r.version \in 1 .. secrets'
  BY <1>1 DEF Verified, Forward
<1>3. credential'.id = r.version =>
            (Enabled' /\ credential'.secret = r.secret) \/ r.secret \in replaced'
  BY DEF Verified, Forward, SameFactor
<1>4. QED
  BY <1>2, <1>3 DEF Verified

(* Accepting proofs, in history.                                           *)
Recorded(proofs) ==
    /\ accepted' = accepted \cup proofs
    /\ reused' = reused \cup (proofs \cap accepted)

(* A step that writes documents.                                           *)
LEMMA WriteKeeps ==
    ASSUME IInv, UNCHANGED clock, RequestsMove, DocumentsOK', CredentialInv', LimitBlocks',
           Forward, NEW proofs, Recorded(proofs),
           \A p \in proofs : Used(p)' /\ (Used(p) => Excused(p)')
    PROVE  IInv'
<1>1. \A p \in accepted : Used(p) /\ Used(p)'
  BY DocumentFacts, UsedStays DEF IInv, AcceptedAreUsed
<1>2. \A p \in proofs \cap accepted : Excused(p)'
  BY <1>1
<1>3. \A p \in reused : Excused(p)'
  BY DEF IInv, UsedOnce, Excused, Forward
<1>4. AcceptedAreUsed' /\ UsedOnce'
  BY <1>1, <1>2, <1>3 DEF Recorded, UsedOnce, Excused, AcceptedAreUsed
<1>5. TypeOK' /\ RequestsInv'
  BY DEF IInv, TypeOK, DocumentsOK, RequestsMove, RequestsOK
<1>6. StepUpsInv'
  <2>1. ASSUME NEW q \in Request, requests'[q].pc = "accept"
        PROVE  Verified(requests[q])' /\ requests'[q] = requests[q]
    <3>1. requests'[q] = requests[q] /\ Verified(requests[q])
      BY <2>1 DEF RequestsMove, NoNewStepUp, IInv, StepUpsInv
    <3>2. PICK r : r = requests[q]
      OBVIOUS
    <3>3. Verified(r)'
      BY <3>1, <3>2, DocumentFacts, VerifiedStays
    <3>4. QED
      BY <3>1, <3>2, <3>3
  <2>2. QED
    BY <2>1 DEF StepUpsInv
<1>7. QED
  BY <1>4, <1>5, <1>6 DEF IInv

LEMMA NothingAccepted ==
    ASSUME UNCHANGED history
    PROVE  Recorded({}) /\ replaced' = replaced
BY DEF history, Recorded

LEMMA ProofsRecorded ==
    ASSUME NEW proofs, Accept(proofs)
    PROVE  Recorded(proofs) /\ replaced' = replaced
BY DEF Accept, Recorded

(* A code that is still good has not been used.                            *)
LEMMA FreshTotp ==
    ASSUME IInv, NEW now \in Time, NEW step \in ValidSteps(now)
    PROVE  ~Used(Totp(step)) /\ step \in Nat /\ step > credential.lastStep
<1>1. credential.lastStep \in Nat /\ now \in Nat /\ now <= MaxTime
  BY DocumentFacts, TimeFacts DEF CredentialDocument
<1>2. step \in Nat /\ step > credential.lastStep
  BY <1>1 DEF ValidSteps
<1>3. ~UsedTotp(Totp(step))
  BY <1>1, <1>2 DEF UsedTotp, Totp
<1>4. ~UsedCode(Totp(step)) /\ ~UsedChallenge(Totp(step))
  BY DEF UsedCode, UsedChallenge, Totp
<1>5. QED
  BY <1>2, <1>3, <1>4 DEF Used

LEMMA FreshCode ==
    ASSUME NEW code \in credential.codes
    PROVE  ~Used(<<"recovery", code>>)
BY DEF Used, UsedTotp, UsedCode, UsedChallenge

LEMMA FreshChallenge ==
    ASSUME NEW h, NEW now, Usable(h, now)
    PROVE  ~Used(<<"challenge", h>>)
BY DEF Used, UsedTotp, UsedCode, UsedChallenge, Usable

(* And once it is taken it has.                                            *)
LEMMA TotpIsUsed ==
    ASSUME NEW s \in 1 .. secrets', NEW step \in Nat,
           s = credential'.secret => step <= credential'.lastStep
    PROVE  Used(<<"totp", s, step>>)'
BY DEF Used, UsedTotp

LEMMA CodeIsUsed ==
    ASSUME NEW code \in 1 .. codes', code \notin credential'.codes
    PROVE  Used(<<"recovery", code>>)'
BY DEF Used, UsedCode

LEMMA ChallengeIsUsed ==
    ASSUME NEW h \in issued', challenges'[h].consumed
    PROVE  Used(<<"challenge", h>>)'
BY DEF Used, UsedChallenge

-----------------------------------------------------------------------------
(* The credential.                                                         *)

LEMMA CredentialFacts ==
    ASSUME IInv
    PROVE  /\ credential.status \in {"none", "pending", "enabled"}
           /\ credential.id \in Nat /\ credential.secret \in Nat
           /\ credential.lastStep \in Nat /\ credential.failed \in Nat
           /\ credential.blockedUntil \in Nat
           /\ credential.codes \subseteq 1 .. codes
           /\ credential.codes \subseteq 1 .. MaxCodes
           /\ credential.status # "none" =>
                    credential.secret \in 1 .. secrets /\ credential.id \in 1 .. secrets
BY DEF IInv, TypeOK, CredentialDocument, CredentialInv

LEMMA NoCredentialFacts ==
    /\ NoCredential \in CredentialDocument /\ NoCredential.status = "none"
    /\ NoCredential.codes = {} /\ NoCredential.secret = 0 /\ NoCredential.failed = 0
    /\ NoCredential.id = 0
BY DEF NoCredential, CredentialDocument, Never

(* The next set of codes is new.                                           *)
LEMMA NewCodesFacts ==
    ASSUME IInv, CanGenerate
    PROVE  /\ NewCodes \subseteq 1 .. MaxCodes
           /\ NewCodes \subseteq 1 .. (codes + CodesPerSet)
           /\ NewCodes \cap (1 .. codes) = {}
           /\ codes + CodesPerSet \in Nat /\ codes <= codes + CodesPerSet
BY DocumentFacts, TwoFactorAssumption DEF NewCodes, CanGenerate

LEMMA UpsertSetupKeeps ==
    ASSUME IInv, NEW q \in Request, UpsertSetup(q)
    PROVE  IInv'
<1> DEFINE id == IF credential.status = "none" THEN secrets + 1 ELSE credential.id
           expiresAt == requests[q].now + SetupTtl
<1>1. secrets \in Nat /\ codes \in Nat /\ secrets' = secrets + 1 /\ secrets + 1 \in Nat
  BY DocumentFacts DEF UpsertSetup
<1>2. id \in Nat /\ expiresAt \in Nat
  <2>1. requests[q].now \in Nat
    BY TimeFacts DEF UpsertSetup, At, IInv, RequestsInv
  <2>2. SetupTtl \in Nat
    BY TwoFactorAssumption
  <2>3. QED
    BY <1>1, <2>1, <2>2, CredentialFacts
<1>3. credential' = [NoCredential EXCEPT !.status = "pending", !.secret = secrets + 1,
                                         !.id = id, !.expiresAt = expiresAt]
  BY <1>1 DEF UpsertSetup
<1> HIDE DEF id, expiresAt
<1>4. /\ credential' \in CredentialDocument /\ credential'.status = "pending"
      /\ credential'.secret = secrets + 1 /\ credential'.codes = {}
      /\ credential'.failed = 0 /\ credential'.id = id
  BY <1>1, <1>2, <1>3, NoCredentialFacts DEF CredentialDocument
<1>5. RequestsMove
  BY RequestFacts, FinishKeeps DEF UpsertSetup
<1>6. DocumentsOK'
  BY <1>1, <1>4, DocumentFacts DEF UpsertSetup, DocumentsOK
<1>7. id \in 1 .. secrets + 1 /\ (id \notin 1 .. secrets \/ id = credential.id)
  BY <1>1, CredentialFacts DEF id
<1>8. CredentialInv' /\ LimitBlocks'
  BY <1>1, <1>4, <1>7, TwoFactorAssumption DEF CredentialInv, LimitBlocks
<1>9. SameFactor /\ replaced \subseteq replaced'
  BY <1>4, <1>7 DEF UpsertSetup, SameFactor
<1>10. Forward
  BY <1>1, <1>4, <1>9 DEF UpsertSetup, Forward
<1>11. Recorded({})
  BY DEF UpsertSetup, Recorded
<1>12. QED
  BY <1>5, <1>6, <1>8, <1>10, <1>11, WriteKeeps DEF UpsertSetup

(* The credential is deleted, with or without a proof.                     *)
LEMMA DeletedKeeps ==
    ASSUME IInv, credential' = NoCredential,
           UNCHANGED <<clock, deletion, challenges, generated, replaced>>,
           authVersion' \in Nat, audit' \in [Change -> Nat], RequestsMove,
           NEW proofs, Recorded(proofs), \A p \in proofs : ~Used(p) /\ Used(p)'
    PROVE  IInv'
<1>1. secrets' = secrets /\ codes' = codes /\ issued' = issued /\ secrets \in Nat
  BY DocumentFacts DEF generated
<1>2. DocumentsOK'
  BY <1>1, DocumentFacts, NoCredentialFacts DEF DocumentsOK
<1>3. CredentialInv' /\ LimitBlocks'
  BY NoCredentialFacts, TwoFactorAssumption DEF CredentialInv, LimitBlocks
<1>4. SameFactor
  BY <1>1, NoCredentialFacts DEF SameFactor
<1>5. Forward
  BY <1>1, <1>4, DocumentFacts, NoCredentialFacts DEF Forward
<1>6. QED
  BY <1>2, <1>3, <1>5, WriteKeeps

(* Deleted by the TTL index, or by the worker.                             *)
LEMMA GoneKeeps ==
    ASSUME IInv, ExpirePending \/ ClearCredential
    PROVE  IInv'
<1>1. /\ credential' = NoCredential
      /\ UNCHANGED <<clock, authVersion, deletion, audit, challenges, requests, generated,
                     history>>
  BY DEF ExpirePending, ClearCredential
<1>2. RequestsMove /\ authVersion' \in Nat /\ audit' \in [Change -> Nat]
  BY <1>1 DEF IInv, TypeOK, RequestsMove, NoNewStepUp, RequestsOK, RequestsInv
<1>3. Recorded({}) /\ replaced' = replaced
  BY <1>1, NothingAccepted
<1>4. QED
  BY <1>1, <1>2, <1>3, DeletedKeeps

LEMMA VersionedFacts ==
    ASSUME IInv, NEW change \in Change, Versioned(change)
    PROVE  authVersion' \in Nat /\ deletion' = deletion /\ audit' \in [Change -> Nat]
BY DEF IInv, TypeOK, Versioned

(* A request at work knows the time.                                       *)
LEMMA AtWork ==
    ASSUME IInv, NEW q \in Request, NEW op, At(q, "work", op)
    PROVE  requests[q].now \in Time
BY DEF IInv, RequestsInv, At

LEMMA DisableKeeps ==
    ASSUME IInv, NEW q \in Request, NEW proof \in DisableProofs(requests[q].now),
           Disable(q, proof)
    PROVE  IInv'
<1>1. credential.status = "enabled" /\ credential' = NoCredential
        /\ secrets' = secrets /\ codes' = codes
  BY DEF Disable, Enabled, generated
<1>2. ~Used(proof) /\ Used(proof)'
  <2>1. ASSUME NEW step \in ValidSteps(requests[q].now), proof = Totp(step)
        PROVE  ~Used(proof) /\ Used(proof)'
    <3>1. ~Used(Totp(step)) /\ step \in Nat
      BY AtWork, FreshTotp DEF Disable
    <3>2. PICK s \in 1 .. secrets' : s = credential.secret /\ s # credential'.secret
      BY <1>1, CredentialFacts, NoCredentialFacts
    <3>3. Used(<<"totp", s, step>>)'
      BY <3>1, <3>2, TotpIsUsed
    <3>4. proof = <<"totp", s, step>>
      BY <2>1, <3>2 DEF Totp
    <3>5. QED
      BY <2>1, <3>1, <3>3, <3>4
  <2>2. ASSUME NEW code \in credential.codes, proof = <<"recovery", code>>
        PROVE  ~Used(proof) /\ Used(proof)'
    <3>1. code \in 1 .. codes' /\ code \notin credential'.codes
      BY <1>1, CredentialFacts, NoCredentialFacts
    <3>2. QED
      BY <2>2, <3>1, FreshCode, CodeIsUsed
  <2>3. QED
    BY <2>1, <2>2 DEF DisableProofs
<1>3. RequestsMove
  BY RequestFacts, FinishKeeps DEF Disable
<1>4. authVersion' \in Nat /\ deletion' = deletion /\ audit' \in [Change -> Nat]
  BY VersionedFacts DEF Disable, Change
<1>5. Recorded({proof}) /\ replaced' = replaced
  BY ProofsRecorded DEF Disable
<1>6. QED
  BY <1>1, <1>2, <1>3, <1>4, <1>5, DeletedKeeps DEF Disable

(* A code of the current secret is accepted, and its step recorded.        *)
LEMMA TotpAccepted ==
    ASSUME IInv, credential.status # "none", NEW now \in Time, NEW step \in ValidSteps(now),
           credential'.secret = credential.secret, credential'.lastStep = step,
           secrets' = secrets
    PROVE  \E p : p = Totp(step) /\ ~Used(p) /\ Used(p)'
<1>1. ~Used(Totp(step)) /\ step \in Nat
  BY FreshTotp
<1>2. PICK s \in 1 .. secrets' : s = credential.secret
  BY CredentialFacts
<1>3. Used(<<"totp", s, step>>)'
  BY <1>1, TotpIsUsed
<1>4. PICK p : p = <<"totp", s, step>>
  OBVIOUS
<1>5. p = Totp(step)
  BY <1>2, <1>4 DEF Totp
<1>6. QED
  BY <1>1, <1>3, <1>4, <1>5

LEMMA ConfirmSetupKeeps ==
    ASSUME IInv, NEW q \in Request, NEW step \in ValidSteps(requests[q].now),
           ConfirmSetup(q, step)
    PROVE  IInv'
<1>1. requests[q].now \in Time /\ credential.status = "pending"
  BY AtWork DEF ConfirmSetup, SetupIsLive
<1>2. step \in Nat /\ step > credential.lastStep
  BY <1>1, FreshTotp, TwoFactorAssumption
<1>3. credential' = [credential EXCEPT
            !.status = "enabled", !.codes = NewCodes, !.lastStep = step,
            !.failed = 0, !.expiresAt = Never, !.blockedUntil = Never]
  BY DEF ConfirmSetup
<1>4. /\ credential' \in CredentialDocument /\ credential'.secret = credential.secret
      /\ credential'.lastStep = step /\ credential'.codes = NewCodes
      /\ credential'.failed = 0 /\ credential'.id = credential.id
  <2>1. NewCodes \in SUBSET (1 .. MaxCodes) /\ Never \in Nat
    BY NewCodesFacts DEF ConfirmSetup, Never
  <2>2. credential \in CredentialDocument
    BY DocumentFacts
  <2>3. QED
    BY <1>2, <1>3, <2>1, <2>2 DEF CredentialDocument
<1>5. RequestsMove
  BY RequestFacts, FinishKeeps DEF ConfirmSetup
<1>6. /\ codes' = codes + CodesPerSet /\ secrets' = secrets /\ issued' = issued
      /\ challenges' = challenges
  BY DEF ConfirmSetup
<1>7. DocumentsOK'
  BY <1>4, <1>6, DocumentFacts, NewCodesFacts, VersionedFacts
     DEF ConfirmSetup, DocumentsOK, Change
<1>8. CredentialInv' /\ LimitBlocks'
  <2>1. credential.secret \in 1 .. secrets /\ credential.id \in 1 .. secrets
    BY <1>1, CredentialFacts
  <2>2. NewCodes \subseteq 1 .. (codes + CodesPerSet)
    BY NewCodesFacts DEF ConfirmSetup
  <2>3. ~(0 >= FailureLimit)
    BY TwoFactorAssumption
  <2>4. QED
    BY <1>4, <1>6, <2>1, <2>2, <2>3 DEF CredentialInv, LimitBlocks
<1>9. PICK p : p = Totp(step) /\ ~Used(p) /\ Used(p)'
  BY <1>1, <1>4, <1>6, TotpAccepted
<1>10. Recorded({p}) /\ replaced' = replaced
  BY <1>9, ProofsRecorded DEF ConfirmSetup
<1>11. SameFactor
  BY <1>1, <1>4 DEF SameFactor, Enabled
<1>12. Forward
  BY <1>2, <1>4, <1>6, <1>10, <1>11, CredentialFacts, DocumentFacts, NewCodesFacts
     DEF ConfirmSetup, Forward
<1>13. QED
  BY <1>5, <1>7, <1>8, <1>9, <1>10, <1>12, WriteKeeps DEF ConfirmSetup

LEMMA RegenerateKeeps ==
    ASSUME IInv, NEW q \in Request, NEW step \in ValidSteps(requests[q].now),
           Regenerate(q, step)
    PROVE  IInv'
<1>1. requests[q].now \in Time /\ credential.status = "enabled"
  BY AtWork DEF Regenerate, Enabled
<1>2. step \in Nat /\ step > credential.lastStep
  BY <1>1, FreshTotp, TwoFactorAssumption
<1>3. credential' = [credential EXCEPT !.codes = NewCodes, !.lastStep = step]
  BY DEF Regenerate
<1>4. /\ credential' \in CredentialDocument /\ credential'.secret = credential.secret
      /\ credential'.lastStep = step /\ credential'.codes = NewCodes
      /\ credential'.failed = credential.failed
      /\ credential'.blockedUntil = credential.blockedUntil
      /\ credential'.id = credential.id /\ credential'.status = credential.status
  BY <1>2, <1>3, DocumentFacts, NewCodesFacts DEF Regenerate, CredentialDocument
<1>5. RequestsMove
  BY RequestFacts, FinishKeeps DEF Regenerate
<1>6. /\ codes' = codes + CodesPerSet /\ secrets' = secrets /\ issued' = issued
      /\ challenges' = challenges
  BY DEF Regenerate
<1>7. DocumentsOK'
  BY <1>4, <1>6, DocumentFacts, NewCodesFacts, VersionedFacts
     DEF Regenerate, DocumentsOK, Change
<1>8. CredentialInv' /\ LimitBlocks'
  BY <1>1, <1>4, <1>6, CredentialFacts, NewCodesFacts
     DEF Regenerate, CredentialInv, IInv, LimitBlocks
<1>9. PICK p : p = Totp(step) /\ ~Used(p) /\ Used(p)'
  BY <1>1, <1>4, <1>6, TotpAccepted
<1>10. Recorded({p}) /\ replaced' = replaced
  BY <1>9, ProofsRecorded DEF Regenerate
<1>11. SameFactor
  BY <1>1, <1>4 DEF SameFactor, Enabled
<1>12. Forward
  BY <1>2, <1>4, <1>6, <1>10, <1>11, CredentialFacts, DocumentFacts, NewCodesFacts
     DEF Regenerate, Forward
<1>13. QED
  BY <1>5, <1>7, <1>8, <1>9, <1>10, <1>12, WriteKeeps DEF Regenerate

(* The step-up: the code it verified is new, or excused.                   *)
LEMMA AcceptStepUpKeeps ==
    ASSUME IInv, NEW q \in Request, AcceptStepUp(q)
    PROVE  IInv'
<1>1. PICK r : r = requests[q]
  OBVIOUS
<1>2. /\ r \in RequestState /\ Verified(r) /\ Enabled /\ credential.id = r.version
      /\ r.step > credential.lastStep
  BY <1>1, RequestFacts DEF AcceptStepUp, At, StepUpMatches, IInv, StepUpsInv
<1>3. r.step \in Nat
  BY <1>2 DEF RequestState
<1>4. credential' = [credential EXCEPT !.lastStep = r.step]
  BY <1>1 DEF AcceptStepUp
<1>5. /\ credential' \in CredentialDocument /\ credential'.id = credential.id
      /\ credential'.status = credential.status /\ credential'.secret = credential.secret
      /\ credential'.codes = credential.codes /\ credential'.failed = credential.failed
      /\ credential'.blockedUntil = credential.blockedUntil
      /\ credential'.lastStep = r.step
  BY <1>3, <1>4, DocumentFacts DEF CredentialDocument
<1>6. /\ UNCHANGED <<clock, authVersion, deletion, audit, challenges>>
      /\ secrets' = secrets /\ codes' = codes /\ issued' = issued
  BY DEF AcceptStepUp, generated
<1>7. RequestsMove
  BY RequestFacts, DeleteKeeps DEF AcceptStepUp
<1>8. DocumentsOK'
  BY <1>5, <1>6, DocumentFacts DEF DocumentsOK
<1>9. CredentialInv' /\ LimitBlocks'
  BY <1>5, <1>6 DEF IInv, CredentialInv, LimitBlocks
<1>10. PICK p : p = <<"totp", r.secret, r.step>>
  OBVIOUS
<1>11. Recorded({p}) /\ replaced' = replaced
  BY <1>1, <1>10, ProofsRecorded DEF AcceptStepUp
<1>12. Used(p)'
  <2>1. PICK s \in 1 .. secrets' : s = r.secret
    BY <1>2, <1>6 DEF Verified
  <2>2. PICK step \in Nat : step = r.step /\ step <= credential'.lastStep
    BY <1>3, <1>5
  <2>3. Used(<<"totp", s, step>>)'
    BY <2>2, TotpIsUsed
  <2>4. p = <<"totp", s, step>>
    BY <1>10, <2>1, <2>2
  <2>5. QED
    BY <2>3, <2>4
<1>13. Used(p) => Excused(p)'
  <2>1. CASE r.secret \in replaced
    BY <1>10, <1>11, <2>1 DEF Excused
  <2>2. CASE credential.secret = r.secret
    <3>1. credential.lastStep \in Nat
      BY CredentialFacts
    <3>2. ~UsedTotp(p) /\ ~UsedCode(p) /\ ~UsedChallenge(p)
      BY <1>2, <1>3, <1>10, <2>2, <3>1 DEF UsedTotp, UsedCode, UsedChallenge
    <3>3. QED
      BY <3>2 DEF Used
  <2>3. QED
    BY <1>2, <2>1, <2>2 DEF Verified
<1>14. SameFactor
  BY <1>5 DEF SameFactor, Enabled
<1>15. credential.lastStep <= credential'.lastStep
  BY <1>2, <1>3, <1>5, CredentialFacts
<1>16. Forward
  BY <1>5, <1>6, <1>11, <1>14, <1>15, DocumentFacts DEF Forward
<1>17. QED
  BY <1>6, <1>7, <1>8, <1>9, <1>11, <1>12, <1>13, <1>16, WriteKeeps

(* The request for deletion.                                               *)
LEMMA RequestDeletionKeeps ==
    ASSUME IInv, NEW q \in Request, RequestDeletion(q)
    PROVE  IInv'
<1>1. /\ UNCHANGED <<clock, credential, audit, challenges>> /\ deletion' = "requested"
      /\ secrets' = secrets /\ codes' = codes /\ issued' = issued
  BY DEF RequestDeletion, generated
<1>2. authVersion' \in Nat
  BY DEF RequestDeletion, IInv, TypeOK
<1>3. RequestsMove
  BY RequestFacts, FinishKeeps DEF RequestDeletion
<1>4. DocumentsOK'
  BY <1>1, <1>2, DocumentFacts DEF DocumentsOK
<1>5. CredentialInv' /\ LimitBlocks'
  BY <1>1 DEF IInv, CredentialInv, LimitBlocks
<1>6. Recorded({}) /\ replaced' = replaced
  BY NothingAccepted DEF RequestDeletion
<1>7. Forward
  BY <1>1, <1>6, DocumentFacts, CredentialFacts DEF Forward, SameFactor, Enabled
<1>8. QED
  BY <1>1, <1>3, <1>4, <1>5, <1>6, <1>7, WriteKeeps

-----------------------------------------------------------------------------
(* The challenges.                                                         *)

LEMMA IssueChallengeKeeps ==
    ASSUME IInv, NEW q \in Request, NEW h \in Challenge, IssueChallenge(q, h)
    PROVE  IInv'
<1> DEFINE challenge == [authVersion |-> requests[q].version, failed |-> 0,
                         expiresAt |-> clock + ChallengeTtl, consumed |-> FALSE]
<1>1. challenge \in ChallengeDocument
  <2>1. clock + ChallengeTtl \in Nat /\ 0 \in 0 .. ChallengeLimit
    BY TimeFacts, TwoFactorAssumption DEF IInv, TypeOK
  <2>2. requests[q].version \in Nat
    BY RequestFacts DEF RequestState
  <2>3. QED
    BY <2>1, <2>2 DEF ChallengeDocument
<1>2. challenges' = [x \in DOMAIN challenges \cup {h} |->
                        IF x = h THEN challenge ELSE challenges[x]]
  BY DEF IssueChallenge
<1>3. /\ h \notin issued /\ issued' = issued \cup {h}
      /\ DOMAIN challenges \subseteq issued /\ issued \subseteq Challenge
  BY DocumentFacts DEF IssueChallenge, DocumentsOK
<1> HIDE DEF challenge
<1>4. /\ DOMAIN challenges' = DOMAIN challenges \cup {h}
      /\ challenges' \in [DOMAIN challenges' -> ChallengeDocument]
      /\ \A x \in DOMAIN challenges : challenges'[x] = challenges[x]
  BY <1>1, <1>2, <1>3, DocumentFacts
<1>5. /\ UNCHANGED <<clock, credential, authVersion, deletion, audit>>
      /\ secrets' = secrets /\ codes' = codes
  BY DEF IssueChallenge
<1>6. RequestsMove
  BY RequestFacts, FinishKeeps DEF IssueChallenge
<1>7. DocumentsOK'
  BY <1>3, <1>4, <1>5, DocumentFacts DEF DocumentsOK
<1>8. CredentialInv' /\ LimitBlocks'
  BY <1>5 DEF IInv, CredentialInv, LimitBlocks
<1>9. Recorded({}) /\ replaced' = replaced
  BY NothingAccepted DEF IssueChallenge
<1>10. SameFactor
  BY <1>5 DEF SameFactor, Enabled
<1>11. Forward
  BY <1>3, <1>4, <1>5, <1>9, <1>10, DocumentFacts, CredentialFacts DEF Forward
<1>12. QED
  BY <1>5, <1>6, <1>7, <1>8, <1>9, <1>11, WriteKeeps

(* Challenges are deleted by the TTL index, or by the worker.              *)
LEMMA ForgetKeeps ==
    ASSUME IInv, NEW hs, Forget(hs),
           UNCHANGED <<clock, credential, authVersion, audit, requests, generated, history>>,
           deletion' \in {"none", "requested", "clearing"}
    PROVE  IInv'
<1>1. secrets' = secrets /\ codes' = codes /\ issued' = issued
  BY DEF generated
<1>2. /\ DOMAIN challenges' = DOMAIN challenges \ hs
      /\ \A h \in DOMAIN challenges' : challenges'[h] = challenges[h]
      /\ challenges' = [h \in DOMAIN challenges \ hs |-> challenges[h]]
  BY DEF Forget
<1>3. challenges' \in [DOMAIN challenges' -> ChallengeDocument]
  BY <1>2, DocumentFacts
<1>4. RequestsMove
  BY DEF IInv, TypeOK, RequestsMove, NoNewStepUp, RequestsOK, RequestsInv
<1>5. DocumentsOK'
  BY <1>1, <1>2, <1>3, DocumentFacts DEF DocumentsOK
<1>6. CredentialInv' /\ LimitBlocks'
  BY <1>1 DEF IInv, CredentialInv, LimitBlocks
<1>7. Recorded({}) /\ replaced' = replaced
  BY NothingAccepted
<1>8. Forward
  BY <1>1, <1>2, <1>7, DocumentFacts, CredentialFacts DEF Forward, SameFactor, Enabled
<1>9. QED
  BY <1>4, <1>5, <1>6, <1>7, <1>8, WriteKeeps

LEMMA RecordChallengeFailureKeeps ==
    ASSUME IInv, NEW q \in Request, RecordChallengeFailure(q)
    PROVE  IInv'
<1> DEFINE h == requests[q].challenge
<1>1. /\ challenges' \in [DOMAIN challenges -> ChallengeDocument]
      /\ \A x \in DOMAIN challenges : challenges'[x].consumed = challenges[x].consumed
  <2>1. CASE challenges' = challenges
    BY <2>1, DocumentFacts DEF DocumentsOK
  <2>2. CASE Usable(h, requests[q].now) /\ challenges' = [challenges EXCEPT ![h].failed = @ + 1]
    <3>1. h \in DOMAIN challenges /\ challenges[h].failed < ChallengeLimit
      BY <2>2 DEF Usable
    <3>2. challenges[h] \in ChallengeDocument
      BY <3>1, DocumentFacts
    <3>3. challenges[h].failed + 1 \in 0 .. ChallengeLimit
      BY <3>1, <3>2, TwoFactorAssumption DEF ChallengeDocument
    <3>4. PICK failed \in 0 .. ChallengeLimit : failed = challenges[h].failed + 1
      BY <3>3
    <3>5. PICK challenge : challenge = [challenges[h] EXCEPT !.failed = failed]
      OBVIOUS
    <3>6. challenge \in ChallengeDocument /\ challenge.consumed = challenges[h].consumed
      BY <3>2, <3>5 DEF ChallengeDocument
    <3>7. challenges' = [challenges EXCEPT ![h] = challenge]
      BY <2>2, <3>4, <3>5
    <3> HIDE DEF h
    <3>8. QED
      BY <3>1, <3>6, <3>7, DocumentFacts DEF DocumentsOK
  <2>3. QED
    BY <2>1, <2>2 DEF RecordChallengeFailure
<1>2. /\ UNCHANGED <<clock, credential, authVersion, deletion, audit>>
      /\ secrets' = secrets /\ codes' = codes /\ issued' = issued
  BY DEF RecordChallengeFailure, generated
<1>3. RequestsMove
  BY RequestFacts, PayKeeps DEF RecordChallengeFailure
<1>4. DocumentsOK' /\ DOMAIN challenges' = DOMAIN challenges
  BY <1>1, <1>2, DocumentFacts DEF DocumentsOK
<1>5. CredentialInv' /\ LimitBlocks'
  BY <1>2 DEF IInv, CredentialInv, LimitBlocks
<1>6. Recorded({}) /\ replaced' = replaced
  BY NothingAccepted DEF RecordChallengeFailure
<1>7. Forward
  BY <1>1, <1>2, <1>4, <1>6, DocumentFacts, CredentialFacts DEF Forward, SameFactor, Enabled
<1>8. QED
  BY <1>2, <1>3, <1>4, <1>5, <1>6, <1>7, WriteKeeps

(* A challenge is consumed once: the proof that it was, is used for good.  *)
LEMMA ConsumeFacts ==
    ASSUME IInv, NEW q \in Request, MayConsume(q), Consume(q)
    PROVE  /\ DOMAIN challenges' = DOMAIN challenges
           /\ challenges' \in [DOMAIN challenges -> ChallengeDocument]
           /\ \A x \in DOMAIN challenges :
                    challenges[x].consumed => challenges'[x].consumed
           /\ issued' = issued =>
                \E p : p = <<"challenge", requests[q].challenge>> /\ ~Used(p) /\ Used(p)'
<1>1. PICK h : h = requests[q].challenge
  OBVIOUS
<1>2. h \in DOMAIN challenges /\ challenges[h] \in ChallengeDocument
        /\ Usable(h, requests[q].now)
  BY <1>1, DocumentFacts DEF MayConsume, Usable
<1>3. challenges' = [challenges EXCEPT ![h].consumed = TRUE]
  BY <1>1 DEF Consume
<1>4. PICK challenge : challenge = [challenges[h] EXCEPT !.consumed = TRUE]
  OBVIOUS
<1>5. challenge \in ChallengeDocument /\ challenge.consumed
  BY <1>2, <1>4 DEF ChallengeDocument
<1>6. challenges' = [challenges EXCEPT ![h] = challenge]
  BY <1>3, <1>4
<1>7. /\ DOMAIN challenges' = DOMAIN challenges
      /\ challenges' \in [DOMAIN challenges -> ChallengeDocument]
      /\ \A x \in DOMAIN challenges :
            challenges[x].consumed => challenges'[x].consumed
      /\ challenges'[h].consumed
  BY <1>2, <1>5, <1>6, DocumentFacts DEF DocumentsOK
<1>8. ~Used(<<"challenge", h>>) /\ (issued' = issued => Used(<<"challenge", h>>)')
  BY <1>2, <1>7, FreshChallenge, ChallengeIsUsed, DocumentFacts DEF DocumentsOK
<1>9. PICK p : p = <<"challenge", h>>
  OBVIOUS
<1>10. QED
  BY <1>1, <1>7, <1>8, <1>9

LEMMA ForgetFacts ==
    ASSUME NEW c \in CredentialDocument
    PROVE  /\ ForgetFailures(c) \in CredentialDocument
           /\ ForgetFailures(c).failed = 0 /\ ForgetFailures(c).status = c.status
           /\ ForgetFailures(c).secret = c.secret /\ ForgetFailures(c).codes = c.codes
           /\ ForgetFailures(c).lastStep = c.lastStep
           /\ ForgetFailures(c).id = c.id
<1>1. Never \in Nat
  BY DEF Never
<1>2. QED
  BY <1>1 DEF ForgetFailures, CredentialDocument

(* A login: a proof p of the second factor and the challenge together.     *)
LEMMA LoginKeeps ==
    ASSUME IInv, NEW q \in Request, MayConsume(q), Consume(q), Finish(q),
           UNCHANGED <<clock, authVersion, deletion, audit, generated>>,
           NEW p, Accept({p, <<"challenge", requests[q].challenge>>}), ~Used(p), Used(p)',
           credential' \in CredentialDocument, credential'.failed = 0,
           credential'.id = credential.id,
           credential'.status = credential.status, credential'.secret = credential.secret,
           credential'.codes \subseteq credential.codes,
           credential.lastStep <= credential'.lastStep
    PROVE  IInv'
<1>1. secrets' = secrets /\ codes' = codes /\ issued' = issued
  BY DEF generated
<1>2. RequestsMove
  BY RequestFacts, FinishKeeps
<1>3. DocumentsOK'
  BY <1>1, ConsumeFacts, DocumentFacts DEF DocumentsOK
<1>4. CredentialInv' /\ LimitBlocks'
  <2>1. ~(0 >= FailureLimit)
    BY TwoFactorAssumption
  <2>2. QED
    BY <1>1, <2>1 DEF IInv, CredentialInv, LimitBlocks
<1>5. PICK r : r = <<"challenge", requests[q].challenge>> /\ ~Used(r) /\ Used(r)'
  BY <1>1, ConsumeFacts
<1>6. Recorded({p, r}) /\ replaced' = replaced
  BY <1>5, ProofsRecorded
<1>7. Forward
  BY <1>1, <1>6, ConsumeFacts, DocumentFacts DEF Forward, SameFactor, Enabled
<1>8. QED
  BY <1>2, <1>3, <1>4, <1>5, <1>6, <1>7, WriteKeeps

LEMMA LoginByTotpKeeps ==
    ASSUME IInv, NEW q \in Request, NEW step \in ValidSteps(requests[q].now),
           LoginByTotp(q, step)
    PROVE  IInv'
<1>1. requests[q].now \in Time /\ credential.status = "enabled"
  BY AtWork DEF LoginByTotp, Enabled
<1>2. step \in Nat /\ step > credential.lastStep
  BY <1>1, FreshTotp, TwoFactorAssumption
<1>3. PICK c : c = [credential EXCEPT !.lastStep = step]
  OBVIOUS
<1>4. /\ c \in CredentialDocument /\ c.status = credential.status
      /\ c.secret = credential.secret /\ c.codes = credential.codes /\ c.lastStep = step
      /\ c.id = credential.id
  BY <1>2, <1>3, DocumentFacts DEF CredentialDocument
<1>5. credential' = ForgetFailures(c)
  BY <1>3 DEF LoginByTotp
<1>6. /\ credential' \in CredentialDocument /\ credential'.failed = 0
      /\ credential'.status = credential.status /\ credential'.secret = credential.secret
      /\ credential'.codes = credential.codes /\ credential'.lastStep = step
      /\ credential'.id = credential.id
  BY <1>4, <1>5, ForgetFacts
<1>7. secrets' = secrets
  BY DEF LoginByTotp, generated
<1>8. PICK p : p = Totp(step) /\ ~Used(p) /\ Used(p)'
  BY <1>1, <1>6, <1>7, TotpAccepted
<1>9. Accept({p, <<"challenge", requests[q].challenge>>})
  BY <1>8 DEF LoginByTotp
<1>10. credential.lastStep <= credential'.lastStep
  BY <1>2, <1>6, CredentialFacts
<1>11. QED
  BY <1>6, <1>8, <1>9, <1>10, LoginKeeps DEF LoginByTotp

LEMMA LoginByRecoveryKeeps ==
    ASSUME IInv, NEW q \in Request, NEW code \in credential.codes, LoginByRecovery(q, code)
    PROVE  IInv'
<1>1. PICK c : c = [credential EXCEPT !.codes = @ \ {code}]
  OBVIOUS
<1>2. /\ c \in CredentialDocument /\ c.status = credential.status
      /\ c.secret = credential.secret /\ c.codes = credential.codes \ {code}
      /\ c.id = credential.id
      /\ c.lastStep = credential.lastStep
  BY <1>1, DocumentFacts DEF CredentialDocument
<1>3. credential' = ForgetFailures(c)
  BY <1>1 DEF LoginByRecovery
<1>4. /\ credential' \in CredentialDocument /\ credential'.failed = 0
      /\ credential'.id = credential.id
      /\ credential'.status = credential.status /\ credential'.secret = credential.secret
      /\ credential'.codes = credential.codes \ {code}
      /\ credential'.lastStep = credential.lastStep
  BY <1>2, <1>3, ForgetFacts
<1>5. codes' = codes
  BY DEF LoginByRecovery, generated
<1>6. PICK p : p = <<"recovery", code>>
  OBVIOUS
<1>7. ~Used(p) /\ Used(p)'
  BY <1>4, <1>5, <1>6, CredentialFacts, FreshCode, CodeIsUsed
<1>8. Accept({p, <<"challenge", requests[q].challenge>>})
  BY <1>6 DEF LoginByRecovery
<1>9. credential.lastStep <= credential'.lastStep
  BY <1>4, CredentialFacts
<1>10. QED
  BY <1>4, <1>7, <1>8, <1>9, LoginKeeps DEF LoginByRecovery

-----------------------------------------------------------------------------
(* The failures.                                                           *)

LEMMA CountedFacts ==
    ASSUME NEW c \in CredentialDocument, NEW now \in Nat
    PROVE  /\ Counted(c, now) \in CredentialDocument
           /\ Counted(c, now).status = c.status /\ Counted(c, now).secret = c.secret
           /\ Counted(c, now).codes = c.codes /\ Counted(c, now).lastStep = c.lastStep
           /\ Counted(c, now).id = c.id
<1>1. 1 \in Nat /\ c.failed + 1 \in Nat
  BY DEF CredentialDocument
<1>2. QED
  BY <1>1 DEF Counted, CredentialDocument

(* A count that reaches the limit comes with a block that has an end.      *)
LEMMA BlockedFacts ==
    ASSUME NEW c \in CredentialDocument, NEW now \in Nat \ {0}
    PROVE  /\ Blocked(c, now) \in CredentialDocument
           /\ Blocked(c, now).status = c.status /\ Blocked(c, now).secret = c.secret
           /\ Blocked(c, now).codes = c.codes /\ Blocked(c, now).lastStep = c.lastStep
           /\ Blocked(c, now).id = c.id
           /\ Blocked(c, now).failed >= FailureLimit =>
                    Blocked(c, now).blockedUntil # Never
<1>1. now + BlockTime \in Nat /\ now + BlockTime # Never
  BY TwoFactorAssumption DEF Never
<1>2. CASE c.failed >= FailureLimit
  <2>1. PICK until \in Nat : until = now + BlockTime
    BY <1>1
  <2>2. Blocked(c, now) = [c EXCEPT !.blockedUntil = until]
    BY <1>2, <2>1 DEF Blocked
  <2>3. QED
    BY <1>1, <2>1, <2>2 DEF CredentialDocument
<1>3. CASE ~(c.failed >= FailureLimit)
  BY <1>3 DEF Blocked
<1>4. QED
  BY <1>2, <1>3

LEMMA RecordFactorFailureKeeps ==
    ASSUME IInv, NEW q \in Request, RecordFactorFailure(q)
    PROVE  IInv'
<1>1. RequestsMove /\ requests[q].now \in Nat \ {0}
  BY RequestFacts, PayKeeps, TimeFacts DEF RecordFactorFailure
<1>2. /\ credential' \in CredentialDocument
      /\ credential'.status = credential.status /\ credential'.secret = credential.secret
      /\ credential'.codes = credential.codes /\ credential'.id = credential.id
      /\ credential'.lastStep = credential.lastStep /\ LimitBlocks'
  <2>1. CASE credential.status = "none"
    BY <2>1, DocumentFacts DEF RecordFactorFailure, AfterFailure, IInv, LimitBlocks
  <2>2. CASE credential.status # "none"
    <3>1. PICK now \in Nat \ {0} : now = requests[q].now
      BY <1>1
    <3>2. PICK c : c = Counted(credential, now)
      OBVIOUS
    <3>3. /\ c \in CredentialDocument /\ c.status = credential.status
          /\ c.secret = credential.secret /\ c.codes = credential.codes
          /\ c.lastStep = credential.lastStep /\ c.id = credential.id
      BY <3>2, DocumentFacts, CountedFacts
    <3>4. credential' = Blocked(c, now)
      BY <2>2, <3>1, <3>2 DEF RecordFactorFailure, AfterFailure
    <3>5. QED
      BY <3>3, <3>4, BlockedFacts DEF LimitBlocks
  <2>3. QED
    BY <2>1, <2>2
<1>3. /\ UNCHANGED <<clock, authVersion, deletion, audit, challenges>>
      /\ secrets' = secrets /\ codes' = codes /\ issued' = issued
  BY DEF RecordFactorFailure, generated
<1>4. DocumentsOK'
  BY <1>2, <1>3, DocumentFacts DEF DocumentsOK
<1>5. CredentialInv'
  BY <1>2, <1>3 DEF IInv, CredentialInv
<1>6. Recorded({}) /\ replaced' = replaced
  BY NothingAccepted DEF RecordFactorFailure
<1>7. Forward
  BY <1>2, <1>3, <1>6, DocumentFacts, CredentialFacts DEF Forward, SameFactor, Enabled
<1>8. QED
  BY <1>1, <1>2, <1>3, <1>4, <1>5, <1>6, <1>7, WriteKeeps

-----------------------------------------------------------------------------
(* The inductive invariant.                                                *)

(* The time and nothing else.                                              *)
LEMMA ClockKeeps ==
    ASSUME IInv, clock' \in Time, UNCHANGED <<stored, requests, generated, history>>
    PROVE  IInv'
<1>1. /\ credential' = credential /\ authVersion' = authVersion /\ deletion' = deletion
      /\ audit' = audit /\ challenges' = challenges /\ secrets' = secrets
      /\ codes' = codes /\ issued' = issued /\ accepted' = accepted
      /\ reused' = reused /\ replaced' = replaced /\ requests' = requests
  BY DEF stored, generated, history
<1>2. TypeOK' /\ RequestsInv'
  BY <1>1 DEF IInv, TypeOK, RequestsInv
<1>3. CredentialInv' /\ StepUpsInv' /\ UsedOnce' /\ LimitBlocks'
  BY <1>1 DEF IInv, CredentialInv, StepUpsInv, Verified, Enabled, UsedOnce, LimitBlocks
<1>4. \A p : Used(p) => Used(p)'
  BY <1>1 DEF Used, UsedTotp, UsedCode, UsedChallenge
<1>5. QED
  BY <1>1, <1>2, <1>3, <1>4 DEF IInv, AcceptedAreUsed

LEMMA InitKeeps == Init => IInv
<1> SUFFICES ASSUME Init PROVE IInv
  OBVIOUS
<1>1. /\ clock = 2 /\ credential = NoCredential /\ authVersion = 0 /\ deletion = "none"
      /\ audit = [change \in Change |-> 0] /\ challenges = [h \in {} |-> None]
      /\ requests = [q \in Request |-> Idle] /\ secrets = 0 /\ codes = 0
      /\ issued = {} /\ accepted = {} /\ reused = {}
  BY DEF Init
<1>2. Idle \in RequestState /\ Idle.pc = "idle"
  BY DEF Idle, RequestState, Never
<1>3. TypeOK
  BY <1>1, <1>2, NoCredentialFacts, TimeFacts DEF TypeOK
<1>4. CredentialInv /\ RequestsInv /\ StepUpsInv /\ AcceptedAreUsed /\ UsedOnce
  BY <1>1, <1>2, NoCredentialFacts
     DEF CredentialInv, RequestsInv, StepUpsInv, AcceptedAreUsed, UsedOnce
<1>5. LimitBlocks
  BY <1>1, NoCredentialFacts, TwoFactorAssumption DEF LimitBlocks
<1>6. QED
  BY <1>3, <1>4, <1>5 DEF IInv

(* The steps that write something other than the request.                  *)
WriteStep(q) ==
    \/ UpsertSetup(q) \/ AcceptStepUp(q) \/ RequestDeletion(q)
    \/ RecordFactorFailure(q) \/ RecordChallengeFailure(q)
    \/ \E h \in Challenge : IssueChallenge(q, h)
    \/ \E step \in ValidSteps(requests[q].now) :
            ConfirmSetup(q, step) \/ LoginByTotp(q, step) \/ Regenerate(q, step)
    \/ \E code \in credential.codes : LoginByRecovery(q, code)
    \/ \E proof \in DisableProofs(requests[q].now) : Disable(q, proof)

VerifyStep(q) == \E step \in ValidSteps(clock) : BeginStepUp(q, step)

LEMMA StepsAre ==
    ASSUME NEW q \in Request, Step(q)
    PROVE  ReadStep(q) \/ WriteStep(q) \/ VerifyStep(q)
<1>1. Setup(q) => ReadStep(q) \/ WriteStep(q)
  BY DEF Setup, ReadStep, WriteStep
<1>2. Login(q) => ReadStep(q) \/ WriteStep(q)
  BY DEF Login, ReadStep, WriteStep
<1>3. ChangeFactor(q) => ReadStep(q) \/ WriteStep(q)
  BY DEF ChangeFactor, ReadStep, WriteStep
<1>4. Deletion(q) => ReadStep(q) \/ WriteStep(q) \/ VerifyStep(q)
  BY DEF Deletion, ReadStep, WriteStep, VerifyStep
<1>5. Failure(q) \/ Crash(q) => ReadStep(q) \/ WriteStep(q)
  BY DEF Failure, ReadStep, WriteStep
<1>6. QED
  BY <1>1, <1>2, <1>3, <1>4, <1>5 DEF Step

LEMMA NextKeeps ==
    ASSUME IInv, [Next]_vars
    PROVE  IInv'
<1>1. ASSUME NEW q \in Request, WriteStep(q)
      PROVE  IInv'
  BY <1>1, UpsertSetupKeeps, AcceptStepUpKeeps, RequestDeletionKeeps,
     RecordFactorFailureKeeps, RecordChallengeFailureKeeps, IssueChallengeKeeps,
     ConfirmSetupKeeps, LoginByTotpKeeps, RegenerateKeeps, LoginByRecoveryKeeps,
     DisableKeeps DEF WriteStep
<1>2. ASSUME NEW q \in Request, VerifyStep(q)
      PROVE  IInv'
  BY <1>2, BeginStepUpKeeps DEF VerifyStep
<1>3. ASSUME NEW h \in Challenge, ExpireChallenge(h)
      PROVE  IInv'
  BY <1>3, ForgetKeeps DEF ExpireChallenge, IInv, TypeOK
<1>4. CASE ClearChallenges
  BY <1>4, ForgetKeeps DEF ClearChallenges
<1>5. CASE Tick
  <2>1. clock' \in Time
    BY <1>5, TimeFacts, TwoFactorAssumption DEF Tick, Time, IInv, TypeOK
  <2>2. QED
    BY <1>5, <2>1, ClockKeeps DEF Tick
<1>6. CASE UNCHANGED vars
  <2>1. clock' \in Time
    BY <1>6 DEF vars, IInv, TypeOK
  <2>2. QED
    BY <1>6, <2>1, ClockKeeps DEF vars
<1>7. QED
  BY <1>1, <1>2, <1>3, <1>4, <1>5, <1>6, StepsAre, ReadStepKeeps, GoneKeeps DEF Next

(* The inductive invariant holds throughout.                               *)
THEOREM FactorInvariant == Spec => []IInv
<1>1. IInv /\ [Next]_vars => IInv'
  BY NextKeeps
<1>2. QED
  BY <1>1, InitKeeps, PTL DEF Spec

(* Every document and request keeps its shape, and no challenge counts     *)
(* more failures than its limit.                                           *)
THEOREM FactorTypeCorrect == Spec => []TypeOK
<1>1. IInv => TypeOK
  BY DEF IInv
<1>2. QED
  BY <1>1, FactorInvariant, PTL

(* No code of one time step of a secret, no recovery code and no challenge *)
(* is accepted twice, by login, confirmation, disabling, regeneration or   *)
(* the step-up before deletion, whichever of them race; only of a secret   *)
(* that startSetup took from the enabled factor may a step-up that had     *)
(* verified a code accept its time step again.                             *)
THEOREM ProofsAreUsedOnce == Spec => []UsedOnce
<1>1. IInv => UsedOnce
  BY DEF IInv
<1>2. QED
  BY <1>1, FactorInvariant, PTL

(* A count of failures that reached the limit never stands without a       *)
(* block.                                                                  *)
THEOREM LimitAlwaysBlocks == Spec => []LimitBlocks
<1>1. IInv => LimitBlocks
  BY DEF IInv
<1>2. QED
  BY <1>1, FactorInvariant, PTL

-----------------------------------------------------------------------------
(* What a step changes of the factor.                                      *)

FactorKept ==
    /\ authVersion' = authVersion /\ audit' = audit /\ (Active <=> Active')
    /\ credential'.status = credential.status
    /\ credential'.secret = credential.secret
    /\ credential'.codes \subseteq credential.codes

LEMMA KeptIsChanged == FactorKept => ChangedStep
BY DEF FactorKept, ChangedStep, Enabled, Active

LEMMA VersionedBecame ==
    ASSUME NEW change, Versioned(change), IInv
    PROVE  Became(change) /\ authVersion' # authVersion /\ (Active <=> Active')
BY DEF Versioned, Became, Active, IInv, TypeOK

(* The steps of a request that leave the factor as it is.                  *)
LEMMA QuietSteps ==
    ASSUME IInv, NEW q \in Request,
           \/ ReadStep(q) \/ VerifyStep(q) \/ AcceptStepUp(q)
           \/ RecordFactorFailure(q) \/ RecordChallengeFailure(q)
           \/ \E h \in Challenge : IssueChallenge(q, h)
           \/ \E step \in ValidSteps(requests[q].now) : LoginByTotp(q, step)
           \/ \E code \in credential.codes : LoginByRecovery(q, code)
    PROVE  FactorKept
<1>1. credential \in CredentialDocument
  BY DocumentFacts
<1>2. CASE ReadStep(q) \/ VerifyStep(q)
  <2>1. UNCHANGED stored
    BY <1>2 DEF ReadStep, StartSetup, BeginConfirm, NothingToConfirm, BeginLogin,
       ChallengeIsOver, ResolveChallenge, BeginChange, UserIsGone, BeginDeletion,
       RefuseStepUp, RefuseDeletion, WrongCode, Contend, Crash, Reject, VerifyStep,
       BeginStepUp
  <2>2. QED
    BY <2>1 DEF stored, FactorKept, Active
<1>3. CASE AcceptStepUp(q)
  <2>1. PICK step : credential' = [credential EXCEPT !.lastStep = step]
    BY <1>3 DEF AcceptStepUp
  <2>2. QED
    BY <1>1, <1>3, <2>1 DEF AcceptStepUp, CredentialDocument, FactorKept, Active
<1>4. CASE RecordFactorFailure(q)
  <2>1. PICK now \in Nat \ {0} : now = requests[q].now
    BY <1>4, RequestFacts, PayKeeps, TimeFacts DEF RecordFactorFailure
  <2>2. credential' = credential \/ credential' = Blocked(Counted(credential, now), now)
    BY <1>4, <2>1 DEF RecordFactorFailure, AfterFailure
  <2>3. QED
    BY <1>1, <1>4, <2>2, CountedFacts, BlockedFacts
       DEF RecordFactorFailure, FactorKept, Active
<1>5. CASE RecordChallengeFailure(q) \/ \E h \in Challenge : IssueChallenge(q, h)
  BY <1>5 DEF RecordChallengeFailure, IssueChallenge, FactorKept, Active
<1>6. ASSUME NEW step \in ValidSteps(requests[q].now), LoginByTotp(q, step)
      PROVE  FactorKept
  <2>1. PICK c : c = [credential EXCEPT !.lastStep = step]
    OBVIOUS
  <2>2. step \in Nat
    BY <1>6, AtWork, FreshTotp, TwoFactorAssumption DEF LoginByTotp
  <2>3. /\ c \in CredentialDocument /\ c.status = credential.status
        /\ c.secret = credential.secret /\ c.codes = credential.codes
    BY <1>1, <2>1, <2>2 DEF CredentialDocument
  <2>4. credential' = ForgetFailures(c)
    BY <1>6, <2>1 DEF LoginByTotp
  <2>5. QED
    BY <1>6, <2>3, <2>4, ForgetFacts DEF LoginByTotp, FactorKept, Active
<1>7. ASSUME NEW code \in credential.codes, LoginByRecovery(q, code)
      PROVE  FactorKept
  <2>1. PICK c : c = [credential EXCEPT !.codes = @ \ {code}]
    OBVIOUS
  <2>2. /\ c \in CredentialDocument /\ c.status = credential.status
        /\ c.secret = credential.secret /\ c.codes \subseteq credential.codes
    BY <1>1, <2>1 DEF CredentialDocument
  <2>3. credential' = ForgetFailures(c)
    BY <1>7, <2>1 DEF LoginByRecovery
  <2>4. QED
    BY <1>7, <2>2, <2>3, ForgetFacts DEF LoginByRecovery, FactorKept, Active
<1>8. QED
  BY <1>2, <1>3, <1>4, <1>5, <1>6, <1>7

LEMMA StepChanges ==
    ASSUME IInv, NEW q \in Request, Step(q)
    PROVE  ChangedStep
<1>1. credential \in CredentialDocument /\ credential.codes \subseteq 1 .. codes
  BY DocumentFacts, CredentialFacts
<1>2. CASE UpsertSetup(q)
  <2>1. /\ credential'.status = "pending" /\ authVersion' = authVersion
        /\ audit' = audit /\ deletion' = deletion
    BY <1>2 DEF UpsertSetup, NoCredential
  <2>2. QED
    BY <2>1 DEF ChangedStep, Enabled, Active
<1>3. ASSUME NEW step \in ValidSteps(requests[q].now), ConfirmSetup(q, step)
      PROVE  ChangedStep
  <2>1. /\ credential.status = "pending" /\ Became("enrolled")
        /\ authVersion' # authVersion
    BY <1>3, VersionedBecame DEF ConfirmSetup, SetupIsLive
  <2>2. credential'.status = "enabled"
    BY <1>1, <1>3 DEF ConfirmSetup, CredentialDocument
  <2>3. QED
    BY <2>1, <2>2 DEF ChangedStep, Enabled
<1>4. ASSUME NEW step \in ValidSteps(requests[q].now), Regenerate(q, step)
      PROVE  ChangedStep
  <2>1. Enabled /\ Became("regenerated") /\ authVersion' # authVersion
    BY <1>4, VersionedBecame DEF Regenerate
  <2>2. /\ credential'.codes = NewCodes /\ credential'.status = credential.status
        /\ credential'.secret = credential.secret
    BY <1>1, <1>4 DEF Regenerate, CredentialDocument
  <2>3. credential'.codes \cap credential.codes = {}
    BY <1>1, <1>4, <2>2, NewCodesFacts DEF Regenerate
  <2>4. QED
    BY <2>1, <2>2, <2>3 DEF ChangedStep, Enabled
<1>5. ASSUME NEW proof \in DisableProofs(requests[q].now), Disable(q, proof)
      PROVE  ChangedStep
  <2>1. /\ Enabled /\ Became("disabled") /\ authVersion' # authVersion
        /\ credential' = NoCredential
    BY <1>5, VersionedBecame DEF Disable
  <2>2. QED
    BY <2>1, NoCredentialFacts DEF ChangedStep, Enabled
<1>6. CASE RequestDeletion(q)
  <2>1. LeftForDeletion /\ credential' = credential
    BY <1>6 DEF RequestDeletion, LeftForDeletion, Active
  <2>2. authVersion' # authVersion
    BY <1>6 DEF RequestDeletion, IInv, TypeOK
  <2>3. QED
    BY <2>1, <2>2 DEF ChangedStep, Enabled
<1>7. QED
  BY <1>2, <1>3, <1>4, <1>5, <1>6, StepsAre, QuietSteps, KeptIsChanged DEF WriteStep

(* Each enrolment, disabling and regeneration moves authVersion by one in  *)
(* the step that changes the credential and writes the audit event; only   *)
(* the request for deletion moves it besides, and an enabled factor goes   *)
(* only by being disabled, by the worker that deletes the user, or by a    *)
(* startSetup that overwrites it.                                          *)
THEOREM ChangesMoveTheVersion == Spec => ChangesAreVersioned
<1>1. IInv /\ [Next]_vars => [ChangedStep]_vars
  <2> SUFFICES ASSUME IInv, Next
               PROVE  ChangedStep \/ UNCHANGED vars
    OBVIOUS
  <2>1. CASE ExpirePending
    <3>1. credential.status = "pending" /\ UNCHANGED <<authVersion, deletion, audit>>
      BY <2>1 DEF ExpirePending
    <3>2. ~Enabled /\ ~Enabled'
      BY <2>1, <3>1, NoCredentialFacts DEF ExpirePending, Enabled
    <3>3. QED
      BY <3>1, <3>2 DEF ChangedStep, Active
  <2>2. CASE ClearCredential
    <3>1. /\ deletion = "clearing" /\ credential' = NoCredential
          /\ UNCHANGED <<authVersion, deletion, audit>>
      BY <2>2 DEF ClearCredential
    <3>2. ~Enabled'
      BY <3>1, NoCredentialFacts DEF Enabled
    <3>3. QED
      BY <3>1, <3>2 DEF ChangedStep, Active
  <2>3. CASE ClearChallenges
    BY <2>3, KeptIsChanged DEF ClearChallenges, FactorKept, Active
  <2>4. CASE Tick \/ \E h \in Challenge : ExpireChallenge(h)
    BY <2>4, KeptIsChanged DEF Tick, ExpireChallenge, stored, FactorKept, Active
  <2>5. QED
    BY <2>1, <2>2, <2>3, <2>4, StepChanges DEF Next
<1>2. QED
  BY <1>1, FactorInvariant, PTL DEF Spec, ChangesAreVersioned
=============================================================================
