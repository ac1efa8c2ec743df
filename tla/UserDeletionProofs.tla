------------------------- MODULE UserDeletionProofs -------------------------
(***************************************************************************)
(* Theorems of UserDeletion, for every finite set of users and every set   *)
(* of workers, invitations and rights.                                     *)
(***************************************************************************)
EXTENDS UserDeletion, MembershipProofs, SequenceTheorems, FiniteSetTheorems

(* The stages that come before `stage` have been carried out for u.        *)
Reached(u, stage) ==
    /\ stage # "memberships" => "memberships" \in done[u]
    /\ stage \in {"tombstone", "completed"} => AuthKind \subseteq done[u]
    /\ stage = "completed" => users[u] = "deleted"

(* What a worker holds in its memory is true of the user, however long ago *)
(* it claimed the job.                                                     *)
WorkerInv(w) ==
    workers[w] # Idle =>
        LET u == workers[w].user
            stage == workers[w].stage
            cleared == workers[w].cleared
        IN  /\ u \in DOMAIN jobs
            /\ stage # "completed"
            /\ Reached(u, stage)
            /\ \A n \in 1 .. cleared : AuthCollections[n] \in done[u]
            /\ workers[w].phase = "processing" => cleared < Len(AuthCollections)
            /\ workers[w].phase = "advancing" => Reached(u, NextStage(stage))

JobsInv ==
    /\ \A u \in User : users[u] = "active" <=> u \notin DOMAIN jobs
    /\ \A u \in DOMAIN jobs : Reached(u, jobs[u].stage)
    /\ \A u \in User :
            users[u] = "deleted" => "memberships" \in done[u] /\ AuthKind \subseteq done[u]

QueueInv == queue \in Seq(User) /\ Len(queue) = Cardinality(DOMAIN jobs)

DeletionInv ==
    /\ AllTypeOK
    /\ QueueInv
    /\ JobsInv
    /\ \A w \in Worker : WorkerInv(w)
    /\ OnlyDeletionOrphans

-----------------------------------------------------------------------------
(* The stages and the collections.                                         *)

LEMMA StageFacts ==
    /\ Stage = {"memberships", "auth_data", "tombstone", "completed"}
    /\ NextStage("memberships") = "auth_data"
    /\ NextStage("auth_data") = "tombstone"
    /\ NextStage("tombstone") = "completed"
<1> DEFINE At(stage, n) == n \in 1 .. 4 /\ Stages[n] = stage
<1>1. Len(Stages) = 4
  BY DEF Stages
<1>2. /\ Stages[1] = "memberships" /\ Stages[2] = "auth_data"
      /\ Stages[3] = "tombstone" /\ Stages[4] = "completed"
  BY DEF Stages
<1>3. 1 .. 4 = {1, 2, 3, 4}
  OBVIOUS
<1>4. Stage = {"memberships", "auth_data", "tombstone", "completed"}
  BY <1>1, <1>2, <1>3 DEF Stage
<1>5. ASSUME NEW k \in 1 .. 3, NEW stage, stage = Stages[k]
      PROVE  NextStage(stage) = Stages[k + 1]
  <2>1. \A n \in 1 .. 4 : Stages[n] = stage <=> n = k
    BY <1>2, <1>3, <1>5
  <2>2. (CHOOSE n \in 1 .. 4 : Stages[n] = stage) = k
    BY <2>1
  <2>3. QED
    BY <1>1, <2>2 DEF NextStage
<1>6. NextStage(Stages[1]) = Stages[2] /\ NextStage(Stages[2]) = Stages[3]
        /\ NextStage(Stages[3]) = Stages[4]
  BY <1>5
<1>7. QED
  BY <1>2, <1>4, <1>6

LEMMA AuthFacts ==
    /\ Len(AuthCollections) = 3
    /\ AuthCollections[1] = "challenge" /\ AuthCollections[2] = "twoFactor"
    /\ AuthCollections[3] = "auditContext"
    /\ AuthKind = {"challenge", "twoFactor", "auditContext"}
<1>1. /\ Len(AuthCollections) = 3
      /\ AuthCollections[1] = "challenge" /\ AuthCollections[2] = "twoFactor"
      /\ AuthCollections[3] = "auditContext"
  BY DEF AuthCollections
<1>2. 1 .. 3 = {1, 2, 3}
  OBVIOUS
<1>3. QED
  BY <1>1, <1>2 DEF AuthKind

(* The jobs, the queue and the workers speak of users only.                *)
LEMMA DeletionFacts ==
    ASSUME DeletionInv
    PROVE  /\ TypeOK
           /\ \A u \in DOMAIN jobs : u \in User /\ jobs[u] \in JobDocument
           /\ \A w \in Worker : workers[w] # Idle =>
                /\ workers[w].user \in DOMAIN jobs /\ workers[w].user \in User
                /\ workers[w].stage \in Stage \ {"completed"}
                /\ workers[w].cleared \in 0 .. 3
                /\ workers[w].phase \in {"processing", "advancing"}
                /\ workers[w] \in [phase : {"processing", "advancing"}, user : User,
                                   stage : Stage, cleared : 0 .. 3]
           /\ \A w \in Worker : workers[w].phase # "idle" => workers[w] # Idle
BY AuthFacts DEF DeletionInv, AllTypeOK, WorkerState, WorkerInv, Idle

(* Nothing more than this of the space's documents matters here.           *)
LEMMA OrphansKeep ==
    ASSUME TypeOK, OnlyDeletionOrphans,
           IsLive' => OwnerPresent' \/ (IsLive /\ space' = space /\ ~OwnerPresent),
           \A u \in User : done[u] \subseteq done'[u]
    PROVE  OnlyDeletionOrphans'
<1>1. IsLive => space.owner \in User
  BY TypeFacts
<1>2. QED
  BY <1>1 DEF OnlyDeletionOrphans, OwnerPresent

(* The steps that leave the deletion alone: they change the documents of   *)
(* the space, the requests in flight and the authentication data only.     *)
LEMMA AccountStepKeeps ==
    ASSUME DeletionInv, UNCHANGED <<users, jobVars>>, TypeOK',
           requests' \subseteq User, authData' \in [User -> SUBSET AuthKind],
           IsLive' => OwnerPresent' \/ (IsLive /\ space' = space /\ ~OwnerPresent)
    PROVE  DeletionInv'
<1>1. AllTypeOK'
  BY DEF DeletionInv, AllTypeOK, jobVars
<1>2. QueueInv' /\ JobsInv' /\ (\A w \in Worker : WorkerInv(w)')
  BY DEF DeletionInv, QueueInv, JobsInv, WorkerInv, Reached, jobVars
<1>3. OnlyDeletionOrphans'
  BY DeletionFacts, OrphansKeep DEF DeletionInv, jobVars
<1>4. QED
  BY <1>1, <1>2, <1>3 DEF DeletionInv

LEMMA SameSpace ==
    ASSUME TypeOK, UNCHANGED vars
    PROVE  /\ TypeOK'
           /\ IsLive' => OwnerPresent' \/ (IsLive /\ space' = space /\ ~OwnerPresent)
BY DEF vars, TypeOK, IsLive, OwnerPresent, IsMember

LEMMA RequestsKeep ==
    ASSUME DeletionInv, NEW u \in User,
           \/ Authenticate(u) \/ MembershipRequest(u) \/ AuthRequest(u) \/ OtherRequest(u)
    PROVE  DeletionInv'
<1>1. TypeOK /\ requests \subseteq User /\ authData \in [User -> SUBSET AuthKind]
  BY DEF DeletionInv, AllTypeOK
<1>2. CASE Authenticate(u) \/ OtherRequest(u)
  BY <1>1, <1>2, SameSpace, AccountStepKeeps DEF Authenticate, OtherRequest, Answered
<1>3. CASE MembershipRequest(u)
  BY <1>1, <1>3, RequestTypes, SpaceSteps, AccountStepKeeps DEF MembershipRequest, Answered
<1>4. CASE AuthRequest(u)
  BY <1>1, <1>4, SameSpace, AccountStepKeeps DEF AuthRequest, Answered
<1>5. QED
  BY <1>2, <1>3, <1>4

(* A new job waits behind the others.                                      *)
LEMMA RequestDeletionKeeps ==
    ASSUME DeletionInv, NEW u \in User, RequestDeletion(u)
    PROVE  DeletionInv'
<1> DEFINE job == [stage |-> "memberships", leaseOwner |-> NoOne, leaseIn |-> 0]
<1>1. /\ users[u] = "active" /\ users' = [users EXCEPT ![u] = "deletion_pending"]
      /\ jobs' = Store(jobs, u, job) /\ queue' = Append(queue, u)
      /\ UNCHANGED <<vars, requests, authData, workers, done>>
  BY DEF RequestDeletion
<1>2. job \in JobDocument /\ job.stage = "memberships"
  BY UserDeletionAssumption, StageFacts DEF JobDocument
<1>3. u \notin DOMAIN jobs /\ DOMAIN jobs \subseteq User
  BY <1>1 DEF DeletionInv, JobsInv, AllTypeOK
<1> HIDE DEF job
<1>4. /\ DOMAIN jobs' = DOMAIN jobs \cup {u}
      /\ jobs' \in [DOMAIN jobs' -> JobDocument] /\ jobs'[u] = job
      /\ \A v \in DOMAIN jobs : jobs'[v] = jobs[v]
  BY <1>1, <1>2, <1>3, DeletionFacts DEF Store
<1>5. /\ users' \in [User -> {"active", "deletion_pending", "deleted"}]
      /\ users'[u] = "deletion_pending" /\ \A v \in User \ {u} : users'[v] = users[v]
  BY <1>1 DEF DeletionInv, AllTypeOK
<1>6. QueueInv' /\ Len(queue') <= Cardinality(User)
  <2>1. queue' \in Seq(User) /\ Len(queue') = Len(queue) + 1
    BY <1>1, AppendProperties DEF DeletionInv, QueueInv
  <2>2. IsFiniteSet(DOMAIN jobs) /\ IsFiniteSet(DOMAIN jobs')
    BY <1>3, <1>4, IdsAssumption, FS_Subset
  <2>3. Cardinality(DOMAIN jobs') = Cardinality(DOMAIN jobs) + 1
    BY <1>3, <1>4, <2>2, FS_AddElement
  <2>4. Cardinality(DOMAIN jobs') <= Cardinality(User)
    BY <1>3, <1>4, IdsAssumption, FS_Subset
  <2>5. QED
    BY <2>1, <2>3, <2>4 DEF DeletionInv, QueueInv
<1>7. {queue'[n] : n \in 1 .. Len(queue')} = DOMAIN jobs'
  <2>1. queue \in Seq(User) /\ {queue[n] : n \in 1 .. Len(queue)} = DOMAIN jobs
    BY DEF DeletionInv, QueueInv, AllTypeOK
  <2>2. /\ Len(queue') = Len(queue) + 1 /\ queue'[Len(queue) + 1] = u
        /\ \A n \in 1 .. Len(queue) : queue'[n] = queue[n]
    BY <1>1, <2>1
  <2>3. Len(queue) \in Nat
    BY <2>1
  <2>4. QED
    BY <1>4, <2>1, <2>2, <2>3
<1>8. AllTypeOK'
  BY <1>1, <1>3, <1>4, <1>5, <1>6, <1>7, SameSpace DEF DeletionInv, AllTypeOK
<1>9. JobsInv'
  <2>1. \A v \in User : users'[v] = "active" <=> v \notin DOMAIN jobs'
    BY <1>3, <1>4, <1>5 DEF DeletionInv, JobsInv
  <2>2. ASSUME NEW v \in DOMAIN jobs' PROVE Reached(v, jobs[v].stage)'
    <3>1. CASE v = u
      BY <1>2, <1>4, <3>1 DEF Reached
    <3>2. CASE v # u
      <4>1. /\ Reached(v, jobs[v].stage) /\ jobs'[v] = jobs[v] /\ users'[v] = users[v]
            /\ done' = done
        BY <1>1, <1>3, <1>4, <1>5, <3>2 DEF DeletionInv, JobsInv
      <4>2. QED
        BY <4>1 DEF Reached
    <3>3. QED
      BY <3>1, <3>2
  <2>3. \A v \in User :
            users'[v] = "deleted" => "memberships" \in done'[v] /\ AuthKind \subseteq done'[v]
    <3>1. \A v \in User : users'[v] = "deleted" => users[v] = "deleted"
      BY <1>5
    <3>2. QED
      BY <1>1, <3>1 DEF DeletionInv, JobsInv
  <2>4. QED
    BY <2>1, <2>2, <2>3 DEF JobsInv
<1>10. ASSUME NEW w \in Worker PROVE WorkerInv(w)'
  <2>1. workers[w] # Idle => workers[w].user \in DOMAIN jobs
    BY DeletionFacts
  <2>2. \A v \in DOMAIN jobs, stage \in Stage : Reached(v, stage) => Reached(v, stage)'
    BY <1>1, <1>3, <1>5 DEF Reached
  <2>3. workers[w] # Idle => workers[w].stage \in Stage /\ NextStage(workers[w].stage) \in Stage
    BY DeletionFacts, StageFacts
  <2>4. QED
    BY <1>1, <1>4, <2>1, <2>2, <2>3 DEF DeletionInv, WorkerInv
<1>11. OnlyDeletionOrphans'
  BY <1>1, DeletionFacts, SameSpace, OrphansKeep DEF DeletionInv
<1>12. QED
  BY <1>6, <1>8, <1>9, <1>10, <1>11 DEF DeletionInv

-----------------------------------------------------------------------------
(* The steps of the workers.                                               *)

(* What has been done stays done.                                          *)
LEMMA ReachedStays ==
    ASSUME NEW u \in User, NEW stage, Reached(u, stage),
           done[u] \subseteq done'[u], users[u] = "deleted" => users'[u] = "deleted"
    PROVE  Reached(u, stage)'
BY DEF Reached

(* A step of one worker, w, or of the clock: the clean-up goes forward.    *)
LEMMA WorkerStepKeeps ==
    ASSUME DeletionInv, TypeOK', UNCHANGED <<requests, queue>>,
           authData' \in [User -> SUBSET AuthKind],
           users' \in [User -> {"active", "deletion_pending", "deleted"}],
           done' \in [User -> SUBSET (AuthKind \cup {"memberships", "tombstone"})],
           workers' \in [Worker -> WorkerState],
           jobs' \in [DOMAIN jobs -> JobDocument],
           \A u \in User : done[u] \subseteq done'[u],
           \A u \in User :
                \/ users'[u] = users[u]
                \/ /\ users[u] # "active" /\ users'[u] = "deleted"
                   /\ "memberships" \in done[u] /\ AuthKind \subseteq done[u],
           \A u \in DOMAIN jobs : jobs'[u].stage = jobs[u].stage \/ Reached(u, jobs'[u].stage),
           \A w \in Worker : workers'[w] = workers[w] \/ WorkerInv(w)',
           OnlyDeletionOrphans'
    PROVE  DeletionInv'
<1>1. DOMAIN jobs' = DOMAIN jobs /\ DOMAIN jobs \subseteq User
  BY DEF DeletionInv, AllTypeOK
<1>2. AllTypeOK' /\ QueueInv'
  BY <1>1 DEF DeletionInv, AllTypeOK, QueueInv
<1>3. ASSUME NEW u \in User, NEW stage, Reached(u, stage)
      PROVE  Reached(u, stage)'
  BY <1>3, ReachedStays
<1>4. JobsInv'
  <2>1. \A u \in User : users'[u] = "active" <=> u \notin DOMAIN jobs'
    BY <1>1 DEF DeletionInv, JobsInv
  <2>2. ASSUME NEW u \in DOMAIN jobs' PROVE Reached(u, jobs[u].stage)'
    <3>1. u \in User /\ Reached(u, jobs'[u].stage)
      BY <1>1 DEF DeletionInv, JobsInv
    <3>2. QED
      BY <3>1, ReachedStays DEF Reached
  <2>3. \A u \in User :
            users'[u] = "deleted" => "memberships" \in done'[u] /\ AuthKind \subseteq done'[u]
    BY DEF DeletionInv, JobsInv
  <2>4. QED
    BY <2>1, <2>2, <2>3 DEF JobsInv
<1>5. ASSUME NEW w \in Worker PROVE WorkerInv(w)'
  <2>1. CASE WorkerInv(w)'
    BY <2>1
  <2>2. CASE workers'[w] = workers[w] /\ workers[w] # Idle
    <3>1. PICK u \in User, stage \in Stage, cleared \in 0 .. 3 :
            /\ u = workers[w].user /\ stage = workers[w].stage
            /\ cleared = workers[w].cleared
      BY <2>2, DeletionFacts
    <3>2. /\ u \in DOMAIN jobs /\ stage # "completed" /\ Reached(u, stage)
          /\ \A n \in 1 .. cleared : AuthCollections[n] \in done[u]
          /\ workers[w].phase = "processing" => cleared < Len(AuthCollections)
          /\ workers[w].phase = "advancing" => Reached(u, NextStage(stage))
      BY <2>2, <3>1 DEF DeletionInv, WorkerInv
    <3>3. Reached(u, stage)' /\ (Reached(u, NextStage(stage)) => Reached(u, NextStage(stage))')
      BY <1>3, <3>2
    <3>4. /\ u = workers'[w].user /\ stage = workers'[w].stage
          /\ cleared = workers'[w].cleared /\ workers'[w].phase = workers[w].phase
          /\ done[u] \subseteq done'[u]
      BY <2>2, <3>1
    <3>5. QED
      BY <1>1, <3>2, <3>3, <3>4 DEF WorkerInv
  <2>3. CASE workers'[w] = workers[w] /\ workers[w] = Idle
    BY <2>3 DEF WorkerInv
  <2>4. QED
    BY <2>1, <2>2, <2>3
<1>6. QED
  BY <1>2, <1>4, <1>5 DEF DeletionInv

(* The same for a step that touches the job and the worker only.           *)
LEMMA JobStepKeeps ==
    ASSUME DeletionInv, TypeOK', UNCHANGED <<space, members, accountVars, queue, done>>,
           jobs' \in [DOMAIN jobs -> JobDocument],
           workers' \in [Worker -> WorkerState],
           \A u \in DOMAIN jobs : jobs'[u].stage = jobs[u].stage \/ Reached(u, jobs'[u].stage),
           \A w \in Worker : workers'[w] = workers[w] \/ WorkerInv(w)'
    PROVE  DeletionInv'
<1>1. OnlyDeletionOrphans'
  BY DEF DeletionInv, OnlyDeletionOrphans, IsLive, IsMember
<1>2. /\ users' = users /\ authData' = authData /\ requests' = requests
  BY DEF accountVars
<1>3. /\ authData' \in [User -> SUBSET AuthKind]
      /\ users' \in [User -> {"active", "deletion_pending", "deleted"}]
      /\ done' \in [User -> SUBSET (AuthKind \cup {"memberships", "tombstone"})]
  BY <1>2 DEF DeletionInv, AllTypeOK
<1>4. QED
  BY <1>1, <1>2, <1>3, WorkerStepKeeps

(* A job is a record, and one that nobody leases has no lease to run.      *)
JobRecord == [stage : Stage, leaseOwner : Worker \cup {NoOne}, leaseIn : 0 .. Lease]

LEMMA JobFacts ==
    ASSUME NEW job
    PROVE  job \in JobDocument <=>
                job \in JobRecord /\ (job.leaseOwner = NoOne => job.leaseIn = 0)
BY DEF JobDocument, JobRecord

LEMMA ClaimKeeps ==
    ASSUME DeletionInv, NEW w \in Worker, Claim(w)
    PROVE  DeletionInv'
<1>1. PICK n \in 1 .. Len(queue) :
        /\ Claimable(queue[n])
        /\ jobs' = [jobs EXCEPT ![queue[n]].leaseOwner = w, ![queue[n]].leaseIn = Lease]
        /\ workers' = [workers EXCEPT ![w] =
                [phase |-> "processing", user |-> queue[n],
                 stage |-> jobs[queue[n]].stage, cleared |-> 0]]
  BY DEF Claim
<1> DEFINE u == queue[n]
           job == [jobs[u] EXCEPT !.leaseOwner = w, !.leaseIn = Lease]
           worker == [phase |-> "processing", user |-> u, stage |-> jobs[u].stage, cleared |-> 0]
<1>2. UNCHANGED <<vars, accountVars, queue, done>>
  BY DEF Claim
<1>3. u \in DOMAIN jobs /\ u \in User /\ jobs[u] \in JobDocument
  BY <1>1, DeletionFacts DEF DeletionInv, AllTypeOK
<1>4. /\ jobs' = [jobs EXCEPT ![u] = job] /\ job \in JobDocument
      /\ job.stage = jobs[u].stage
  <2>1. jobs[u] \in JobRecord
    BY <1>3, JobFacts
  <2>2. Lease \in 0 .. Lease
    BY UserDeletionAssumption
  <2>3. job \in JobRecord /\ job.leaseOwner = w /\ job.stage = jobs[u].stage
    BY <2>1, <2>2 DEF JobRecord
  <2>4. job \in JobDocument
    BY <2>3, IdsAssumption, JobFacts
  <2>5. jobs' = [jobs EXCEPT ![u] = job]
    BY <1>1, <1>3 DEF DeletionInv, AllTypeOK
  <2>6. QED
    BY <2>3, <2>4, <2>5
<1>5. jobs' \in [DOMAIN jobs -> JobDocument] /\ DOMAIN jobs' = DOMAIN jobs
  BY <1>3, <1>4 DEF DeletionInv, AllTypeOK
<1>6. \A v \in DOMAIN jobs : jobs'[v].stage = jobs[v].stage
  BY <1>3, <1>4
<1>7. worker \in WorkerState /\ workers' = [workers EXCEPT ![w] = worker]
  BY <1>1, <1>3, AuthFacts DEF WorkerState, JobDocument
<1>8. /\ workers' \in [Worker -> WorkerState] /\ workers'[w] = worker
      /\ \A x \in Worker \ {w} : workers'[x] = workers[x]
  BY <1>7 DEF DeletionInv, AllTypeOK
<1>9. WorkerInv(w)'
  <2>1. jobs[u].stage # "completed" /\ Reached(u, jobs[u].stage)
    BY <1>1, <1>3 DEF Claimable, DeletionInv, JobsInv
  <2>2. users' = users /\ done' = done
    BY <1>2 DEF accountVars
  <2>3. QED
    BY <1>3, <1>5, <1>8, <2>1, <2>2, AuthFacts DEF WorkerInv, Reached
<1>10. TypeOK' /\ UNCHANGED <<space, members>>
  BY <1>2, SameSpace DEF DeletionInv, AllTypeOK, vars
<1>11. QED
  BY <1>2, <1>5, <1>6, <1>8, <1>9, <1>10, JobStepKeeps

(* Advance, Fail and Crash: the worker forgets everything.                 *)
LEMMA GiveUpKeeps ==
    ASSUME DeletionInv, NEW w \in Worker, workers' = [workers EXCEPT ![w] = Idle],
           UNCHANGED <<vars, accountVars, queue, done>>,
           jobs' \in [DOMAIN jobs -> JobDocument],
           \A u \in DOMAIN jobs : jobs'[u].stage = jobs[u].stage \/ Reached(u, jobs'[u].stage)
    PROVE  DeletionInv'
<1>1. workers' \in [Worker -> WorkerState]
  BY DEF DeletionInv, AllTypeOK, WorkerState
<1>2. \A x \in Worker : workers'[x] = workers[x] \/ WorkerInv(x)'
  BY DEF DeletionInv, AllTypeOK, WorkerInv
<1>3. TypeOK' /\ UNCHANGED <<space, members>>
  BY SameSpace DEF DeletionInv, AllTypeOK, vars
<1>4. QED
  BY <1>1, <1>2, <1>3, JobStepKeeps

LEMMA FreedFacts ==
    ASSUME NEW job \in JobDocument, NEW stage \in Stage
    PROVE  /\ Freed(job) \in JobDocument /\ Freed(job).stage = job.stage
           /\ Freed([job EXCEPT !.stage = stage]) \in JobDocument
           /\ Freed([job EXCEPT !.stage = stage]).stage = stage
<1>1. 0 \in 0 .. Lease
  BY UserDeletionAssumption
<1>2. ASSUME NEW old \in JobRecord
      PROVE  /\ Freed(old) \in JobRecord /\ Freed(old).stage = old.stage
             /\ Freed(old).leaseIn = 0
             /\ [old EXCEPT !.stage = stage] \in JobRecord
             /\ [old EXCEPT !.stage = stage].stage = stage
  BY <1>1 DEF JobRecord, Freed
<1>3. QED
  BY <1>2, JobFacts

LEMMA AdvanceKeeps ==
    ASSUME DeletionInv, NEW w \in Worker, Advance(w)
    PROVE  DeletionInv'
<1> DEFINE u == workers[w].user
           stage == NextStage(workers[w].stage)
<1>1. workers[w] # Idle /\ workers[w].phase = "advancing"
  BY DeletionFacts DEF Advance
<1>2. u \in DOMAIN jobs /\ jobs[u] \in JobDocument /\ stage \in Stage /\ Reached(u, stage)
  BY <1>1, DeletionFacts, StageFacts DEF DeletionInv, WorkerInv
<1>3. CASE jobs' = jobs
  BY <1>3, GiveUpKeeps DEF Advance, DeletionInv, AllTypeOK
<1>4. CASE jobs' = [jobs EXCEPT ![u] = Freed([@ EXCEPT !.stage = stage])]
  <2>1. Freed([jobs[u] EXCEPT !.stage = stage]) \in JobDocument
          /\ Freed([jobs[u] EXCEPT !.stage = stage]).stage = stage
    BY <1>2, FreedFacts
  <2>2. jobs' = [jobs EXCEPT ![u] = Freed([jobs[u] EXCEPT !.stage = stage])]
    BY <1>2, <1>4
  <2>3. jobs' \in [DOMAIN jobs -> JobDocument]
    BY <1>2, <2>1, <2>2 DEF DeletionInv, AllTypeOK
  <2>4. \A v \in DOMAIN jobs : jobs'[v].stage = jobs[v].stage \/ Reached(v, jobs'[v].stage)
    BY <1>2, <2>1, <2>2
  <2>5. QED
    BY <2>3, <2>4, GiveUpKeeps DEF Advance
<1>5. QED
  BY <1>3, <1>4 DEF Advance

LEMMA FailKeeps ==
    ASSUME DeletionInv, NEW w \in Worker, Fail(w) \/ Crash(w)
    PROVE  DeletionInv'
<1> DEFINE u == workers[w].user
<1>1. workers[w] # Idle /\ workers' = [workers EXCEPT ![w] = Idle]
        /\ UNCHANGED <<vars, accountVars, queue, done>>
  BY DEF Fail, Crash
<1>2. u \in DOMAIN jobs /\ jobs[u] \in JobDocument
  BY <1>1, DeletionFacts
<1>3. CASE jobs' = jobs
  BY <1>1, <1>3, GiveUpKeeps DEF DeletionInv, AllTypeOK
<1>4. CASE jobs' = [jobs EXCEPT ![u] = Freed(@)]
  <2>1. Freed(jobs[u]) \in JobDocument /\ Freed(jobs[u]).stage = jobs[u].stage
    BY <1>2, FreedFacts DEF JobDocument
  <2>2. jobs' = [jobs EXCEPT ![u] = Freed(jobs[u])]
    BY <1>2, <1>4
  <2>3. jobs' \in [DOMAIN jobs -> JobDocument]
    BY <1>2, <2>1, <2>2 DEF DeletionInv, AllTypeOK
  <2>4. \A v \in DOMAIN jobs : jobs'[v].stage = jobs[v].stage
    BY <1>2, <2>1, <2>2
  <2>5. QED
    BY <1>1, <2>3, <2>4, GiveUpKeeps
<1>5. QED
  BY <1>3, <1>4 DEF Fail, Crash

LEMMA TickAllKeeps ==
    ASSUME DeletionInv, TickAll
    PROVE  DeletionInv'
<1>1. Tick
  BY DEF TickAll, Tick
<1>2. TypeOK'
  BY <1>1, TickTypes DEF DeletionInv, AllTypeOK
<1>3. ASSUME NEW u \in DOMAIN jobs
      PROVE  jobs'[u] \in JobDocument /\ jobs'[u].stage = jobs[u].stage
  <2>1. jobs[u] \in JobDocument
    BY DeletionFacts
  <2>2. jobs'[u] = [jobs[u] EXCEPT !.leaseIn = IF @ > 0 THEN @ - 1 ELSE 0]
    BY DEF TickAll
  <2>3. QED
    BY <2>1, <2>2, UserDeletionAssumption DEF JobDocument
<1>4. jobs' \in [DOMAIN jobs -> JobDocument]
  BY <1>3 DEF TickAll
<1>5. QED
  BY <1>2, <1>3, <1>4, JobStepKeeps DEF TickAll, DeletionInv, AllTypeOK

(* The three stages.  What a worker in its stage knows:                    *)
LEMMA StageStep ==
    ASSUME DeletionInv, NEW w \in Worker, NEW stage \in Stage, Processing(w, stage)
    PROVE  \E u \in User, cleared \in 0 .. 2 :
            /\ workers[w] = [phase |-> "processing", user |-> u, stage |-> stage,
                             cleared |-> cleared]
            /\ u \in DOMAIN jobs /\ users[u] # "active" /\ stage # "completed"
            /\ Reached(u, stage)
            /\ \A n \in 1 .. cleared : AuthCollections[n] \in done[u]
<1>1. workers[w] # Idle /\ workers[w].phase = "processing" /\ workers[w].stage = stage
  BY DeletionFacts DEF Processing
<1>2. WorkerInv(w)
  BY DEF DeletionInv
<1>3. PICK u \in User, cleared \in 0 .. 3 :
        workers[w] = [phase |-> "processing", user |-> u, stage |-> stage,
                      cleared |-> cleared]
  BY <1>1, DeletionFacts
<1>4. /\ u \in DOMAIN jobs /\ stage # "completed" /\ Reached(u, stage)
      /\ \A n \in 1 .. cleared : AuthCollections[n] \in done[u]
      /\ cleared < 3
  BY <1>1, <1>2, <1>3, AuthFacts DEF WorkerInv
<1>5. users[u] # "active"
  BY <1>4 DEF DeletionInv, JobsInv
<1>6. QED
  BY <1>3, <1>4, <1>5

LEMMA WorkerWrites ==
    ASSUME DeletionInv, NEW w \in Worker, NEW u, NEW stage, NEW cleared,
           workers[w] = [phase |-> "processing", user |-> u, stage |-> stage,
                         cleared |-> cleared]
    PROVE  Advancing(w) = [workers EXCEPT ![w] =
                [phase |-> "advancing", user |-> u, stage |-> stage, cleared |-> cleared]]
<1> DEFINE worker == [phase |-> "processing", user |-> u, stage |-> stage,
                      cleared |-> cleared]
<1>1. [worker EXCEPT !.phase = "advancing"]
        = [phase |-> "advancing", user |-> u, stage |-> stage, cleared |-> cleared]
  OBVIOUS
<1> HIDE DEF worker
<1>2. workers[w] = worker
  BY DEF worker
<1>3. Advancing(w) = [workers EXCEPT ![w] = [workers[w] EXCEPT !.phase = "advancing"]]
  BY DEF Advancing
<1>4. QED
  BY <1>1, <1>2, <1>3

LEMMA RecordClears ==
    ASSUME NEW u, NEW stage, NEW cleared, NEW next
    PROVE  [[phase |-> "processing", user |-> u, stage |-> stage, cleared |-> cleared]
                EXCEPT !.cleared = next]
            = [phase |-> "processing", user |-> u, stage |-> stage, cleared |-> next]
OBVIOUS

LEMMA WorkerTypes ==
    ASSUME DeletionInv, NEW w \in Worker, NEW u \in User, NEW stage \in Stage,
           NEW phase \in {"processing", "advancing"}, NEW cleared \in 0 .. 2,
           workers' = [workers EXCEPT ![w] =
                [phase |-> phase, user |-> u, stage |-> stage, cleared |-> cleared]]
    PROVE  /\ workers' \in [Worker -> WorkerState]
           /\ workers'[w] =
                [phase |-> phase, user |-> u, stage |-> stage, cleared |-> cleared]
           /\ \A x \in Worker \ {w} : workers'[x] = workers[x]
<1> DEFINE worker == [phase |-> phase, user |-> u, stage |-> stage, cleared |-> cleared]
<1>1. worker \in WorkerState
  BY AuthFacts DEF WorkerState
<1>2. QED
  BY <1>1 DEF DeletionInv, AllTypeOK

LEMMA DidFacts ==
    ASSUME DeletionInv, NEW u \in User, NEW what \in AuthKind \cup {"memberships", "tombstone"},
           done' = Did(u, what)
    PROVE  /\ done' \in [User -> SUBSET (AuthKind \cup {"memberships", "tombstone"})]
           /\ what \in done'[u] /\ \A v \in User : done[v] \subseteq done'[v]
BY DEF Did, DeletionInv, AllTypeOK

LEMMA ProcessMembershipsKeeps ==
    ASSUME DeletionInv, NEW w \in Worker, ProcessMemberships(w)
    PROVE  DeletionInv'
<1>1. PICK u \in User, cleared \in 0 .. 2 :
        /\ workers[w] = [phase |-> "processing", user |-> u, stage |-> "memberships",
                         cleared |-> cleared]
        /\ u \in DOMAIN jobs
        /\ \A n \in 1 .. cleared : AuthCollections[n] \in done[u]
  BY StageStep, StageFacts DEF ProcessMemberships
<1>2. /\ members' = [v \in DOMAIN members |->
            IF v = u /\ IsMember(u)
            THEN [members[u] EXCEPT !.status = "removed", !.endReason = "user_deleted"]
            ELSE members[v]]
      /\ done' = Did(u, "memberships")
      /\ UNCHANGED <<space, invitations, lastEvent, accountVars, jobs, queue>>
  BY <1>1 DEF ProcessMemberships
<1>3. workers' = [workers EXCEPT ![w] = [phase |-> "advancing", user |-> u,
                                       stage |-> "memberships", cleared |-> cleared]]
  BY <1>1, WorkerWrites DEF ProcessMemberships
<1>4. /\ workers' \in [Worker -> WorkerState]
      /\ workers'[w] = [phase |-> "advancing", user |-> u,
                        stage |-> "memberships", cleared |-> cleared]
      /\ \A x \in Worker \ {w} : workers'[x] = workers[x]
  BY <1>3, WorkerTypes, StageFacts
<1>5. /\ done' \in [User -> SUBSET (AuthKind \cup {"memberships", "tombstone"})]
      /\ "memberships" \in done'[u] /\ \A v \in User : done[v] \subseteq done'[v]
  BY <1>2, DidFacts
<1>6. WorkerInv(w)'
  <2>1. Reached(u, "memberships")' /\ Reached(u, NextStage("memberships"))'
    BY <1>5, StageFacts DEF Reached
  <2>2. \A n \in 1 .. cleared : AuthCollections[n] \in done'[u]
    BY <1>1, <1>5
  <2>3. QED
    BY <1>1, <1>2, <1>4, <2>1, <2>2 DEF WorkerInv
<1>7. TypeOK'
  <2>1. TypeOK
    BY DeletionFacts
  <2>2. ASSUME NEW v \in DOMAIN members PROVE members'[v] \in MemberDocument
    <3>1. members[v] \in MemberDocument
      BY <2>1, TypeFacts
    <3>2. [members[v] EXCEPT !.status = "removed", !.endReason = "user_deleted"]
            \in MemberDocument
      BY <3>1 DEF MemberDocument
    <3>3. CASE v = u /\ IsMember(u)
      <4>1. members'[v] = [members[v] EXCEPT !.status = "removed",
                                             !.endReason = "user_deleted"]
        BY <1>2, <3>3
      <4>2. QED
        BY <3>2, <4>1
    <3>4. CASE ~(v = u /\ IsMember(u))
      BY <1>2, <3>1, <3>4
    <3>5. QED
      BY <3>3, <3>4
  <2>3. DOMAIN members' = DOMAIN members /\ members' \in [DOMAIN members' -> MemberDocument]
    BY <1>2, <2>2
  <2>4. QED
    BY <1>2, <2>1, <2>3 DEF TypeOK
<1>8. OnlyDeletionOrphans'
  <2>1. IsLive => space.owner \in User
    BY DeletionFacts, TypeFacts
  <2>2. IsLive /\ IsMember(space.owner) /\ space.owner # u => IsMember(space.owner)'
    BY <1>2 DEF IsMember
  <2>3. IsLive' <=> IsLive
    BY <1>2 DEF IsLive
  <2>4. QED
    BY <1>2, <1>5, <2>1, <2>2, <2>3 DEF DeletionInv, OnlyDeletionOrphans
<1>9. /\ users' = users /\ authData' = authData /\ requests' = requests
      /\ jobs' = jobs /\ queue' = queue
  BY <1>2 DEF accountVars
<1>10. /\ authData \in [User -> SUBSET AuthKind]
       /\ users \in [User -> {"active", "deletion_pending", "deleted"}]
       /\ jobs \in [DOMAIN jobs -> JobDocument]
  BY DEF DeletionInv, AllTypeOK
<1>11. QED
  BY <1>4, <1>5, <1>6, <1>7, <1>8, <1>9, <1>10, WorkerStepKeeps

LEMMA ProcessAuthDataKeeps ==
    ASSUME DeletionInv, NEW w \in Worker, ProcessAuthData(w)
    PROVE  DeletionInv'
<1>1. PICK u \in User, cleared \in 0 .. 2 :
        /\ workers[w] = [phase |-> "processing", user |-> u, stage |-> "auth_data",
                         cleared |-> cleared]
        /\ u \in DOMAIN jobs /\ Reached(u, "auth_data")
        /\ \A n \in 1 .. cleared : AuthCollections[n] \in done[u]
  BY StageStep, StageFacts DEF ProcessAuthData
<1> DEFINE phase == IF cleared + 1 = 3 THEN "advancing" ELSE "processing"
           after == IF cleared + 1 = 3 THEN cleared ELSE cleared + 1
<1>2. /\ authData' = [authData EXCEPT ![u] = @ \ {AuthCollections[cleared + 1]}]
      /\ done' = Did(u, AuthCollections[cleared + 1])
      /\ workers' = IF cleared + 1 = 3 THEN Advancing(w)
                    ELSE [workers EXCEPT ![w].cleared = cleared + 1]
      /\ UNCHANGED <<vars, users, requests, jobs, queue>>
  BY <1>1, AuthFacts DEF ProcessAuthData, LastCollection
<1>3. workers' = [workers EXCEPT ![w] = [phase |-> phase, user |-> u,
                                       stage |-> "auth_data", cleared |-> after]]
  <2>1. CASE cleared + 1 = 3
    <3>1. workers' = Advancing(w)
      BY <1>2, <2>1
    <3>2. Advancing(w) = [workers EXCEPT ![w] = [phase |-> "advancing", user |-> u,
                                       stage |-> "auth_data", cleared |-> cleared]]
      BY <1>1, WorkerWrites
    <3>3. phase = "advancing" /\ after = cleared
      BY <2>1
    <3>4. QED
      BY <3>1, <3>2, <3>3
  <2>2. CASE cleared + 1 # 3
    <3>1. workers' = [workers EXCEPT ![w].cleared = cleared + 1]
      BY <1>2, <2>2
    <3>2. [workers EXCEPT ![w].cleared = cleared + 1]
            = [workers EXCEPT ![w] = [phase |-> "processing", user |-> u,
                                  stage |-> "auth_data", cleared |-> cleared + 1]]
      <4> HIDE DEF phase, after
      <4>1. PICK next, worker, nextWorker :
                /\ next = cleared + 1 /\ worker = workers[w]
                /\ nextWorker = [phase |-> "processing", user |-> u,
                                 stage |-> "auth_data", cleared |-> next]
        OBVIOUS
      <4>2. worker = [phase |-> "processing", user |-> u, stage |-> "auth_data",
                      cleared |-> cleared]
        BY <1>1, <4>1
      <4>3. [worker EXCEPT !.cleared = next] = nextWorker
        <5>1. [[phase |-> "processing", user |-> u, stage |-> "auth_data",
                cleared |-> cleared] EXCEPT !.cleared = next]
              = [phase |-> "processing", user |-> u, stage |-> "auth_data",
                 cleared |-> next]
          BY RecordClears
        <5>2. QED
          BY <4>1, <4>2, <5>1, Zenon
      <4>4. [workers EXCEPT ![w].cleared = next] = [workers EXCEPT ![w] = nextWorker]
        BY <4>1, <4>3
      <4>5. QED
        BY <4>1, <4>4
    <3>3. phase = "processing" /\ after = cleared + 1
      BY <2>2
    <3>4. QED
      BY <3>1, <3>2, <3>3
  <2>3. QED
    BY <2>1, <2>2
<1>4. /\ phase \in {"processing", "advancing"} /\ after \in 0 .. 2
      /\ cleared + 1 \in 1 .. 3
  OBVIOUS
<1>5. /\ workers' \in [Worker -> WorkerState]
      /\ workers'[w] = [phase |-> phase, user |-> u,
                        stage |-> "auth_data", cleared |-> after]
      /\ \A x \in Worker \ {w} : workers'[x] = workers[x]
  BY <1>3, <1>4, WorkerTypes, StageFacts
<1>6. /\ done' \in [User -> SUBSET (AuthKind \cup {"memberships", "tombstone"})]
      /\ AuthCollections[cleared + 1] \in done'[u]
      /\ \A v \in User : done[v] \subseteq done'[v]
  <2>1. AuthCollections[cleared + 1] \in AuthKind
    BY <1>4, AuthFacts
  <2>2. QED
    BY <1>2, <2>1, DidFacts
<1>7. \A n \in 1 .. cleared + 1 : AuthCollections[n] \in done'[u]
  BY <1>1, <1>6
<1>8. WorkerInv(w)'
  <2>1. users' = users /\ jobs' = jobs
    BY <1>2
  <2>2. Reached(u, "auth_data")'
    BY <1>1, <1>6, <2>1 DEF Reached
  <2>3. cleared + 1 = 3 => Reached(u, NextStage("auth_data"))'
    BY <1>6, <1>7, <2>2, StageFacts, AuthFacts DEF Reached
  <2>4. \A n \in 1 .. after : AuthCollections[n] \in done'[u]
    BY <1>7
  <2> HIDE DEF after
  <2>5. /\ workers'[w].user = u /\ workers'[w].stage = "auth_data"
        /\ workers'[w].cleared = after /\ workers'[w].phase = phase
    BY <1>5
  <2>6. phase = "processing" => after < Len(AuthCollections)
    BY <1>4, AuthFacts
  <2>7. phase = "advancing" => cleared + 1 = 3
    OBVIOUS
  <2> HIDE DEF phase
  <2>8. QED
    BY <1>1, <2>1, <2>2, <2>3, <2>4, <2>5, <2>6, <2>7 DEF WorkerInv
<1>9. /\ authData' \in [User -> SUBSET AuthKind]
      /\ users \in [User -> {"active", "deletion_pending", "deleted"}]
      /\ jobs \in [DOMAIN jobs -> JobDocument]
  BY <1>2 DEF DeletionInv, AllTypeOK
<1>10. TypeOK' /\ OnlyDeletionOrphans'
  BY <1>2, <1>6, DeletionFacts, SameSpace, OrphansKeep DEF DeletionInv
<1>11. QED
  BY <1>2, <1>5, <1>6, <1>8, <1>9, <1>10, WorkerStepKeeps

LEMMA ProcessTombstoneKeeps ==
    ASSUME DeletionInv, NEW w \in Worker, ProcessTombstone(w)
    PROVE  DeletionInv'
<1>1. PICK u \in User, cleared \in 0 .. 2 :
        /\ workers[w] = [phase |-> "processing", user |-> u, stage |-> "tombstone",
                         cleared |-> cleared]
        /\ u \in DOMAIN jobs /\ users[u] # "active" /\ Reached(u, "tombstone")
        /\ \A n \in 1 .. cleared : AuthCollections[n] \in done[u]
  BY StageStep, StageFacts DEF ProcessTombstone
<1>2. /\ users' = [users EXCEPT ![u] = "deleted"]
      /\ done' = Did(u, "tombstone")
      /\ UNCHANGED <<vars, requests, authData, jobs, queue>>
  BY <1>1 DEF ProcessTombstone
<1>3. workers' = [workers EXCEPT ![w] = [phase |-> "advancing", user |-> u,
                                       stage |-> "tombstone", cleared |-> cleared]]
  BY <1>1, WorkerWrites DEF ProcessTombstone
<1>4. /\ workers' \in [Worker -> WorkerState]
      /\ workers'[w] = [phase |-> "advancing", user |-> u,
                        stage |-> "tombstone", cleared |-> cleared]
      /\ \A x \in Worker \ {w} : workers'[x] = workers[x]
  BY <1>3, WorkerTypes, StageFacts
<1>5. /\ done' \in [User -> SUBSET (AuthKind \cup {"memberships", "tombstone"})]
      /\ \A v \in User : done[v] \subseteq done'[v]
  BY <1>2, DidFacts
<1>6. /\ users' \in [User -> {"active", "deletion_pending", "deleted"}]
      /\ users'[u] = "deleted" /\ \A v \in User \ {u} : users'[v] = users[v]
  BY <1>2 DEF DeletionInv, AllTypeOK
<1>7. "memberships" \in done[u] /\ AuthKind \subseteq done[u]
  BY <1>1 DEF Reached
<1>8. WorkerInv(w)'
  <2>1. Reached(u, "tombstone")' /\ Reached(u, NextStage("tombstone"))'
    BY <1>5, <1>6, <1>7, StageFacts DEF Reached
  <2>2. \A n \in 1 .. cleared : AuthCollections[n] \in done'[u]
    BY <1>1, <1>5
  <2>3. QED
    BY <1>1, <1>2, <1>4, <2>1, <2>2 DEF WorkerInv
<1>9. /\ authData \in [User -> SUBSET AuthKind]
      /\ jobs \in [DOMAIN jobs -> JobDocument]
  BY DEF DeletionInv, AllTypeOK
<1>10. TypeOK' /\ OnlyDeletionOrphans'
  BY <1>2, <1>5, DeletionFacts, SameSpace, OrphansKeep DEF DeletionInv
<1>11. \A v \in User :
        \/ users'[v] = users[v]
        \/ /\ users[v] # "active" /\ users'[v] = "deleted"
           /\ "memberships" \in done[v] /\ AuthKind \subseteq done[v]
  BY <1>1, <1>6, <1>7
<1>12. QED
  BY <1>2, <1>4, <1>5, <1>6, <1>8, <1>9, <1>10, <1>11, WorkerStepKeeps
-----------------------------------------------------------------------------
(* The inductive invariant.                                                *)

LEMMA InitAllKeeps == InitAll => DeletionInv
<1> SUFFICES ASSUME InitAll PROVE DeletionInv
  OBVIOUS
<1>1. TypeOK /\ ~IsLive
  BY InitKeeps DEF InitAll, Init, IInv, IsLive
<1>2. /\ DOMAIN jobs = {} /\ jobs \in [DOMAIN jobs -> JobDocument]
      /\ queue = <<>> /\ Len(queue) = 0 /\ queue \in Seq(User)
      /\ {queue[n] : n \in 1 .. Len(queue)} = {}
  BY DEF InitAll
<1>3. Cardinality(DOMAIN jobs) = 0 /\ Cardinality(User) \in Nat
  BY <1>2, FS_EmptySet, FS_CardinalityType, IdsAssumption
<1>4. /\ users = [u \in User |-> "active"] /\ done = [u \in User |-> {}]
      /\ authData = [u \in User |-> {}] /\ requests = {}
      /\ workers = [w \in Worker |-> Idle]
  BY DEF InitAll
<1>5. AllTypeOK
  BY <1>1, <1>2, <1>3, <1>4 DEF AllTypeOK, WorkerState
<1>6. QueueInv /\ JobsInv /\ OnlyDeletionOrphans
  BY <1>1, <1>2, <1>3, <1>4 DEF QueueInv, JobsInv, OnlyDeletionOrphans
<1>7. \A w \in Worker : WorkerInv(w)
  BY <1>4 DEF WorkerInv
<1>8. QED
  BY <1>5, <1>6, <1>7 DEF DeletionInv

LEMMA NextAllKeeps ==
    ASSUME DeletionInv, [NextAll]_allVars
    PROVE  DeletionInv'
<1>1. ASSUME NEW u \in User, 
             \/ Authenticate(u) \/ RequestDeletion(u)
             \/ MembershipRequest(u) \/ AuthRequest(u) \/ OtherRequest(u)
      PROVE  DeletionInv'
  BY <1>1, RequestsKeep, RequestDeletionKeeps
<1>2. ASSUME NEW w \in Worker, Work(w) \/ Fail(w) \/ Crash(w)
      PROVE  DeletionInv'
  BY <1>2, ClaimKeeps, AdvanceKeeps, FailKeeps, ProcessMembershipsKeeps,
     ProcessAuthDataKeeps, ProcessTombstoneKeeps DEF Work, ProcessStage
<1>3. CASE UNCHANGED allVars
  <2>1. UNCHANGED <<vars, users, jobVars, requests, authData>>
    BY <1>3 DEF allVars, accountVars
  <2>2. TypeOK /\ requests \subseteq User /\ authData \in [User -> SUBSET AuthKind]
    BY DEF DeletionInv, AllTypeOK
  <2>3. QED
    BY <2>1, <2>2, SameSpace, AccountStepKeeps
<1>4. QED
  BY <1>1, <1>2, <1>3, TickAllKeeps DEF NextAll, UserStep, WorkerStep

(* The inductive invariant holds throughout.                               *)
THEOREM DeletionInvariant == SpecAll => []DeletionInv
<1>1. DeletionInv /\ [NextAll]_allVars => DeletionInv'
  BY NextAllKeeps
<1>2. QED
  BY <1>1, InitAllKeeps, PTL DEF SpecAll

(* Every document, lease and worker keeps its shape, and the queue lists   *)
(* exactly the users who have asked to be deleted.                         *)
THEOREM DeletionTypeCorrect == SpecAll => []AllTypeOK
<1>1. DeletionInv => AllTypeOK
  BY DEF DeletionInv
<1>2. QED
  BY <1>1, DeletionInvariant, PTL

(* Whatever fails, stalls or crashes, a job's stage never gets ahead of    *)
(* the work, and the profile is erased last.                               *)
THEOREM StagesFollowTheWork == SpecAll => []StageFollowsWork
<1>1. ASSUME DeletionInv, NEW u \in User
      PROVE  LET stage == IF u \in DOMAIN jobs THEN jobs[u].stage ELSE "memberships"
             IN  /\ stage # "memberships" => "memberships" \in done[u]
                 /\ stage \in {"tombstone", "completed"} \/ users[u] = "deleted"
                        => AuthKind \subseteq done[u] /\ "memberships" \in done[u]
                 /\ stage = "completed" => users[u] = "deleted"
  BY <1>1 DEF DeletionInv, JobsInv, Reached
<1>2. DeletionInv => StageFollowsWork
  BY <1>1 DEF StageFollowsWork
<1>3. QED
  BY <1>2, DeletionInvariant, PTL

(* A live space without an active owner belongs to a user whose            *)
(* memberships his own deletion has ended.                                 *)
THEOREM OrphansAreOfDeletion == SpecAll => []OnlyDeletionOrphans
<1>1. DeletionInv => OnlyDeletionOrphans
  BY DEF DeletionInv
<1>2. QED
  BY <1>1, DeletionInvariant, PTL

-----------------------------------------------------------------------------
(* What a step does to a job that exists: nothing; a claim of a job that   *)
(* nobody leases; or a worker gives up the job it leases, which may move   *)
(* from the stage the worker has carried out to the next.                  *)
Untouched(u) ==
    jobs'[u].stage = jobs[u].stage /\ jobs'[u].leaseOwner = jobs[u].leaseOwner

Claimed(u) == Claimable(u) /\ jobs'[u].stage = jobs[u].stage

GivenUp(u, w) ==
    /\ workers[w] # Idle /\ workers'[w] = Idle /\ jobs[u].leaseOwner = w
    /\ \/ jobs'[u].stage = jobs[u].stage
       \/ /\ jobs[u].stage = workers[w].stage
          /\ jobs'[u].stage = NextStage(workers[w].stage)

LEMMA ClaimMoves ==
    ASSUME DeletionInv, NEW w \in Worker, Claim(w), NEW u \in DOMAIN jobs
    PROVE  Untouched(u) \/ Claimed(u)
<1>1. PICK n \in 1 .. Len(queue) :
        /\ Claimable(queue[n])
        /\ jobs' = [jobs EXCEPT ![queue[n]].leaseOwner = w, ![queue[n]].leaseIn = Lease]
  BY DEF Claim
<1>2. CASE u = queue[n]
  <2>1. jobs'[u] = [jobs[u] EXCEPT !.leaseOwner = w, !.leaseIn = Lease]
    BY <1>1, <1>2 DEF DeletionInv, AllTypeOK
  <2>2. jobs[u] \in JobRecord
    BY DeletionFacts, JobFacts
  <2>3. jobs'[u].stage = jobs[u].stage
    BY <2>1, <2>2 DEF JobRecord
  <2>4. QED
    BY <1>1, <1>2, <2>3 DEF Claimed
<1>3. CASE u # queue[n]
  <2>1. jobs'[u] = jobs[u]
    BY <1>1, <1>3 DEF DeletionInv, AllTypeOK
  <2>2. QED
    BY <2>1 DEF Untouched
<1>4. QED
  BY <1>2, <1>3

LEMMA GiveUpMoves ==
    ASSUME DeletionInv, NEW w \in Worker, Advance(w) \/ Fail(w), NEW u \in DOMAIN jobs
    PROVE  Untouched(u) \/ GivenUp(u, w)
<1>1. workers[w] # Idle /\ workers' = [workers EXCEPT ![w] = Idle]
  BY DeletionFacts DEF Advance, Fail
<1>2. workers'[w] = Idle
  BY <1>1 DEF DeletionInv, AllTypeOK
<1>3. workers[w].user \in DOMAIN jobs /\ workers[w].stage \in Stage \ {"completed"}
  BY <1>1, DeletionFacts
<1>4. jobs[u] \in JobDocument
  BY DeletionFacts
<1>5. NextStage(workers[w].stage) \in Stage
  BY <1>3, StageFacts
<1>6. CASE jobs'[u] = jobs[u]
  BY <1>6 DEF Untouched
<1>7. CASE /\ u = workers[w].user /\ jobs[u].leaseOwner = w
           /\ jobs'[u] = Freed(jobs[u])
  <2>1. jobs'[u].stage = jobs[u].stage
    BY <1>4, <1>5, <1>7, FreedFacts
  <2>2. QED
    BY <1>1, <1>2, <1>7, <2>1 DEF GivenUp
<1>8. CASE /\ u = workers[w].user /\ jobs[u].leaseOwner = w
           /\ jobs[u].stage = workers[w].stage
           /\ jobs'[u] = Freed([jobs[u] EXCEPT !.stage = NextStage(workers[w].stage)])
  <2>1. jobs'[u].stage = NextStage(workers[w].stage)
    BY <1>4, <1>5, <1>8, FreedFacts
  <2>2. QED
    BY <1>1, <1>2, <1>8, <2>1 DEF GivenUp
<1>9. CASE Advance(w)
  <2>1. CASE Current(w) /\ u = workers[w].user
    BY <1>3, <1>8, <1>9, <2>1 DEF Advance, Current
  <2>2. CASE ~Current(w)
    BY <1>6, <1>9, <2>2 DEF Advance
  <2>3. CASE u # workers[w].user
    <3>1. PICK job : jobs' = [jobs EXCEPT ![workers[w].user] = job] \/ jobs' = jobs
      BY <1>9 DEF Advance
    <3>2. QED
      BY <1>6, <2>3, <3>1 DEF DeletionInv, AllTypeOK
  <2>4. QED
    BY <2>1, <2>2, <2>3
<1>10. CASE Fail(w)
  <2>1. CASE Releases(w) /\ u = workers[w].user
    BY <1>3, <1>7, <1>10, <2>1 DEF Fail, Releases
  <2>2. CASE ~(Releases(w) /\ u = workers[w].user)
    BY <1>3, <1>6, <1>10, <2>2 DEF Fail
  <2>3. QED
    BY <2>1, <2>2
<1>11. QED
  BY <1>9, <1>10

LEMMA JobMoves ==
    ASSUME DeletionInv, [NextAll]_allVars, NEW u \in DOMAIN jobs
    PROVE  Untouched(u) \/ Claimed(u) \/ \E w \in Worker : GivenUp(u, w)
<1>1. u \in User /\ jobs[u] \in JobDocument
  BY DeletionFacts
<1>2. CASE jobs' = jobs
  BY <1>2 DEF Untouched
<1>3. ASSUME NEW v \in User, RequestDeletion(v) PROVE Untouched(u)
  <2>1. v \notin DOMAIN jobs
    BY <1>3 DEF RequestDeletion, DeletionInv, JobsInv
  <2>2. jobs'[u] = jobs[u]
    BY <1>3, <2>1 DEF RequestDeletion, Store
  <2>3. QED
    BY <2>2 DEF Untouched
<1>4. CASE TickAll
  <2>1. jobs'[u] = [jobs[u] EXCEPT !.leaseIn = IF @ > 0 THEN @ - 1 ELSE 0]
    BY <1>4 DEF TickAll
  <2>2. jobs[u] \in JobRecord
    BY <1>1, JobFacts
  <2>3. QED
    BY <2>1, <2>2 DEF JobRecord, Untouched
<1>5. CASE UserStep
  BY <1>2, <1>3, <1>5 DEF UserStep, Authenticate, MembershipRequest, AuthRequest,
     OtherRequest, jobVars
<1>6. ASSUME NEW w \in Worker, Work(w) \/ Fail(w) \/ Crash(w)
      PROVE  Untouched(u) \/ Claimed(u) \/ GivenUp(u, w)
  <2>1. CASE ProcessStage(w) \/ Crash(w)
    <3>1. ProcessMemberships(w) => jobs' = jobs
      BY DEF ProcessMemberships
    <3>2. ProcessAuthData(w) => jobs' = jobs
      BY DEF ProcessAuthData
    <3>3. ProcessTombstone(w) => jobs' = jobs
      BY DEF ProcessTombstone
    <3>4. Crash(w) => jobs' = jobs
      BY DEF Crash
    <3>5. QED
      BY <2>1, <3>1, <3>2, <3>3, <3>4 DEF ProcessStage, Untouched
  <2>2. CASE Claim(w)
    BY <2>2, ClaimMoves
  <2>3. CASE Advance(w) \/ Fail(w)
    BY <2>3, GiveUpMoves
  <2>4. QED
    BY <1>6, <2>1, <2>2, <2>3 DEF Work
<1>7. QED
  BY <1>2, <1>4, <1>5, <1>6 DEF NextAll, WorkerStep, allVars, jobVars

LEMMA UserMoves ==
    ASSUME DeletionInv, [NextAll]_allVars, NEW u \in User
    PROVE  \/ users'[u] = users[u]
           \/ users[u] = "active" /\ users'[u] = "deletion_pending"
           \/ users[u] = "deletion_pending" /\ users'[u] = "deleted"
<1>1. users \in [User -> {"active", "deletion_pending", "deleted"}]
  BY DEF DeletionInv, AllTypeOK
<1>2. CASE users' = users
  BY <1>2
<1>3. ASSUME NEW v \in User, RequestDeletion(v)
      PROVE  users'[u] = users[u] \/ (users[u] = "active" /\ users'[u] = "deletion_pending")
  BY <1>1, <1>3 DEF RequestDeletion
<1>4. ASSUME NEW w \in Worker, ProcessTombstone(w)
      PROVE  \/ users'[u] = users[u]
             \/ users[u] = "deletion_pending" /\ users'[u] = "deleted"
  <2>1. PICK v \in User, cleared \in 0 .. 2 :
            /\ workers[w] = [phase |-> "processing", user |-> v, stage |-> "tombstone",
                             cleared |-> cleared]
            /\ users[v] # "active"
    BY <1>4, StageStep, StageFacts DEF ProcessTombstone
  <2>2. users' = [users EXCEPT ![v] = "deleted"]
    BY <1>4, <2>1 DEF ProcessTombstone
  <2>3. QED
    BY <1>1, <2>1, <2>2
<1>5. CASE UserStep
  BY <1>2, <1>3, <1>5 DEF UserStep, Authenticate, MembershipRequest, AuthRequest,
     OtherRequest
<1>6. ASSUME NEW w \in Worker, Claim(w) \/ ProcessMemberships(w) \/ ProcessAuthData(w)
                                  \/ Advance(w) \/ Fail(w) \/ Crash(w)
      PROVE  users' = users
  BY <1>6 DEF Claim, ProcessMemberships, ProcessAuthData, Advance, Fail, Crash, accountVars
<1>7. CASE TickAll \/ UNCHANGED allVars
  BY <1>2, <1>7 DEF TickAll, accountVars, allVars
<1>8. QED
  BY <1>2, <1>4, <1>5, <1>6, <1>7 DEF NextAll, WorkerStep, Work, ProcessStage

(* A deletion is never undone and its stages come in order, even when a    *)
(* worker that lost its lease long ago wakes up and finishes its run.      *)
THEOREM DeletionStays == SpecAll => DeletionIsIrreversible
<1>1. ASSUME DeletionInv, [NextAll]_allVars
      PROVE  /\ \A u \in User :
                    \/ users'[u] = users[u]
                    \/ users[u] = "active" /\ users'[u] = "deletion_pending"
                    \/ users[u] = "deletion_pending" /\ users'[u] = "deleted"
             /\ \A u \in DOMAIN jobs :
                    \/ jobs'[u].stage = jobs[u].stage
                    \/ /\ jobs[u].stage # "completed"
                       /\ jobs'[u].stage = NextStage(jobs[u].stage)
  <2>1. ASSUME NEW u \in DOMAIN jobs, NEW w \in Worker, GivenUp(u, w)
        PROVE  \/ jobs'[u].stage = jobs[u].stage
               \/ /\ jobs[u].stage # "completed"
                  /\ jobs'[u].stage = NextStage(jobs[u].stage)
    BY <1>1, <2>1, DeletionFacts DEF GivenUp
  <2>2. QED
    BY <1>1, <2>1, UserMoves, JobMoves DEF Untouched, Claimed
<1>2. DeletionInv /\ [NextAll]_allVars =>
        [/\ \A u \in User :
                \/ users'[u] = users[u]
                \/ users[u] = "active" /\ users'[u] = "deletion_pending"
                \/ users[u] = "deletion_pending" /\ users'[u] = "deleted"
         /\ \A u \in DOMAIN jobs :
                \/ jobs'[u].stage = jobs[u].stage
                \/ /\ jobs[u].stage # "completed"
                   /\ jobs'[u].stage = NextStage(jobs[u].stage)]_allVars
  BY <1>1
<1>3. QED
  BY <1>2, DeletionInvariant, PTL DEF SpecAll, DeletionIsIrreversible

(* While a lease has time to run, only the worker that holds it gives the  *)
(* job up.                                                                 *)
THEOREM LeasesHold == SpecAll => LeaseIsRespected
<1>1. ASSUME DeletionInv, [NextAll]_allVars, NEW w \in Worker, NEW u \in DOMAIN jobs,
             jobs[u].leaseOwner = w, jobs[u].leaseIn > 0, workers'[w] # Idle
      PROVE  jobs'[u].leaseOwner = w
  <2>1. ~Claimed(u)
    BY <1>1, IdsAssumption, DeletionFacts DEF Claimed, Claimable, JobDocument
  <2>2. \A v \in Worker : ~GivenUp(u, v)
    BY <1>1 DEF GivenUp
  <2>3. QED
    BY <1>1, <2>1, <2>2, JobMoves DEF Untouched
<1>2. DeletionInv /\ [NextAll]_allVars =>
        [\A w \in Worker, u \in DOMAIN jobs :
            /\ jobs[u].leaseOwner = w /\ jobs[u].leaseIn > 0
            /\ workers[w].user = u /\ workers'[w] # Idle
            => jobs'[u].leaseOwner = w]_allVars
  BY <1>1
<1>3. QED
  BY <1>2, DeletionInvariant, PTL DEF SpecAll, LeaseIsRespected
=============================================================================
