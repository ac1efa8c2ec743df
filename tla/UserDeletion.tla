---------------------------- MODULE UserDeletion ----------------------------
(***************************************************************************)
(* The deletion of users (UserDeletionService, UserDeletionWorker) beside  *)
(* the membership of a space.  A request marks the user deletion_pending   *)
(* and leaves a job; workers lease the job, carry out its stages one by    *)
(* one (memberships, auth_data, tombstone) and may fail, stall beyond      *)
(* their lease or crash at any point.                                      *)
(*                                                                         *)
(* Nothing here is serialized with the space's mutationVersion: request    *)
(* reads the spaces and writes the user, the worker writes the memberships *)
(* outside any transaction.  JwtStrategy looks at the user's status when a *)
(* request begins, so a request that began before the deletion may take    *)
(* effect at any time after it; `requests` holds those in flight.          *)
(***************************************************************************)
EXTENDS Membership, Sequences, FiniteSets

CONSTANTS
    Worker,        \* ids of the workers, one runOnce at a time each
    Lease          \* leaseMs

ASSUME UserDeletionAssumption == Lease \in Nat \ {0}

ASSUME IdsAssumption == IsFiniteSet(User) /\ NoOne \notin Worker

VARIABLES
    users,         \* the status of each user document
    requests,      \* users with an authenticated request in flight (one each)
    authData,      \* what each user has in the authentication collections
    jobs,          \* the deletion jobs: user -> document
    queue,         \* their users in the order of requestedAt
    workers,       \* what each worker is doing
    done           \* history: the clean-up carried out for each user

accountVars == <<users, requests, authData>>
jobVars == <<jobs, queue, workers, done>>
allVars == <<vars, accountVars, jobVars>>

(* authchallenges, usertwofactors, and the request context (ip, userAgent) *)
(* of securityauditevents, in the order the worker clears them.            *)
AuthCollections == <<"challenge", "twoFactor", "auditContext">>

AuthKind == {AuthCollections[n] : n \in 1 .. Len(AuthCollections)}

Stages == <<"memberships", "auth_data", "tombstone", "completed">>

Stage == {Stages[n] : n \in 1 .. Len(Stages)}

(* advance: the record `next`.                                             *)
NextStage(stage) ==
    Stages[(CHOOSE n \in 1 .. Len(Stages) : Stages[n] = stage) + 1]

(* leaseIn is what the clock still has to run to leaseExpiresAt.           *)
JobDocument ==
    {job \in [stage : Stage, leaseOwner : Worker \cup {NoOne}, leaseIn : 0 .. Lease] :
        job.leaseOwner = NoOne => job.leaseIn = 0}

Idle == [phase |-> "idle", user |-> NoOne, stage |-> "completed", cleared |-> 0]

(* cleared counts the collections of the auth_data stage already cleared.  *)
WorkerState ==
    {Idle} \cup [phase : {"processing", "advancing"}, user : User, stage : Stage,
                 cleared : 0 .. Len(AuthCollections)]

-----------------------------------------------------------------------------
(* The user.                                                               *)

(* JwtStrategy.validate, and login: findAuthenticationState.               *)
Authenticate(u) ==
    /\ users[u] = "active"
    /\ u \notin requests
    /\ requests' = requests \cup {u}
    /\ UNCHANGED <<vars, users, authData, jobVars>>

Answered(u) == u \in requests /\ requests' = requests \ {u}

MembershipRequest(u) ==
    /\ Answered(u)
    /\ Request(u)
    /\ UNCHANGED <<users, authData, jobVars>>

(* The writes the authentication services make after their own checks:     *)
(* startSetup upserts the credential, AuthChallengeService.issue inserts a *)
(* challenge, recordSecondFactorFailure records an event while there is a  *)
(* credential.                                                             *)
AuthRequest(u) ==
    /\ Answered(u)
    /\ \E kind \in AuthKind :
        /\ kind = "auditContext" => "twoFactor" \in authData[u]
        /\ authData' = [authData EXCEPT ![u] = @ \cup {kind}]
    /\ UNCHANGED <<vars, users, jobVars>>

(* A request that fails or only reads.                                     *)
OtherRequest(u) ==
    /\ Answered(u)
    /\ UNCHANGED <<vars, users, authData, jobVars>>

OwnsSpace(u) == IsLive /\ space.owner = u

RequestDeletion(u) ==
    /\ ~OwnsSpace(u)
    /\ users[u] = "active"
    /\ users' = [users EXCEPT ![u] = "deletion_pending"]
    /\ jobs' = Store(jobs, u,
            [stage |-> "memberships", leaseOwner |-> NoOne, leaseIn |-> 0])
    /\ queue' = Append(queue, u)
    /\ UNCHANGED <<vars, requests, authData, workers, done>>

-----------------------------------------------------------------------------
(* The worker: runOnce.                                                    *)

(* Mutant of Claimable: only an unowned job is taken, so that a lease      *)
(* outlives its worker.                                                    *)
ClaimableUnowned(u) == jobs[u].stage # "completed" /\ jobs[u].leaseOwner = NoOne

Claimable(u) ==
    /\ jobs[u].stage # "completed"
    /\ jobs[u].leaseOwner = NoOne \/ jobs[u].leaseIn = 0

(* findOneAndUpdate with sort requestedAt.                                 *)
Claim(w) ==
    /\ workers[w] = Idle
    /\ \E n \in 1 .. Len(queue) :
        /\ Claimable(queue[n])
        /\ \A m \in 1 .. n - 1 : ~Claimable(queue[m])
        /\ jobs' = [jobs EXCEPT ![queue[n]].leaseOwner = w, ![queue[n]].leaseIn = Lease]
        /\ workers' = [workers EXCEPT ![w] =
                [phase |-> "processing", user |-> queue[n],
                 stage |-> jobs[queue[n]].stage, cleared |-> 0]]
    /\ UNCHANGED <<vars, accountVars, queue, done>>

Processing(w, stage) == workers[w].phase = "processing" /\ workers[w].stage = stage

Advancing(w) == [workers EXCEPT ![w].phase = "advancing"]

Did(u, what) == [done EXCEPT ![u] = @ \cup {what}]

ProcessMemberships(w) ==
    LET u == workers[w].user
    IN  /\ Processing(w, "memberships")
        /\ members' = [v \in DOMAIN members |->
                IF v = u /\ IsMember(u)
                THEN [members[u] EXCEPT !.status = "removed", !.endReason = "user_deleted"]
                ELSE members[v]]
        /\ workers' = Advancing(w)
        /\ done' = Did(u, "memberships")
        /\ UNCHANGED <<space, invitations, lastEvent, accountVars, jobs, queue>>

(* Mutant of LastCollection: the stage ends one collection early.          *)
SecondCollection == Len(AuthCollections) - 1

LastCollection == Len(AuthCollections)

(* One collection of the auth_data stage is cleared.                       *)
ProcessAuthData(w) ==
    LET u == workers[w].user
        next == workers[w].cleared + 1
    IN  /\ Processing(w, "auth_data")
        /\ authData' = [authData EXCEPT ![u] = @ \ {AuthCollections[next]}]
        /\ workers' = IF next = LastCollection THEN Advancing(w)
                      ELSE [workers EXCEPT ![w].cleared = next]
        /\ done' = Did(u, AuthCollections[next])
        /\ UNCHANGED <<vars, users, requests, jobs, queue>>

ProcessTombstone(w) ==
    LET u == workers[w].user
    IN  /\ Processing(w, "tombstone")
        /\ users' = [users EXCEPT ![u] = "deleted"]
        /\ workers' = Advancing(w)
        /\ done' = Did(u, "tombstone")
        /\ UNCHANGED <<vars, requests, authData, jobs, queue>>

(* Mutants of Current and of Releases: advance filters on the job's id     *)
(* only; the catch block releases a lease whoever holds it.                *)
AnyJob(w) == TRUE

ReleasesAny(w) == TRUE

(* advance's filter: the lease is still this worker's and the stage has    *)
(* not moved on.                                                           *)
Current(w) ==
    LET job == jobs[workers[w].user]
    IN  job.leaseOwner = w /\ job.stage = workers[w].stage

Releases(w) == jobs[workers[w].user].leaseOwner = w

(* Mutant of Freed: leaseExpiresAt keeps its value.                        *)
FreedOwner(job) == [job EXCEPT !.leaseOwner = NoOne]

Freed(job) == [job EXCEPT !.leaseOwner = NoOne, !.leaseIn = 0]

Advance(w) ==
    LET u == workers[w].user
    IN  /\ workers[w].phase = "advancing"
        /\ jobs' = IF Current(w)
                   THEN [jobs EXCEPT ![u] =
                            Freed([@ EXCEPT !.stage = NextStage(workers[w].stage)])]
                   ELSE jobs
        /\ workers' = [workers EXCEPT ![w] = Idle]
        /\ UNCHANGED <<vars, accountVars, queue, done>>

(* The catch block: a write of the stage, or advance itself, has thrown.   *)
Fail(w) ==
    LET u == workers[w].user
    IN  /\ workers[w] # Idle
        /\ jobs' = IF Releases(w) THEN [jobs EXCEPT ![u] = Freed(@)] ELSE jobs
        /\ workers' = [workers EXCEPT ![w] = Idle]
        /\ UNCHANGED <<vars, accountVars, queue, done>>

(* The process dies; another run of the worker starts from nothing.        *)
Crash(w) ==
    /\ workers[w] # Idle
    /\ workers' = [workers EXCEPT ![w] = Idle]
    /\ UNCHANGED <<vars, accountVars, jobs, queue, done>>

ProcessStage(w) == ProcessMemberships(w) \/ ProcessAuthData(w) \/ ProcessTombstone(w)

Work(w) == Claim(w) \/ ProcessStage(w) \/ Advance(w)

(* Time passes for invitations and leases alike.                           *)
TickAll ==
    /\ invitations' = Aged
    /\ jobs' = [u \in DOMAIN jobs |->
            [jobs[u] EXCEPT !.leaseIn = IF @ > 0 THEN @ - 1 ELSE 0]]
    /\ UNCHANGED <<space, members, lastEvent, accountVars, queue, workers, done>>

-----------------------------------------------------------------------------

InitAll ==
    /\ Init
    /\ users = [u \in User |-> "active"]
    /\ requests = {}
    /\ authData = [u \in User |-> {}]
    /\ jobs = [u \in {} |-> 0]
    /\ queue = <<>>
    /\ workers = [w \in Worker |-> Idle]
    /\ done = [u \in User |-> {}]

UserStep ==
    \E u \in User :
        \/ Authenticate(u) \/ RequestDeletion(u)
        \/ MembershipRequest(u) \/ AuthRequest(u) \/ OtherRequest(u)

WorkerStep == \E w \in Worker : Work(w) \/ Fail(w) \/ Crash(w)

NextAll == UserStep \/ WorkerStep \/ TickAll

SpecAll == InitAll /\ [][NextAll]_allVars

(* Deletion completes only if somebody keeps running the worker: nothing   *)
(* in src/ schedules runOnce, so this fairness is an assumption on the     *)
(* operator, not on the code.  Failures, crashes and stalls may recur, but *)
(* a step that is reached again and again under a lease some day succeeds  *)
(* before the lease is taken over.                                         *)
FairWork ==
    \A w \in Worker :
        /\ WF_allVars(Claim(w))
        /\ \A n \in 0 .. LastCollection - 1 :
                SF_allVars(ProcessStage(w) /\ Current(w) /\ workers[w].cleared = n)
        /\ SF_allVars(Advance(w) /\ Current(w))

FairSpec == SpecAll /\ FairWork /\ WF_allVars(TickAll)

-----------------------------------------------------------------------------
(* Properties.                                                             *)

(* The type invariant.                                                     *)
AllTypeOK ==
    /\ TypeOK
    /\ users \in [User -> {"active", "deletion_pending", "deleted"}]
    /\ requests \subseteq User
    /\ authData \in [User -> SUBSET AuthKind]
    /\ DOMAIN jobs \subseteq User
    /\ jobs \in [DOMAIN jobs -> JobDocument]
    /\ {queue[n] : n \in 1 .. Len(queue)} = DOMAIN jobs /\ Len(queue) <= Cardinality(User)
    /\ workers \in [Worker -> WorkerState]
    /\ done \in [User -> SUBSET (AuthKind \cup {"memberships", "tombstone"})]

(* Whatever fails, stalls or crashes, the job's recorded stage never gets  *)
(* ahead of the work, and the profile is erased last: a user is deleted    *)
(* only after his memberships were ended and every authentication          *)
(* collection was cleared.                                                 *)
StageFollowsWork ==
    \A u \in User :
        LET stage == IF u \in DOMAIN jobs THEN jobs[u].stage ELSE "memberships"
        IN  /\ stage # "memberships" => "memberships" \in done[u]
            /\ stage \in {"tombstone", "completed"} \/ users[u] = "deleted"
                    => AuthKind \subseteq done[u] /\ "memberships" \in done[u]
            /\ stage = "completed" => users[u] = "deleted"

(* Deletion orphans no space of anyone who has not asked for it: a live    *)
(* space without an active owner belongs to a user being deleted.          *)
OnlyDeletionOrphans ==
    IsLive /\ ~IsMember(space.owner) => "memberships" \in done[space.owner]

(* Deletion is irreversible and its stages come in order, even when a      *)
(* worker that lost its lease long ago wakes up and finishes its run.      *)
DeletionIsIrreversible ==
    [][/\ \A u \in User :
            \/ users'[u] = users[u]
            \/ users[u] = "active" /\ users'[u] = "deletion_pending"
            \/ users[u] = "deletion_pending" /\ users'[u] = "deleted"
       /\ \A u \in DOMAIN jobs :
            \/ jobs'[u].stage = jobs[u].stage
            \/ /\ jobs[u].stage # "completed"
               /\ jobs'[u].stage = NextStage(jobs[u].stage)]_allVars

(* Nobody takes a running lease from the worker that is using it: while it *)
(* has time to run, only that worker's own step gives the job up.          *)
LeaseIsRespected ==
    [][\A w \in Worker, u \in DOMAIN jobs :
        /\ jobs[u].leaseOwner = w /\ jobs[u].leaseIn > 0
        /\ workers[w].user = u /\ workers'[w] # Idle
        => jobs'[u].leaseOwner = w]_allVars

(* Every accepted deletion is completed: no crash, failure or abandoned    *)
(* lease strands a job, if workers are kept running.                       *)
DeletionCompletes ==
    \A u \in User :
        users[u] = "deletion_pending" ~>
            users[u] = "deleted" /\ jobs[u].stage = "completed"

(* What the entity-deletion-lifecycle specification says of a completed    *)
(* clean-up: nothing of the user's authentication secrets is left and his  *)
(* memberships have ended.                                                 *)
CompletedIsClean ==
    \A u \in DOMAIN jobs :
        jobs[u].stage = "completed" =>
            authData[u] \cap {"challenge", "twoFactor"} = {} /\ ~IsMember(u)
=============================================================================
