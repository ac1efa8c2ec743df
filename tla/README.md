# Formal specification of babki-back

TLA+ models of the core logic of the service, TLC configurations that check
them on small instances, and theorems proved with TLAPS for every value of the
constants. Paths below are relative to the repository (`src/` in
PROJECT.json stands for its root).

## 1. The system

A NestJS REST service over a MongoDB replica set. Users share *spaces*; a space
has members with delegated rights, and a ledger: accounts, incomes, expenses,
transfers, debts, plans, expense categories and limits. Several instances of
the server may run. There is no queue and no cache outside MongoDB: components
interact through documents, through MongoDB transactions and through direct
calls inside one request.

| Component | State | Operations | What is hard |
|---|---|---|---|
| Accounts (`accounts`) | account documents: currency, opening amount and date, archivedAt | create, rename, remove, archive | removal against (soft-deleted) history, archived accounts |
| Snapshots (`accounts-snapshots`) | a balance per account and month end | opening, prepare, apply, rebuild, delete | a cache over editable, backdated history |
| Transactions (`transactions`) | income, expense and transfer rows, soft-deleted | create, update, delete | references to accounts and snapshots, funds, two legs |
| Space membership (`spaces`) | the space, memberships, rights, membership events | create, update, remove, leave, removeMember, transferOwnership, updatePermissions | sequences of operations, concurrent changes of rights |
| Invitations (`spaces`) | invitations: pending, accepted, revoked, expiry | create, revoke, preview, accept | expiry and one-time use, acceptance racing deletion |
| Write path (`budgets`, `spaces-access`, `spaces-transaction`) | mutationVersion, sessions | run, mutate, serializeMutation, requireMember/Owner/Permission | conflict and retry, timeouts, lost acknowledgements |
| User deletion (`users/user-deletion.service.ts`) | user status, deletion jobs with stage and lease | request, runOnce | crashes, stalled workers, requests in flight |
| Debts (`debts`, `debt-transactions`) | debts, repayments, linked incomes | create, update, repay, cancel, archive, remove | three documents that must agree |
| Plans (`plans`) | plans, the closing expense | create, update, close, archive, remove | closed exactly once |
| Categories, limits (`expense-categories`, `expense-limits`) | categories, limits with periods | create, update, remove | references, overlapping periods |
| Two-factor authentication (`auth/services`) | credential, recovery codes, challenges, authVersion | startSetup, confirmSetup, completeLogin, disable, regenerate, assertDeletionStepUp | interleaved requests, one-time codes, deletion of the user beside them |
| Login and throttling (`auth`) | failure counters and blocks | login, assert, record, reset | check-then-act, windows |
| Invitation rate limit | counter per user and minute | canActivate | first upsert of two requests |
| Reports (`reports`) | none | report | reads of several collections outside a transaction |
| Integrity audit (`database/integrity`) | none | audit | - |
| Encryption, controllers, DTOs, seeds, deployment | none | - | not stateful |

How they interact. Every financial operation of a space runs in
`BudgetWriteService.run`: one MongoDB transaction that increments the space's
`mutationVersion`, checks the actor's membership or right, and calls the
service. Membership operations run in `SpacesTransactionService.run` through
`SpacesService.mutate`, which increments the same counter; `accept` reads its
invitation first. So two operations on one space always conflict and the driver
runs one of them again. Outside this discipline are: `UserDeletionService.request`
(its own transaction, which reads the spaces and writes the user), the deletion
worker (plain writes), the reads of reports and listings, and authentication.

What makes each component correct: cached balances equal recomputed ones and
money is conserved; nothing stored refers to what was removed; archived accounts
are frozen; a live space has an active owner; rights end with membership;
what a debt still owes agrees with its repayments and they with the incomes they
made; a plan is closed once; no expense counts against two limits; reports explain
the balances; no proof of a second factor works twice and every change of the
factor retires the tokens issued before it; invitations are used once and in time; a
request acts by a right that holds when it commits; deletion is irreversible, completes and leaves nothing behind.
PROJECT.json lists the hazards, each at its line with the properties aimed at it.

## 2. The modules

### Ledger (`Ledger`, `AccountBook`, `MCLedger`, `LedgerProofs`)

`Ledger` holds the accounts, the rows and the snapshots of one space. Each action
is a whole service method, with its guards in the order of the early returns that
matter and every rebuild of a snapshot chain it makes:

| Action | Code |
|---|---|
| `CreateAccount`, `ArchiveAccount`, `RemoveAccount` | `AccountsService.*ForBudget` |
| `CreateIncome`, `CreateExpense` | `IncomesService`, `ExpensesService.createForBudget` |
| `UpdateTransaction`, `DeleteTransaction` | `TransactionsService.updateForBudget`, `deleteForBudget` |
| `CreateTransfer`, `UpdateTransfer`, `DeleteTransfer` | `TransfersService.*ForBudget` |

`Balance` is `balanceForBudget`, `Rebuild` is `rebuildForBudget`. Amounts are in
minor units, the unit `normalizeMoney` rounds to; floating point is not modelled.
Days are numbers with a function `MonthEnd` (`utcMonthEnd`). `Credit` and `Debit`
are counted as sets of units, so that the provers can reason about a sum without
a recursive definition. Left out of the documents: names, descriptions,
categories, authors, participants; the authorisation of the actor is part of the
write path.

`AccountBook` is what the ledger promises, without rows or recomputation: a book
of running balances in which a row is posted, amended and reversed by its
difference, from its date on. `Ledger!ImplementsBook` is the refinement; what it
shows for a day is the stored snapshot where there is one.

### Reports (`Reports`, `ReportsProofs`)

Extends `Ledger` with what `SpaceReportsService.report` computes from one state of
it, per month and currency: `Financial` is `aggregateFinancial`, `MovedOut` and
`MovedIn` are `aggregateTransfers`, `Closing` is the balance part of
`buildForBudget`. `ReportsAddUp` relates the two ways money is looked at there: in a
report that begins before the first row, the opening amounts and the totals of the
months so far explain the balance the accounts close each month with. Sums over
accounts, rows and periods are `SumFunction` of the community modules. The split by
category and by type of account only divides the sums and is left out.

### Debts (`Debts`, `DebtBook`, `MCDebts`, `DebtsProofs`)

Three collections that must agree: debts, repayments, and the incomes some
repayments make. Next to the operations of `SpaceDebtsService` (`CreateDebt`,
`UpdateDebt`, `Repay`, `RepayAsIncome`, `CancelRepayment`, `ArchiveDebt`,
`RemoveDebt`) stand the endpoints of incomes, which reach the same documents
(`CreateIncome`, `UpdateIncome`, `DeleteIncome`), and the archiving of accounts,
which shuts off the cancellation of an income. `MayChange` is `requireMutation`:
who created the document, the owner, or a holder of the right. The member is a
parameter of every action, so that who may do it is part of the guard.

The audit the repository itself runs over stored data
(`database/integrity/space-debt-integrity.ts`) is translated check by check, and its
finding nothing is the invariant `AuditIsClean`. `DebtBook` is what debts promise
without documents: an amount lent, an amount owed, and a life (untouched, touched,
final). The refinement `ImplementsDebtBook` computes what is owed from the
repayments alone, so that the stored remaining amount has to agree step by step.
Snapshots are left to `Ledger`; an income is a row here.

### Planning (`Planning`, `MCPlanning`, `PlanningProofs`)

Categories, the expenses that name them, limits and plans. `LockCategory` is
`lockBudgetExpenseCategory` without `allowArchived`; `InUse` looks at soft-deleted
expenses too, as the code does. `ClosePlan` creates its expense through the same
`StoreExpense` as `CreateExpense`. A day stands for a UTC day and limits hold both of
their days. `CategoryOrphans`, `PlanExpenseOrphans`, `ExpenseOriginOrphans` and
`PlanOriginOrphans` are the entries of `integrity-relations.ts` for these
collections. Colours, names of limits, amounts and target dates are left out, but
`Usage` keeps which expenses a limit counts.

### Two-factor authentication (`TwoFactor`, `MCTwoFactor`, `TwoFactorProofs`)

The credential of one user, his `authVersion`, his status, the audit journal and the
login challenges, under requests that interleave. Every handler is cut at its awaits: the
reads that only let it go on are one step (`Begin...`, `ResolveChallenge`), and a
transaction, in which everything read is also written, is one step or none
(`Contend`). `UpsertSetup` is apart from `StartSetup`, `AcceptStepUp` from
`BeginStepUp`, and the two failure counters of a refused login are written in either
order (`RecordChallengeFailure`, `RecordFactorFailure`). `now` is read once at the
beginning of a request and used in the steps that follow, as the code passes it on.
`Crash` ends a request anywhere; `ExpirePending` and `ExpireChallenge` are the TTL
indexes, so an expired challenge may still be there or not.

Deletion runs through the same state. `BeginDeletion` is the request of a user without
a second factor; with one, `BeginStepUp` verifies a code of the secret it has read and
`AcceptStepUp` accepts it in a later conditional update (`StepUpMatches`), which asks
for the same document, an enabled one, and a later step, and not for the same secret.
`RequestDeletion` is `UserDeletionService.request`: it makes the user inactive and moves
`authVersion`, so that a request of the second factor in flight finds no user to move
the version of and is rolled back (`UserIsGone`). `ClearChallenges` and
`ClearCredential` are the two deletions of the `auth_data` stage, which may run again;
leases and the other stages are in `UserDeletion`. So every place that writes
`authVersion` or the credential is an action here.

A code is represented by what it matches: a time step of a stored secret, or a
stored digest of a recovery code. Time is counted in TOTP steps; a code is accepted
one step early or late. `accepted`, `reused` and `replaced` are history variables:
what was accepted as proof (a step by login, confirmation, disabling, regeneration or
step-up alike), what was accepted again, and the secrets that a `startSetup` has taken
from an enabled factor; `issued` holds the ids of challenges ever generated.
Re-encryption
under a new key and the recording of blocks in the audit journal are left out.

### Membership (`Membership`, `MCMembership`, `MembershipProofs`)

The space document, the memberships, the invitations and, per user, the latest
membership event. One action per operation of `SpacesService` and
`SpaceInvitationsService`. An invitation carries the time it still has to run
(`expiresIn`), which `Tick` counts down. `Joined` keeps the `endReason` of an
earlier membership, as the upsert of `accept` does.

### User deletion (`UserDeletion`, `MCUserDeletion`, `UserDeletionProofs`)

Extends `Membership` with the status of the users, the requests in flight, the
authentication collections, the deletion jobs and the workers. `Authenticate` is
the check of `JwtStrategy`; the request it admits may take effect
(`MembershipRequest`, `AuthRequest`) at any later time. `Claim`, the `Process...`
actions, `Advance` and `Fail` are the steps of `runOnce` between two awaits, so
that a worker may stall, crash or fail between any two writes; the `auth_data`
stage clears its three collections one at a time.

### Write path (`SpaceWrites`, `SerialSpace`, `MCSpaceWrites`, `SpaceWritesProofs`)

Concurrent requests, each a transaction: snapshot (`Begin`), increment of
mutationVersion (`Serialize`), check (`Authorise`), work, commit, acknowledgement.
MongoDB is external: `CanWrite` and `Outdated` are its snapshot isolation, and
`Conflict` is `withTransaction` running the callback again. `Unavailable` is the
catch block that answers 503, `Crash` the death of the server. `Erase` is the
worker's write outside any transaction. `SerialSpace` is the promise: requests
take effect one at a time, each by a user entitled to it at that moment. This is
what justifies the atomic steps of `Ledger` and `Membership`.

## 3. The runs

| Run | Bounds | Shows |
|---|---|---|
| `ledger` | 2 accounts, 2 rows, 2 currencies, 3 days in 2 months, amounts to 2 | types, snapshots, references, conservation, frozen archives, covered transfers, reports that add up; `Ledger` implements `AccountBook` |
| `membership` | 3 users, 3 invitations, 2 rights, life 2 | owner, rights, closed space, journal, joining, history |
| `deletion_workers` | 1 user, 2 workers, lease 2 | order and irreversibility of the stages, leases; every accepted deletion completes; only a deletion orphans a space |
| `writes_serial` | 2 users, 3 requests, nobody erased | `SpaceWrites` implements `SerialSpace`; no write is lost or doubled |
| `writes_erasure` | 3 users, 2 requests, one user erased | requests act by right, a deleted space is empty, conflicts starve nobody |
| `debts` | 2 members, 1 account, 1 debt, 2 repayments, 2 incomes, 2 currencies, 2 days, amounts to 2 | the debt audit finds nothing, archived debts are frozen; `Debts` implements `DebtBook` |
| `planning` | 2 members, 2 categories, 2 names, 2 expenses, 2 limits, 1 plan, 2 currencies, 2 days | no orphans, no expense charged twice, plans closed once, nothing joins an archived category |
| `two_factor` | 2 requests, 1 challenge, 2 secrets, 2 recovery codes in sets of 1, clock 2 to 3, time steps 1 to 3, a challenge ends at 1 failure, the factor is blocked at 2 | nothing accepted twice, versioned changes, a full count blocks |

Why the bounds are enough. The hazards of the ledger need two accounts (a
transfer), two months (a later snapshot to go stale), two days in one month (a
date that is not a month end) and two rows (a transfer over funds that an expense
then takes); two currencies separate equal from free legs. Three users let
ownership return to its first holder and a third party watch. Two workers allow
a claim, a takeover after the lease, and the first worker waking up; the one user they
delete may have a request in flight that creates a space at any moment before, between
and after the stages, which is how `OnlyDeletionOrphans` comes into question there. A
space handed over to a user under deletion needs a second user and an invitation, as in
`deletion_owner`; with them and with two workers the states are too many for TLC, so
for hand-overs `OnlyDeletionOrphans` rests on the theorem `OrphansAreOfDeletion`. Three
requests allow two conflicting writers and a third that changes the rights of
either. Two repayments of a debt of two units separate a part payment from the last
one and allow a cancellation between them; two incomes separate the one a repayment
made from one a member entered. Two days are enough for periods that meet on a day,
contain one another, or are disjoint. Two requests race for the one challenge, two
secrets let an enrolment be replaced under a request that verified the old one, and
one tick makes a setup or a challenge expire and a block end; the failure window and
the block are shorter than in production, which only makes their turns more frequent.
With a clock of 2 and 3 codes are made for the steps 1 to 3 (`MaxStep`), so that a code
of the step before and one of the step after are both at hand. One
failure ends a challenge, so that it can end under a second request that had resolved it.

`CHECK_DEADLOCK FALSE` is set throughout, because every model stops when
its ids are used up.

Symmetry is declared over interchangeable ids, in runs without liveness only.

Fairness. `writes_erasure` asks weak fairness of each request's own steps: the
server and the driver go on; nothing is asked of the timeout. `deletion_workers`
is conditional: nothing in the repository schedules `runOnce` (there is no
`user-deletion:work` script in `package.json`, although
`docs/entity-deletion-api.md` names it), so `FairWork` assumes that the operator
keeps workers running (weak fairness of `Claim`) and that a step reached again
and again under a lease some day succeeds before the lease is taken over (strong
fairness, restricted to the worker that holds the lease). Failures, crashes and
stalls may recur for ever.

### Where the code and its documents disagree

Four runs are expected to fail; each checks a sentence of the documents.

* `deletion_owner`: a request in flight creates a space for, or hands one over
  to, a user whose deletion is under way; the worker then ends the owner's
  membership, and no operation can repair the space.
* `deletion_secrets`: a request that began before the deletion writes a secret
  (or a membership) after the stage that cleared it.
* `writes_rollback`: a 503 does not mean that the write was rolled back: the
  acknowledgement of a commit may be lost.
* `two_factor_setup`: `startSetup` answers 409 to an enabled factor "without replacing
  the active credential", but a factor that another request enables between its check
  and its upsert (`two-factor.service.ts:90`, `:104`) is replaced, and with it go the
  recovery codes, the record of the last accepted step and the block; neither
  `authVersion` nor the audit journal shows it.

`LeaseIsRespected` says what the lease does guarantee: nobody takes a job from a
worker whose lease still runs. The lease is not checked again between the writes of
a stage, so a worker that sleeps past its end does continue beside its successor;
`StageFollowsWork` and `DeletionIsIrreversible` hold all the same.

Two properties carry that last disagreement as an exception, and nothing wider.
`ChangesAreVersioned` allows an enabled factor to turn pending, which is exactly what
`SetupKeepsActive` forbids; every other way in which the factor goes is its disabling,
with a new version and an event, or the worker's clearing of a user whose request for
deletion has already moved the version. `UsedOnce` allows a time step to be accepted
again when a `startSetup` has taken its secret from the enabled factor: the document
keeps its id, so a step-up that had verified a code of the old secret still matches the
new one after it is confirmed, and accepts a step of the old secret that was accepted
before. That takes three requests (two step-ups with one code and the late
`startSetup`); the run has two and never meets it, the theorem holds for any number.

The same unserialised write of the worker is why `ActsByRight` exempts users who
are being erased: their own request may commit after their membership has ended.

## 4. The proofs

Every invariant and every action property that a passing run checks, and the three
refinements, are also theorems. TLC shows each on a small instance, the theorem for
every value of the constants that the module's named assumptions admit:

| Assumption | Says |
|---|---|
| `LedgerAssumption` | rows finite; days are integers; `MonthEnd` is monotone, idempotent and never earlier than its day; the bound on amounts is a number |
| `MembershipAssumption` | an invitation lives for at least one tick |
| `UserDeletionAssumption`, its `IdsAssumption` | a lease lasts; users finite; no worker is named `NoOne` |
| `SpaceWritesAssumption`, `RequestAssumption`, its `IdsAssumption` | the owner is a user and not erased; requests finite; users, requests and the other documents have different names |
| `DebtsAssumption` | the owner and the managers are members; each account has a currency and an opening day; days are integers; repayments finite; `None` is no id; the bound on amounts is a number |
| `PlanningAssumption` | managers are members; each account has a currency and an opening day; days are integers; `None` is no id |
| `TwoFactorAssumption` | requests finite, counters and lifetimes are numbers, limits positive, a clock of at least two steps |

### The ledger

`LedgerProofs` proves `TypeCorrect`, `ReferencesCorrect` and `SnapshotsCorrect` from
`LedgerInvariant`. The inductive invariant `IInv` joins the types, the references and
the snapshots, because exact snapshots need to know that no row reaches an account
that is not stored or a day before its opening. The key lemmas say that a rebuild from
a month on yields correct snapshots when those before the month are correct and
unaffected, and that a row which does not touch an account, or lies later, leaves its
balance alone. Every operation on a row is shown once to be a `RowStep`, and what
follows is argued about row steps. `ArchivedStaysFrozen` is an action property from
the same invariant.

The other theorems need the value of a balance. `UnitsSplit` counts the units of one
row apart from the rest, and `BalanceMoves` follows: writing a row moves the balance of
an open day by what the row now brings, less what it brought before. From it come

* `TransfersStayCovered`: after a step by which a transfer takes more, the source's
  balance on its date is the balance the guard read, less what was taken beyond;
* `LedgerImplementsBook`: each row step is `AccountBook`'s posting, amendment or
  reversal by that difference, each opening its opening, and archiving or removing an
  account without history is a stutter;
* `TransfersStaySound`, that a stored transfer has two accounts and equal legs in one
  currency, for which no account may change its currency under a row; and
  `TransfersConserve`, that a step writing such a transfer leaves what its two
  accounts hold together as it was.

`ReportsProofs` proves `MoneyIsConserved` and `ReportsAlwaysAddUp`. Both are
consequences of `Foundation`: `IInv`, `TransfersSound` and that the stored accounts
are finitely many. `SumFunction` is a fold by a recursive function, and the
induction theorems of the library cannot be applied to it; the induction is carried
out by hand instead. A non-empty set of subsets of a finite set has a smallest
(`SmallestSet`, from the well-foundedness of strict inclusion), and a smallest set for
which a fact about a sum fails gives the contradiction. In this way `FoldExists` shows that the
recursion has a solution, and `SumRemove` that the order of summation does not
matter; `SumPlus`, `SumSame`, `SumWithoutZeros`, `SumPoint` and `SumSwap` are the
rest of the calculus. A balance is then the opening amount and the sum of what the rows bring
(`BalanceIsSum`), the balances of a currency are one sum over rows (`HoldersHold`),
and a row brings its holders together just its `Net` (`BroughtIsNet`), which is nothing
for a transfer inside the currency. A line of a report is the sum of `Net` over
the rows of its period (`LineIsSum`), and each row lies in one period.

### Membership and the deletion of users

`MembershipProofs` proves `MembershipTypeCorrect`, `OwnerStaysActive`,
`RightsEndWithMembership`, `DeletedSpaceStaysClosed`, `JournalTellsTheTruth`,
`InvitationIsTakenUp` and `HistoryStays` from `MembershipInvariant`. The invariant adds
`NothingBeforeCreation`: before the space exists nobody is in it, without which
creating it could leave rights behind. `MemberWriteKeeps` carries the operations that
write one membership of a user who is not the owner.

`UserDeletionProofs` proves `DeletionTypeCorrect`, `StagesFollowTheWork`,
`OrphansAreOfDeletion`, `DeletionStays` and `LeasesHold` from `DeletionInvariant`. What
makes the stages follow the work is `WorkerInv`: what a worker carries in its memory
is still true of its user however long ago it claimed the job, because the stages
carried out (`Reached`) are never taken back. That is why a worker past its lease does
no harm to the stages. Actions of `Membership` are reused through `MembershipProofs`.

### The write path

`SpaceWritesProofs` proves `TypeCorrect`, `WritesAreCounted`, `DeletionEmpties` and
`RightsAtCommit`, and, where no user is erased meanwhile, `WritePathIsSerial`. The
invariant says that the locks are what open requests have written (`LockInv`), and of
each request, by its phase, what it has read and written (`Lifecycle`, `Snapshot`,
`Pending`, `Done`). The argument: the lock on the space document lets one transaction
at a time past `serializeMutation`; its commit makes the snapshot of every other one
stale in that document; so what the one at its turn has read is what the database
holds. Each commit is then one step of `SerialSpace`, and every other step is a stutter.

### Two-factor authentication

`TwoFactorProofs` proves `FactorTypeCorrect`, `ProofsAreUsedOnce` and
`LimitAlwaysBlocks` from `FactorInvariant`, and the action property
`ChangesMoveTheVersion`. "Not twice" is not inductive by itself: `AcceptedAreUsed` says
of every accepted proof why it can never be accepted again: its step has passed or
its secret was replaced, its recovery code is gone from a set that only
takes new ones, its challenge is consumed or deleted and its id is never generated
again. A step-up accepts what it verified earlier, so the invariant follows it:
`StepUpsInv` says that while the document it read still has its id, either the factor is
enabled with the secret it read or that secret is in `replaced`. In the first case the
update's filter makes the step new, in the second the exception applies.
`ChangesMoveTheVersion` splits the steps into those that leave the factor as it is
(`FactorKept`) and the few that change it or the version.

### Debts and planning

`DebtsProofs` proves `DebtsTypeCorrect`, `DebtAuditClean`, `ArchivedDebtFrozen` and
the refinement `DebtsImplementBook`, for any members, accounts, currencies, ids, days
and bound on amounts. The audit alone is nearly inductive; what it needs besides is
`DebtsFound` (no repayment outlives its debt, or a debt created anew under its id
would be born with repayments) and `OneRepaymentEach` (no income belongs to two
repayments, or cancelling one would delete the income of the other). What is paid is
the number of elements of `PaidUnits`, one per minor unit, so that the provers reason
about the sum with the theorems on finite sets: `PaidMore`, `PaidLess` and
`PaidNothing` say how a repayment, a cancellation and a new debt move it. The
refinement is proved step by step under the invariant: each action of `Debts` is a
named action of `DebtBook` or a stutter, `CancelRepayment` because what was paid
includes the repayment cancelled.

`PlanningProofs` proves `PlanningTypeCorrect`, `NoOrphans`, `ChargedOnce`,
`ClosedStaysClosed` and `ArchivedTakesNothing`, for any members, accounts,
currencies, names, ids and days. The invariant says `PeriodsDisjoint` of limits where
the checked `ExpenseCountsOnce` speaks of usages, because disjoint periods are what
`checkOverlap` keeps whether or not an expense exists yet; and it ties a plan to its
expense from both sides (`OriginsFound`, `ClosingExpensesFound`).

### Only model-checked

The two liveness properties, `DeletionCompletes` and `EveryRequestIsAnswered`: fairness
and ENABLED are beyond the prover. The four runs that end in a counterexample are no
theorems either.

## 5. Not modelled, and the plan

Never to be modelled: encryption and HMAC primitives, HTTP plumbing, DTO
validation, configuration, seeds and deployment; listings and pagination, which are
pure reads; the invitation rate limit, a counter per fixed minute whose model would
restate it.

Abstracted away throughout: names, descriptions and other text, floating point
(amounts are in minor units), and MongoDB itself except for its snapshot isolation in
`SpaceWrites`. Inside one space the models of the ledger, debts and planning take
operations one at a time; that they may is what `writes_serial` shows.

Next, in this order:

1. What the abstract specifications promise, as theorems of their own: `AccountBook`
   (an entry that is reversed leaves no trace), `DebtBook` (nothing owed below zero),
   `SerialSpace` (nobody acts on a deleted space), and with the refinements what
   follows for the services.
2. Two deletion jobs, one of which fails for ever: the oldest job is always claimed
   first.
3. A report whose aggregations and balances read different states of the ledger.
4. The two counters of password failures beside the one of the second factor.
5. Reassignment of the participant of an expense, and who may change an expense.
