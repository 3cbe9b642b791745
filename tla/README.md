# Delivery Central: a TLA+ verification project

Delivery Central is a workforce and delivery management system: a NestJS backend
(`src/src/modules/*`, one module per bounded context) over one PostgreSQL database
through Prisma (`src/prisma/schema.prisma`), and a React frontend (`src/frontend`).
This directory holds TLA+ models of the parts of the backend where several requests,
a background worker or a crash can meet, the TLC configurations that check them on
small instances, and theorems proved with TLAPS for every instance.
Paths below are relative to the repository root; `src/src/` is the backend.

## 1. Inventory

Every backend component is a set of HTTP handlers. There is no queue between them:
components interact by calls inside one process and, above all, **through rows of
shared tables**. A handler is an `async` function; every `await` of a database
statement is a point where any other handler may run. PostgreSQL runs the
statements READ COMMITTED; a Prisma `$transaction` is atomic but does not lock what
was read before it. So the recurring hard questions are: what was read outside the
transaction that writes, is the write conditional (version or status in the WHERE)
or by id alone, what is left if the process stops between two statements, and is
one key protected by a unique index.

| Component | State | Operations | Interacts with | Hard behaviour | Correct when |
|---|---|---|---|---|---|
| **Project positions** (`project-positions`) | `ProjectPosition` (status, person, allocation, version), `PositionFillHistory` | create, transition, bulk reassign, create-and-book | people (ACTIVE?), projects, audit log | read, guard and versioned commit are three steps; the allocation sum of a person spans rows the version does not cover | no lost update, exact ledger, released is final, nobody over 100% without override |
| **Planner scenarios** (`planner-scenarios`, `staffing-desk/workforce-planner`) | `PlannerScenario`; writes positions directly | create, update, cancel, apply; dispatch, hire, extend | positions (unversioned writes) | check on a read, write by id | applied once, cancelled final, positions' own rules kept |
| **Leave requests** (`leave-requests`) | `LeaveRequest`, `LeaveBalance` | create, approve, reject, cancel | notifications, timesheets, planner capacity | three to four statements, no transaction | no overlapping approvals, one decision, balance equals requests |
| **Outbox publisher** (`audit-observability`) | `OutboxEvent` | claim, dispatch, mark published / retry / failed | translator (handlers), every producer | interval timer, swallowed errors, restart | at-least-once, settled is final, no starvation |
| **Notifications** | `NotificationRequest`, `NotificationDelivery` | dispatch with attempts, requeue, nudge sweep | mail provider, outbox | provider accepted but the save failed; sweep dedup | each request delivered, few duplicates |
| **Project life cycle** (`project-registry`) | `Project` (status, version), `ProjectActivationApproval` | submit, decide, activate, hold, complete, close, archive | positions (close needs none active), undo tokens | check before save, two paths to ACTIVE | one open approval per waiting project, decisions final |
| **Undo tokens** (`undo`) | `UndoAction` (expiresAt, consumedAt) | register, undo | project close, employee deactivate | execute, then mark consumed | an undo restores what its action did, once |
| **Employment** (`organization`) | `Person`, memberships | create, deactivate, terminate, undo | positions released one by one, undo tokens | partial failure in a loop, bookings beside it | a terminated person keeps no fill he had |
| **Reporting lines, teams** | `ReportingLine`, `OrgMembership` | assign and end manager, bulk moves | persons | overlap check before saves | one solid line at a time |
| **Timesheets** | `TimesheetWeek`, `TimesheetEntry`, period locks | upsert entry, submit, revoke, reset, approve, reject | leave, positions, nudges | status read, then write; locks read, then write | stamped totals match, approved weeks stay, locks hold |
| **Budget approvals** (`financial-governance`) | `ProjectBudget`, `BudgetApproval` | request, decide, auto-trigger | projects | pending check outside the transaction, update by id | one pending approval per command; approved is applied |
| **Cases** (`case-management`) | `CaseRecord`, steps | open, steps, close, cancel | persons, positions | upsert without version | closed is final, no lost step |
| **Idempotency keys** (`shared/http`) | `IdempotencyKey` | reserve, replay, complete, fail | every keyed POST | reservation races, lost stamps, crash, expiry | one commit per key, replays of the right body, an answer |
| **Authentication** (`auth`) | accounts, refresh tokens, 2FA | login, rotate, logout, reset | everything | rotation in two statements | one successor per token |
| **Setup** (`setup`) | `SetupRun` | wizard steps | everything | advisory lock in a transaction with a timeout | a step runs once at a time |
| **Audit log** | `AuditLog`, `DomainEvent` | append, retention sweep | everything | append-only | - |
| Others (dashboards, reports, search, integrations, administration, small records, frontend) | - | - | - | reads, pure I/O, or single-row edits | - |

`PROJECT.json` lists every component with its status, and under `hazards` each
place, by line, where one of these behaviours bites.

## 2. Modules and their correspondence to the code

```
PositionFill ──► ProjectPositions ──► PlannerScenarios ──► MCPlannerScenarios
                   │  │   └─────────► Employment ──► MCEmployment
PositionLifecycle ◄┘  └─────────────► MCProjectPositions
PositionProofs: about ProjectPositions, PlannerScenarios and Employment
ProjectLifecycle ──► MCProjectLifecycle, ProjectLifecycleProofs
LeaveRequests ──► MCLeaveRequests, LeaveRequestsProofs
OutboxPublisher ──► MCOutboxPublisher, OutboxPublisherProofs
Timesheets ──► MCTimesheets, TimesheetsProofs
BudgetApprovals ──► MCBudgetApprovals, BudgetApprovalsProofs
IdempotencyKeys ──► MCIdempotencyKeys, IdempotencyKeysProofs
SumTheorems: used by PositionProofs, LeaveRequestsProofs, TimesheetsProofs
```

All modules share one reading of the code: an action is what happens between two
`await`s of one handler, a process variable (`req`, `cmd`, `handler`, `hr`) keeps what the handler
read, and `Fail`/`Die`/`Crash` ends it there. Where a rule of the code holds only as long as nobody
writes on an outdated read, the property says so with a history variable (`raced`, `late`, `shared`,
`doubled`, ...), named in the module as history, which no action reads in a guard.

**PositionFill**: the pure rules: the eight fill statuses, the edges of the
transition matrix, who may take which edge and when a reason is due
(`position-fill-status.ts`), and `Transitioned`, what `transitionFill` makes of the
aggregate (`project-position.entity.ts`). Role checks let an actor in when any one of
his roles passes; the roles that subsume others are enumerated one by one, so a
single role per request loses no behaviour.

**ProjectPositions**: the table `row`, per position the newest `ledger` entry, the
persons an over-allocation was recorded for (`overridden`), and the requests in
flight `req`. A request is a process with a program counter:

| Action | Code |
|---|---|
| `Create` | `CreateProjectPositionService.execute`, one insert |
| `TransitionRead` → `CheckAllocation` → `Commit` | `TransitionProjectPositionFillService.execute`: read and drive the aggregate; Σ-guard query; transaction with `updateMany WHERE version` and the history row |
| `BulkStart` → `BulkRead` → `CheckAllocation` → `Commit` | `BulkReassignPositionsService.execute`: validate the person; prefetch; guard; one transaction for all rows |
| `BookStart` → `BookCheck` → `BookCommit` | `CreateAndBookProjectPositionService.execute`: person check; guard; create + propose + book in one transaction |
| `Fail` | a refused or rolled back request, a process restart: nothing persisted |

Abstractions: notes, labels and dates are left out; the guard sums as if every two fill
windows overlapped, in the code (`activeValidFrom/To`) it may sum less and a person's load of one
day does too; a
refusal that has no effect is the absence of a step. The order of evaluation is
the code's: the allocation guard sees the rows of *its* moment, the commit compares
the versions of the *read*.

**PositionLifecycle**: what a user is promised: a position is created unfilled (or
directly booked), follows the edges of the matrix, changes hands in place while
filled, and never leaves RELEASED. `ProjectPositions` refines it under
`status <- row.status, holder <- row.person`.

**PlannerScenarios** composes the planner's handlers with *all* of
`ProjectPositions`. `ApplyCommit` is the transaction of
`ApplyPlannerScenarioService.apply`: it books by id, without version, matrix or
guard. `Dispatch` and `Hire` are the two position writers of `applyPlan`. Its third
one, extending a fill, changes dates and notes only and is left out. `applied` is
a history variable counting committed applies.
`Archive` is the soft delete of the same table in `staffing-desk/planner-scenario.service.ts` (its
update touches neither status nor archive mark). What a scenario proposes is a constant: editing the proposal
between two applies would only change which positions the second one books.

**LeaveRequests**: `status` and `balance` are the two tables, `handler` the requests
between two awaits. `Create`/`BookBalance`, `DecisionRead`, `CheckOverlap`,
`WriteStatus`, `BookBalance` are the statements of `LeaveRequestsService` in their
order; `Crash` ends a handler between two of them. Any handler may be asked about any leave, also
one that another is deciding. History: `decisions` counts the decisions written on a leave,
`unbooked` keeps the leaves whose booking died with its handler.

**OutboxPublisher**: `committed`/`appending` are business changes before and during
the un-awaited append, `outbox` the table, `appended` the count of insertions that dates its rows
(`createdAt`), `pc`/`batch` the publisher's tick and the rows it still holds, with the attempts they
were read with and taken oldest first, `try` the attempt a handler is at with its mail, `sent` what the
provider accepted, `faults` the restarts, failing statements and lost answers used up. `AppendFails` is an insert that throws where nobody awaits it, `Tick` is
`claimBatch`, `Skip`/`Dispatch`/`MarkPublished`/`MarkFailure` the body of the loop, `PublishFails` a
`markPublished` that throws inside the `try`, `AbortTick` a `markRetry`/`markFailed` that throws to
`tickSafe`. `Dispatch` is the start of a handler of the translator: it throws, has nothing to send
(no recipient is configured, the event has no mail: kept in `moot`), or starts `NotificationDispatchService.dispatch`,
whose loop is `Deliver` (accepted and recorded), `Refuse` (not accepted) and `LoseAnswer` (accepted, but the
answer is lost or cannot be recorded: a fault). After the last two, `Resend` tries again inside the
same handler run, up to `MaxSends`, or ends in a failure that `dispatchQuietly` hides (kept in `hidden`).
No handler sends more than one mail per run; in-app notifications are not awaited and left out. The
class documents a single backend instance, and so has the model.

**ProjectLifecycle**: `project` (status, version), `approval` (`ProjectActivationApproval` in
order of `requestedAt`), `token` (`UndoAction`), `staffed` (projects with an active fill, changed
by the environment) and the commands in flight.

| Action | Code |
|---|---|
| `Submit`, `Activate`, `Decide`, `Close`, `Update` | the read and the entity method of each service |
| `FindOpenApproval` | the newest undecided approval, `decide-project-activation.service.ts` |
| `CheckStaffing` | the active-assignment query of a close without override |
| `Save` | `updateMany WHERE version` with the approval rows of the same transaction |
| `RegisterUndo` | `UndoService.register` after a close |
| `ClickUndo` → `Restore` → `Save` → `MarkConsumed` | `UndoService.consume` around `ProjectCloseUndoExecutor` |

`PATCH` may set any status at all (its DTO only asks for a string, the entity does not check). The run
gives it DRAFT, PENDING_APPROVAL and ACTIVE, the statuses the activation flow depends on (from
the others it can only leave through another PATCH); the theorems give it any. History: `waiting`
is the approval of the submission a project waits for, `decreed` the projects a PATCH moved to DRAFT or
PENDING_APPROVAL past the flow.

**Employment** composes persons and the HR commands with *all* of `ProjectPositions`: `HrRead`/`HrSave`
are the unversioned read and upsert of `Person`, `FindFills`, `ReleaseRead`, `ReleaseCommit` the
release loop of `TerminateEmployeeService`, one transition transaction per fill, `HrStop` an error
that leaves the loop. `RegisterToken`/`ConsumeToken` stand for the undo service, which
`ProjectLifecycle` has in detail. `findActiveByPersonId` returns only the fills whose window covers the day of the
termination, which may lie in the past or the future; dates are left out, so `FindFills` misses
any set of fills (`away`) and remembers them in `outside`. `late` notes the fills a person got while
already TERMINATED: no staffing request asks about employment again after its read.

**Timesheets**: `week` (status and stamped total), `entry` (hours by slot, a slot being one
unique key of a week), `locked` (dates under a period lock). `UpsertEntry` → `CheckLock` → `SaveEntry`,
`SubmitWeek`/`RevokeWeek`/`ApproveWeek`/`RejectWeek` → `UpdateWeek`, `ResetWeek` → `DeleteEntries` are
the reads and writes of `TimesheetsService`; `FillRead` → `FillWeek` → `FillWrite` the loops of
`autoFill` and `copyPrevious`; `DeleteRow` one statement restricted to DRAFT weeks. `raced` marks a week
written by a handler whose read was outdated, until a submission that read it well stamps it again.

**BudgetApprovals**: one budget row, its approvals, the commands. `Request` → `CreateApproval`,
`Decide` → `ApplyDecision`, `Upsert` → `SaveBudget` → `Trigger` → `CreateTriggered`. Capex and opex are one
amount; which responsibility rule matches is left to chance (`auto`, or a refusal by `Fail`), and so
is whether a direct edit reaches the variance threshold. `applied` collects the approvals whose
change reached the budget.

**IdempotencyKeys**: the row of one key, the requests that carry it, and which of them committed.
`Lookup`, `Insert`, `Renew` are the statements of `lookupAndDecide`; `HandlerReturns`/`HandlerThrows` the
handler with `tap` and `catchError`; `Stamp`/`LoseStamp` the un-awaited `markCompleted`/`markFailed`.
`rerun` is the second call of the handler by the outer `catchError`. `excused` records what
the once-only promise does not cover: an expired row, a handler that threw, a lookup that failed.

## 3. Runs

| Run | Expect | What it shows |
|---|---|---|
| `positions` | pass | Two requests (bulk ones included) over two positions: `VersionNamesContent`, `UnfilledHasNoHolder`, `AuditTrailExact`, `ReleasedIsFinal`, `ImplementsLifecycle` |
| `positions_serial` | pass | `LoadPerRequest` with one request at a time, through holds, bulk moves and direct bookings |
| `planner` | pass | Two planner requests beside a staffing request: `ConsumedIsArchived`, `OneApplyPerRequest` |
| `planner_release` | violation | Applying a scenario revives a released position |
| `employment` | pass | A termination on any day, a deactivation or undo beside a staffing request: `ProgressIsKept`, `TerminatedHoldsOnlyLate` |
| `projects` | pass | Two commands on one project, a PATCH past the approvals among them, two approvals, two tokens: `PendingHasOneOpen`, `DecisionIsFinal`, `SecondReopenNeedsDoubleClick` |
| `leave` | pass | Two handlers that decide any of three leaves sharing a day, one death: `BalanceExplained`, `DayBookedPerHandler`, `DecidedPerHandler`, `ReconciledWhenClean` |
| `outbox` | pass | `DuplicatesNeedFaults`, `OnlyFaultsLoseEvents`, `PublishedWasHandled`, `SettledIsFinal`, `HandledEventsSettle` through failures, resends, lost answers and restarts |
| `timesheets` | pass | Two requests on a week of two entries beside period locks: `TotalsMatchUnlessRaced`, `ApprovedIsFinalUnlessRaced`, `LockStopsSaves` |
| `budget` | pass | Two commands over three approvals: `PendingPerCommand`, `ApprovedIsApplied`, `DecisionIsFinalUnlessRaced` |
| `idempotency` | pass | Copies and retries of one key: `CommittedOnceUnlessExcused`, `ReplayIsOfItsOwnBody`, `EveryRequestAnswered` |
| `idempotency_failed` | violation | A handler that throws is run again; the second run commits while its row says FAILED |

Each violation run checks one statement a comment of the code makes, quoted in
`PROJECT.json` under `findings`. Every passing run also checks the type invariant of its module.

**Bounds.** `MaxVersion` stops commands from starting on a row that far along (one
in flight may still commit). With 3 (`positions`) two rows can be opened, proposed,
booked, reassigned, rejected and released under every race of two requests; the later
statuses need up to seven saves and are covered by the theorems, which have no bound. 4 in
`positions_serial`, `planner` and `employment` adds one hand-over or status after a booking; 6 in
`projects` lets a project be submitted, rejected, resubmitted, approved and closed. `Allocs = {60}` with a required 40 per position hits the cap from
both sides: 60 + 40 is exactly 100, 60 + 60 is over. Two requests are enough for each
lost-update pattern (a read, a foreign commit, the late commit); a third would only
repeat it. One scenario over one position is the smallest that can be applied twice; `MaxApplied = 3` is
above what two requests reach, so it hides nothing.
Three leaves share exactly one day (the boundary of the closed interval), and two of them a balance: two
handlers can approve two of them, and only the overlap query can keep the third out; one death is one
lost booking. Three events with a batch of
two leave room for one row without a handler and make the tick span two rows; three
attempts are two retries and a give-up, two sends a resend that may follow a lost answer, two faults a
restart after a failed statement or a lost answer.
Two slots of one week are the least a total can be wrong about; hours 1 and 2 against a weekly cap of
3 pass and fail it. Three approvals let a decided one, a pending one and a new one coexist; amounts 0 and 1 are
the empty budget and a change. Two bodies tell a copy of a request from a reuse of its key.
Symmetry is used only in runs
without liveness properties, and only over sets whose members no constant distinguishes.

**Deadlock.** All runs except `timesheets` and `budget`, where something can always happen, set `CHECK_DEADLOCK FALSE`:
nobody has to send a request, and a finite instance ends when its bounds are used up.

**Fairness.** Positions, planner, employment, projects, timesheets and budgets state no liveness and assume none. In
`LeaveRequests`, `WF(Proceed(h))`: a handler that has been called runs on, because the
event loop resumes a promise that settles; nobody is obliged to call one, and a
death is a step of its own. In `OutboxPublisher`, `WF(Publisher)` is the `setInterval`
timer of `onModuleInit` and the loop of the tick, `WF(AppendOutbox)` a database call already
made, `WF(BackoffElapses)` the clock. In `IdempotencyKeys`, `WF(Progress(r))` is the same event loop:
a request that arrived runs its statements and its handler; failures, stamps and the clock are
not fair. No step is strongly fair.

## 4. Proofs

Every safety property of the passing runs is a theorem, for any number of rows, persons, requests,
versions, crashes and faults. The model checker's bounds are in the specifications too
(`MaxVersion`, `MaxFaults`, ...), but as constants without a value.

`PositionProofs`, the position table under its own write paths:

* `TypeCorrect`, `VersionedReads`, `UnfilledEmpty`, `AuditTrail`, `ReleaseIsFinal`: the
  type invariant and the four other safety properties of run `positions`.
* `Refinement`: `Spec => ImplementsLifecycle`.

All rest on one inductive invariant, `IInv`: `TypeOK`, the version discipline
(`VersionNamesContent` strengthened to every row a request has in its hands), and
what the aggregate of a request about to commit looks like (`entity` is a legal successor of
`seen`). None of the properties is inductive on its own: that a commit takes a legal step of
*today's* row needs that the row still is the one that was read, which is what the version
comparison yields only together with "every writer bumps the version".

* `LoadBounded`: `LoadPerRequest`, with no hypothesis. The guard reads before and outside the transaction, so
  requests that were checked together all commit; the theorem says that this is all that can go wrong.
  `CapInv` looks at every set of requests that are past their guard for a person (`Pledged`): take away the
  rows they are about to write, and either the load left fits under the cap of all *other* requests, or one of
  the set (the one that passed last) saw that load and fits beside it under one cap more (`Fits`). A commit either adds to nobody's load (`Light`)
  or charges only the person it was checked for (`Aims`); the step to the load after it splits
  a sum into what the person keeps and what the rows written bring. With one request the bound is
  the 100% of the guard, which is what run `positions_serial` checks; an instance with two
  requests that could reach 200% is beyond TLC.

`PositionProofs`, with the planner beside any staffing requests:

* `PlannerTypeCorrect`, `UnfilledEmptyBesidePlanner`, `ConsumedStaysArchived`, `AppliedOncePerRequest`
  (`OneApplyPerRequest`). `IInv` does not survive the planner, which writes rows
  without their version, so the invariant here (`EInv`) says nothing about the rows a request
  read: only that no aggregate it is about to write is an unfilled one with a holder. `PInv` types the
  scenario table and says which scenario a planner request is about. The count is inductive with the
  applies that have passed the check but not yet committed included: each belongs to a request of
  its own, and once the scenario is archived no new one passes.

`PositionProofs`, with the HR commands beside any staffing requests:

* `EmploymentTypeCorrect`, `ReleasesAreKept` (`ProgressIsKept`), `TerminatedLetsGo`
  (`TerminatedHoldsOnlyLate`). The releases bump the version they read, so `IInv` survives them. `Covered` says of
  each terminated person who still answers for his fills: a termination that has yet to look for them, one
  whose list contains all but the late ones and those outside its day, or one that stopped.
* `AuditTrailBesideHr`, `ReleaseIsFinalBesideHr`, `RefinementBesideHr`: the promises of run `positions`
  hold of the composition as well. No run checks them there.

`SumTheorems`: what the model's sums (loads in percent, days of leave, hours of a week) obey. They
are folds, recursive functions whose meaning would need induction over the set; instead the fold is shown to be the
number of unit squares under the summands less that above them, and `SumNat`, `SumTakeOut`,
`SumApart`, `SumSame` and `SumMonotone` follow from the library's theorems on cardinality.

`LeaveRequestsProofs` (any leaves, persons, handlers, crashes):

* `TypeCorrect`.
* `DecisionsPerHandler` (`DecidedPerHandler`): the decisions written on a leave and the handlers about to write
  one are together never more than the handlers, because a handler starts only on a leave that
  is PENDING, that is one without a decision.
* `DaysPerHandler` (`DayBookedPerHandler`): the leaves of a day that are approved or past their overlap query
  are never more than the handlers: while one is approved no further handler passes the query, and while none
  is each of them is in the hands of a handler.
* `BalancesExplained` (`BalanceExplained`): a status change moves the days of one leave from one column of
  the table to another and leaves exactly that much for its handler to book, so the sum over leaves and the
  sum over handlers change together, as long as the leave was PENDING (`Clean`: decided once at most).

None of them assumes anything about who decides what.

`OutboxPublisherProofs` (any events, handlers, batch sizes, attempts and faults):

* `TypeCorrect`, `DuplicatesAreFaults` (`DuplicatesNeedFaults`), `PublishedMeansHandled`
  (`PublishedWasHandled`), `LossesAreFaults` (`OnlyFaultsLoseEvents`), `SettledForGood` (`SettledIsFinal`).
  The batch is read once a tick and written row by row. `BatchFits` says that it stays true of the table
  (the rows left in it are still claimable, with the attempts they were read with), which holds
  because the tick is the only writer of appended rows; `SentCounted` charges every acceptance beyond
  the first to a fault, resends inside a handler included, and `WasHandled` follows an event from
  its handler to its mark.

`ProjectLifecycleProofs` (any projects, commands, approvals, tokens, versions):

* `TypeCorrect`, `NoStrandedApproval` (`PendingHasOneOpen`), `DecidedForGood` (`DecisionIsFinal`). The
  invariant ties a command about to save to the approval it found: as long as the version it read is
  current, that approval is the newest open one of its project, and where no PATCH decreed a status the only one. Approval rows are written by id; it
  is the version check in the same transaction that protects them.
* `ReopenedOncePerClick` (`SecondReopenNeedsDoubleClick`). `OneClick` says of a token that was never clicked
  twice that one click of it at most is under way, that this click has not reopened the project
  before its save, and that it is the only reason why a token that reopened a project may look unused.

`TimesheetsProofs` (any weeks, entries, requests, hours):

* `TypeCorrect`, `ApprovedForGood` (`ApprovedIsFinalUnlessRaced`), `LocksHold` (`LockStopsSaves`). A request under way read a
  status its handler accepts, and no handler accepts APPROVED: one that writes an approved week
  read it earlier, which is what `raced` records.
* `TotalsMatch` (`TotalsMatchUnlessRaced`). A submission stamps the sum it read, and if the entries moved
  before it wrote, the week is raced; once the week is submitted or approved its entries are changed
  only by handlers with an older read (`SettledEntries`), which race it too.

`BudgetApprovalsProofs` (any approvals, commands, people, amounts):

* `TypeCorrect`, `PendingBounded` (`PendingPerCommand`), `ApprovedWasApplied` (`ApprovedIsApplied`),
  `DecisionFinal` (`DecisionIsFinalUnlessRaced`). The count is inductive with the commands about to create
  included: the check needs no pending approval at all, so every approval counted after it is charged to
  a command that passed it before. A decision in flight knows that its approval is still
  undecided or that it is late.

`IdempotencyKeysProofs` (any requests and bodies):

* `TypeCorrect`, `CommittedOnce` (`CommittedOnceUnlessExcused`). As long as nothing excuses, the
  row never fails and never expires, so it is reserved once, by an insert; everybody who committed or
  may commit is the one who reserved it.
* `ReplayedFaithfully` (`ReplayIsOfItsOwnBody`): unless the row was `shared`, whoever holds it has the body
  in the row, and the answer it stores is that of a committed run with this body.

The assumptions are the `ASSUME`s of the modules: typing of the constants, that markers
are no persons, and that the sets something is counted or summed over are finite (positions, planners,
leaves, handlers, slots, ...): a table has finitely many rows and a process finitely many requests. TLC
evaluates them in every run.

Only model-checked: `ReconciledWhenClean`, `HandledEventsSettle` and `EveryRequestAnswered` are liveness
under fairness, which needs ENABLED and is out of the prover's reach. The two disagreements of the
violation runs are counterexamples, and need no proof.

## 5. Observations beyond the runs

What the code does and the models showed on the way, where a property states what is left of the promise:

* **Positions.** The allocation guard is a query of its own, outside the transaction, and nothing locks
  the person: two bookings both pass it and exceed 100% with no override, although
  `active-fill-window.ts:24` counts proposals against "two parallel proposals". What is left of the
  promise is `LoadPerRequest`: n requests at once reach n times 100% and no more.
* **Leave.** Two approvals of overlapping leaves both find no overlap before either writes
  (`leave-requests.service.ts:151`); two decisions on one leave both pass the PENDING check, the second
  replaces the first and the balance is booked twice. Each handler at work lets one slip
  through: `DayBookedPerHandler`, `DecidedPerHandler`. A handler that dies between status and balance leaves the balance
  wrong for ever: `:62` promises "reconciliable on retry", but the retry is refused, the request being
  no longer PENDING. Hence `Clean` in `BalanceExplained` and `ReconciledWhenClean`.
* **Outbox.** The event is appended in a statement of its own after the change committed
  (`notification-event-translator.service.ts:286`), in a call nobody awaits, although
  `outbox-event-publisher.service.ts:51` says it shares the transaction of the aggregate; and a
  delivery failure is swallowed inside the handler, so the row ends PUBLISHED without retry, although
  `:54` says a "blip no longer drops a notification on the floor". An event without a mail or a
  recipient ends PUBLISHED, too. Hence `OnlyFaultsLoseEvents` and `PublishedWasHandled`. A mail whose answer is lost
  (ETIMEDOUT, ECONNRESET: `nodemailer-smtp-email.transport.ts:70`) is sent again in the same handler run though it may
  have arrived: `DuplicatesNeedFaults` counts that as a fault. Failed notification requests that are requeued only get their status
  reset; nothing sends them again.
* **Projects.** `submit-project-for-approval.service.ts:47` is careful that nothing "can leave the project in
  PENDING_APPROVAL without an approval record (or vice versa)", but one PATCH does: to PENDING_APPROVAL it makes a
  waiting project nobody can decide on, to DRAFT it leaves an open approval behind, which a resubmission stacks
  on (a decision takes the newest). `PendingHasOneOpen` says what holds beside such a PATCH. Closing a CLOSED project is a silent success that hands out an undo token
  (`close-project.service.ts:162`), also after a close with override, which is meant to have none: the token
  reopens it. A token of an earlier close reopens a later one. A booking between the staffing check and
  the save leaves a closed project staffed.
* **Employment.** `Person.deactivate()` accepts TERMINATED (the comment at `person.entity.ts:170` relies on
  the opposite), so terminate, deactivate, undo revives a terminated person. Persons are saved whole and
  without version. A fill handed to somebody else after the termination's query is released all the
  same (`terminate-employee.service.ts:48` says "held by this employee"); a conflict on one fill
  ends the loop, and the command cannot be repeated (`terminate()` refuses). A booking that starts after the day
  of the termination, or ended before it, is never released, although `:48` says "release all active
  ProjectPosition fills" (`outside`). The transition
  endpoint never asks about employment, so a terminated person can be booked.
* **Timesheets.** `updateWeek` compares no version: an entry saved during a submission is not in
  the stamped total, and a handler that read a week before its approval still edits it. `upsertEntry`
  does not ask whether the date lies in its week. The monthly fills, resets and row
  deletions ignore period locks.
* **Budgets.** Two deciders of one approval both pass the PENDING check; APPROVE then REJECT leaves
  a REJECTED approval whose change is in the budget, although `decide-budget-change.service.ts:58` says
  the two "cannot disagree". An automatic approval lacks `capexBudget` and `opexBudget`, so it can only be
  rejected, and it blocks requests until then.
* **Idempotency.** With no principal the key has a NULL actor, which the unique index does not compare.
  A process that dies holding the row blocks its key for 24 hours. Two retries of a FAILED key
  both run and may replay the answer to the other's body (`shared`), although the schema
  (`schema.prisma:1594`) has the hash to prevent it.
* A bulk reassign with `toPersonId: null` clears the person of filled positions and keeps
  the status, although `project-position.entity.ts:213` says such a position is always for
  someone. One request suffices, so there is no run for it; `PositionLifecycle` therefore
  lets a filled position lose its holder.
* Two concurrent applies of one scenario both pass the `archivedAt` check and both commit (the
  second only repeats the booking and its history rows). `OneApplyPerRequest` states
  exactly what is left of "409 Conflict if already applied": with one request at a time it is at most 1.
* The planner commit that revives released positions leaves the version alone, so
  `VersionNamesContent` does not survive in `PlannerScenarios`: a transition that read the row
  earlier silently overwrites the scenario's booking.
* `PlannerScenarioService.update` checks CANCELLED on its read and writes by id alone, so it can
  revive a scenario cancelled in between; `archivedAt` survives, hence `ConsumedIsArchived`.
* Outbox rows whose event has no handler stay PENDING at the head of every batch: `batchSize` of
  them stop the queue. Every event the translator appends today has a handler, so it takes a handler
  being retired; `HandledEventsSettle` is checked with room left in the batch.

## 6. What is left

The plan of the first version (positions, planner, leave, outbox, then project life cycle, employment,
timesheets, budgets and idempotency keys) is carried out, and every safety property a run checks is
proved. Worth adding next: an abstract account that the leave handlers implement on clean balances; the
dates of fill windows, shared by the allocation guard and the termination; the requeue of
notification requests, once something sends them again.

## 7. Not modelled

* Read models (dashboards, reports, search, staffing-desk queries): no state.
* Pure I/O (integrations, provider adapters) and the frontend: they only call or are called.
* Single-row records without a protocol (risks, vendors, skills, pulse, overtime, help center),
  dictionaries and role decorators.
* Decimal arithmetic (earned value, rate cards), migrations and deployment.
* Reporting lines, case management, refresh-token rotation: each is one check-then-write race over a
  single row, the pattern the budget, leave and employment models already have; the setup
  wizard's lock is a matter of wall-clock timeouts. Their hazards are listed without a property.

`PROJECT.json` names each component with its reason.
