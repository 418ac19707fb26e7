# Uboss AI: a TLA+ development

Uboss AI is a multi-tenant platform on which companies run *Engine Agents*: a NestJS API
(`src/apps/api`) over PostgreSQL (Prisma, row-level security) and Redis (BullMQ, rate limits),
a Next.js web application, and shared TypeScript types (`src/packages/types`) that hold the
state machines and the arithmetic. This directory models the parts in which concurrency, failure,
money and access meet.

    Runs      RunStates, RunEngine, RunOutcome     RunEngineProperties   RunEngineProofs
              RunScheduler                                               RunSchedulerProofs
    Money     CostEngine, Budget                   CostEngineProperties  CostEngineProofs
              Webhook, Credits                     CreditsProperties     CreditsProofs
    Work      WorkPlan, WorkRules, HumanWork       HumanWorkProperties   HumanWorkProofs
    Company   Webhook, CompanyLifecycle            CompanyProperties     CompanyProofs
    People    Access                               AccessProperties      AccessProofs
    Requests  OncePerKey, Idempotency, Outbox,
              Delivery                             DeliveryProperties    DeliveryProofs

Each line has an `MC*` module with its instances for TLC. `RunOutcome`, `Budget`,
`WorkPlan` and `OncePerKey` are abstract specifications that the module beside them implements;
`Webhook` is shared by two modules, and `Delivery` composes `Idempotency` and `Outbox`.

Check a run with `tlc -config <run>.cfg <MC module>` and the proofs with `tlapm <...Proofs>.tla`.
`PROJECT.json` maps every definition to the source lines it models.

## Inventory

| Component | State | Operations | Talks to | Hard because |
|---|---|---|---|---|
| Run engine (`runs/run-engine.service.ts`, `types/runs.ts`) | `agent_runs`, `agent_run_events` | start, waitFor, resume, cancel, perform, fail, move | queue, fairness, executor, gateway, work release | read-decide-write transactions without a version check; redelivery; crashes |
| Run queue (`runs/bullmq-run-queue.ts`) | BullMQ jobs in Redis | enqueue, enqueueAfter, startWorker | workers | an id still known swallows an add; stalled jobs |
| Run scheduler (`runs/run-scheduler.service.ts`) | `engine_agents.next_run_at` | tick, setSchedule (`agents`) | run engine | several instances, dying ticks, windows of time |
| Run fairness (`rate-limits/run-fairness.service.ts`) | none: counts rows | mayStart | run engine | a check before an act |
| Cost engine (`cost/cost-engine.service.ts`, `types/cost.ts`) | wallets, reservations, holds, ledger | reserve, settle, release, sweep, setAllowance, adjustAllowance, companyWallet | model gateway, credit service | several row locks per transaction; partial failure |
| Budget reset (`cost/budget-reset.runner.ts`) | `resets_at`, allowances | sweep, resetOne | cost engine | reads without locks; several runners |
| Credit service (`cost/credit.service.ts`) | requests, grants, periods | request, decide, revoke, expire, reallocate, top-up | cost engine, run engine | movements in several transactions |
| Model gateway (`model-gateway`) | usage records, provider profiles | complete | cost engine, providers | reserve, call, settle with failures between |
| Executor (`executor`) | run steps, exceptions | execute | gateway, approvals | pauses and resumes a run |
| Tasks (`tasks`) | human tasks, dependencies | transitions, release of successors | run engine | two predecessors finish at once |
| Approvals (`approvals`) | requests, steps, delegations | decide, delegate, escalate | runs, objectives | four eyes, time-outs |
| Idempotency, rate limits (`rate-limits`) | records, windows | begin, complete, consume | every request | retries in flight, boundaries of windows |
| Notifications (`notifications`, outbox) | outbox rows, deliveries | enqueue, claim, send, give up | mail | at-least-once delivery |
| Billing (`billing`) | webhook events, purchases | claim, markPaid, sweep | Stripe, credit service | redelivery out of order |
| Objectives, agents, skills (`objectives`, `agents`, `skills`) | versioned records | submit, approve, publish | approvals, tasks | strict versioning, optimistic locks |
| Company lifecycle, seats, exit (`commercial`, `provisioning`, `registration`) | tenant state, seats | provision, suspend, exit, invite | everything | counting under concurrent invitations |
| Identity (`auth`, `access`, `organization`) | sessions, tokens, memberships, hierarchy | login, rotate, revoke, invite | authorization | one-time use, acyclicity |
| Audit (`audit`) | hash chain, break-glass grants | append, verify | everything | a chain under concurrent appends |
| Authorization (`authorization`) | roles, grants | assertCan | everything | pure decision |
| Knowledge, connections, boards, chat, rewards, support, performance, reports, observability, platform, settings | records | mostly create, read, update | storage and providers | little concurrency of their own |
| Web, UI and config packages, website, deploy, infra, scripts | none | user interface and operations | API | not modelled |

What makes each correct, in the order of importance the plan follows: a run is neither lost nor
performed twice and its ending stays; an occurrence of a schedule is handed over once; a budget
is never overspent, its holds come back, and its ledger explains it; a spend gives its hold back
on every path; a task is released when its last predecessor ends; a decision is taken once and
by somebody else than the requester; a retried request acts once; an outbox message is sent at
least once and marked; a payment credits once; a version in force is not rewritten; a seat is
not sold twice.

## Models

### RunStates, RunEngine

`row[r]` is the `agent_runs` row of one idempotency key (one occurrence of the agent), abstracted
to the state, the attempt and which time stamps are set: that is what `ALLOWED_RUN_TRANSITIONS`
and the CHECK constraints of the migrations look at. `job` is what BullMQ knows of each job id
(the run id for a first dispatch, `retryJobId` for a retry); an add of an id it still knows is
ignored, as BullMQ does. A *worker* is a concurrency slot performing a job, a *caller* an API
request or a scheduler tick.

Every state change in `run-engine.service.ts` is a READ COMMITTED transaction that reads the row,
decides, and runs `UPDATE ... WHERE id` with no condition on the state it read. So each is two
steps in the model, and anything may happen between them; `Moved` merges the columns the UPDATE
sets onto the row as it then is, and the CHECK constraints (`Accepted`) judge the merged row.

| Code | Actions |
|---|---|
| worker takes a job, `mayStart` | `Pickup`, `Hold` |
| `deferOrLeaveQueued` | `Defer` |
| `perform`, first transaction | `ReadToReserve`, `Reserve` |
| `perform`, second | `ReadToStart`, `Start` |
| `executor.execute` | `Execute` (returns, throws, or names the state to stop in) |
| `perform`, third, with the release of successors | `Complete`, `CompletionRolledBack` |
| `fail` | `ReadToFail`, `RecordFailure`, `Requeue` |
| a transaction that throws uncaught | `GiveUp` |
| `start` | `ReadToInsert`, `Insert`, `Enqueue` |
| `cancel`, `resume`, `waitFor` | `ReadToCancel`, `ReadToResume`, `ReadToPark`, `MoveRun`, `Enqueue`, `RequestRefused` |
| `resumeRunsBlockedByBudget` | `ReadToTopUp`, `TopUp` |
| BullMQ: stalled jobs, retention of finished ones | `Stall`, `Released`, `Finish`, `Forget` |
| processes dying | `Crash`, `RequestDies` |

Left out: `started_at` (its one constraint compares clocks of two machines, and is among the
reasons for which `WriteRefused` lets a write fail), the events of a run, deferral records, the
in-process queue used by tests, and authorization. `perform`, `fail`, `resume` and `cancel` read
the row twice in one transaction; the two reads are one step, because whatever the second one
lets through is a write a single earlier read would have made.

`RunOutcome` is the promise to a company: a run begins once and ends; *Cancelled* and *Failed*
stay; only a *Completed* may be overruled, by a cancel or failure decided before it.

### RunScheduler

One agent, time in instants (`Minute` of them to a minute). A cron line read through the company
calendar is the set of instants at which it fires, so parsing is abstracted and what remains is
the arithmetic of the window, the missed-run policy and the checkpoint. `BeginTick` reads the
agent and works out what is due, `StartOccurrence` hands the occurrences to `RunEngineService.start`
one at a time, `RecordNext` writes the checkpoint; another tick, a change of schedule
(`SetSchedule`) or a death may come between. `since`, `recorded` and `offered` (each occurrence handed
over, with the time of the tick that did it) are history.
Nothing in `api/src` calls `tickAllCompanies`; the model lets any instance tick at any time.

### CostEngine

A transaction is a *session*: it takes row locks one at a time (`LockNext` waits while another
session holds the row), keeps what it read under each, then commits in one step or aborts at any
moment. `reserve`, `setAllowance` and `adjustAllowance` lock outermost level first
(`scopesToCheck`); `settle` and `release` lock the reservation and then the wallets of its holds in
whatever order they are listed. The reset runner reads without locking and takes the lock with its
first UPDATE. The ledger is kept as what `replayLedger` makes of it. Time is a count of periods,
and an hour passes for a reservation in `GrowsOld`. Wallets created on demand appear at the
commit; a loser of the unique index aborts (`Clashes`). Thresholds other than the hard stop, and
the decision that a spend needs approval, do not change this state and are left out.

`Budget` is what this comes to for the company. It has no sessions, locks, wallet rows or stored sums,
only the allowance of each wallet and the spends: `Admit` asks the hard stop of what the spends so far
come to at every level the new one is counted at, `Charge` and `GiveBack` close a spend that is
held, once, and `Allow` moves the allowance of one wallet. `reserve` counts a spend at the
company and at those levels of its path that have a wallet, and what it looked for and did not find
may be created by another transaction before it commits. `Budget` lets a level be passed over only if
nothing is committed there. The mapping (`Promise`) reads both variables off the tables; a step
that only takes or gives back locks is a stutter.

### Webhook, Credits

`Webhook` is `stripe_webhook_events` and the route around it: a handler reads the row of an event
(`Receive`), inserts it or takes a failed one back (`Claim`), answers a duplicate, applies the
event in transactions that belong to the module that uses it, and closes the row (`Close`,
`CloseFailed`). A step's transaction may fail (`StepFails`), a handler may die (`Die`), and the
provider sends an event until somebody answers 2xx. `Stranded` says that nobody will ever apply an
event: what a death between claim and close, or a duplicate answered too early, leaves behind.

`Credits` is one company's allowance. A top-up goes through `Start`, the provider's page, the
webhook's `apply`, `grant` and `pay` steps (credit, then the record of it on the purchase) and the
sweep of unfinished purchases; a credit request through request, cancel and the operators'
`decide`, whose grant and decision are transactions of their own; a grant is revoked, or expires
and is written off, again in two transactions each. Every grant is of one unit: amounts decide
nothing here except that `adjustAllowance` refuses to go below zero. `CostEngine` has the wallet
underneath. Left out: `reallocate`, `applyPeriodReset`, `applyPlanChange`, grants dated in the
future, the resumption of blocked runs (`TopUp` in `RunEngine`), notifications, the creation of
the wallet, invoices.

### WorkPlan, WorkRules, HumanWork

`WorkRules` has the tables of `packages/types` (task and request states, operations, approval
kinds, `DependenciesSatisfied`). `HumanWork` is the tasks and approval gates of one assigned plan.
A *handler* is a transaction: it reads (`read`), takes the row of a task or a request when it
updates it (`locked`), and commits or rolls back; a decision first writes its step (`eyed`), then
settles the request (`settling`), which completes or reopens the task and releases successors. What
the database gives is there: row locks taken by UPDATEs, the trigger that makes a decided request
final, and the lock of the company's audit trail (`pg_advisory_xact_lock`,
`audit-trail.repository.ts:205`), which a person's completion takes when it appends its audit entry,
before it reads the plan, and holds to the commit. `work-release` has no lock of its own. An AI step is
done when its run completes (`RunEngine`); that transaction reads the plan without the trail's lock, as
the code does. `WorkPlan` is
what a plan promises, whoever carries it out. Left out: delegation windows, escalation by age,
comments and evidence, overdue sweeps, scoring, a plan that supersedes another.

### CompanyLifecycle

One company's state and version; what people of the platform decide on the spot or for a date
(`transition`, `schedule`, `applyDueTransitions`); what subscription events say (`onSubscription`,
`applyPaidPlanChange`, `applyBillingEntitlement`, over `Webhook`); and the contract end, whose
steps read the exit's row, move the company in one transaction and write the exit in another. The
update of the company asks for the version its caller read (`VersionIsRead`); the exit's asks for
nothing but its constraint (`RowAllows`). The history keeps the changes somebody reads again: those
into ReadOnly and those scheduled for a date. `applyDueTransitions` is three steps, because anybody
may come between them: what is due is listed (`ListDue`), the company is read again and a change
that is no longer legal skipped (`ReadDue`), and the update is made and the row marked (`ApplyDue`).
A call of it takes one of the changes it lists; the next ones are further calls. Left out: the states before a company is active, the export
package, legal holds, notices, the state a cancelled exit restores to other than Active.

### Access

The people of one company: account state, roles, notice period, invitations, seats. A handler works
on one person and reads in one step what it writes in a later one; an activation holds the row of
its invitation, a reinstatement the company's seat lock from its claim to its write.

| Code | Actions |
|---|---|
| `inviteExistingPerson`: roster, claim, `invite` | `InviteReads`, `InviteClaims`, `InviteLooks`, `InviteCommits` |
| the platform's `InvitationController`: `invite` without a claim | `PlatformInvites`, `InviteCommits` |
| `cancel` of an invitation | `CancelInvitation` |
| `activate` | `FollowLink`, `Accept`, `ActivateCommits` |
| `suspend`, `reinstate` | `SuspendReads`, `SuspendCommits`, `ReinstateReads`, `ReinstateClaims`, `ReinstateCommits` |
| SCIM: `createUser`, `replaceUser`, `patchUser`, `deleteUser` | `ScimWrites` |
| `assign`, `revoke` | `AssignReads`, `AssignCommits`, `RevokeRoles` |
| `offboard`, `completeDue` | `OffboardAsks`, `OffboardReads`, `NoticeCommits`, `DismissalCommits`, `LastDayPasses`, `CompleteCommits` |

Two operations are one step though they read in an earlier transaction. `completeDue` claims each
departure by its state in the transaction that completes it, so a list that is out of date does
nothing; and what SCIM read decides only which requests it refuses, after which it writes the state
over whatever it is: it asks for no earlier state, claims no seat, and leaves roles, links and the notice
alone. It brings an Offboarded person back on purpose (`scim.service.ts:316`).
A membership that SCIM creates is a person to whom nothing had happened.

`Moves` writes the account state, and notes, as history, who took a seat outside the seat lock and
without a valid claim (`excused`), and which operations had read somebody before they left (`late`).
A claim is valid until another claimed seat is taken (`unbacked`), unless the roster showed a state
that was counted already. The code writes over the account without asking again, and the properties say
how far that reaches: reinstatements are excused only if they were counted in when they read, so the
seat lock is what keeps them apart.

Left out: guests, who is allowed to do it, work addresses and mail, handing over of reports,
connections and memory, expiry and rotation of tokens, sessions, companies without a plan, bulk
operations (which call these one by one), and of SCIM the groups, the clients and the identity fields.

### Idempotency, OncePerKey, Outbox, Delivery

`Idempotency` is the interceptor around every handler: `Begin` reads the record, `Claim` inserts it
(the unique index decides), the work, then `Finish` or `Abandon`; a client without an answer sends
its request again; answers get lost, processes die, windows end. `OncePerKey` is the promise.
`Outbox` is the table and its dispatchers: `claimDue`, one message after the other to the provider,
`markDelivered` or `markFailed`. In `Delivery` the work of a request enqueues its message in its own
transaction. Left out: digests and preferences, escalation and acknowledgement, the length of the
backoff (a message whose time has not come is one that nobody claims yet), topics nobody consumes.

## Runs

Deadlock checking is off everywhere: a company may stop asking for things, every run may have
ended, time and mishaps are bounded.

| Run | Question | Bounds, and why they are enough |
|---|---|---|
| `run_engine_mishaps` | Rows, jobs and endings under every mishap | 1 run, 2 workers, 1 caller, 2 attempts, 2 mishaps. Runs share nothing but the cap and the overlap count, which these properties do not mention; 2 workers are needed for redelivery, 2 mishaps for a second stall of one job |
| `run_engine_single_worker` | Is a run ever performed twice at once? | 2 runs contending for one slot, 2 workers, 1 caller with cancel, resume and top-up, 1 failing write or dead request |
| `run_engine_progress` | Is a queued run ever forgotten? Does it end? | 2 runs, 2 workers, 2 attempts, a cap that is not contended, no mishaps, no resumes: the disagreements about ids below are why |
| `scheduler_ticks` | What is handed over, what is not | 2 schedulers, a schedule that fires every minute and one with gaps longer than the walk (`MaxGap` is 2 minutes of 6, at 2 instants each), both firing beyond the last instant, 1 change, 1 death, each policy. Ticks are short against the clock |
| `cost_spending` | Money under concurrency | 2 levels, 3 sessions, 2 reservations, 2 allowance changes, an estimate below and an actual above what is left, aborts anywhere; a third session opens the wallet the other two looked for |
| `cost_renewal` | Periods | 2 runners, 3 periods so that a wallet can be 2 behind and two runners can mean the same boundary, 1 reservation, 2 changes; adjustments are left out because of the first disagreement about money |
| `credits` | What the webhook, the sweep and the operators do to an allowance | 1 top-up, 1 request, 2 deliveries at once, 2 operators (one decides and revokes, one decides and expires), 1 failing attempt, 1 death, 2 grants each: enough for a second credit |
| `human_work` | Approvals, reopening and release | 3 tasks, 1 four-eyes gate, 1 AI step, 3 people, 2 transactions at once, 2 submissions of the task that is approved; a task with two predecessors of each kind, and one dependency on no step |
| `company_access` | Who moves a company, and what follows | 2 events in either order, delivered again and one at a time, 2 people, 1 change besides an exit, 1 death; failing deliveries are those of `credits`, on the same inbox, and `NewestEventPrevails` is for any number of deliveries at once |
| `access` | Links, seats and departures | 2 people for 1 seat, 2 handlers, 2 invitations, 1 person under notice at a time: two operations at once are enough for every race the disagreements name, because a third party to one (a withdrawal, a revocation, a date) needs no handler |
| `delivery` | Retried requests and the mail about them | 2 requests under one key, 2 attempts at once, 2 dispatchers, 2 attempts at a message, 1 mishap; liveness |
| `delivery_find_retry` | A message that failed once | see Findings |

Named bounds: `MaxMishaps`, `MaxChanges`, `MaxDeaths`, `MaxFailures`, `MaxMoves`, `MaxGrants`,
`MaxLinks`, `MaxNotices`, `MaxSubmits`, `Attempts`, `LastInstant`, `LastPeriod`; the rest are sets given by the
configurations. The theorems below hold for every value of them.

The runs check what is hard to get right; most type invariants are not among their properties,
because they are proved for every instance.

*Why `OneWorkerPerRun` has no stalls, no crashes and one caller.* It is not enforced by a lock. It
follows from the moves (a run is reserved only out of Queued or Retrying) and from a run being in one
place at a time: with a worker, in a waiting job, or with the request that will enqueue it. BullMQ's
redelivery after a stall or a crash puts it in two, and so do two resumes of the same run, with the
first job forgotten in between. A top-up writes Queued without looking, but enqueues nothing, and is
harmless here. `PerformedByOneWorker` says that nothing else is needed.

*Excuses.* Where the code keeps a promise but for a case it plainly does not handle, the property
names the case and nothing more: the occurrence a tick wrote down as next, and those beyond the walk
(`CatchesUp`), `Stranded` events, attempts that failed after their work
(`excused` in `Idempotency`), records nobody will answer (`orphaned`), seats without a valid claim
(`excused` in `Access`), the identity provider's writes (`ScimWrites`), operations that read somebody
before they left (`late`), two deliveries applied at once (`crossed`). Each is a bullet under the disagreements.

*Fairness.* The `FairSpec` of `RunEngine` adds weak fairness for each worker's and each caller's
next step: the API processes run, and a transaction once begun continues. BullMQ workers poll, so
a job that waits is taken when a slot is free. That of `Delivery` adds weak fairness for each
attempt under way and for the dispatchers together (an interval timer in every process); strong
fairness for a client that sends its request until it is answered, whoever else is served in
between, and for the end of a window, which is a date. `Credits` assumes only that a handler's next
step and the provider's delivery go on (its `Spec` states both). Nothing is assumed of mishaps, and
nobody is obliged to ask for anything.

## Findings

`delivery_find_retry`: `outbox.repository.ts:165` says of a failed message that "a transient outage
self-heals". `markFailed` sets the state to Failed with a later `available_at`, but `claimDue`
(line 125) selects only Pending and InFlight, so a message that failed once is never tried again,
nor dead-lettered.

### Other disagreements

Met while modelling, each shown by a small configuration of the same modules, and not kept as runs.

Runs and schedules:

* The second deferral of a run re-adds the id of the job being performed; the add is ignored and the
  run stays Queued (`run-engine.service.ts:327`; line 309 "comes back on its own").
* `resume()` enqueues under the run id, whose finished job is kept for 24 hours; the add is ignored
  and the run stays Queued with no job (`run-engine.service.ts:1115`, `bullmq-run-queue.ts:162`).
* A completion whose release of successors fails was already published
  (`run-engine.service.ts:1355`; lines 1277-1278).
* A cancel decided while a run was Running overwrites its Completed (`run-engine.service.ts:1310`;
  `runs.ts:134` "A terminal state leads nowhere."). `RunOutcome!Overrule` allows exactly this.
* Two workers count before either reserves, and exceed the cap (`run-fairness.service.ts:64`).
* A run whose worker died in Running stays Running and counted (`run-fairness.service.ts:84`;
  line 40 "so it self-heals"); `InFlightIsWorkedOn` holds only without mishaps.
* Two callers of one occurrence: the second meets the unique index and gets an error
  (`run-engine.service.ts:488`; line 349 "a no-op ... rather than an error").
* Two occurrences started at once both pass the Skip policy (`run-engine.service.ts:428`), and under
  Queue nothing makes a run wait (`run-engine.service.ts:438`; `runs.ts:290`).
* A top-up puts a run resumed by hand meanwhile back to Queued (`credit.service.ts:1187`).
* The checkpoint is the next occurrence and the next tick looks strictly after it, so that
  occurrence is never due (`run-scheduler.service.ts:253`; line 227 "The current occurrence always
  runs").
* Skip runs a single missed moment however old (`run-scheduler.service.ts:233`); occurrences older
  than seven days are dropped silently (line 418); a tick under way restores the checkpoint
  `setSchedule` has just cleared (line 261).

Money:

* A reset overwrites an adjustment made between its unlocked read and its write, whose ledger entry
  stays, so the wallet no longer replays (`cost-engine.service.ts:1529`; lines 131-133).
* `settle` and `release` lock wallets in no particular order (`cost-engine.service.ts:780`; lines
  117-119).
* A reservation or an allowance that is first to touch the company's wallet creates it empty, and
  it is never funded (`cost-engine.service.ts:1422`).
* A hold given back between the reset's read and its write is carried over
  (`budget-reset.runner.ts:151`).
* The constraint `token_purchase_quote_adds_up` (migration 20261001100000, line 65) does not hold of
  the quote `start` stores, whose price is per thousand tokens (`token-purchase.service.ts:130`,
  157); `Quoted` is the set of purchases it accepts.
* A handler that dies between claim and close leaves its event open, and every later delivery is
  answered "duplicate"; a redelivery answered so while the first attempt runs and then fails loses
  the event as well (`billing-webhook.service.ts:147`). Both are `Stranded`.
* The credit and its record on the purchase are two transactions; an attempt that fails between
  them credits again ("Credit the wallet, exactly once", `token-purchase.service.ts:242`).
* A completed session that is not paid is ignored, and nothing handles its later payment
  (`async_payment_succeeded`).
* `decideRequest`'s grant is not part of its transaction (`credit.service.ts:456`): a request
  cancelled in between has a live grant. Two revocations, or a revocation and an expiry, of one grant
  withdraw it twice; revoking a grant that expired and was not written off leaves its credit.
* Grants dated in the future never take effect.
* Subscription events of the same second, or two applied at once, may leave the older state, and
  those of a previous subscription move the company; invoice events are not ordered at all.

Work:

* The completion of an AI run reads the plan without the audit trail's lock, which a person's
  completion takes first (`run-engine.service.ts:690`, `audit-trail.repository.ts:205`), so when a person and a run finish the last two predecessors together
  the successor stays Waiting (`work-release.service.ts:73`). `NothingWaitsInVain` is therefore about
  tasks that depend on no AI step.
* Two first approvals of a four-eyes gate at once both leave it Pending, with two approvals.
* Submitting again while an approval is pending raises a second request and leaves the first;
  blocking or clarifying while somebody submits leaves a pending request on a task that does not wait.
* The sweep of overdue tasks penalises a deadline after a completion it did not see; escalation by a
  stale list may mark a decided request.
* A reopening and a decision, or a release and a completion, may deadlock; the victim run is recorded
  as failed.

Companies and people:

* A ReadOnly set by a person for a date comes, by `effectiveAt`, before one that billing made
  earlier, and is lifted by a payment (`company-lifecycle.service.ts:324` "It must never overrule a
  person"). `PeopleAreNotOverruled` is about changes made on the spot.
* `applyDueTransitions` marks a change applied though its update found no row, and leaves
  `accessReasonCode` as it was.
* A death between the lifecycle change and the exit's update leaves the exit where no step leads on;
  a cancellation racing `beginRetentionHold` closes a company whose exit is cancelled; an approval
  racing a cancellation revives a cancelled exit.
* The seat claim of an existing person commits before the membership it stands for
  (`seat.service.ts:123`), so two people take the last seat; `activate` claims none, though line 119
  lists it. Neither do SCIM, which makes people Active (`scim.service.ts:365`, 508), and the platform's
  invitations (`invitation.controller.ts:55`).
* SCIM writes over a dismissal on purpose (`scim.service.ts:316` "the identity provider is telling us
  this person is back"). Its DELETE offboards, but leaves live links and roles
  (`scim.service.ts:478`); activation does not look at the state of the account, so such a person comes
  back by a link.
* A suspended person with a live link activates their own account. Two invitations at once leave two
  live links (`invitation.service.ts:80`). A link followed while it is resent is still accepted, and
  the resend then writes InvitePending over it.
* An invitation, a suspension or a reinstatement that was under way writes over Offboarded; so does
  an activation racing `completeDue`. A role assigned while somebody leaves outlasts them
  (`offboarding.service.ts:366`), and an immediate departure racing a notice records two.

Requests and messages:

* Several dispatchers take the same row once the first claim has committed
  (`outbox-dispatch.runner.ts:28`); a row in flight whose attempts were used up by deaths is never
  dead-lettered; rows of topics nobody consumes use theirs up and stay InFlight
  (`outbox.repository.ts:52`); the marks do not ask what state they replace.
* A mail that was sent and whose audit event fails counts as failed.
* A failed `finish` is swallowed: the key blocks until its window is over, and then the work is done
  again.
* Two notifications raised at once with one dedupe key: the loser's unique violation aborts the work
  of its caller ("rather than throwing").

## Proofs

TLAPS checks eight modules of proofs. Each proves an inductive invariant, named `Inv` (or the tower
named below), from the initial states and over every step, and derives the theorems from it. None
bounds the sets or the counters; each uses only the named assumptions of the module it is about,
and those stated with a theorem. Every invariant the runs check is a theorem.

### Runs

`RunEngineProofs` proves, for any finite or infinite sets of runs, workers and callers, any
`MaxAttempts`, `RunLimit` and `Overlap` (under `MaxAttemptsAssumption` and `ConstantsAssumption`), and
any requests and mishaps but those a hypothesis excludes:

| Theorem | States |
|---|---|
| `TypeCorrect` | `Spec => []TypeOK` |
| `RowBeforeJobInvariant` | `Spec => []RowBeforeJob` |
| `FinishedRunsStayFinished` | `Spec => FinishedNeverReopens` |
| `CancelledAndFailedStay` | `Spec => CancelledAndFailedAreFinal` |
| `CancelIsNeverRefused` | `Spec => UnfinishedRunsCanBeCancelled` |
| `EngineImplementsOutcome` | `Spec => ImplementsOutcome`, the refinement |
| `PerformedByOneWorker` | `Spec /\ []ResumesApart => []OneWorkerPerRun`, without crashes and stalls |
| `PerformedByOneWorkerUnlessResumesCross` | `Spec => []OneWorkerPerRun`, without crashes and stalls, if nobody resumes or there is one caller |
| `InFlightRunsAreWorkedOn` | `Spec => []InFlightIsWorkedOn`, if nobody resumes and nothing goes wrong but dying requests and failing releases |
| `RunsAreNotForgotten` | `Spec => []NoRunIsForgotten`, if requests only cancel and park, the cap leaves a slot for each worker, and nothing goes wrong but failing releases |

The argument for the first six. The inductive invariant is `RowInv`: the type invariant, `RowBeforeJob`,
`RowsConsistent` (every row is one the CHECKs accept), and `FailedIsDeadLettered` (a failed row has `dead_lettered_at`; the schema says
only the converse, but without it nothing distinguishes a Failed row from a Completed one, and
`CancelledAndFailedAreFinal` would not follow). The key lemma, `OneRowPerStep`, says that a step
changes at most one row, in one of three ways: an insert, a merge `Moved` that `Accepted` admits,
or a top-up that `Accepted` admits. From there on the theorems are about rows: an accepted merge
onto a finished row can only be terminal, because `finished_at` is never cleared and the CHECK ties
it to the terminal states, and so on. The refinement follows by cases on that step.

The other four rest on three invariants, each built on the one before.

* `HandsInv`: a run is in one hand at a time (`InOneHand`), where a hand is a worker at it, a job
  offered for it, or a request that enqueues or resumes it; a blocked run is in nobody's
  (`BlockedRests`), and no request moves a run to where only a worker takes it (`CallersKeepOut`). Every
  step either passes the run on or lets it go. `ResumesApart` (no two requests resume one run at once)
  is what a resume needs: it makes of a blocked run a job, and two of them would make two. It is a
  hypothesis about the requests, since `resume()` takes no lock and asks for no version; the second
  theorem is for the configurations that satisfy it by themselves.
* `WorkedOnInv`: adds that a failure is retried or not by how it was classified
  (`FailuresAsClassified`), that a worker that reserved has not begun to execute
  (`ReservedIsNotExecuted`), and `InFlightIsWorkedOn` itself. A failed write, a stall or a crash each
  leave a row in flight that no worker holds, and a resume puts a parked run in flight and leaves it to
  no worker.
* `RememberedInv`: adds that job ids agree with the rows: a worker's job is active
  (`WorkersHaveTheirJobs`), no job is of a later attempt than its row (`JobsWithinAttempts`), so the id
  under which a retry or a first dispatch is added is still unknown to BullMQ (`RetriesAreNew`,
  `EnqueuesAreNew`), and every waiting run is attended to (`WaitingIsAttended`). The hypothesis on the
  cap is there because a second deferral of a run is lost (see the disagreements); that a slot is then
  always free is a count of workers against runs in flight (`IdleWorkerFindsASlot`).

`RunSchedulerProofs`, for any schedulers, schedules and clock: `TypeCorrect`, and for ticks that are
short against the clock (`~SlowTicks`) `OldOccurrencesStayPast` (`NothingReplayed`),
`CatchUpLosesNothing` (`CatchesUp`, with the seven days' walk as it is) and, if every schedule has an occurrence
beyond the last instant (`SchedulesGoOn`), `OutageIsCaughtUpOnce` (`OneCatchUp`). The invariant: ticks
under way are of this very instant, no checkpoint goes back behind the setting of its schedule, and
whatever came due since a tick was recorded is with the engine, written down as next, still ahead of
the checkpoint, or in the hands of a tick (`AheadOfCheckpoint`, `InHand`). The hypotheses are needed:
a slow tick that read an older schedule may write its checkpoint behind the new setting, and the
next one replays from there; a slow first tick can leave a gap; and a schedule that has ended leaves no
checkpoint, so that every tick looks back a minute. For the last theorem: a checkpoint is later than the
tick that wrote it, so no tick that begins afterwards looks back at what that one saw, and those that
saw the same instant choose the same occurrence, the latest (`ChosenIsLast`).

### Money

`CostEngineProofs` proves, for any finite set of wallets on at most five levels (the scopes of
`BUDGET_SCOPE_ORDER`), any reservations, sessions and amounts (under `CostAssumption` only):

| Theorem | States |
|---|---|
| `CostTypeCorrect` | `Spec => []TypeOK`: no amount of a wallet becomes negative |
| `BudgetIsKept` | `Spec => ImplementsBudget`, the refinement of `Budget` |
| `ReservationsCloseOnce` | `Spec => ClosedForGood`, which no run repeats: `ImplementsBudget` contains it |
| `HoldsStayWithinHardStop` | `Spec => NeverPastHardStop` |
| `HierarchyNeverDeadlocks` | `Spec => []OutermostFirstNeverDeadlocks` |
| `LedgerNeverDrifts` | `Spec => []BalanceMatchesLedger`, if "adjust" and "reset" are not both in `Work` |
| `WalletsAlwaysMatch` | `Spec => []WalletsMatchReservations` |
| `UnusedAllowanceLapses` | `Spec /\ [][NothingIsFreed]_vars => LapsesWhatWasLeft` |

The argument is a tower of invariants, each built on the one before.

* `ResInv`: what the lock on a reservation's row buys. A reservation that is being closed is still
  held, nobody else is closing it, and the one being inserted is nobody else's.
* `LockInv`: what a lock on a wallet's row buys. Locked sets are disjoint, a wallet that was read
  under a lock still is what was read, one found missing was empty, and a transaction that closes a
  reservation has, or is still to take, a lock on every wallet it holds against. That a commit
  writes only what its own transaction has locked or inserts (`WrittenIsMine`, `ClosingHasAll`)
  makes it inductive; the hard stop follows because the decision was made on the values it
  commits over (`DecidedOnWhatIs`).
* `OrderInv`: what is still to be locked is below what is locked, so along a chain of waiting the
  level only rises, and five levels leave no room for a circle.
* `LedgerInv`: as long as the boundary is the one the runner read, so is the allowance it read
  (`NothingMovedSince`), because `setAllowance` and a reset both move the boundary. An adjustment
  does not, which is why the theorem needs its hypothesis, and the first disagreement about money shows that
  without it the property is false.
* `MatchInv`: what a wallet says is reserved and used is counted in units, each a pair of a reservation
  and a number, so that a sum over reservations is the cardinality of a set and needs no recursion
  (`Units`). The sets stay finite (`CountedUnits`), and every step adds the units of one reservation to
  a wallet, takes them from it, or moves them from held to charged (`Recounted`). That a closing
  transaction has locked every wallet it holds against is from `LockInv`.
* `BudgetInv`, for the refinement. The stored sums a decision was made on are those of the
  abstract budget by `MatchInv` (`CommittedIsCommitted`), and they are current by `LockInv`. That leaves
  the levels without a wallet, which have no row to lock. `scopesToCheck` has the company
  first, and every spend counts there (`HoldsTheCompany`): so whoever has locked the company's row
  (`LocksTheCompanyFirst`) keeps everybody else from committing a spend, and a level found missing
  stays empty even if `adjustAllowance`, which locks only its own wallet, creates it meanwhile (`PassesOver`). The company's own row may
  be missing as well; then two reserves may both go on, and the unique index lets only one of
  them commit. The steps map one by one: `AdmitsAsPromised`, `ClosesAsPromised`,
  `AllowsAsPromised`.
* `LapseInv`: a reset read a period that was due (`ReadADuePeriod`); as long as the boundary is the one
  it read, no more is left of the wallet than it worked out (`LeavesNoMore`); and under the lock, what it
  is about to write leaves one grant at most (`LeavesOneGrant`). What can break it between the unlocked
  read and the lock is a hold given back or an allowance raised, and `NothingIsFreed` says just that
  this does not happen to a reset still due; the fourth disagreement about money is what then becomes of
  the hold.

`CreditsProofs`, for any purchases, requests, handlers and operators, if failures at the step `pay`
are told from the others (`"pay" \in Watched`):

| Theorem | States |
|---|---|
| `TypeCorrect` | `Spec => []TypeOK` |
| `TopUpsAreCreditedOnce` | `Spec => []CreditedOnce` |
| `OnlyPaidIsCredited` | `Spec => []NothingIsCreditedUnpaid` |
| `CreditIsNeverSwept` | `Spec => []CreditedIsNotAbandoned` |
| `ApprovalsAreFunded` | `Spec => []ApprovedIsFunded` |
| `NothingStaysTakenBack` | `Spec => []TakenBackIsTaken` |

`AtWork` says that one handler at a time works on an event, and that its row stands open
meanwhile; so the number of credits is counted against the failures, with one to spare while
somebody may yet grant it (`Counted`, `MayYetBeGranted`). For the operators, `Balanced` counts a
grant about to be written off as gone from the allowance already, because the withdrawal comes
first.

### Work

`HumanWorkProofs`, for any plan, people and number of transactions:

| Theorem | States |
|---|---|
| `TypeCorrect` | `Spec => []TypeOK` |
| `ApprovedByOthers` | `Spec => []ApprovalsAreIndependent` |
| `NothingSlipsThrough` | `Spec => []CompletedOnItsApproval` |
| `ApprovalIsEnough` | `Spec => []ApprovedWorkCompletes` |
| `NoReleaseIsLost` | `Spec => []NothingWaitsInVain` |
| `VerdictsStand` | `Spec => VerdictsAreFinal` |
| `ThePlanIsFollowed` | `Spec => PlanIsFollowed`, the refinement of `WorkPlan` |

The invariant speaks of each transaction against the rows as they are now: which positions its
operation can be at (`InOrder`), what its lock still guarantees of what it read (`InForce`), and that
no two transactions hold one row or stamp one instant (`Apart`). Of the rows it says that no request
exists beyond the clock of its task (`Unraised`), and that a task waiting for approval has its request
(`OnTheTable`). Every step goes `Onward`: what finished stays finished, what opened had its
predecessors done, what was decided stays decided; the last theorem and the one before it follow from
that alone.

### Companies and people

`CompanyProofs`: `TypeCorrect`, `ClosedIsForEver` (`ClosedStaysClosed`), `ContentOutlivesAccess`
(`DeletedOnlyWhenClosed`), `BillingNeverOverrulesAPerson` (`PeopleAreNotOverruled`) and
`NewestEventPrevails` (`FollowsTheNewest`). A version somebody read is no newer than the row's, and while it is the
row's, the row is as it was read, which was not closed (`ReadsAreFresh`); and from the retention
window on the company is closed, also between the two transactions that begin it (`ExitInOrder`).
That billing overrules nobody is because a company in ReadOnly that a person put there has their row
as the latest of the history (`MadeInv`), and what was scheduled stays a person's once it is applied
(`HistoryInv`). That the newest event prevails is followed through the inbox: an event
somebody works on is open and theirs alone, and one the provider was answered for has been dealt with
(`InboxInv`); events are applied one at a time unless `crossed` (`AppliedOneByOne`); and from the step at which the newest is written down no other changes what it
said (`FollowOf`). Its hypothesis `NewestIsOne`, that the newest event shares its stamp with no other, is
needed because stamps have seconds; see the disagreements.

`AccessProofs`: `TypeCorrect`, `NoLinkIsUsedTwice` (`LinkIsUsedOnce`), `SeatsAreKept`
(`SeatsWithinCeiling`), `DismissedStayOut` (`DismissalHolds`). What makes it inductive: an activation
that is past its lock finds its invitation live and is alone with it (`LinksHeld`), a claim that
nobody has outrun still has a free seat, whether it is an invitation's or held under the seat lock (`ClaimsStand`), whoever could write over somebody who left is
known to be late (`LateAreKnown`), and whoever was dismissed has no live link (`DismissedAreOut`),
until SCIM, or one of the late, brings them back.

### Requests and messages

`DeliveryProofs`: `TypeCorrect`, `KeysKeepTheirPromise` (`ImplementsOncePerKey`, the refinement of
`OncePerKey`), `RepeatsAreExcused` (`RepeatedWithReason`), `NobodyIsBlocked`
(`UnansweredIsWorkedOn`), `SendsStayBounded` (`SendsAreBounded`), `MarksAreTrue`
(`MarksTellTheTruth`). A key has one attempt at its work, whose record is the live one (`OneClaim`,
`ClaimsHold`), and what was performed under it is the request of the record
(`PerformedIsRecorded`). For the outbox: what was sent and what the claims still owe is together no
more than the attempts (`AttemptsCover`).

### Only model-checked

* Liveness, which is out of the prover's reach: `EveryQueuedRunEnds`, `PaidIsCredited`,
  `EveryRequestIsAnswered`, `EveryMessageIsTried`.
* What lies outside the hypotheses stated with the theorems. The configurations of the runs are within
  them, so each of these properties is checked on an instance of its theorem, and no more is claimed.

## Plan

1. *Done*: the modules and theorems above.
2. *Next proofs*: `FollowsTheNewest` with events of one stamp, told apart by what the first of them
   applied; `NoRunIsForgotten` with top-ups and a contended cap, for runs deferred once.
3. *Next models*: the spend flow of the model gateway (reserve, route, call, settle or release, over
   `CostEngine` with a provider that fails or is late), then the chain of the audit trail under
   concurrent appends, the acyclicity of the reporting tree under concurrent moves, and the versions
   of objectives and agents. Each would take the place of a run that has taught what it can.

## Not modelled, and why

* The model gateway and the executor: `RunEngine` has an execution only by how it ends, `CostEngine`
  a spend only by its reservation. What becomes of a hold that nobody settles is the sweep's, which is
  modelled.
* Objectives, agents, skills and their versions, the audit chain, the organization: planned, or
  records whose optimistic lock is the version check `CompanyLifecycle` already shows at work.
* Boards, chat, knowledge, connections, rewards, support, performance, reports, platform console,
  settings: mostly create, read and update, with little concurrency of their own.
* Single sign-on, Stripe, mail, storage and providers: protocols of external systems, here only
  by what the code in `src` relies on.
* The web application, shared UI, website, deployment and scripts: user interface and operations. They
  are most of the repository's lines, which is why the models cover a small share of them.

`PROJECT.json` lists each component with its reason.
