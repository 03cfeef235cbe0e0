# A TLA+ model of Real State OS

This directory holds the formal model of the rental-administration system in
`src/`: TLA+ modules translated from the code, TLC configurations that check
them on small instances, and TLAPS proofs for every size.  The first part is an
inventory of the whole system, modelled or not; then come the modules, the runs,
the proofs, what was seen on the way and what the model leaves out.

Paths are relative to `src/apps/api-node/src/` or, where they end in `.py`, to
`src/apps/api/app/`.

## 1. The system and its parts

Two back ends share one PostgreSQL database and one Redis: a Node API with
BullMQ workers (`apps/api-node`, Drizzle ORM) and an older Python API with its
own pollers (`apps/api/app`).  A Next.js front end calls both.

The trait that decides what is hard here: **almost no handler reads and writes
in one transaction**.  A handler SELECTs a row, checks its status, awaits other
calls (a bank, an LLM, Redis) and UPDATEs the row *by id alone*.  The columns
carry the whole protocol (`issueStatus`, `paymentStatus`, `agent_tasks.status`,
`operationalStatus`, ...); there is no row lock, no version column, and two
unique indexes that matter (`db/schema.ts:191` for charges, and
`property_expenses_idempotency_idx`).

| Part | State it keeps | Operations | Interacts with | Hard behaviour | What makes it correct |
|---|---|---|---|---|---|
| Billing (`modules/billing`) | `charges` | generate, add/remove item, issue | Santander connector, e-mail, unique index | read, bank call, write by id; a lost answer of the bank; two requests for one draft | one draft and one issued charge per contract and period; a boleto is its charge's own and for its amount; issued is final once no request holds the draft |
| Maestro (`handlers/maestro-compose.ts`) | inserts `charges` | compose the charges of a period | Billing's index | check, then insert | no second charge of a period |
| Payments (`modules/payments`) | `payments`, `charges.paymentStatus` | PSP webhook, match by amount, classify, reconcile by hand | charges | status written back from a stale row; two people, one payment | a settled charge has its payment; a payment stays once nobody is reconciling it |
| Santander webhook (`modules/webhooks`) | the same | record the payment of a boleto | bank, charges | repeated and overlapping deliveries; restart half way | recorded in the end, no more often than deliveries overlap, on the right charge |
| Agent tasks (`worker/agent-task-processor.ts`, `modules/agents`) | `agent_tasks`, a BullMQ queue, `agent_configs` | insert, enqueue, run, route by confidence, approve, reject | every handler, reviewers | worker dies between effect, row and acknowledgement; the database refuses a statement; reviewers race reruns; thresholds change | bounded reruns; only a rerun touches a decided task; a queued task is settled or its job has failed |
| Cobrador, Sentinela, scheduler, messages (`handlers/`, `worker/scheduler.ts`, `worker/message-processor.ts`, `modules/communications`) | `charges`, `message_records`, the queue `messages`, delayed jobs | issue and announce, schedule reminders, mark overdue, send | agent tasks, WhatsApp, e-mail | death or refusal between issue, row, job and provider; stubs that answer for a provider; several tasks for one charge; jobs that run days later | a notice is posted once per issue and sent once per run of its job; a row tells what the channel was told; a reminder arrives |
| Radar, Pagador (`handlers/radar-capture.ts`, `pagador-payout.ts`) | `property_expenses`; payouts are only events | capture a bill, pay bills, compute payouts | charges, contracts | a bill by two ways; a payout of many reads on moving tables | captured once; a payout is covered by what came in |
| Onboarding, contracts (`modules/onboarding`, `modules/contracts`) | `lease_contracts` | onboard, activate, change status, delete | Pagador, Maestro | status checked on a read, written by id | terminated is final for whoever comes later |
| Orchestrator, events (`modules/agents/orchestrator.ts`, `lib/events.ts`) | `event_logs`, deliveries | publish, deliver | outside subscribers | log and queue are separate; no retry | nothing inside reads them back |
| Contador, Renovador, inbox, AI assistant, integrations, auth, reports, storage | drafts, threads, embeddings | queries, single updates, I/O | | | |
| Python task queue (`services/task_service.py`, `workers/`, `routes/bulk.py`) | `tasks` | bulk insert, claim, run, fail, retry, resolve | charges | the claim is a read, later an update; a session that failed is of no use; an error ends the polling thread | charges per task are bounded; a status says what happened; pending is taken while a thread lives |
| Python notifications (`services/notification_orchestrator.py`, `integrations/`, `utils/resilience.py`) | dedup keys and counters in Redis or memory, breakers | send, fall back, retry, break | Redis, WhatsApp, e-mail | the stores switch under a send; two notions of a day; late answers; lost answers | no unexplained repetition; nothing suppressed that was not sent; a bound on the day's requests |
| Python rate limiter, cache, DLQ worker, ML; web front end; deployment | | | | | |

`PROJECT.json` lists each part with its sources and status, and under `hazards`
the lines where the behaviours of the fifth column bite.

## 2. The modules

| Module | What it is |
|---|---|
| `Billing` | charges, boletos, payments and the requests and jobs in flight |
| `ChargeBook` | what the billing and payment endpoints promise: every request is one atomic step on the current state |
| `BillingBook` | the refinement mapping: `Billing` implements `ChargeBook` but for the writes of requests that were overtaken |
| `AgentTasks` | task rows, BullMQ jobs, worker slots, reviewers, thresholds |
| `AgentBook` | what the agent-task pages promise: a run gives its row one result, people decide on what the row shows; `AgentTasks` implements it but for reruns and second decisions |
| `Collections` | Cobrador, Sentinela, scheduler and message worker over the days around a due date |
| `Payouts` | Radar, Pagador and the status of contracts in one month |
| `PyTasks` | the Python task table: bulk requests, polling workers, people |
| `TaskBook` | what the page of the Python tasks shows: rows that change one at a time, each from the status it shows; `PyTasks` implements it |
| `CircuitBreaker` | the breaker of `utils/resilience.py` as operators on its record |
| `Notifier` | Python notifications on several hosts with one Redis; uses `CircuitBreaker` |
| `*Proofs` | TLAPS proofs about the module they are named after |
| `MC*` | instances for TLC: symmetry, and values a `.cfg` cannot write |

Every awaited database, bank, queue or provider call is an action of its own;
what runs between two awaits is one action.

### Billing

| Variable | In the code |
|---|---|
| `charge[c]` | a row of `charges` (`db/schema.ts:156-192`): `slot` is (leaseContractId, billingPeriod), `extras` the line items besides the rent, `adj` = penaltyAmount - discountAmount, `net` netAmount, `issue`, `pay`, `boleto` (bank reference; `Mock` for a `MOCK-...` boleto) |
| `payment[k]` | a row of `payments` (`db/schema.ts:195-209`) |
| `bank[b]` | a boleto at Santander: registered, shown to the tenant, paid with an amount |
| `proc[p]` | a request or job in flight: where it is (`pc`) and what it has read |

| Operation | Actions | Source |
|---|---|---|
| `POST /charges/generate` | `GenerateCharge` (one INSERT) | `modules/billing/service.ts` |
| Maestro | `ComposeCheck`, then `ComposeInsert` or `ComposeSkip` | `maestro-compose.ts:78-184` |
| add / remove line item | `AddLineItem`/`RemoveLineItem` (`ReadForEdit`), `WriteLineItems` | `service.ts:241-305` |
| issue | `IssueRead`, `BoletoRegistered` or `BoletoUnavailable`, `IssueWrite` or `IssueConflict` | `service.ts:312-475` |
| Santander webhook | `SantanderFind`, `SantanderIgnore` or `SantanderAccept`, `RecordPayment` | `santander-service.ts:36-141` |
| PSP webhook | `NoticeForCharge`; or `NoticeMatch`, `ReadMatched`; then `RecordPayment`; or `NoticeUnmatched`, `ParkPayment` | `payments/service.ts:27-153` |
| manual reconciliation | `ReconcileRead`, `ReconcileReadCharge`, `ReconcileWrite` | `payments/service.ts:158-223` |
| check-overdue | `OverdueScan`, `MarkOverdue` per charge | `scheduler.ts:101-131` |
| process death | `Crash(p)`: what `p` had read is gone | |
| outside | `PayBoleto`: the tenant pays a boleto that was sent, any amount, once | |

`Ops` limits which requests clients make, so that a run can look at one group
of operations with more processes.  Money is in cents; the overdue job selects
*any* non-empty set of issued, open charges (dates are a choice); line items are
a set in which all but the rent cost the same; a boleto has one bank reference
where the code compares nsuCode, id or barcode; an insert takes a fresh id, and
when the ids of the instance are used up inserts stop.

### AgentTasks

A row (`task`) and its BullMQ job (`job`) are separate.  `InsertTask` and
`AddJob` are two steps of a producer, `LoseJob` stands for Redis refusing the
job or the producer dying in between.  A worker slot does `TakeJob`,
`MarkRunning` (whatever the row's status is), `Execute` (the handler, and after
it the routing of `executor.ts:58-79` by the thresholds read at that moment) or
`Throw`, `StoreResult` or the catch's `StoreFailure`, `CompleteJob`.  The
database may refuse any of the statements.  Inside the `try` that leads to the
catch (`Refuse`); the UPDATE before the `try` (`agent-task-processor.ts:19`) and
the one of the catch itself (`:49`) are outside it, so that the processor throws
and BullMQ fails the job at once (`FailJob`: jobs have one attempt), whatever the
row says.  `Crash` may happen between any two; an `Orphaned` job is queued again
(`Stall`) up to `MaxStalled` times (BullMQ's default is 1) and then given up.  `Reviewers` read a row and later
update it by id.  `output` and `action` are the number of the execution that
produced them (0: null; -1: a text of the reviewer's own); `runs` is history.
A job is orphaned only when no slot holds it: a worker that is alive and too
blocked to renew its lock is not modelled.

### Collections

`charge[c]` is how often the charge was issued and its payment status, `task[t]`
the run of a Cobrador or Sentinela handler, `outbox[purpose][c]` the jobs of the
queue `messages` in the order they were posted, each with the status of its
`message_records` row, and `day` the calendar.  The Cobrador reads
(`CobradorRead`), issues, posts each notice in two steps (`PostMessage` inserts
the row, `AddMessage` adds the job or finds Redis down) and schedules the
reminders, which have no row; the database may refuse the issue, a SELECT or a
row, and the error is caught (`CobradorRefused`).  The Sentinela reads two lists one after the other
and for each charge marks, inserts a Cobrador task and queues it.  The message
worker renders, sends and stores.  What the provider did (`sends`) and what the
channel answered (`state`) are two things: the answer of a provider that took the
message may be lost, and a stub answers `success: true` though nobody took it,
for WhatsApp whenever the call raises an exception (`channels/whatsapp.ts:124-131`)
and for a channel without a provider (`channels/email.ts:129-156`); `misled`
remembers that the two once differed.  The UPDATE of the row is outside the `try`
(`message-processor.ts:52`): when it is refused the job fails.  Any of them may die (`Crash`, `SchedulerCrash`, `MessageCrash`).  Agent
tasks appear here as runs of their handler; the pipeline around them is
`AgentTasks`.

### Payouts

Contracts with their `operationalStatus`, one issued charge each, bills with
their `property_expenses` row, and tasks that capture, pay and compute payouts,
one read or write per action.  People change a status in two steps (read and
check, write by id).  `captured`, `billsPaid` and `payouts` are the domain
events: no row records an announcement.  The fee is one amount per charge.

### PyTasks

`rows` is the table in the order of `created_at`; a worker claims the oldest
pending row it supports with a plain SELECT and updates it later by id, so
several workers may claim the same row.  A statement the database refuses makes
the session useless, so that the update to FAILED fails as well: that is
`CrashWorker` and `CrashRequest`.  The deployed worker is a thread
(`workers/worker_service.py:13-17`) that calls `run_once` without a handler: an
error ends it, idle or not, and leaves `up` without it, while `/health` still
answers.  `StartWorker`, a new container, may happen and need not.  People read a row and retry or resolve it
later.  Of the types the worker supports only GENERATE_MONTHLY_CHARGE is ever
inserted as pending; the others are `"other"`.

### Notifier and CircuitBreaker

A `send` looks up the dedup key, chooses a channel, passes the breaker, counts
the attempt against WhatsApp's daily limit, posts, and records the key.  Keys
and count are in Redis, and in the memory of the host whenever a call to Redis
fails (`RedisDown`, `RedisUp`, `Restart`).  Which events reach a provider and
which report their success is translated from the calls as they are, including
those that raise (`Reaches`, `Reports`).  One day is modelled: no key expires.
The two counters differ: the one in Redis is of the calendar day, the one in
memory of a window of 24 hours that the first attempt opens, and that attempt is
granted without a look at the limit (`whatsapp.py:214-216`).  So a host may begin
the day with a window opened the day before (`aged`), which ends at some time
(`WindowEnds`).  Which counter a client uses is settled when it is built
(`BuildClient`): one built while Redis is away uses the memory for good.

## 3. The runs

`CHECK_DEADLOCK FALSE` everywhere: ids, rows, days and tasks run out in a finite
instance, and then the system rightly stops.

### Runs that pass

| Run | Question | Instance |
|---|---|---|
| `billing_settling` | two processes with stale snapshots and repeated notices: `OneLivePerSlot`, `StoredBoletoIsOwn`, `BoletoPaymentOnOwnCharge`, `OverdueWasIssued`, `SettledIsBacked` | 2 processes, 2 charges of one slot, 1 boleto, 2 payments, amounts below, at and above what is due |
| `billing_overlap` | two processes generate, edit, issue, take payments of both kinds, reconcile and mark overdue: `Billing` implements `ChargeBook` but for overtaken writes; `IssuedIsFinal`, `ReconciledStays`, `BoletoAmountStays` | 2 processes, 2 charges of one slot, 1 boleto, 1 payment, 1 line item |
| `billing_restart` | two processes that may die at any step: `RecordedPerRequest`, and every paid boleto is recorded in the end unless another issue took it off its charge (`PaidBoletoIsRecorded`) | 2 processes, 2 charges, 1 boleto, 3 payments (one more than there may be records) |
| `tasks` | three deaths or refused statements, two reviewers, thresholds in any order and changed at any time: `RunsBounded`, `RunningIsHeld`, `ApprovedIsOnRecord`, `VerdictIsFinal`, `EnqueuedIsSettled`, and the module implements `AgentBook` but for reruns and second decisions | 1 task, 2 slots, 2 reviewers, 3 confidences, 1 stall |
| `notify` | two threads send one notice while Redis and the process come and go: `SuppressedWasDelivered`, `RepeatHasCause`, `DailyLimit`, `ClosedBelowThreshold`, `SendReturns` | 1 host, 2 attempts, limit 1, threshold 2, 1 outage, 1 restart |
| `py_tasks` | one or two workers, a bulk request, a person who retries, a thread that ends: `ChargedOnce`, `ChargesBounded`, `DoneMeansCharged`, `RunningIsHeld`, `BatchIsAccounted`, `PendingIsTaken`; and with one worker the module implements `TaskBook` | 3 rows, batch of 2, 1 retry, 1 death |
| `collections` | two tasks, the due date and the day after, one fault anywhere: `NoticesMatchIssues`, `RowTellsDelivery` | 1 charge, a tenant with a phone, 1 reminder, the scheduler's notice |
| `payouts` | two tasks of any kind while two people change contracts and tenants pay, one death, refused statement or lost event: `CapturedOnce`, `PayoutIsCovered`, `TerminatedIsFinal` | 2 contracts of 1 owner (one of them changes), 1 bill |

Why the bounds are enough.  Each property relates two or three things (two
charges of one slot, a payment and its charge, a task and its job, a message and
its row, a payout and the contracts of an owner), and the instances have that
many.  The races are between two requests, each with at most one stale row, so
two processes, workers or threads show them.  The amounts make all three
outcomes of `classifyReconciliation` occur; 4 - 1 against a bill of 2 makes a
payout that is positive, that is cut, and that is zero.  Three faults against
`MaxStalled = 1` are the two deaths that let BullMQ give a job up, and one more
for a statement refused on the way.  With Redis away once, the daily count is
kept in both places; limit 1 makes each overflow by itself, and the first attempt
of a window, which is always granted, is then all it grants.  The due date and
the day after hold the notice, the scheduler's notice, the overdue scan and a
reminder in time or already late.  E-mail and phone notices take the same steps
one after the other; the run with both, before the due date too, is
`vio_never_reminded`.  What the instances keep small for TLC's sake, the proofs
below cover for any number.

**Requests that overlap.**  The code checks on a read and writes by id, so a
request can be overtaken: what it has read is no longer so when it writes.  No
property assumes that away.  They say instead what an overlap can do:

- `Overtaken(p)` is that the amount, the status or the payment that `p` rests its
  write on has changed, and `Timely` that a step is not the step of such a
  request.  `ImplementsBook` of `Billing` and `BoletoAmountStays` are about the
  timely steps, in every state that untimely ones may have led to: whatever
  happened before, a request that was not overtaken acts as one atomic request,
  and only one that was can part a boleto from the amount of its charge.
- `IssuedIsFinal`, `ReconciledStays` and `TerminatedIsFinal` are about a row that
  is closed and that nobody has in hand (`Sealed`, `Filed`, `Closed`): from then
  on it stays so, however many requests come.  The guards of the code hold for
  everybody who comes later, not for those already past them.
- `RecordedPerRequest` counts: as many records of one boleto as requests can run
  at once, and no more, however often the bank repeats itself.
- The properties of agent tasks run with deaths, refused statements and two
  reviewers.  Those of verdicts except a task whose job stalled (`stalls > 0`);
  `ImplementsBook` excepts besides a task that somebody decided while another
  person had it open (`Undisturbed`).
- `ChargedOnce` and the `ImplementsBook` of `PyTasks` are about one worker and one
  person at work, which they say themselves; `ChargesBounded` is about any number.

### Runs that find a disagreement

| Run | The repository says | The code does |
|---|---|---|
| `vio_webhook_twice` (`BoletoRecordedOnce`) | `modules/webhooks/router.ts:8`: idempotency checks | the check and the insert are two steps; overlapping deliveries record twice |
| `vio_escalated_ran` (`EscalatedNotRun`) | `README.md:157` of the repository: below 50 % confidence, escalation for a person's approval | the handler runs, with all its effects, before its confidence is looked at (`executor.ts:58`) |
| `vio_notify_twice` (`NotifiedOnce`) | `notification_orchestrator.py:156`: no duplicate within 24 hours | `send_text` returns an object the caller reads as a dictionary; the message is out, the send counts as failed, the key is not recorded, the next call sends again |
| `vio_never_reminded` (`ReminderReachesTenant`) | `registry.ts:35`: the Cobrador sends reminders until the payment | reminders use the template `charge_reminder`, which `templates.ts` does not have: every reminder job fails |

### Fairness

*Billing.*  A request in flight goes on (`WF` of `Continue`): Node runs every
handler that is not waiting.  The bank repeats a notice until it is answered
(`SF` of `SantanderFind`), and `SF` of `SantanderAccept` and `RecordPayment`
says that restarts do not hit every attempt at the same step; strong, because
`Crash` disables these steps again and again.  Nothing is assumed of clients,
tenants or the overdue job.

*AgentTasks.*  Producers, workers and BullMQ's stalled-job check go on (`WF`); a
waiting job is eventually taken although the slots are wanted by other jobs too
(`SF` of `TakeJob`: the queue is first in, first out).  People need not act.

*Notifier.*  A thread goes on with its own work (`WF` of `Work`): every HTTP
request has a timeout.  A call to Redis is taken to answer or to fail; the
clients set no timeout for a Redis that hangs, and such a call would hold
`send` as long.  Redis and callers need not do anything.

*PyTasks.*  A polling thread that is alive goes on (`WF` of `Work`).  Nothing
starts a dead one: `PendingIsTaken` promises nothing once no thread of a deployed
worker is left.

*Collections.*  Days go by, and the task, scheduler and message workers take
what is ready (`WF`); only `vio_never_reminded` uses it, without faults, so that
the reminder is lost by the code and not by a stutter or a death.

### Mutants

Each property has a mutant: a mapped definition with a plausible bug (a dropped
guard, a lost case, a wrong column) stands beside the original, marked
`Mutant of`, and TLC must find the property violated when it takes the
original's place.  The mutants are the tests of the properties.

## 4. The proofs

Everything below is checked by TLAPS for every value of the constants, from the
`ASSUME`s of the modules (finite sets, bounds that are naturals, `None` outside
the sets, reminders on different days) and, where the table says so, from one
more assumption written in the theorem itself.

| Theorem | Property of the runs | For which systems |
|---|---|---|
| `BillingProofs!TypeCorrect`, `AtMostOneLive`, `OverdueOnlyIssued`, `BoletoIsOwn`, `BoletoPayments` | `TypeOK`, `OneLivePerSlot`, `OverdueWasIssued`, `StoredBoletoIsOwn`, `BoletoPaymentOnOwnCharge` | any number of overlapping requests, any deaths |
| `BillingProofs!SettledCharges` | `SettledIsBacked` | the same, without manual reconciliation (which moves a payment away from a charge that stays settled) |
| `BillingBookProofs!BillingImplementsBook`, `BoletoAmountHolds` | `ImplementsBook`, `BoletoAmountStays` | any number of overlapping requests, any deaths; both are about the steps of requests that were not overtaken |
| `BillingBookProofs!RecordsAreBounded`, `ReconciledPaymentStays`, `IssuedStaysAsIs` | `RecordedPerRequest`, `ReconciledStays`, `IssuedIsFinal` | any number of overlapping requests, any deaths |
| `BillingBookProofs!OnlyEditsChangeAmount` | | the same without edits of line items: every boleto is for the amount of its charge, overtaken or not |
| `AgentTasksProofs!TypeCorrect`, `RunsAreBounded`, `RunningHasAJob`, `ApprovedHasOutput`, `VerdictStays`, `PipelineImplementsBook` | `TypeOK`, `RunsBounded`, `RunningIsHeld`, `ApprovedIsOnRecord`, `VerdictIsFinal`, `ImplementsBook` | any workers, slots, reviewers, deaths and refused statements |
| `NotifierProofs!TypeCorrect`, `SuppressedDelivered`, `RepeatsHaveCause`, `ClosedIsBelow`, `DailyLimitHolds` | `TypeOK`, `SuppressedWasDelivered`, `RepeatHasCause`, `ClosedBelowThreshold`, `DailyLimit` | any hosts, threads, outages, restarts, and any limit, 0 too |
| `PyTasksProofs!TypeCorrect`, `DoneIsCharged`, `RunningHeld` | `TypeOK`, `DoneMeansCharged`, `RunningIsHeld` | any workers, people, requests, deaths |
| `PyTasksCountProofs!BatchesAreAccounted`, `ChargesAreBounded` | `BatchIsAccounted`, `ChargesBounded` | the same |
| `PyTasksCountProofs!ChargesAreSingle`, `TableImplementsBook` | `ChargedOnce`, `ImplementsBook` | one worker and one person, as the properties say; any rows, requests, deaths |
| `CollectionsProofs!RowsTellDelivery`, `NoticesAreMatched` | `RowTellsDelivery`, `NoticesMatchIssues` | any charges, tasks, days, deaths, refused rows and jobs, and any answers of the channels |
| `PayoutsProofs!CapturesAreUnique`, `PayoutsAreCovered`, `TerminatedStays` | `CapturedOnce`, `PayoutIsCovered`, `TerminatedIsFinal` | any tasks, contracts, owners, bills, people, deaths |

### The arguments

*BillingProofs.*  None of the invariants is inductive: a request that holds an
old row may write it back.  Each is strengthened by what holds of a row **in
hand**, that is, of `proc[p]` between its read and its write: `ChargeInHand`
(the row exists, its slot is the one that was read), `DraftInHand`,
`OverdueInHand`, `BoletoInHand` (the boleto returned by the bank was registered
for the charge being issued), `BackedInHand`, and for payments `BoletoFresh`,
`PaidInHand` and `ParkedIsNotBoleto`.  The facts that survive other requests
are those no step takes away: a slot never changes, an issued charge is never a
draft again, a boleto stays registered.  The proofs are laid out the same way:
`OwnMoves` says what a step does to the process that takes it, `OthersStay` that
it leaves the others alone, `MovesReach` where its `pc` may go, and a family
`StepChanges...` what may happen to one table; each invariant then looks only at
the steps that touch its tables.

*BillingBookProofs.*  What a process has read may be overtaken, but not all it
knows: `Knows(proc[p])` holds what no other step can take away (the charge
exists, an issued charge stays issued, the amount a boleto was registered for or
paid with, the amount of a payment), and `StillKnows` says so for one process and
a step of another.  One lemma per operation (`KnownEdit`, `KnownIssue`,
`KnownRecord`, ...) says what its steps leave known.  From there the argument has
three uses.  A step in time has one *effect* (`StepHasEffect`: `Drafts`,
`Reprices`, `Issues`, `Reissues`, `FallsDue`, `Receives`, `Assigns`, `Parks` or
`Nothing`), since what the process knows and what was not overtaken are together
what an atomic request would have read, and `EffectIsBookStep` turns each effect
into a step of `ChargeBook`.  `AgreesStays` looks only at the effects that touch
the amount or the boleto of a row.  `SealedStays` and `FiledStays` need no
effects: a step writes a charge or a payment only if its process has it in hand,
and the guards let nobody take a sealed one in hand.  The bound on records is a
count, `Counted(b)`: once `b` is recorded nobody joins those who will record it
(`NobodyJoins`), and each record removes one of them (`OneMoreRecord`).
The last part takes edits away (`UneditedInv`): a charge that exists then never
changes its amount (`AmountStays`), so a request that waits for its boleto asks
for the amount the charge still has (`AmountInHand`), and every boleto at the
bank, the lost and the replaced ones too, is for it (`AmountAtBank`).

*AgentTasksProofs.*  `Inv` counts: a job has been taken at most `stalls + 1`
times, a slot holds a job that is active, no two slots hold the same job, and
every stall is paid for by a fault (`FaultsCounted`), so that a job that was given
up or failed has cost one more.  `RowsInv` adds what is true of the rows: an
approved row has an output on record whatever happened (`Whole`), and as long as
the job of a task has not stalled (`Calm(t)`) its row's status, output, action and
job agree (`Coherent`, `InStep`, `UntakenIsQueued`) and the output a reviewer has
read is still the row's (`ReadingsFresh`), because a row that waits for a person
then has no live job.  Every step then touches the row of one task that has no
verdict (`Touches`), decides one (`Decides`) or leaves the rows alone, which gives
`VerdictIsFinal`; `WorkerKeepsBook` and `ReviewKeepsBook` turn each change of an
undisturbed row into a step of `AgentBook`.  A rerun that marks a row running
twice, or stores a result over a verdict, would have no such step.

*NotifierProofs.*  `Orderly` says, of a notice without an excuse (no overlap,
no lost answer, no outage, no death), where in the thread and in which store it
can be found; a second delivery would have to pass a key that `Orderly` says is
there.  A breaker's `Closed` bound holds because a late failure either counts
from below the threshold or finds the breaker open.  For the daily limit,
`Granted` counts permissions: the requests sent and the threads about to send one
are no more than what the counter of Redis, the windows in memory that are open,
those that have ended and the processes that are gone have granted.  A window of
the day before had granted one attempt at least that was not of today, which is
why two windows allow one request less than twice what one does.

*PyTasksProofs.*  `Table` relates the columns of each row, `Known` what each
worker, person and request knows about the row in hand although others may have
written it since, for instance that a worker which charged the tenant leaves the
charge behind whatever it writes.

*PyTasksCountProofs.*  Three counts.  `BatchInv`: the row of a bulk request is
nobody else's, so its children are as many as the request has inserted.
`BoundInv`: a worker charges once for each time it takes a row and a row can be
taken once by each worker for each time it was pending, so charges made and
charges about to be made stay below workers times rounds.  `AloneInv`: with one
worker and one person, whoever has the row in hand still knows it, so a row that
was charged is never pending again.  The same knowledge is what `TaskBook` asks
for: a worker that marks a row running finds it pending, one that finishes finds
it running, charged if it says DONE and not charged if it says FAILED, and the
person finds the status that was read.

*CollectionsProofs.*  `Box` is the invariant of one message (its row, its job,
what the channel answered, how often it was handed out and sent), `Held` that a message whose job is still to be
added is held by exactly one task, so nobody else adds it.  `Tally` counts, for
each charge and each way to reach the tenant, the notices there are and the runs
that will still post one: issuing adds one run, posting turns a run into a
notice, and a death, a refusal or an unreachable tenant only takes
runs away.  `Repeats` bounds the notices of the scheduler by the runs of its job.

*PayoutsProofs.*  A capture is announced by the task that inserted the row, and
the unique index lets one task insert it (`Announcing`).  A person writes only a
contract in hand and takes no terminated one in hand (`KeptStep`).
For the payouts `Sound` says what a run has in hand: it has counted only charges
that are paid and, of each contract it is done with, it has deducted no less than
the bills that were paid when it began.  Neither is ever taken back, since a paid
charge stays paid and a paid bill keeps its value (`Grows`), so it does not
matter how old a read is; when the run announces an owner, the sums over the
contracts give `Covered`.  Those sums are folds over finite sets, and their laws
(`SumNat`, `SumMonotone`, `SumWithout`, `SumPart`) are proved without an
induction rule: strict inclusion is well founded on the finite subsets of a set,
so a false law would have a smallest set on which it fails (`SmallestSet`), and
taking one element away from that set refutes it.

### Only model-checked

Liveness: `PaidBoletoIsRecorded`, `EnqueuedIsSettled`, `PendingIsTaken` and
`SendReturns`.  They rest on fairness, and so on ENABLED, which the prover does
not do.  Every other property of a passing run is stated by a theorem above.

## 5. Seen while modelling

What the code does where a reader might expect otherwise.  The first four are
the runs of section 3; the following were met on the way and are in the model as
the code has them (or outside it, where it says so).

*Billing.*  Issuing is checked on a read (`billing/service.ts:325`) and written
by id (`:335`), so two requests may register two boletos for one charge, of which
the row keeps the last; a tenant who pays the other one finds the payment
forgotten, because its notice matches no charge (`santander-service.ts:44`).  An edit recomputes the net amount without the penalty
(`:258`), while statements include it (`payments/statement.ts:67`).  The overdue
job and the Sentinela write `overdue` by id after their list was read
(`scheduler.ts:116`, `sentinela-watch.ts:131`) and may overwrite `paid`.  A bank
call that fails is stored as a mock boleto with status `generated`
(against the comment at `billing/service.ts:310`).  After issuing, a second draft of
the same period can be generated (against the comment at `:134`).

*Agents.*  A failed task is stored as failed and its job completes, so BullMQ
neither retries it nor moves it to the dead letter queue
(`agent-task-processor.ts:47`, `workers/dlq.ts:6`).  When the database refuses the
UPDATE to running or the one of the catch (`agent-task-processor.ts:19`, `:49`),
the job fails and the row keeps the status it had.  `worker.ts:28-42` dispatches
two of the crons only: Maestro, Sentinela, Pagador and Contador crons do
nothing, and no caller passes an event to `handleDomainEvent`.  The review task
of an onboarding is a row without a job.

*Collections.*  Reminders are not cancelled by a payment.  The Cobrador task the
Sentinela inserts for an overdue charge finds it already issued and sends
nothing (`sentinela-watch.ts:139`).  A death between issuing and posting leaves
the tenant uninformed, because the rerun finds the charge issued.  A failed
delivery is not tried again.  A WhatsApp call that raises an exception and an
e-mail without a provider are answered by a stub with success, and the row says
sent (`channels/whatsapp.ts:124-131`, `channels/email.ts:129-156`); an error the
provider answers says failed.

*Payouts.*  Nothing in the code approves a `property_expenses` row.  A payout
that runs again announces everything again; two overlapping `pay_bills` runs may
both announce the sum of a bill.  Contracts terminated before the run are not paid out although
their tenants paid.  The expenses of a property are deducted once for
each of its active contracts.  The Contador's statement does not deduct expenses,
the Pagador's payout does.  Two people who change the status of a contract at once can
revive a terminated one.

*Python.*  Bulk rows of types the worker does not support are never picked up
(`bulk.py:361`); the example of the bulk endpoint gives `reference_month` where
the worker needs `month_ref`.  Nothing calls the DLQ's `push`.  A dead worker's
row stays RUNNING.  An error of the database ends the polling thread of
`workers/worker_service.py:13-17` for good while `/health` still answers.  The
counter of WhatsApp in memory grants the first attempt of a window without looking
at the limit and counts 24 hours, not a day; a client built while Redis was away
never goes back to Redis (`whatsapp.py:214`, `:273`).  `payment_confirmed` by WhatsApp raises a TypeError and has
no fallback; the e-mails for `contract.expiring` and maintenance never reach the
provider.  A half-open breaker lets every caller through (`resilience.py:87`).

## 6. Not modelled

More than half of the implementation's lines are the web front end, which keeps
no state the server relies on; most of the rest are texts (templates, prompts,
PDF and e-mail layouts), floating-point heuristics, CRUD of one statement and
read-only queries.  None of that has behaviour over several steps, and a model
of it would restate it.  So the lines that have a definition here are a small
share of all lines, while the parts with a protocol (billing, payments, agent
tasks, collections, payouts, the Python tasks and notifications) are covered
nearly whole.  The components `PROJECT.json` marks `not_modelled`, with the reason:

| Part | Why not |
|---|---|
| Contador and statements | sums over rows that `Payouts` and `Billing` model, and one e-mail; nothing starts it |
| Orchestrator, domain events | `handleDomainEvent` has no caller; a delivery is one request to the outside with one attempt; what emitters lose is modelled at the emitters |
| Renovador | writes drafts and tasks without jobs, which nothing continues |
| Inbox; AI assistant, ingestion | single updates, retrieval and calls of a language model |
| Integrations | stored credentials; the bank, the one connector with behaviour, is in `Billing` |
| Legacy Node workers, Python dead letter queue | nothing starts or fills them |
| Auth, middleware, reports, analytics, storage | stateless checks, queries, files |
| Python rate limiter and cache | a counter with an expiry, a read-through cache |
| Python charges, contracts, webhooks, other routes; ML | demonstration services of one statement each; scores |
| Web front end, deployment | see above |

Inside the modelled parts: billing schedules, second copies, PIX strings and the
rounding of the calculator; boletos that expire or are cancelled at the bank;
statements; the texts of messages and the `message.*` events; the loops around
one contract in the Maestro; edits of contract fields other than the status;
`pay_bills_manual`; the providers' webhooks, bulk sends, backoff delays and the
expiry of deduplication keys in the notifier; the other bulk endpoints and the
monthly billing job of the Python worker.

### What could come next

A composition of `AgentTasks` with `Collections` and `Payouts`, so that the
reruns of a Cobrador or Pagador task carry the status and the review of its row;
here the handlers are composed with the pipeline only through what a run may do
(be queued, run again after a stall, be given up).
