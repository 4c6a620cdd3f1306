# Formal models of the bookkeeping backend

This directory holds TLA+ models of the backend under `src/apps/backend`: modules that TLC
checks on small instances and theorems that TLAPS proves for every instance. `PROJECT.json`
maps every definition to the lines it models, every run to its properties, every property to
a mutation of the model that breaks it, and lists the hazards the properties are for.

Run inside this directory:

    tlc -workers 2 -config classification_race.cfg MCClassification
    tlapm ClassificationProofs.tla

## 1. The system

A tenant (a small business) links its bank account through Cas. Cas reports every bank
transaction by webhook; older ones come in Excel files. An AI worker assigns a debit and a
credit account (TT133); what it is not sure of goes to Human Review; people may override
anything. Plans limit the transactions and Copilot turns per billing cycle; a partner manages
tenants and plans.

State lives in PostgreSQL (through Prisma), in Redis (keys with a lifetime) and in two BullMQ
queues. The backend is one container (`docker-compose.yml:34-38`) in which the API, the queue
workers and the scheduled jobs share one event loop. Every handler is an async function: between
two awaits any other handler, worker or job may run, and what it asks PostgreSQL and Redis to do
takes effect in any order with what others ask. A `$transaction` is atomic but, at PostgreSQL's
default isolation, its reads are not protected: only unique indexes and conditional updates are.

| Component | State | Operations that change it | Hard part | What makes it correct |
|---|---|---|---|---|
| Cas webhook (`banking`) | `transactions`, Redis idempotency keys | `handleCasWebhook` | retries, crash between commit and enqueue, expired keys | one row and at most one job per transaction; counted once; truthful replies |
| Excel import (`import`) | `transaction_import_batches`, `transactions` | `importRows` | overlapping uploads, partial enqueue | every stored file row in exactly one batch |
| Quota accounting (`billing/transaction-quota`) | `subscriptions.transactionUsedThisCycle`, `usage_logs` | `incrementUsage`, `incrementUsageInTx` | stale subscription objects | usage = rows stored; never overbilled |
| AI worker (`ai`) | `transaction_classifications`, `transactions.status`, `audit_logs` | `processTransaction` | duplicate and redelivered jobs, override in between | no AI result over a person's; status and row agree |
| Human Review, override (`classification`) | the same | `confirm`, `correct`, `skip`, `overrideClassification` | several reviewers, worker in between | one decision per item; audit trail explains the status |
| Transactions (`transaction`) | the queue | `reclassify`, `bulkReclassify` | duplicate jobs | harmless whatever is queued |
| Billing (`billing`) | `subscriptions`, `payment_orders`, `usage_logs` | `upgrade`, `confirmPayment`, `createOverageOrder`, `processEndOfCycles` | check-then-act on orders, cycle reset against running calls | a paid order has its subscription; never only cancelled rows; counters fall at a cycle's end only (that an order is applied once is refuted by `billing_twice`) |
| Subscription cache (`subscription-query.adapter`) | Redis copy, 60 s | `findActive`, `invalidateCache` | fill after invalidation | callers that hold an old copy break none of the rules of billing (that the quota of chats holds is refuted by `billing_chats`) |
| Partner (`partner`) | `subscriptions`, `plan_pricing` | `setTenantPlan`, `suspendTenant`, `activateTenant` | race with payments | the tenant is never left without a subscription |
| Onboarding (`onboarding`, `cas`) | `cas_grants` | `handleBankingCallback` | webhook before the grant exists, relinking | a grant belongs to one tenant |
| OTP (`otp-flow.service`) | Redis envelopes | `send`, `verify` | concurrent attempts | what is counted against a code are wrong answers to that code |
| Sessions (`auth`) | Redis refresh tokens | `issueTokens`, `refresh`, `logout`, `revokeAllRefreshTokens` | concurrent refresh and revoke | a revoked session stays revoked; one that works and is off the record is accounted for |
| Team (`team`) | `users`, Redis invites | `invite`, `consumeToken`, `removeMember` | check-then-act | an invited member is left with a link that works (the rule of the last admin is not modelled) |
| Copilot (`ai/copilot-*`) | event queue, SSE counter, quota counter | `runTurn`, `streamChat`, `incrementAndNotify` | push events into a pull generator, abort | every event delivered in order, every turn ends; what is counted was kept, what was answered is stored |
| Notifications (`notification`) | `notifications`, email queue | `createOncePerCycle`, ... | check-then-act | one notice per cycle |
| Reports, audit log, chart of accounts, settings, profile, analytics | tables | queries, single-row updates | none | - |
| Frontend, shared types | none of their own | - | - | - |

The components meet in these places: the `transactions` table (intake inserts, the worker and
the reviewers move `status`), the `ai-classify` queue (intake and reclassify add, the worker
takes), the `subscriptions` row (intake and Copilot count, billing and the partner replace it,
the nightly job resets it, the guards read a copy) and the Redis keys of a user (sessions,
codes, the count of open streams).

## 2. Plan

1. **Done.** `Classification` with `TransactionLifecycle`, `Ingestion`, `TransactionPipeline`:
   a transaction's way from Cas or a file to the books.
2. **Done.** `Subscriptions`: orders and their confirmation, the partner's plan change,
   suspension and activation, the end of a cycle, overage orders, the Redis copy, Copilot's
   quota.
3. **Done.** `CopilotTurn` over `TurnQueue`, with `EventChannel` as what the queue promises;
   `Account`: the link of an invitation, sessions, and the change of the password by a code.
4. **Done.** Proofs about `Classification`, `Ingestion`, `Subscriptions`, `CopilotTurn` and
   `Account`, and that `TransactionPipeline` implements both of its halves; what a Copilot turn
   leaves behind; what an answer to Cas is worth, from the webhook to the books.
5. **Open.** The composition of `Subscriptions` with `Ingestion` (usage counted by the same
   counter the nightly job resets); the once-per-cycle notices; onboarding with several tenants
   and one grant; the rule of the last admin, which needs several members in `Account`.

Bounds stay at the smallest size at which the race a module is about can happen with one
bystander; see each run below.

## 3. The modules

### Classification

One tenant's transactions after they are stored. `txn` is `transactions.status` ("absent" when
there is no row), `cls` the `transaction_classifications` row (`NoRow` when there is none),
`audit` the set of audit entries of the row, `jobs` the queued `ai-classify` jobs per
transaction, `owed` the rows whose intake has still to add a job, `worker` and `request` the
program counters of worker slots and of people's requests. Of a row only `status`,
`classificationType`, `classifiedBy` and the origin of the two accounts are kept: `accounts`
is "ai" or the person whose request supplied them. It is not a column; it is what lets a
property ask whether `classifiedBy` tells the truth.

- `StartJob`/`DiscardJob` are `processTransaction` up to its status check, `CommitVerdict` its
  `$transaction`; the embedding and the AI call lie between them. The verdict, a comparison of
  a score with the tenant's threshold, is chosen freely. A second classification of one
  transaction violates a unique index: `FailJob`. The jobs are added without options, so they
  have one attempt. `JobThrows` is an exception out of any await, `JobStalls` a lock that
  expired: BullMQ hands the job out again whether or not the first run is alive.
- `OpenReview` is `findInQueue`; `Confirm`, `Correct` and `Skip` are conditional updates
  inside one `$transaction`; `LoseConflict` is their `count === 0`.
- `OpenOverride` reads whether a row exists; `Override` updates or creates it, in a statement of
  its own; `OverrideCollides` is the unique violation.
- `OpenReclassify` reads the pending ids, `EnqueueReclassify` adds one job; `RequestDies` stops
  any request between two awaits.

### TransactionLifecycle

The documented life of a transaction: received once, judged once, decided by one person,
final. Overrides are invisible here because they do not touch `transactions.status`.

### Ingestion

One tenant, one billing cycle. `hook[d]` is the program counter of a webhook call, `batch[b]`
that of an upload together with its batch row; `key` the Redis keys, `used` and `overage` the
two quota figures, `linked` the grant row, `active` the subscription's status. `seen` is the
usage a request read before it needed it. `HookFails`, `ImportFails`, `SuspendTenant` and
`ExpireKey` are the failures, counted by `MaxFaults`. Subscriptions start a cycle at zero usage
and empty tables; the unit of overage is one `usage_logs` row, because that is what
`createOverageOrder` counts. Of the plans, pro behaves like starter and is left out.

An upload is a set of row ids: `generateTransactionId` hashes tenant, row number and
contents, so the ids of one file differ and two uploads of one file share them. A row another
upload has inserted but not committed cannot be seen; PostgreSQL blocks on the unique index and
then fails the later one. The model lets both go on and fails the one that commits second.

### TransactionPipeline

`Ingestion` and `Classification` over the same `txn` and `jobs`. The intake actions of
`Classification` are replaced by the real ones, with `owed` defined from the intake's program
counters; `ImplementsClassification` says that this is sound, on the instance by TLC and for
every instance by `PipelineProofs`. `MaxJobFaults` bounds the failures of jobs, as `MaxFaults`
bounds those of the intake.

### Subscriptions

One tenant. `sub` and `order` are the tables, in the order of creation; `log` the moments of
the overage logs; `cache` the copy of the active subscription in Redis; `request[r]` what a
call of the API, a webhook of PayOS or the nightly job is doing; `clock` the next moment
`new Date()` can return. It grows with each step that takes a moment, so "since the cycle
began" and "the latest" mean in the model what they mean in the code.

- Every read through `SubscriptionQueryAdapter` is `StartRead`, then a row read and a fill if
  Redis had nothing; between the row and the fill anything may happen, and a caller may go on
  with a copy that is no longer true. Expiry of the copy is an action at any time, and a
  refusal of Redis is a fault the caller survives, as in the code.
- A confirmation finds the rows to cancel inside a `$transaction` (`BeginSwitch`, kept in
  `doomed`) and its writes appear at the commit (`CommitSwitch`): nobody sees the statements of
  an open transaction. Whether the order is paid is read before the transaction, in a step of
  its own, because the code does so. The partner's plan change reads the latest row
  (`StartSetPlan`) and writes in a later step (`CommitSetPlan`).
- The nightly job reads the subscriptions that are due, and for each of them makes an overage
  order through the cache and resets the counters; if the order fails the reset comes all the
  same, and if the reset fails the next row does (`NightlyRefused`). `StartCron` lets one
  nightly job run at a time. Nothing in `billing-cycle.service.ts` locks it; it is because one
  container fires the job once a night.
- `Init` is a starter tenant that has used its quota and has an unpaid order for a dearer plan:
  a state every tenant can be in, from which the races are few steps away.

Amounts are left out: `charged` is the set of overage logs an order was computed from, which is
what the amount depends on.

### EventChannel, TurnQueue, CopilotTurn

`EventChannel` is a FIFO channel per turn that is open, then ends or fails once. `TurnQueue`
is the hand-written queue of `copilot-stream.service.ts`: a buffer, a stored resolver for a
reader that waits, and a flag; its operators are pure functions of the queue record.
`CopilotTurn` uses them. A streamed turn has three actors on one event loop, which yield to
each other at every await: the generator that writes the response (`pc`), the closure that
awaits the model, pushes events and persists (`pump`), and the close event of the request
(`heard`). Node may deliver the close event at any time after the connection is cut, or never
if the handler ended first. A turn asked over JSON has `pc` alone.

`chat` is the chat panel: it streams, and asks again over JSON when the stream is lost or ends
without a `done` frame. `slots` is the Redis counter of open streams (`INCR`, `EXPIRE` with the
comparison, and the `DECR` in `finally` are steps of their own), and streams of other tabs are
followed only as far as they take slots. Of a tab only the protocol is kept, not what it shows.
A `DECR` may fail and leave the slot taken. `PlanGuard` and `CopilotQuotaGuard` read the
subscription one after the other, so the first may pass on a copy that is gone when the second
looks: it finds none, lets the turn through, and `incrementAndNotify` has nothing to count it
on. `Guard` chooses this freely (`free`), and `Count` then does nothing. `rows` are the INSERTs
a turn has issued. An exception of the model call is a fault that reaches the pump; the adapters
of today catch most of them themselves, and one added later that does not is covered.

### Account

One member. Every call of the API is a process and every await on Redis or PostgreSQL a step.
`live` and `tracked` are the refresh keys and the set that lists them, `link` and `named` the
invitation's two keys, `otp` and `cooling` those of the code. `issued` are the refresh tokens
handed out: refresh and logout take any of them, dead or alive, on record or not, because the
code looks for the key of whatever token it is shown. `revoked`, `missed` and `tried` are history
variables, for the properties alone: what a password change ended, what was put on record
between its reading and its deletion of the record, and the envelopes a wrong answer was given to. A
pipeline of Redis commands is one step where the code uses one. `CallDies` stops a call between
two awaits, and stands for a refusal there too (the tenant is suspended); `SessionExpires` and
`LinkExpires` are what the lifetimes do.

Three things the code does that the properties are worded around. A session issued while a
password change reads and deletes the set works on and is on nobody's list (`missed`), though
`00-current-state.md:105` says that all refresh tokens are revoked: `LiveIsTracked` names these
sessions, `RevokedStayDead` is about the others. Two overlapping invitations leave two links that
work: `SomeLinkWorks` says there is one. A wrong answer writes back the envelope it read with one
more attempt, also over a newer one, so answers given at once count as one and a code that was
replaced or used can come back: `AttemptsAreAnswers` says that a count on a code always stands for
wrong answers to that code.

### MC modules

They add the symmetry sets and, in `MCSubscriptions`, a second initial state: the same tenant one
transaction above its quota. Sizes are in the `.cfg` files. Faults of AI jobs are in
`classification_race`; in the composed system they are covered by `BooksImplemented`.

## 4. What the runs check

| Run | Instance | Question |
|---|---|---|
| `classification_race` | 1 transaction, 3 people, 2 workers, 2 waiting jobs, 1 fault | every race on one row: two jobs at once, two reviewers, an override, a redelivered job |
| `ingestion_mixed` | 2 Cas transactions, 2 file rows, 3 deliveries, 2 uploads, quota 2, 1 fault | retries, expired keys, crashes, suspension, overlapping uploads, stale usage at the quota |
| `pipeline_race` | 1 Cas transaction, 1 file row, 1 person, 1 worker, 1 fault of the intake | composition: people and jobs ahead of the intake's own job; is everything received classified |
| `billing_race` | 3 requests of any kind, plans starter and enterprise, 1 fault | payments, plan changes, suspensions, the nightly job and stale copies against each other |
| `billing_chats` | 2 turns, a quota of one, no fault | is the turn after the last refused |
| `copilot_turns` | 1 question with its stream and its JSON retry, 1 other stream, 1 slot, 1 event, 1 fault | the queue, aborts, retries, the slot counter; does everything end |
| `account_race` | 3 calls of any kind, 2 wrong answers allowed, 1 fault | refresh against revocation, overlapping invitations, concurrent answers |

A hazard of this code needs at most three actors on one row (two that race and one that
disturbs them) or two rows and one actor (bulk requests over two rows are in
`pipeline_race`, and the theorems are about any number); the quota runs out between the first
and the last row. `MaxJobs` stops only re-enqueueing: two waiting jobs beside two busy
workers already give every overlap of jobs. One fault is enough because no two failures of one
request interact: a request that failed is over. The exception is a
Copilot turn that fails and then cannot delete its question: `FailureLeavesNothing` allows for
the two failures together, and the run shows each alone.

The three requests of `billing_race` are, for example, a confirmation, a plan change and a
reader whose copy both make stale. In `copilot_turns` one event suffices for the queue: with
`done` and `partial` after it the buffer holds several, and the reader may wait before or come
after each; one other stream at a limit of one makes both the refusal and the freeing of a slot
happen. Three calls of `account_race` are two that race and one that sees what they left. Most
of these properties are theorems for any number (section 6). Behaviours end when all calls
are used up, so deadlock is checked only in `classification_race`.

The properties worth a look: `IndInv` of `Classification` lists every combination of status,
audit trail and row that can arise; `AuditExplainsStatus` reads the status back from the trail;
`AccountsChangeByHandOnly` and `SettledStays` are about late writers; `NeverOverbilled` holds
although usage is read without a lock, because a stale reading is never higher than the true one
within a cycle; `CountersResetWhenDue` holds although the nightly job works from a list it read
long ago; `NothingForgotten` says that only a failure can orphan a transaction;
`QueuesAreChannels` is the refinement of `EventChannel`; `CountsAreKept` says that every count
of a turn has a text in the conversation, also when an abort falls between the reply and its
count and the turn is charged for both; `HeldCountsOnce` says the JSON retry never makes a
question cost twice unless a connection was lost; `LiveIsTracked` names every way a session can
be off the record; `AttemptsAreAnswers` ties the counter of a code to the history of its
answers.

### Where documents and code part

Each has a run with the statement of the document as a property, and TLC's trace is the story.

| Run | Property | What happens |
|---|---|---|
| `ingestion_duplicate` | `DuplicateMeansStored` | a failed delivery keeps its key, so Cas's retries are swallowed for a day (`casso.ts:122`) |
| `ingestion_overage` | `OverageFullyLogged` | every row of an upload computes overage from the usage before the upload, so one that crosses the quota logs nothing (`import.service.ts:169`) |
| `billing_twice` | `OrderAppliedOnce` | two confirmations of one order that overlap each open a subscription with fresh counters (`payos-billing-plan.md:36`) |
| `billing_overage` | `OverageChargedOnce` | an overage order paid in mid-cycle is followed by one that charges the same transactions again (`rbac.md:138`) |
| `billing_chats` | `ChatsWithinQuota` | the guard reads the counter from a copy up to a minute old that counting a turn does not invalidate, so turns after the last one are admitted, one after another (`copilot-quota-spec.md:234`, `:246`) |
| `copilot_abort` | `AbortIsFree` | a turn stopped after some text is counted like a finished one (`copilot-history-spec.md:863`) |

Two more have no run of their own. The documents count a turn after its `done` frame was written
(`copilot-quota-spec.md:20`, `:120`, `:235`, `:249`; `00-current-state.md:197`); the code counts it
before `done` is even queued (`copilot-stream.service.ts:219-231`, `:360-367`), so a turn whose
`done` is never delivered is counted all the same. `SentIsRecorded` speaks of the end of a turn and
holds of either order. And a password change does not revoke all refresh tokens
(`00-current-state.md:105`): see `missed` in section 3.

## 5. Fairness

BullMQ serves its queue in order, so a waiting job of any row is served in the end however
many others come: strong fairness of the worker's taking a job of that row (a busy worker
disables it again and again, so weak fairness would not do). A job that runs
ends, by its commit or its failure; in a call that is not failing, handlers go on after each
await: weak fairness of each handler's next step. Nothing obliges a person to act, Cas to
retry, the bank to be linked or a key to expire. `ReceivedIsClassified` promises a classification
unless something has failed by then: after a failure nothing in the code retries on its own
(`ingestion_duplicate` shows one such failure). A job has a single attempt, so a failure of its
own ends the promise as well; `pipeline_race` spends its one fault on the intake
(`MaxJobFaults = 0`), where a failure can fall between any two steps of it.

`EverythingEnds` of `CopilotTurn` holds with faults. Its fairness (`LiveSpec`) is a single
weak fairness over all handlers, model calls and tabs: as long as one of them can go on, one does.
That is the event loop's progress and no more: handlers are resumed after an await, and an adapter
answers or runs into the timeout of its SDK (the code sets none of its own). Nobody has to
send, stop or lose a connection, and the close event need never come.

## 6. What is proved

`ClassificationProofs.tla`, for every set of transactions, people and workers and every bound,
from `ClassificationAssumption` alone (the bounds are numbers; "ai" and "none" are nobody's
id):

- `TypeCorrect`: type correctness.
- `Inductive`: `IndInv`. `QueueAgrees` and the others are not inductive as they stand: that a
  row in review belongs to a transaction in review survives a commit of the worker only
  because a transaction without a row is still pending, and survives a decision only because
  the audit trail has no decision yet. `History` says all of that at once; `ReferencesHold`
  adds that an overwrite or decision in flight has a row to write to and that nothing in a
  queue or a request is absent. The proof has a lemma per kind of write (`VerdictHistory`,
  `DecisionHistory`, `OverrideHistory`) and one for what is held in flight
  (`ReferencesStep`).
- `QueueCorrect`, `ReviewedOnce`, `AuditCorrect`, `ProvenanceCorrect`: consequences of `IndInv`.
- `StepKinds` (a lemma) reduces every step to one of five effects on the tables; from it
  follow `SettledForever`, `AccountsByHand` and `LifecycleImplemented`, the refinement of
  `TransactionLifecycle`.

`IngestionProofs.tla`, for any transactions, deliveries, uploads, plan and quota. Usage is a
number and the rows a set, so the invariant must say who owns which row in the middle of a step:
`HookFits` and `JobsFit` give for each program counter what is stored and queued, `HooksApart`
and `BatchesApart` that no two requests owe a job for one row, `BatchFits` and `FromUploads`
what an open upload holds, and `UsageMatchesRows` is carried as a cardinality, one row
or one upload at a time. `NeverOverbilled` needs that what a request has `seen` is never above
`used`. `UsageCorrect`, `BillingCorrect`, `JobsCorrect`, `AcceptanceCorrect` and
`HistoryCorrect` follow.

The run `ingestion_duplicate` refutes what the documents say of a duplicate; the proofs say how
far it is true. `DuplicateCorrect`, always: a call is answered "duplicate" only if the
transaction is stored, another call is at work on it, or another call told Cas that it failed.
Its invariant is the same statement about every Redis key (`KeysExplained`), preserved because
a stored row stays (`StoredStays`) and a call that works on a row stores it or says that it
failed (`CallGoesOn`). `DuplicateClaimHolds`: `DuplicateMeansStored` itself, under the two
conditions that it needs: the bank is linked from the start (without a link a call is
refused but keeps its key) and nothing has failed.

`SubscriptionsProofs.tla`, for any requests, plans and quotas. `TableGrows` describes every step
but the reset: no row is lost, no counter falls, a new row begins in the past. With it
`ClockAhead` (no moment in a table is in the future), `CronHolds` (what the nightly job has still
to reset is due) and `ConfirmHolds` (an open confirmation knows its order) are inductive.
`Covered`, `PaymentsGranted` and `CountersReset` follow. `GrantsCorrect` is the converse
of `PaymentsGranted`: a subscription that names an order has the plan of that order, a paid
upgrade (`PaidStaysPaid`, `NewRowsBought`). Together they leave open only what `billing_twice`
shows, that one order can open two subscriptions.

`CopilotTurnProofs.tla`, for any questions, other streams, limit, events and faults. `Fits`
ties a request's queue to its program counters: the queue has ended exactly if the pump is over,
an abort has been heard only of a connection that is closed, and so on. Every step then moves
one request to one that fits, and is a step of its `EventChannel` or leaves it alone:
`ChannelsImplemented` is the refinement of `EventChannel`, fairness aside (it has none).
`SlotsCorrect` counts the holders of slots step
by step; for `LimitHolds` the invariant `SlotInv` adds that without faults the streams
admitted, counting one between `INCR` and the comparison by what `INCR` returned to it, are at
most the limit.

`CopilotRecordsProofs.tla`, on top of it: what a turn leaves behind. `DoneIsLast`,
`SentIsRecorded`, `HeldCountsOnce` and `FailureLeavesNothing` speak of turns that are over, so
the invariant `RecordInv` must say what is true at every await on the way there. `WriterFits`
says which events can be in the queue or out, given where the generator and the closure that
feeds it are: after `done` only the partial frame follows, and there is no `done` while the
closure still waits for the answer, the fallback or the count. `RecordFits` says which rows
exist and what has been counted at each of these places: the row of the reply exists exactly
from the count on (a turn without a subscription passes that step and counts nothing), a second
charge needs a partial reply that was stored, and what a failure leaves is bounded by the number
of faults. `AnswerShown` ties the tab to its two turns: a stream that is still connected shows
its reply, and a question whose stream shows a reply is not put again; without it the stream and
the retry of one question could both be charged. The proof has a lemma per step of the handler,
the closure, the close event and the tab, and the properties are read off the invariant: besides
these four `PaidForKept`, which is `CountsAreKept`: a turn is charged at most once for each
reply, whole or partial, that it left. The clauses about counts except a turn that had no
subscription to count on; `SentCorrect` and `HeldCorrect` say so.

`AccountProofs.tla`, for any calls and any limit. `Generated` says that every id in a table or a
call was made before, so a new one is nobody's; `CallsFit` what a call knows at each await;
`LinkKept` where the newest link of an invited member is, in Redis or in the hands of a call;
`AbsentFits` that nothing is sent to a member who is not there; `CodesCounted` that each attempt
counted in Redis stands for a wrong answer to that code, which needs that the history of answers
has no gap below a count a call has read (`TriedDown`). From them `RevocationCorrect`,
`RecordCorrect`, `AttemptsCorrect` and `LinksCorrect`.

`PipelineProofs.tla`, for any instance of the composed system, from the assumptions of its two
halves. `BooksImplemented`: the whole implements `Classification`, the rows owed read off the
intake's program counters. `IntakeImplemented`: the whole implements `Ingestion`, with a row
that moved on counted as pending and the queue, which workers empty and people fill, replaced
by the jobs the intake ever added (its accepted calls, and the rows of a batch not left to do).
Neither goes through alone: that a worker's verdict does not create a row the intake has still
to store needs the invariant of `Classification`, that a stored row's job is added once needs
that of `Ingestion`; `Inductive` carries both, from the step lemmas of the two proof modules.
So the theorems of both hold of the whole. `LedgerCorrect` reads the quota, overage and batch
properties back from the mapped state; `NothingLost` adds a step argument, one lemma each for
the intake, the workers and the people, with `FaultsGrow` to rule out the steps that fail.

Because the whole implements each half (`BooksAreKept`), the action properties and the
refinement carry over too: `BooksCorrect`, `DecisionsLast` and `LifecycleImplemented` restate
them of the whole, where the AI job of a row is added by the modelled webhook call or upload. Two
theorems need both halves at once, and are what the repository promises a tenant.
`AcceptedCorrect`: as long as no AI job failed or stalled, every row whose webhook call was
accepted, or that an upload handed over, is classified, queued or with a worker, whatever
fails in the intake. `AnswersKept`: with the bank linked, until something fails, every
call of Cas that was answered, however it was answered, is about a transaction that is
classified, on its way there, or about to be stored by another call. It combines
`NothingLost` with `DuplicateCorrect` of the intake.

Each of these modules assumes only the `ASSUME` of the module it is about (the bounds are
numbers, the plans are plans); TLC evaluates them in every run.

Only model-checked: the two liveness properties, `ReceivedIsClassified` and `EverythingEnds`
(fairness and ENABLED are beyond the prover). Every other property of a passing run is stated by
a theorem.

## 7. Not modelled

Amounts, account codes, texts, embeddings; mails and notices, the once-per-cycle notices among
them (nothing reads them back); the signature check and the probe of the webhook; more than
one tenant (rows of different tenants share no state here except the globally unique transaction
id and the grants); registration, the reset of a forgotten password and the verification of an
address (they run the same `OtpFlowService` on keys of their own); relinking a bank; the rule
of the last admin; the retrieval of prompt text and the tools of the Copilot; report queries.

Most of the repository's lines are not in the models and most never will be: pages and
components of the frontend, seeds and demo data, mail templates, adapters of model providers,
the spreadsheet parser, report SQL and rendering, DTOs and their validation. They hold no state
that two actors share, so there is nothing in them for a state machine to say; what they hand to
the modelled code appears as a free choice. `PROJECT.json` lists each component with its status
and the reason.
