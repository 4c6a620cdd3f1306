------------------------------ MODULE Ingestion ------------------------------
(***************************************************************************)
(* How bank transactions enter the system: the Cas webhook and the Excel   *)
(* import, with the quota accounting both do, for one tenant during one    *)
(* billing cycle.                                                          *)
(*                                                                         *)
(* A webhook call or an upload is a process; every await between two       *)
(* outside calls separates two actions, and a Prisma $transaction takes    *)
(* effect in one.  The audit entry a $transaction writes with its rows is  *)
(* not a variable: it exists exactly when they do.                         *)
(***************************************************************************)
EXTENDS Naturals, FiniteSets

CONSTANTS
    Txn,        \* transactions, by their unique transactionId
    CasTxn,     \* those Cas reports; the others are rows of Excel files
    Delivery,   \* calls of POST /webhook/cas, retries included
    Import,     \* uploads, and the transaction_import_batches rows they make
    Plan,       \* the tenant's plan; pro bills like starter
    Quota,      \* transactionQuota of the subscription
    MaxFaults   \* bound: crashes, failed awaits, suspensions, expired keys

ASSUME IngestionAssumption ==
    /\ IsFiniteSet(Txn) /\ CasTxn \subseteq Txn
    /\ Plan \in {"free", "starter", "enterprise"}
    /\ Quota \in Nat
    /\ MaxFaults \in Nat

VARIABLES
    txn,        \* transactions.status; "absent": no row
    jobs,       \* ai-classify jobs waiting in the queue, per transaction
    key,        \* Redis keys webhook:cas:txn:<id>
    linked,     \* the cas_grants row of the tenant's bank account exists
    active,     \* the tenant's subscription has status active
    used,       \* transactionUsedThisCycle
    overage,    \* usage_logs rows overage_transaction of the cycle
    hook,       \* what each webhook call is doing
    batch,      \* what each upload is doing, and its batch row
    faults      \* failures so far

vars == <<txn, jobs, key, linked, active, used, overage, hook, batch, faults>>

-----------------------------------------------------------------------------
Status == {"absent", "pending", "review", "classified", "skipped"}
FileRow == Txn \ CasTxn
Stored(t) == txn[t] # "absent"

\* Mutant: the transaction that uses the last of the quota is billed too.
OverInclusive(seen) == Plan = "starter" /\ seen + 1 >= Quota

\* Whether a row is logged as overage, from the usage its request read.
Over(seen) == Plan = "starter" /\ seen + 1 > Quota

Remaining == IF used < Quota THEN Quota - used ELSE 0

Idle == [pc |-> "idle"]
Call(pc, t, seen) == [pc |-> pc, txn |-> t, seen |-> seen]
Answered(t, reply) == [pc |-> "done", txn |-> t, reply |-> reply]

Hook == {Idle}
    \union [pc : {"lookup", "quota", "store", "enqueue"}, txn : CasTxn, seen : Nat]
    \union [pc : {"done"}, txn : CasTxn, reply : {"duplicate", "accepted", "failed"}]

\* todo: rows still to check, then rows still to enqueue; fresh: rows the open
\* $transaction creates; saved: rows whose importBatchId is this batch.
Batch == {Idle} \union
    [pc : {"rows", "enqueue", "done", "failed"}, rows : SUBSET FileRow,
     todo : SUBSET FileRow, fresh : SUBSET FileRow, saved : SUBSET FileRow, seen : Nat]

TypeOK ==
    /\ txn \in [Txn -> Status]
    /\ jobs \in [Txn -> Nat]
    /\ key \in SUBSET CasTxn
    /\ linked \in BOOLEAN /\ active \in BOOLEAN
    /\ used \in Nat /\ overage \in Nat
    /\ hook \in [Delivery -> Hook]
    /\ batch \in [Import -> Batch]
    /\ faults \in 0..MaxFaults

Init ==
    /\ txn = [t \in Txn |-> "absent"]
    /\ jobs = [t \in Txn |-> 0]
    /\ key = {}
    /\ linked \in BOOLEAN /\ active = TRUE
    /\ used = 0 /\ overage = 0
    /\ hook = [d \in Delivery |-> Idle]
    /\ batch = [b \in Import |-> Idle]
    /\ faults = 0

-----------------------------------------------------------------------------
(* The webhook: handleCasWebhook, one await at a time.                     *)

GoTo(d, call) == hook' = [hook EXCEPT ![d] = call]
Answer(d, reply) == GoTo(d, Answered(hook[d].txn, reply))

WebhookOnly == UNCHANGED <<linked, active, batch>>
NothingElse == WebhookOnly /\ UNCHANGED <<txn, jobs, used, overage>>

AcquireKey(d, t) ==
    /\ hook[d] = Idle /\ t \notin key
    /\ key' = key \union {t}
    /\ GoTo(d, Call("lookup", t, 0))
    /\ NothingElse /\ UNCHANGED faults

RefuseDuplicate(d, t) ==
    /\ hook[d] = Idle /\ t \in key
    /\ GoTo(d, Answered(t, "duplicate"))
    /\ NothingElse /\ UNCHANGED <<key, faults>>

\* The grant row is never deleted, so reading it and reading the transaction
\* are one step.
LookUp(d) ==
    /\ hook[d].pc = "lookup"
    /\ linked /\ ~Stored(hook[d].txn)
    /\ GoTo(d, Call("quota", hook[d].txn, 0))
    /\ NothingElse /\ UNCHANGED <<key, faults>>

GrantMissing(d) ==
    /\ hook[d].pc = "lookup" /\ ~linked
    /\ Answer(d, "failed")
    /\ NothingElse /\ UNCHANGED <<key, faults>>

\* Mutant: a transaction found stored is sent to the AI once more.
RequeueStored(d) ==
    /\ hook[d].pc = "lookup" /\ linked /\ Stored(hook[d].txn)
    /\ GoTo(d, Call("enqueue", hook[d].txn, 0))
    /\ NothingElse /\ UNCHANGED <<key, faults>>

\* Mutant: the reply carries the status of the row.
ReplyStatus(d) ==
    /\ hook[d].pc = "lookup" /\ linked /\ Stored(hook[d].txn)
    /\ Answer(d, txn[hook[d].txn])
    /\ NothingElse /\ UNCHANGED <<key, faults>>

AlreadyStored(d) ==
    /\ hook[d].pc = "lookup" /\ linked /\ Stored(hook[d].txn)
    /\ Answer(d, "duplicate")
    /\ NothingElse /\ UNCHANGED <<key, faults>>

\* Mutant: the usage is counted before the transaction that stores the row.
CountEarly(d) ==
    /\ hook[d].pc = "quota" /\ active
    /\ used' = used + 1
    /\ GoTo(d, Call("store", hook[d].txn, used))
    /\ WebhookOnly /\ UNCHANGED <<txn, jobs, overage, key, faults>>

\* The subscription is read without a lock: seen may be old when used.
ReadQuota(d) ==
    /\ hook[d].pc = "quota" /\ active
    /\ GoTo(d, Call("store", hook[d].txn, used))
    /\ NothingElse /\ UNCHANGED <<key, faults>>

NoSubscription(d) ==
    /\ hook[d].pc = "quota" /\ ~active
    /\ Answer(d, "failed")
    /\ NothingElse /\ UNCHANGED <<key, faults>>

StoreRow(d) ==
    /\ hook[d].pc = "store" /\ ~Stored(hook[d].txn)
    /\ txn' = [txn EXCEPT ![hook[d].txn] = "pending"]
    /\ used' = used + 1
    /\ overage' = IF Over(hook[d].seen) THEN overage + 1 ELSE overage

\* Mutant: the call answers without waiting for the queue.
StoreAndAnswer(d) ==
    /\ StoreRow(d)
    /\ Answer(d, "accepted")
    /\ WebhookOnly /\ UNCHANGED <<jobs, key, faults>>

Store(d) ==
    /\ StoreRow(d)
    /\ GoTo(d, Call("enqueue", hook[d].txn, 0))
    /\ WebhookOnly /\ UNCHANGED <<jobs, key, faults>>

\* transactionId is unique: the $transaction rolls back.
StoreCollides(d) ==
    /\ hook[d].pc = "store" /\ Stored(hook[d].txn)
    /\ Answer(d, "failed")
    /\ NothingElse /\ UNCHANGED <<key, faults>>

\* Mutant: nothing reaches the queue.
ForgetJob(d) ==
    /\ hook[d].pc = "enqueue"
    /\ Answer(d, "failed")
    /\ NothingElse /\ UNCHANGED <<key, faults>>

AddJob(d) ==
    /\ hook[d].pc = "enqueue"
    /\ jobs' = [jobs EXCEPT ![hook[d].txn] = @ + 1]
    /\ Answer(d, "accepted")
    /\ WebhookOnly /\ UNCHANGED <<txn, used, overage, key, faults>>

\* The process dies, or Redis, PostgreSQL or the queue refuses a call.
HookFails(d) ==
    /\ hook[d].pc \in {"lookup", "quota", "store", "enqueue"}
    /\ faults < MaxFaults /\ faults' = faults + 1
    /\ Answer(d, "failed")
    /\ NothingElse /\ UNCHANGED key

-----------------------------------------------------------------------------
(* The import: importRows.                                                 *)

InBatch(b, rec) == batch' = [batch EXCEPT ![b] = rec]
ImportOnly == UNCHANGED <<key, linked, active, hook>>

\* assertCanAcceptBatch reads the subscription outside the $transaction.
Upload(b, rows) ==
    /\ batch[b] = Idle
    /\ active
    /\ Plan = "free" => Cardinality(rows) <= Remaining
    /\ InBatch(b, [pc |-> "rows", rows |-> rows, todo |-> rows, fresh |-> {}, saved |-> {},
                   seen |-> used])
    /\ ImportOnly /\ UNCHANGED <<txn, jobs, used, overage, faults>>

\* Mutant: a new row's job is added inside the loop, before the commit.
QueueUncommitted(b, t) ==
    /\ batch[b].pc = "rows" /\ t \in batch[b].todo
    /\ InBatch(b, [batch[b] EXCEPT !.todo = @ \ {t},
                                   !.fresh = IF Stored(t) THEN @ ELSE @ \union {t}])
    /\ jobs' = IF Stored(t) THEN jobs ELSE [jobs EXCEPT ![t] = @ + 1]
    /\ ImportOnly /\ UNCHANGED <<txn, used, overage, faults>>

\* A row another open $transaction inserts is not visible here; the two meet
\* on the unique index, at the latest when they commit.
CheckRow(b, t) ==
    /\ batch[b].pc = "rows" /\ t \in batch[b].todo
    /\ InBatch(b, [batch[b] EXCEPT !.todo = @ \ {t},
                                   !.fresh = IF Stored(t) THEN @ ELSE @ \union {t}])
    /\ ImportOnly /\ UNCHANGED <<txn, jobs, used, overage, faults>>

AllChecked(b) == batch[b].pc = "rows" /\ batch[b].todo = {}

ImportRows(b) ==
    LET fresh == batch[b].fresh
    IN /\ txn' = [t \in Txn |-> IF t \in fresh THEN "pending" ELSE txn[t]]
       /\ used' = used + Cardinality(fresh)
       /\ overage' = IF Over(batch[b].seen) THEN overage + Cardinality(fresh) ELSE overage
       /\ InBatch(b, [batch[b] EXCEPT !.pc = IF fresh = {} THEN "done" ELSE "enqueue",
                                      !.todo = fresh, !.saved = fresh])
       /\ ImportOnly /\ UNCHANGED <<jobs, faults>>

\* Mutant: rows are upserted, so a row stored meanwhile changes batch.
CommitUpsert(b) == AllChecked(b) /\ ImportRows(b)

CommitBatch(b) ==
    /\ AllChecked(b) /\ \A t \in batch[b].fresh : ~Stored(t)
    /\ ImportRows(b)

CommitCollides(b) ==
    /\ AllChecked(b) /\ \E t \in batch[b].fresh : Stored(t)
    /\ InBatch(b, [batch[b] EXCEPT !.pc = "failed"])
    /\ ImportOnly /\ UNCHANGED <<txn, jobs, used, overage, faults>>

AddRowJob(b, t) ==
    /\ batch[b].pc = "enqueue" /\ t \in batch[b].todo
    /\ jobs' = [jobs EXCEPT ![t] = @ + 1]
    /\ InBatch(b, [batch[b] EXCEPT !.todo = @ \ {t},
                                   !.pc = IF batch[b].todo = {t} THEN "done" ELSE "enqueue"])
    /\ ImportOnly /\ UNCHANGED <<txn, used, overage, faults>>

ImportFails(b) ==
    /\ batch[b].pc \in {"rows", "enqueue"}
    /\ faults < MaxFaults /\ faults' = faults + 1
    /\ InBatch(b, [batch[b] EXCEPT !.pc = "failed"])
    /\ ImportOnly /\ UNCHANGED <<txn, jobs, used, overage>>

-----------------------------------------------------------------------------
(* Around them: onboarding, the partner's suspend and activate, time.      *)

LinkBank ==
    /\ ~linked /\ linked' = TRUE
    /\ UNCHANGED <<txn, jobs, key, active, used, overage, hook, batch, faults>>

SuspendTenant ==
    /\ active /\ active' = FALSE
    /\ faults < MaxFaults /\ faults' = faults + 1
    /\ UNCHANGED <<txn, jobs, key, linked, used, overage, hook, batch>>

ActivateTenant ==
    /\ ~active /\ active' = TRUE
    /\ UNCHANGED <<txn, jobs, key, linked, used, overage, hook, batch, faults>>

ExpireKey(t) ==
    /\ t \in key /\ key' = key \ {t}
    /\ faults < MaxFaults /\ faults' = faults + 1
    /\ UNCHANGED <<txn, jobs, linked, active, used, overage, hook, batch>>

-----------------------------------------------------------------------------
HookStep(d) ==
    \/ LookUp(d) \/ GrantMissing(d) \/ AlreadyStored(d)
    \/ ReadQuota(d) \/ NoSubscription(d)
    \/ Store(d) \/ StoreCollides(d)
    \/ AddJob(d)

BatchStep(b) ==
    \/ \E t \in FileRow : CheckRow(b, t) \/ AddRowJob(b, t)
    \/ CommitBatch(b) \/ CommitCollides(b)

Arrival ==
    \/ \E d \in Delivery, t \in CasTxn : AcquireKey(d, t) \/ RefuseDuplicate(d, t)
    \/ \E b \in Import, rows \in SUBSET FileRow : rows # {} /\ Upload(b, rows)

Environment ==
    \/ LinkBank \/ SuspendTenant \/ ActivateTenant
    \/ \E t \in CasTxn : ExpireKey(t)
    \/ \E d \in Delivery : HookFails(d)
    \/ \E b \in Import : ImportFails(b)

Next ==
    \/ Arrival \/ Environment
    \/ \E d \in Delivery : HookStep(d)
    \/ \E b \in Import : BatchStep(b)

Spec == Init /\ [][Next]_vars

-----------------------------------------------------------------------------
(* What the code gets right.                                               *)

\* Rows whose job the request that stored them has still to add.
Owed ==
    {hook[d].txn : d \in {d \in Delivery : hook[d].pc = "enqueue"}}
    \union UNION {batch[b].todo : b \in {b \in Import : batch[b].pc = "enqueue"}}

\* The quota counter is the number of transactions stored: duplicates,
\* collisions, rollbacks and crashes never count, and no row is free.
UsageMatchesRows == used = Cardinality({t \in Txn : Stored(t)})

\* Intake asks the AI at most once for a row, however often Cas delivers it
\* and however many uploads contain it, and never for a row that is not there.
OneJobPerRow ==
    \A t \in Txn :
        /\ jobs[t] <= 1
        /\ t \in Owed => jobs[t] = 0
        /\ t \in Owed \/ jobs[t] > 0 => Stored(t)

\* However stale the usage a request worked with, the tenant is never billed
\* for more overage than it has.
NeverOverbilled ==
    overage <= IF Plan = "starter" /\ used > Quota THEN used - Quota ELSE 0

\* A success answer is the truth: the row is stored and its job was added;
\* for an upload, every row of the file is stored and its own rows are queued.
AcceptedMeansQueued ==
    /\ \A d \in Delivery : hook[d].pc = "done" /\ hook[d].reply = "accepted"
          => Stored(hook[d].txn) /\ jobs[hook[d].txn] > 0
    /\ \A b \in Import : batch[b].pc = "done" =>
          /\ \A t \in batch[b].rows : Stored(t)
          /\ \A t \in batch[b].saved : jobs[t] > 0

\* The import history adds up: every stored file row belongs to exactly one
\* batch, whatever uploads of the same file overlap or fail.
RowsBelongToOneBatch ==
    /\ {t \in FileRow : Stored(t)} = UNION {batch[b].saved : b \in {c \in Import : batch[c] # Idle}}
    /\ \A b, c \in Import : b # c /\ batch[b] # Idle /\ batch[c] # Idle
          => batch[b].saved \intersect batch[c].saved = {}

-----------------------------------------------------------------------------
(* What the documents say and the code does not do.                        *)

\* "cơ chế idempotency (Redis, theo transaction.id) để tránh xử lý trùng khi
\* Casso retry": what is answered as a duplicate was processed before.
DuplicateMeansStored ==
    \A d \in Delivery : hook[d].pc = "done" /\ hook[d].reply = "duplicate" =>
        \/ Stored(hook[d].txn)
        \/ \E c \in Delivery : hook[c].pc \in {"lookup", "quota", "store"}
                               /\ hook[c].txn = hook[d].txn

\* "Import vượt quota - phí vượt sẽ tính vào chu kỳ hiện tại": every
\* transaction over the quota is logged as overage.
OverageFullyLogged ==
    Plan = "starter" /\ used > Quota => overage = used - Quota
=============================================================================
