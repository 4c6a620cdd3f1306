--------------------------- MODULE Classification ---------------------------
(***************************************************************************)
(* From a pending transaction to a booked one: the AI worker, the Human    *)
(* Review queue, manual override and the reclassify endpoints, for the     *)
(* transactions of one tenant.                                             *)
(*                                                                         *)
(* A database row is a record; a Prisma $transaction is one action; every  *)
(* await between two database calls of a handler separates two actions, so *)
(* the row a handler read may have changed when it writes.                 *)
(* The intake (Ingestion.tla) appears only as Receive, Enqueue and         *)
(* LoseJob; TransactionPipeline.tla shows that the real one implements     *)
(* them.                                                                   *)
(***************************************************************************)
EXTENDS Naturals

CONSTANTS
    Txn,        \* transactions of the tenant
    User,       \* people with the admin or accountant role
    Worker,     \* AI worker slots (BullMQ concurrency, all processes)
    MaxJobs,    \* bound: re-enqueueing stops when this many jobs wait for a row
    MaxFaults   \* bound: failed awaits and stalled jobs in a behaviour

ASSUME ClassificationAssumption ==
    /\ MaxJobs \in Nat \ {0}
    /\ MaxFaults \in Nat
    /\ "ai" \notin User /\ "none" \notin User

VARIABLES
    txn,        \* transactions.status; "absent": no row
    cls,        \* transaction_classifications, NoRow where there is none
    audit,      \* audit_logs with entityType transaction_classification
    owed,       \* stored rows whose intake has not added its job yet
    jobs,       \* ai-classify jobs waiting in the queue, per transaction
    worker,     \* what each worker slot is doing
    request,    \* what each person's current request is doing
    faults      \* failures so far

vars == <<txn, cls, audit, owed, jobs, worker, request, faults>>

-----------------------------------------------------------------------------
TransactionStatus == {"pending", "review", "classified", "skipped"}
Actor   == User \union {"ai"}
Verdict == {"classified", "review"}
ReviewOp == {"confirm", "correct", "skip"}
AuditAction == {"ai_auto_classify", "ai_queued_review",
                "review_confirmed", "review_corrected", "review_skipped"}

\* accounts says who chose the debit and credit account the row carries.
Row   == [status : {"classified", "review", "skipped"}, type : {"auto", "manual"},
          by : Actor, accounts : Actor]
NoRow == [status |-> "none", type |-> "none", by |-> "none", accounts |-> "none"]
ManualRow(u) == [status |-> "classified", type |-> "manual", by |-> u, accounts |-> u]

Idle == [pc |-> "idle"]
Job(t) == [pc |-> "classify", txn |-> t]
Request(op, t) == [pc |-> op, txn |-> t]
Reclassify(ids) == [pc |-> "enqueue", ids |-> ids]

Classified(t) == cls[t] # NoRow
InReview(t)   == cls[t].status = "review"
Entry(action, actor) == [action |-> action, actor |-> actor]
Record(t, action, actor) ==
    audit' = [audit EXCEPT ![t] = @ \union {Entry(action, actor)}]

TypeOK ==
    /\ txn \in [Txn -> TransactionStatus \union {"absent"}]
    /\ cls \in [Txn -> Row \union {NoRow}]
    /\ audit \in [Txn -> SUBSET [action : AuditAction, actor : Actor]]
    /\ owed \in SUBSET Txn
    /\ jobs \in [Txn -> Nat]
    /\ worker \in [Worker -> {Idle} \union {Job(t) : t \in Txn}]
    /\ request \in [User ->
          {Idle}
          \union {Request(op, t) : op \in ReviewOp \union {"overwrite", "insert"}, t \in Txn}
          \union {Reclassify(ids) : ids \in SUBSET Txn}]
    /\ faults \in 0..MaxFaults

Init ==
    /\ txn = [t \in Txn |-> "absent"]
    /\ cls = [t \in Txn |-> NoRow]
    /\ audit = [t \in Txn |-> {}]
    /\ owed = {}
    /\ jobs = [t \in Txn |-> 0]
    /\ worker = [w \in Worker |-> Idle]
    /\ request = [u \in User |-> Idle]
    /\ faults = 0

-----------------------------------------------------------------------------
(* Intake. Rows appear pending, one by a webhook or several by an import   *)
(* commit; their jobs follow one by one, unless the request dies first.    *)

Receive(S) ==
    /\ S # {} /\ \A t \in S : txn[t] = "absent"
    /\ txn' = [t \in Txn |-> IF t \in S THEN "pending" ELSE txn[t]]
    /\ owed' = owed \union S
    /\ UNCHANGED <<cls, audit, jobs, worker, request, faults>>

Enqueue(t) ==
    /\ t \in owed
    /\ owed' = owed \ {t}
    /\ jobs' = [jobs EXCEPT ![t] = @ + 1]
    /\ UNCHANGED <<txn, cls, audit, worker, request, faults>>

LoseJob(S) ==
    /\ S # {} /\ S \subseteq owed
    /\ owed' = owed \ S
    /\ UNCHANGED <<txn, cls, audit, jobs, worker, request, faults>>

-----------------------------------------------------------------------------
(* The worker. Taking the job and reading the row are one step: nobody     *)
(* else can see the job leave the queue.                                   *)

DiscardJob(w, t) ==
    /\ worker[w] = Idle
    /\ jobs[t] > 0 /\ txn[t] # "pending"
    /\ jobs' = [jobs EXCEPT ![t] = @ - 1]
    /\ UNCHANGED <<txn, cls, audit, owed, worker, request, faults>>

\* Mutant: the job is taken and returned from without a look at the row.
StartJobAndReturn(w, t) ==
    /\ worker[w] = Idle
    /\ jobs[t] > 0 /\ txn[t] = "pending"
    /\ jobs' = [jobs EXCEPT ![t] = @ - 1]
    /\ UNCHANGED <<txn, cls, audit, owed, worker, request, faults>>

StartJob(w, t) ==
    /\ worker[w] = Idle
    /\ jobs[t] > 0 /\ txn[t] = "pending"
    /\ jobs' = [jobs EXCEPT ![t] = @ - 1]
    /\ worker' = [worker EXCEPT ![w] = Job(t)]
    /\ UNCHANGED <<txn, cls, audit, owed, request, faults>>

VerdictAction(verdict) ==
    IF verdict = "classified" THEN "ai_auto_classify" ELSE "ai_queued_review"

\* A row that still carries the accounts the AI chose.
AiRow(status, type, by) == [status |-> status, type |-> type, by |-> by, accounts |-> "ai"]
VerdictRow(verdict) ==
    AiRow(verdict, IF verdict = "classified" THEN "auto" ELSE "manual", "ai")

\* Mutant: the classification is upserted.
UpsertVerdict(w, verdict) ==
    /\ worker[w] # Idle
    /\ LET t == worker[w].txn
       IN /\ cls' = [cls EXCEPT ![t] = VerdictRow(verdict)]
          /\ txn' = [txn EXCEPT ![t] = verdict]
          /\ Record(t, VerdictAction(verdict), "ai")
    /\ worker' = [worker EXCEPT ![w] = Idle]
    /\ UNCHANGED <<owed, jobs, request, faults>>

\* Mutant: the transaction's own status is forgotten.
CommitRowOnly(w, verdict) ==
    /\ worker[w] # Idle
    /\ LET t == worker[w].txn
       IN /\ ~Classified(t)
          /\ cls' = [cls EXCEPT ![t] = VerdictRow(verdict)]
          /\ Record(t, VerdictAction(verdict), "ai")
    /\ worker' = [worker EXCEPT ![w] = Idle]
    /\ UNCHANGED <<txn, owed, jobs, request, faults>>

\* The verdict is the confidence score compared with the tenant's threshold.
\* transaction_classifications.transactionId is unique.
CommitVerdict(w, verdict) ==
    /\ worker[w] # Idle
    /\ LET t == worker[w].txn
       IN /\ ~Classified(t)
          /\ cls' = [cls EXCEPT ![t] = VerdictRow(verdict)]
          /\ txn' = [txn EXCEPT ![t] = verdict]
          /\ Record(t, VerdictAction(verdict), "ai")
    /\ worker' = [worker EXCEPT ![w] = Idle]
    /\ UNCHANGED <<owed, jobs, request, faults>>

\* Unique violation: the job fails, and a job has one attempt.
FailJob(w) ==
    /\ worker[w] # Idle /\ Classified(worker[w].txn)
    /\ worker' = [worker EXCEPT ![w] = Idle]
    /\ UNCHANGED <<txn, cls, audit, owed, jobs, request, faults>>

\* Embedding, AI or database call throws.
JobThrows(w) ==
    /\ worker[w] # Idle
    /\ faults < MaxFaults /\ faults' = faults + 1
    /\ worker' = [worker EXCEPT ![w] = Idle]
    /\ UNCHANGED <<txn, cls, audit, owed, jobs, request>>

\* The job's lock expires: BullMQ hands it out again, whether or not the
\* first run is still alive.
JobStalls(w) ==
    /\ worker[w] # Idle
    /\ faults < MaxFaults /\ faults' = faults + 1
    /\ jobs' = [jobs EXCEPT ![worker[w].txn] = @ + 1]
    /\ worker' \in {worker, [worker EXCEPT ![w] = Idle]}
    /\ UNCHANGED <<txn, cls, audit, owed, request>>

-----------------------------------------------------------------------------
(* Human Review. findInQueue reads first; the write is conditional on the  *)
(* row still being in review.                                              *)

OpenReview(u, op, t) ==
    /\ request[u] = Idle
    /\ Classified(t) /\ InReview(t)
    /\ request' = [request EXCEPT ![u] = Request(op, t)]
    /\ UNCHANGED <<txn, cls, audit, owed, jobs, worker, faults>>

\* The one $transaction the three decisions share.
Settle(u, t, row, action) ==
    /\ cls' = [cls EXCEPT ![t] = row]
    /\ txn' = [txn EXCEPT ![t] = row.status]
    /\ Record(t, action, u)
    /\ request' = [request EXCEPT ![u] = Idle]
    /\ UNCHANGED <<owed, jobs, worker, faults>>

ConfirmedRow(u, t) ==
    [cls[t] EXCEPT !.status = "classified", !.type = "manual", !.by = u]

\* Mutant: update by id, whatever the row's status has become.
ConfirmStale(u) ==
    /\ request[u].pc = "confirm"
    /\ LET t == request[u].txn IN Settle(u, t, ConfirmedRow(u, t), "review_confirmed")

Confirm(u) ==
    /\ request[u].pc = "confirm"
    /\ LET t == request[u].txn
       IN InReview(t) /\ Settle(u, t, ConfirmedRow(u, t), "review_confirmed")

\* Mutant: the audit entry is written under the action of another button.
CorrectMislabelled(u) ==
    /\ request[u].pc = "correct"
    /\ LET t == request[u].txn
       IN InReview(t) /\ Settle(u, t, ManualRow(u), "review_skipped")

Correct(u) ==
    /\ request[u].pc = "correct"
    /\ LET t == request[u].txn
       IN InReview(t) /\ Settle(u, t, ManualRow(u), "review_corrected")

\* Mutant: skipping puts the row back to pending.
SkipToPending(u) ==
    /\ request[u].pc = "skip"
    /\ LET t == request[u].txn
       IN InReview(t) /\ Settle(u, t, [cls[t] EXCEPT !.status = "pending"], "review_skipped")

Skip(u) ==
    /\ request[u].pc = "skip"
    /\ LET t == request[u].txn
       IN InReview(t) /\ Settle(u, t, [cls[t] EXCEPT !.status = "skipped"], "review_skipped")

\* updateMany matched no row: ConflictException, everything rolled back.
LoseConflict(u) ==
    /\ request[u].pc \in ReviewOp /\ ~InReview(request[u].txn)
    /\ request' = [request EXCEPT ![u] = Idle]
    /\ UNCHANGED <<txn, cls, audit, owed, jobs, worker, faults>>

-----------------------------------------------------------------------------
(* Manual override: two unrelated statements, no $transaction, no audit    *)
(* entry, and transactions.status stays what it was.                       *)

OpenOverride(u, t) ==
    /\ request[u] = Idle
    /\ txn[t] # "absent"
    /\ request' = [request EXCEPT ![u] =
                      Request(IF Classified(t) THEN "overwrite" ELSE "insert", t)]
    /\ UNCHANGED <<txn, cls, audit, owed, jobs, worker, faults>>

\* Mutant: an existing row keeps the type the AI gave it.
OverrideKeepsType(u) ==
    /\ request[u].pc \in {"overwrite", "insert"}
    /\ request[u].pc = "insert" => ~Classified(request[u].txn)
    /\ cls' = [cls EXCEPT ![request[u].txn] =
                  IF Classified(request[u].txn)
                  THEN [ManualRow(u) EXCEPT !.type = cls[request[u].txn].type]
                  ELSE ManualRow(u)]
    /\ request' = [request EXCEPT ![u] = Idle]
    /\ UNCHANGED <<txn, audit, owed, jobs, worker, faults>>

Override(u) ==
    /\ request[u].pc \in {"overwrite", "insert"}
    /\ request[u].pc = "insert" => ~Classified(request[u].txn)
    /\ cls' = [cls EXCEPT ![request[u].txn] = ManualRow(u)]
    /\ request' = [request EXCEPT ![u] = Idle]
    /\ UNCHANGED <<txn, audit, owed, jobs, worker, faults>>

\* The AI, or a colleague, created the row between the read and the create.
OverrideCollides(u) ==
    /\ request[u].pc = "insert" /\ Classified(request[u].txn)
    /\ request' = [request EXCEPT ![u] = Idle]
    /\ UNCHANGED <<txn, cls, audit, owed, jobs, worker, faults>>

-----------------------------------------------------------------------------
(* reclassify and bulkReclassify: read the pending ones, then add a job    *)
(* for each; no job id, so nothing removes duplicates.                     *)

OpenReclassify(u, ids) ==
    /\ request[u] = Idle
    /\ LET eligible == {t \in ids : txn[t] = "pending"}
       IN /\ eligible # {}
          /\ request' = [request EXCEPT ![u] = Reclassify(eligible)]
    /\ UNCHANGED <<txn, cls, audit, owed, jobs, worker, faults>>

EnqueueReclassify(u, t) ==
    /\ request[u].pc = "enqueue" /\ t \in request[u].ids
    /\ jobs[t] < MaxJobs
    /\ jobs' = [jobs EXCEPT ![t] = @ + 1]
    /\ request' = [request EXCEPT ![u] =
                      IF @.ids = {t} THEN Idle ELSE Reclassify(@.ids \ {t})]
    /\ UNCHANGED <<txn, cls, audit, owed, worker, faults>>

\* A request dies between two awaits: what it committed stays.
RequestDies(u) ==
    /\ request[u] # Idle
    /\ request' = [request EXCEPT ![u] = Idle]
    /\ UNCHANGED <<txn, cls, audit, owed, jobs, worker, faults>>

-----------------------------------------------------------------------------
Intake ==
    \/ \E S \in SUBSET Txn : Receive(S) \/ LoseJob(S)
    \/ \E t \in Txn : Enqueue(t)

WorkerStep(w) ==
    \/ \E t \in Txn : DiscardJob(w, t) \/ StartJob(w, t)
    \/ \E verdict \in Verdict : CommitVerdict(w, verdict)
    \/ FailJob(w) \/ JobThrows(w) \/ JobStalls(w)

UserStep(u) ==
    \/ \E t \in Txn : \/ \E op \in ReviewOp : OpenReview(u, op, t)
                      \/ OpenOverride(u, t)
                      \/ EnqueueReclassify(u, t)
    \/ \E ids \in SUBSET Txn : OpenReclassify(u, ids)
    \/ Confirm(u) \/ Correct(u) \/ Skip(u) \/ LoseConflict(u)
    \/ Override(u) \/ OverrideCollides(u)
    \/ RequestDies(u)

Steps == (\E w \in Worker : WorkerStep(w)) \/ (\E u \in User : UserStep(u))

Next == Intake \/ Steps

Spec == Init /\ [][Next]_vars

-----------------------------------------------------------------------------
(* Properties.                                                             *)

DecisionAction == {"review_confirmed", "review_corrected", "review_skipped"}
Decisions(t) == {e \in audit[t] : e.action \in DecisionAction}

\* The two status columns cannot disagree about the review queue: every row
\* the queue shows belongs to a transaction in review, and a transaction
\* leaves pending only together with the creation of its classification,
\* whatever overrides happen in between (classification.service.ts,
\* transaction-classifier.service.ts).
QueueAgrees ==
    \A t \in Txn :
        /\ InReview(t) => txn[t] = "review"
        /\ txn[t] \in {"review", "classified", "skipped"} => Classified(t)
        /\ Classified(t) => txn[t] # "absent"

\* Of all the people who open the same review item, at most one decides it:
\* the others conflict and leave no trace.
OneReviewDecision ==
    \A t \in Txn : \A d, e \in Decisions(t) : d = e

\* transactions.status is exactly what the audit trail of the AI and of the
\* reviewers says it should be; overrides, which leave no trail, do not
\* disturb that.
AuditExplainsStatus ==
    \A t \in Txn :
        /\ txn[t] \in {"absent", "pending"} <=> audit[t] = {}
        /\ txn[t] = "review" <=> audit[t] = {Entry("ai_queued_review", "ai")}
        /\ txn[t] = "skipped" <=> \E e \in audit[t] : e.action = "review_skipped"
        /\ txn[t] = "classified" <=>
              \E e \in audit[t] : e.action \in {"ai_auto_classify", "review_confirmed",
                                                "review_corrected"}

\* The row names whoever chose its accounts, and a row that counts as an
\* automatic one (the AI accuracy figures) was never touched by a person.
ProvenanceHolds ==
    \A t \in Txn : Classified(t) =>
        /\ cls[t].accounts \in User => cls[t].by = cls[t].accounts
        /\ cls[t].type = "auto" => cls[t] = VerdictRow("classified")
        /\ cls[t].by \in User => cls[t].status = "classified"

\* Everything that can have happened to one transaction: its status, its
\* audit trail and its classification go through these combinations only.
Queued == Entry("ai_queued_review", "ai")
Overridden(t) == \E u \in User : cls[t] = ManualRow(u)
History(t) ==
    \/ txn[t] = "absent" /\ audit[t] = {} /\ cls[t] = NoRow
    \/ txn[t] = "pending" /\ audit[t] = {} /\ (cls[t] = NoRow \/ Overridden(t))
    \/ /\ txn[t] = "review" /\ audit[t] = {Queued}
       /\ cls[t] = VerdictRow("review") \/ Overridden(t)
    \/ /\ txn[t] = "classified" /\ audit[t] = {Entry("ai_auto_classify", "ai")}
       /\ cls[t] = VerdictRow("classified") \/ Overridden(t)
    \/ \E u \in User :
          \/ /\ txn[t] = "classified" /\ audit[t] = {Queued, Entry("review_confirmed", u)}
             /\ \/ cls[t] = AiRow("classified", "manual", u)
                \/ Overridden(t)
          \/ /\ txn[t] = "classified" /\ audit[t] = {Queued, Entry("review_corrected", u)}
             /\ Overridden(t)
          \/ /\ txn[t] = "skipped" /\ audit[t] = {Queued, Entry("review_skipped", u)}
             /\ cls[t] = AiRow("skipped", "manual", "ai") \/ Overridden(t)

\* Jobs, workers and requests only ever hold transactions that exist; an
\* overwrite or a decision in flight has a classification to write to.
ReferencesHold ==
    /\ \A t \in Txn : t \in owed \/ jobs[t] > 0 => txn[t] # "absent"
    /\ \A w \in Worker : worker[w] # Idle => txn[worker[w].txn] # "absent"
    /\ \A u \in User :
          /\ request[u].pc = "insert" => txn[request[u].txn] # "absent"
          /\ request[u].pc \in ReviewOp \union {"overwrite"} => Classified(request[u].txn)
          /\ request[u].pc = "enqueue" => \A t \in request[u].ids : txn[t] # "absent"

\* The inductive invariant the others follow from.
IndInv == TypeOK /\ (\A t \in Txn : History(t)) /\ ReferencesHold

\* A late worker, a second worker or a second reviewer never moves a
\* transaction that was classified or skipped.
SettledStays ==
    [][\A t \in Txn : txn[t] \in {"classified", "skipped"} => txn'[t] = txn[t]]_vars

\* Once a classification exists, its accounts change only to the choice of a
\* person who is then named in the row: no AI result lands on top of it.
AccountsChangeByHandOnly ==
    [][\A t \in Txn : Classified(t) /\ cls'[t].accounts # cls[t].accounts
                        => cls'[t].accounts \in User /\ cls'[t].by = cls'[t].accounts]_vars

\* The documented life of a transaction (TransactionLifecycle.tla) is what
\* the worker and the review endpoints implement.
Lifecycle == INSTANCE TransactionLifecycle WITH
    stage <- txn,
    deciders <- [t \in Txn |-> {e.actor : e \in Decisions(t)}]
ImplementsLifecycle == Lifecycle!Spec
=============================================================================
