--------------------------- MODULE IngestionProofs ---------------------------
(***************************************************************************)
(* Proofs about Ingestion.tla for any number of calls and uploads, any     *)
(* plan and quota, any number of failures.                                 *)
(***************************************************************************)
EXTENDS Ingestion, FiniteSetTheorems, TLAPS

USE IngestionAssumption DEF vars

-----------------------------------------------------------------------------
(* The inductive invariant: what a call and an upload may rely on between  *)
(* their steps, and that no two of them deal with the same row.            *)

HookFits(d) ==
    /\ hook[d].pc = "store" => hook[d].seen <= used
    /\ hook[d].pc = "enqueue" => Stored(hook[d].txn) /\ jobs[hook[d].txn] = 0
    /\ hook[d].pc = "done" /\ hook[d].reply = "accepted"
          => Stored(hook[d].txn) /\ jobs[hook[d].txn] = 1

HooksApart ==
    \A d, e \in Delivery : d # e /\ hook[d].pc = "enqueue" /\ hook[e].pc = "enqueue"
        => hook[d].txn # hook[e].txn

JobsFit == \A t \in Txn : jobs[t] \in {0, 1} /\ (jobs[t] = 1 => Stored(t))

BatchFits(b) ==
    /\ batch[b].seen <= used
    /\ \A t \in batch[b].saved : Stored(t)
    /\ batch[b].pc = "rows" =>
          /\ batch[b].saved = {}
          /\ batch[b].fresh \subseteq batch[b].rows /\ batch[b].todo \subseteq batch[b].rows
          /\ \A t \in batch[b].rows : t \in batch[b].todo \/ t \in batch[b].fresh \/ Stored(t)
    /\ batch[b].pc \in {"enqueue", "done"} => \A t \in batch[b].rows : Stored(t)
    /\ batch[b].pc = "enqueue" =>
          /\ batch[b].todo \subseteq batch[b].saved
          /\ \A t \in batch[b].todo : jobs[t] = 0
          /\ \A t \in batch[b].saved \ batch[b].todo : jobs[t] = 1
    /\ batch[b].pc = "done" => \A t \in batch[b].saved : jobs[t] = 1

BatchesApart ==
    \A b, c \in Import : b # c /\ batch[b] # Idle /\ batch[c] # Idle
        => batch[b].saved \intersect batch[c].saved = {}

FromUploads ==
    \A t \in FileRow :
        Stored(t) <=> \E b \in Import : batch[b] # Idle /\ t \in batch[b].saved

RowsInv ==
    /\ \A d \in Delivery : HookFits(d)
    /\ HooksApart /\ JobsFit
    /\ \A b \in Import : batch[b] # Idle => BatchFits(b)
    /\ BatchesApart /\ FromUploads
    /\ UsageMatchesRows /\ NeverOverbilled

IndInv == TypeOK /\ RowsInv

-----------------------------------------------------------------------------
(* Type correctness.                                                       *)

OpenHook == [pc : {"lookup", "quota", "store", "enqueue"}, txn : CasTxn, seen : Nat]
OpenBatch ==
    [pc : {"rows", "enqueue", "done", "failed"}, rows : SUBSET FileRow,
     todo : SUBSET FileRow, fresh : SUBSET FileRow, saved : SUBSET FileRow, seen : Nat]

\* A call between its steps knows its transaction.
LEMMA HookTyped ==
    ASSUME TypeOK, NEW d \in Delivery, hook[d].pc \in {"lookup", "quota", "store", "enqueue"}
    PROVE  hook[d] \in OpenHook
<1>1. hook[d] \in Hook
  BY DEF TypeOK
<1>2. hook[d] # Idle
  BY DEF Idle
<1>3. hook[d] \notin [pc : {"done"}, txn : CasTxn, reply : {"duplicate", "accepted", "failed"}]
  OBVIOUS
<1> QED
  BY <1>1, <1>2, <1>3 DEF Hook, OpenHook

\* So does an upload that has begun.
LEMMA BatchTyped ==
    ASSUME TypeOK, NEW b \in Import, batch[b] # Idle
    PROVE  batch[b] \in OpenBatch
  BY DEF TypeOK, Batch, OpenBatch

LEMMA BatchBegun ==
    ASSUME TypeOK, NEW b \in Import, batch[b].pc \in {"rows", "enqueue", "done", "failed"}
    PROVE  batch[b] # Idle /\ batch[b] \in OpenBatch
<1>1. batch[b] # Idle
  BY DEF Idle
<1> QED
  BY <1>1, BatchTyped

\* A call that goes on or answers is typed.
LEMMA GoToTyped ==
    ASSUME TypeOK, NEW d \in Delivery, NEW state \in Hook, GoTo(d, state)
    PROVE  hook' \in [Delivery -> Hook]
  BY DEF TypeOK, GoTo

LEMMA AnswerTyped ==
    ASSUME TypeOK, NEW d \in Delivery, hook[d].pc \in {"lookup", "quota", "store", "enqueue"},
           NEW reply \in {"duplicate", "accepted", "failed"}, Answer(d, reply)
    PROVE  hook' \in [Delivery -> Hook]
<1>1. Answered(hook[d].txn, reply) \in Hook
  BY HookTyped DEF Answered, Hook, OpenHook
<1> QED
  BY <1>1, GoToTyped DEF Answer

LEMMA CallTyped ==
    ASSUME NEW pc \in {"lookup", "quota", "store", "enqueue"}, NEW t \in CasTxn, NEW seen \in Nat
    PROVE  Call(pc, t, seen) \in Hook
  BY DEF Call, Hook

LEMMA InBatchTyped ==
    ASSUME TypeOK, NEW b \in Import, NEW state \in OpenBatch, InBatch(b, state)
    PROVE  batch' \in [Import -> Batch]
  BY DEF TypeOK, InBatch, Batch, OpenBatch

\* Rows are finitely many, so what a commit adds to a counter is a number.
LEMMA FileRowsFinite ==
    /\ FileRow \subseteq Txn
    /\ \A S \in SUBSET FileRow : IsFiniteSet(S) /\ Cardinality(S) \in Nat
  BY FS_Subset, FS_CardinalityType DEF FileRow

LEMMA HookKeepsTypes ==
    ASSUME TypeOK, NEW d \in Delivery, HookStep(d)
    PROVE  TypeOK'
<1> USE DEF WebhookOnly, NothingElse
<1>1. CASE LookUp(d)
  <2>1. Call("quota", hook[d].txn, 0) \in Hook
    BY <1>1, HookTyped, CallTyped DEF LookUp, OpenHook
  <2> QED
    BY <1>1, <2>1, GoToTyped DEF LookUp, TypeOK
<1>2. CASE GrantMissing(d)
  BY <1>2, AnswerTyped DEF GrantMissing, TypeOK
<1>3. CASE AlreadyStored(d)
  BY <1>3, AnswerTyped DEF AlreadyStored, TypeOK
<1>4. CASE ReadQuota(d)
  <2>1. Call("store", hook[d].txn, used) \in Hook
    BY <1>4, HookTyped, CallTyped DEF ReadQuota, OpenHook, TypeOK
  <2> QED
    BY <1>4, <2>1, GoToTyped DEF ReadQuota, TypeOK
<1>5. CASE NoSubscription(d)
  BY <1>5, AnswerTyped DEF NoSubscription, TypeOK
<1>6. CASE Store(d)
  <2>1. hook[d].txn \in CasTxn /\ Call("enqueue", hook[d].txn, 0) \in Hook
    BY <1>6, HookTyped, CallTyped DEF Store, StoreRow, OpenHook
  <2>2. hook' \in [Delivery -> Hook]
    BY <1>6, <2>1, GoToTyped DEF Store
  <2>3. txn' \in [Txn -> Status] /\ used' \in Nat /\ overage' \in Nat
    BY <1>6, <2>1 DEF Store, StoreRow, TypeOK, Status
  <2> QED
    BY <1>6, <2>2, <2>3 DEF Store, TypeOK
<1>7. CASE StoreCollides(d)
  BY <1>7, AnswerTyped DEF StoreCollides, TypeOK
<1>8. CASE AddJob(d)
  <2>1. hook[d].txn \in Txn
    BY <1>8, HookTyped DEF AddJob, OpenHook
  <2>2. jobs' \in [Txn -> Nat]
    BY <1>8, <2>1 DEF AddJob, TypeOK
  <2>3. hook' \in [Delivery -> Hook]
    BY <1>8, AnswerTyped DEF AddJob
  <2> QED
    BY <1>8, <2>2, <2>3 DEF AddJob, TypeOK
<1> QED
  BY <1>1, <1>2, <1>3, <1>4, <1>5, <1>6, <1>7, <1>8 DEF HookStep

LEMMA BatchKeepsTypes ==
    ASSUME TypeOK, NEW b \in Import, BatchStep(b)
    PROVE  TypeOK'
<1> USE DEF ImportOnly
<1>1. CASE \E t \in FileRow : CheckRow(b, t)
  <2> PICK t \in FileRow : CheckRow(b, t)
    BY <1>1
  <2> DEFINE state == [batch[b] EXCEPT !.todo = @ \ {t},
                           !.fresh = IF Stored(t) THEN @ ELSE @ \union {t}]
  <2>1. batch[b] \in OpenBatch
    BY BatchBegun DEF CheckRow
  <2>2. state \in OpenBatch
    BY <2>1 DEF OpenBatch
  <2>3. batch' \in [Import -> Batch]
    BY <2>2, InBatchTyped DEF CheckRow
  <2> QED
    BY <2>3 DEF CheckRow, TypeOK
<1>2. CASE \E t \in FileRow : AddRowJob(b, t)
  <2> PICK t \in FileRow : AddRowJob(b, t)
    BY <1>2
  <2> DEFINE state == [batch[b] EXCEPT !.todo = @ \ {t},
                           !.pc = IF batch[b].todo = {t} THEN "done" ELSE "enqueue"]
  <2>1. batch[b] \in OpenBatch
    BY BatchBegun DEF AddRowJob
  <2>2. state \in OpenBatch
    BY <2>1 DEF OpenBatch
  <2>3. batch' \in [Import -> Batch]
    BY <2>2, InBatchTyped DEF AddRowJob
  <2>4. jobs' \in [Txn -> Nat]
    BY FileRowsFinite DEF AddRowJob, TypeOK
  <2> QED
    BY <2>3, <2>4 DEF AddRowJob, TypeOK
<1>3. CASE CommitBatch(b)
  <2> DEFINE fresh == batch[b].fresh
             state == [batch[b] EXCEPT !.pc = IF fresh = {} THEN "done" ELSE "enqueue",
                                       !.todo = fresh, !.saved = fresh]
  <2>1. batch[b] \in OpenBatch
    BY <1>3, BatchBegun DEF CommitBatch, AllChecked
  <2>2. state \in OpenBatch
    BY <2>1 DEF OpenBatch
  <2>3. batch' \in [Import -> Batch]
    BY <1>3, <2>2, InBatchTyped DEF CommitBatch, ImportRows
  <2>4. Cardinality(fresh) \in Nat
    BY <2>1, FileRowsFinite DEF OpenBatch
  <2>5. used' \in Nat /\ overage' \in Nat
    BY <1>3, <2>4 DEF CommitBatch, ImportRows, TypeOK
  <2>6. txn' \in [Txn -> Status]
    BY <1>3 DEF CommitBatch, ImportRows, TypeOK, Status
  <2> QED
    BY <1>3, <2>3, <2>5, <2>6 DEF CommitBatch, ImportRows, TypeOK
<1>4. CASE CommitCollides(b)
  <2>1. [batch[b] EXCEPT !.pc = "failed"] \in OpenBatch
    BY <1>4, BatchBegun DEF CommitCollides, AllChecked, OpenBatch
  <2>2. batch' \in [Import -> Batch]
    BY <1>4, <2>1, InBatchTyped DEF CommitCollides
  <2> QED
    BY <1>4, <2>2 DEF CommitCollides, TypeOK
<1> QED
  BY <1>1, <1>2, <1>3, <1>4 DEF BatchStep

LEMMA OthersKeepTypes ==
    ASSUME TypeOK, Arrival \/ Environment
    PROVE  TypeOK'
<1> USE DEF WebhookOnly, NothingElse, ImportOnly
<1>1. ASSUME NEW d \in Delivery, NEW t \in CasTxn, AcquireKey(d, t)
      PROVE  TypeOK'
  <2>1. hook' \in [Delivery -> Hook]
    BY <1>1, CallTyped, GoToTyped DEF AcquireKey
  <2> QED
    BY <1>1, <2>1 DEF AcquireKey, TypeOK
<1>2. ASSUME NEW d \in Delivery, NEW t \in CasTxn, RefuseDuplicate(d, t)
      PROVE  TypeOK'
  <2>1. Answered(t, "duplicate") \in Hook
    BY <1>2 DEF Answered, Hook
  <2> QED
    BY <1>2, <2>1, GoToTyped DEF RefuseDuplicate, TypeOK
<1>3. ASSUME NEW b \in Import, NEW rows \in SUBSET FileRow, Upload(b, rows)
      PROVE  TypeOK'
  <2>1. [pc |-> "rows", rows |-> rows, todo |-> rows, fresh |-> {}, saved |-> {},
         seen |-> used] \in OpenBatch
    BY <1>3 DEF OpenBatch, TypeOK
  <2> QED
    BY <1>3, <2>1, InBatchTyped DEF Upload, TypeOK
<1>4. ASSUME NEW d \in Delivery, HookFails(d)
      PROVE  TypeOK'
  <2>1. hook' \in [Delivery -> Hook]
    BY <1>4, AnswerTyped DEF HookFails
  <2> QED
    BY <1>4, <2>1 DEF HookFails, TypeOK
<1>5. ASSUME NEW b \in Import, ImportFails(b)
      PROVE  TypeOK'
  <2>1. [batch[b] EXCEPT !.pc = "failed"] \in OpenBatch
    BY <1>5, BatchBegun DEF ImportFails, OpenBatch
  <2>2. batch' \in [Import -> Batch]
    BY <1>5, <2>1, InBatchTyped DEF ImportFails
  <2> QED
    BY <1>5, <2>2 DEF ImportFails, TypeOK
<1>6. CASE LinkBank
  BY <1>6 DEF LinkBank, TypeOK
<1>7. CASE SuspendTenant
  <2>1. faults' \in 0..MaxFaults /\ active' = FALSE
    BY <1>7 DEF SuspendTenant, TypeOK
  <2> QED
    BY <1>7, <2>1 DEF SuspendTenant, TypeOK
<1>8. CASE ActivateTenant
  BY <1>8 DEF ActivateTenant, TypeOK
<1>9. ASSUME NEW t \in CasTxn, ExpireKey(t)
      PROVE  TypeOK'
  BY <1>9 DEF ExpireKey, TypeOK
<1> QED
  BY <1>1, <1>2, <1>3, <1>4, <1>5, <1>6, <1>7, <1>8, <1>9 DEF Arrival, Environment

LEMMA StepKeepsTypes == TypeOK /\ [Next]_vars => TypeOK'
<1> SUFFICES ASSUME TypeOK, [Next]_vars PROVE TypeOK'
  OBVIOUS
<1>1. CASE UNCHANGED vars
  BY <1>1 DEF TypeOK
<1> QED
  BY <1>1, HookKeepsTypes, BatchKeepsTypes, OthersKeepTypes DEF Next

LEMMA InitTyped == Init => TypeOK
  BY DEF Init, TypeOK, Status, Hook, Batch

\* Every variable of intake keeps its type.
THEOREM TypeCorrect == Spec => []TypeOK
  BY InitTyped, StepKeepsTypes, PTL DEF Spec

-----------------------------------------------------------------------------
(* Steps that store nothing and queue nothing.                             *)

Tables == <<txn, jobs, used, overage>>

\* A call that goes on without having stored or queued anything.
LEMMA QuietHook ==
    ASSUME IndInv, NEW d \in Delivery, \A e \in Delivery : e # d => hook'[e] = hook[e],
           UNCHANGED <<Tables, batch>>,
           hook'[d].pc # "enqueue",
           hook'[d].pc = "store" => hook'[d].seen <= used,
           hook'[d].pc = "done" => hook'[d].reply # "accepted"
    PROVE  RowsInv'
<1> USE DEF Tables, Stored, IndInv, RowsInv
<1>1. \A e \in Delivery : HookFits(e)'
  BY DEF HookFits
<1>2. HooksApart'
  BY DEF HooksApart
<1>3. JobsFit'
  BY DEF JobsFit
<1>4. \A b \in Import : (batch[b] # Idle => BatchFits(b))'
  BY DEF BatchFits
<1>5. BatchesApart' /\ FromUploads'
  BY DEF BatchesApart, FromUploads
<1>6. UsageMatchesRows' /\ NeverOverbilled'
  BY DEF UsageMatchesRows, NeverOverbilled
<1> QED
  BY <1>1, <1>2, <1>3, <1>4, <1>5, <1>6

\* Nothing of the rows, the calls and the uploads changes.
LEMMA QuietElsewhere ==
    ASSUME IndInv, UNCHANGED <<Tables, hook, batch>>
    PROVE  RowsInv'
<1> USE DEF Tables, Stored, IndInv, RowsInv
<1>1. \A e \in Delivery : HookFits(e)'
  BY DEF HookFits
<1>2. HooksApart' /\ JobsFit'
  BY DEF HooksApart, JobsFit
<1>4. \A b \in Import : (batch[b] # Idle => BatchFits(b))'
  BY DEF BatchFits
<1>5. BatchesApart' /\ FromUploads'
  BY DEF BatchesApart, FromUploads
<1>6. UsageMatchesRows' /\ NeverOverbilled'
  BY DEF UsageMatchesRows, NeverOverbilled
<1> QED
  BY <1>1, <1>2, <1>4, <1>5, <1>6

\* An upload that goes on while its set of saved rows stays.
LEMMA QuietBatch ==
    ASSUME IndInv, NEW b \in Import, UNCHANGED <<Tables, hook>>,
           NEW state \in OpenBatch, batch' = [batch EXCEPT ![b] = state],
           BatchFits(b)',
           state.saved = IF batch[b] = Idle THEN {} ELSE batch[b].saved
    PROVE  RowsInv'
<1> USE DEF Tables, Stored, IndInv, RowsInv
<1>0. DOMAIN batch = Import /\ state # Idle
  BY DEF TypeOK, OpenBatch, Idle
<1>1. \A e \in Delivery : HookFits(e)'
  BY DEF HookFits
<1>2. HooksApart' /\ JobsFit'
  BY DEF HooksApart, JobsFit
<1>4. \A c \in Import : (batch[c] # Idle => BatchFits(c))'
  <2> SUFFICES ASSUME NEW c \in Import, c # b, batch'[c] # Idle
               PROVE  BatchFits(c)'
    OBVIOUS
  <2>1. batch'[c] = batch[c] /\ BatchFits(c)
    BY <1>0
  <2> QED
    BY <2>1 DEF BatchFits
<1>5. BatchesApart'
  BY <1>0 DEF BatchesApart
<1>6. FromUploads'
  <2>1. \A c \in Import, t \in FileRow :
           (batch[c] # Idle /\ t \in batch[c].saved)' <=> (batch[c] # Idle /\ t \in batch[c].saved)
    BY <1>0
  <2> QED
    BY <2>1 DEF FromUploads
<1>7. UsageMatchesRows' /\ NeverOverbilled'
  BY DEF UsageMatchesRows, NeverOverbilled
<1> QED
  BY <1>1, <1>2, <1>4, <1>5, <1>6, <1>7

\* What is left out of OneJobPerRow and RowsBelongToOneBatch by working with
\* rows one at a time.
LEMMA StoredRowsFinite ==
    /\ IsFiniteSet({t \in Txn : Stored(t)})
    /\ Cardinality({t \in Txn : Stored(t)}) \in Nat
  BY FS_Subset, FS_CardinalityType

-----------------------------------------------------------------------------
(* The steps of a call.                                                    *)

LEMMA StoreHolds ==
    ASSUME IndInv, NEW d \in Delivery, Store(d)
    PROVE  RowsInv'
<1> DEFINE t == hook[d].txn
           over == Over(hook[d].seen)
<1> USE DEF IndInv, RowsInv
<1>0. t \in CasTxn /\ t \in Txn /\ t \notin FileRow /\ hook[d].seen \in Nat
  BY HookTyped DEF Store, StoreRow, OpenHook, FileRow
<1>1. /\ ~Stored(t) /\ hook[d].pc = "store" /\ hook[d].seen <= used
      /\ used' = used + 1 /\ used \in Nat /\ overage \in Nat
      /\ overage' = IF over THEN overage + 1 ELSE overage
      /\ hook' = [hook EXCEPT ![d] = Call("enqueue", t, 0)]
      /\ UNCHANGED <<jobs, batch>>
  BY DEF Store, StoreRow, GoTo, WebhookOnly, HookFits, TypeOK
<1>2. \A s \in Txn : Stored(s)' <=> s = t \/ Stored(s)
  BY <1>0 DEF Store, StoreRow, Stored, TypeOK
<1>3. jobs[t] = 0
  BY <1>0, <1>1 DEF JobsFit
<1>4. DOMAIN hook = Delivery /\ hook'[d] = [pc |-> "enqueue", txn |-> t, seen |-> 0]
  BY <1>1 DEF TypeOK, Call
<1>5. \A e \in Delivery : HookFits(e)'
  <2> SUFFICES ASSUME NEW e \in Delivery PROVE HookFits(e)'
    OBVIOUS
  <2>1. CASE e = d
    BY <2>1, <1>0, <1>1, <1>2, <1>3, <1>4 DEF HookFits
  <2>2. CASE e # d
    <3>1. hook'[e] = hook[e] /\ hook[e] \in Hook
      BY <2>2, <1>1, <1>4 DEF TypeOK
    <3>2. hook[e].pc \in {"enqueue", "done"} => hook[e].txn \in Txn
      BY <3>1 DEF Hook, Idle
    <3>3. hook[e].pc = "store" => hook[e].seen \in Nat
      BY HookTyped DEF OpenHook
    <3> QED
      BY <3>1, <3>2, <3>3, <1>1, <1>2 DEF HookFits
  <2> QED
    BY <2>1, <2>2
<1>6. HooksApart'
  <2> SUFFICES ASSUME NEW e \in Delivery, e # d, hook[e].pc = "enqueue"
               PROVE  hook[e].txn # t
    BY <1>1, <1>4 DEF HooksApart
  <2> QED
    BY <1>1 DEF HookFits
<1>7. JobsFit'
  BY <1>1, <1>2 DEF JobsFit
<1>8. \A b \in Import : (batch[b] # Idle => BatchFits(b))'
  <2> SUFFICES ASSUME NEW b \in Import, batch[b] # Idle PROVE BatchFits(b)'
    BY <1>1
  <2>1. batch[b] \in OpenBatch /\ BatchFits(b)
    BY BatchTyped
  <2>2. batch[b].seen \in Nat /\ batch[b].saved \subseteq Txn /\ batch[b].rows \subseteq Txn
    BY <2>1, FileRowsFinite DEF OpenBatch
  <2> QED
    BY <2>1, <2>2, <1>1, <1>2 DEF BatchFits
<1>9. BatchesApart' /\ FromUploads'
  BY <1>0, <1>1, <1>2, FileRowsFinite DEF BatchesApart, FromUploads
<1>10. UsageMatchesRows'
  <2>1. {s \in Txn : Stored(s)'} = {s \in Txn : Stored(s)} \union {t}
    BY <1>0, <1>2
  <2>2. Cardinality({s \in Txn : Stored(s)} \union {t}) = Cardinality({s \in Txn : Stored(s)}) + 1
    BY <1>1, StoredRowsFinite, FS_AddElement
  <2> QED
    BY <2>1, <2>2, <1>1 DEF UsageMatchesRows
<1>11. NeverOverbilled'
  <2>1. over => Plan = "starter" /\ used >= Quota
    BY <1>0, <1>1 DEF Over
  <2> QED
    BY <1>1, <2>1 DEF NeverOverbilled
<1> QED
  BY <1>5, <1>6, <1>7, <1>8, <1>9, <1>10, <1>11

LEMMA AddJobHolds ==
    ASSUME IndInv, NEW d \in Delivery, AddJob(d)
    PROVE  RowsInv'
<1> DEFINE t == hook[d].txn
<1> USE DEF IndInv, RowsInv
<1>0. t \in CasTxn /\ t \in Txn /\ t \notin FileRow
  BY HookTyped DEF AddJob, OpenHook, FileRow
<1>1. /\ hook[d].pc = "enqueue" /\ Stored(t) /\ jobs[t] = 0
      /\ jobs' = [jobs EXCEPT ![t] = @ + 1]
      /\ hook' = [hook EXCEPT ![d] = Answered(t, "accepted")]
      /\ UNCHANGED <<txn, used, overage, batch>>
  BY DEF AddJob, Answer, GoTo, WebhookOnly, HookFits
<1>2. \A s \in Txn : jobs'[s] = IF s = t THEN 1 ELSE jobs[s]
  BY <1>0, <1>1 DEF TypeOK
<1>3. \A s : Stored(s)' <=> Stored(s)
  BY <1>1 DEF Stored
<1>4. DOMAIN hook = Delivery /\ hook'[d] = [pc |-> "done", txn |-> t, reply |-> "accepted"]
  BY <1>1 DEF TypeOK, Answered
<1>5. \A e \in Delivery : HookFits(e)'
  <2> SUFFICES ASSUME NEW e \in Delivery PROVE HookFits(e)'
    OBVIOUS
  <2>1. CASE e = d
    BY <2>1, <1>0, <1>1, <1>2, <1>3, <1>4 DEF HookFits
  <2>2. CASE e # d
    <3>1. hook'[e] = hook[e] /\ hook[e] \in Hook /\ HookFits(e)
      BY <2>2, <1>1, <1>4 DEF TypeOK
    <3>2. hook[e].pc \in {"enqueue", "done"} => hook[e].txn \in Txn
      BY <3>1 DEF Hook, Idle
    <3>3. hook[e].pc = "enqueue" => hook[e].txn # t
      BY <2>2, <1>1 DEF HooksApart
    <3>4. hook[e].pc = "done" /\ hook[e].reply = "accepted" => jobs'[hook[e].txn] = 1
      BY <3>1, <3>2, <1>2 DEF HookFits
    <3>5. hook[e].pc = "enqueue" => jobs'[hook[e].txn] = 0
      BY <3>1, <3>2, <3>3, <1>2 DEF HookFits
    <3> QED
      BY <3>1, <3>4, <3>5, <1>1, <1>3 DEF HookFits
  <2> QED
    BY <2>1, <2>2
<1>6. HooksApart'
  BY <1>1, <1>4 DEF HooksApart
<1>7. JobsFit'
  BY <1>0, <1>1, <1>2, <1>3 DEF JobsFit
<1>8. \A b \in Import : (batch[b] # Idle => BatchFits(b))'
  <2> SUFFICES ASSUME NEW b \in Import, batch[b] # Idle PROVE BatchFits(b)'
    BY <1>1
  <2>1. batch[b] \in OpenBatch /\ BatchFits(b)
    BY BatchTyped
  <2>2. \A s \in batch[b].saved \union batch[b].todo : jobs'[s] = jobs[s]
    BY <2>1, <1>0, <1>2, FileRowsFinite DEF OpenBatch
  <2> QED
    BY <2>1, <2>2, <1>1, <1>3 DEF BatchFits
<1>9. BatchesApart' /\ FromUploads'
  BY <1>1, <1>3 DEF BatchesApart, FromUploads
<1>10. UsageMatchesRows' /\ NeverOverbilled'
  BY <1>1, <1>3 DEF UsageMatchesRows, NeverOverbilled
<1> QED
  BY <1>5, <1>6, <1>7, <1>8, <1>9, <1>10

-----------------------------------------------------------------------------
(* The steps of an upload.                                                 *)

LEMMA CheckRowHolds ==
    ASSUME IndInv, NEW b \in Import, NEW t \in FileRow, CheckRow(b, t)
    PROVE  RowsInv'
<1> DEFINE state == [batch[b] EXCEPT !.todo = @ \ {t},
                         !.fresh = IF Stored(t) THEN @ ELSE @ \union {t}]
<1>1. batch[b] # Idle /\ batch[b] \in OpenBatch /\ BatchFits(b)
  BY BatchBegun DEF CheckRow, IndInv, RowsInv
<1>2. /\ batch[b].pc = "rows" /\ t \in batch[b].todo
      /\ UNCHANGED <<Tables, hook>> /\ batch' = [batch EXCEPT ![b] = state]
  BY DEF CheckRow, InBatch, ImportOnly, Tables
<1>3. state \in OpenBatch
  BY <1>1 DEF OpenBatch
<1>4. batch'[b] = state
  BY <1>2 DEF IndInv, TypeOK
<1>5. /\ state.pc = "rows" /\ state.saved = batch[b].saved /\ state.seen = batch[b].seen
      /\ state.rows = batch[b].rows /\ state.todo = batch[b].todo \ {t}
      /\ state.fresh = IF Stored(t) THEN batch[b].fresh ELSE batch[b].fresh \union {t}
  BY <1>1, <1>2 DEF OpenBatch
<1>6. BatchFits(b)'
  BY <1>1, <1>2, <1>4, <1>5 DEF BatchFits, Stored, Tables
<1> QED
  BY <1>1, <1>2, <1>3, <1>5, <1>6, QuietBatch

LEMMA UploadHolds ==
    ASSUME IndInv, NEW b \in Import, NEW rows \in SUBSET FileRow, Upload(b, rows)
    PROVE  RowsInv'
<1> DEFINE state == [pc |-> "rows", rows |-> rows, todo |-> rows, fresh |-> {}, saved |-> {},
                     seen |-> used]
<1>1. /\ batch[b] = Idle /\ UNCHANGED <<Tables, hook>>
      /\ batch' = [batch EXCEPT ![b] = state]
  BY DEF Upload, InBatch, ImportOnly, Tables
<1>2. state \in OpenBatch /\ used \in Nat
  BY DEF OpenBatch, IndInv, TypeOK
<1>3. batch'[b] = state
  BY <1>1 DEF IndInv, TypeOK
<1>4. BatchFits(b)'
  BY <1>1, <1>2, <1>3 DEF BatchFits, Tables
<1> QED
  BY <1>1, <1>2, <1>4, QuietBatch

\* An upload that collides, dies or is refused keeps what it has saved.
LEMMA FailedUploadHolds ==
    ASSUME IndInv, NEW b \in Import, batch[b].pc \in {"rows", "enqueue"},
           InBatch(b, [batch[b] EXCEPT !.pc = "failed"]), UNCHANGED <<Tables, hook>>
    PROVE  RowsInv'
<1> DEFINE state == [batch[b] EXCEPT !.pc = "failed"]
<1>1. batch[b] # Idle /\ batch[b] \in OpenBatch /\ BatchFits(b)
  BY BatchBegun DEF IndInv, RowsInv
<1>2. /\ state \in OpenBatch /\ state.pc = "failed" /\ state.saved = batch[b].saved
      /\ state.seen = batch[b].seen
  BY <1>1 DEF OpenBatch
<1>3. batch'[b] = state /\ batch' = [batch EXCEPT ![b] = state]
  BY DEF InBatch, IndInv, TypeOK
<1>4. BatchFits(b)'
  BY <1>1, <1>2, <1>3 DEF BatchFits, Stored, Tables
<1> QED
  BY <1>1, <1>2, <1>3, <1>4, QuietBatch

LEMMA CommitBatchHolds ==
    ASSUME IndInv, NEW b \in Import, CommitBatch(b)
    PROVE  RowsInv'
<1> DEFINE F == batch[b].fresh
           stored == {s \in Txn : Stored(s)}
           state == [batch[b] EXCEPT !.pc = IF F = {} THEN "done" ELSE "enqueue",
                                     !.todo = F, !.saved = F]
<1> USE DEF IndInv, RowsInv
<1>1. /\ batch[b] # Idle /\ batch[b] \in OpenBatch /\ BatchFits(b)
      /\ batch[b].pc = "rows" /\ batch[b].todo = {} /\ \A s \in F : ~Stored(s)
  BY BatchBegun DEF CommitBatch, AllChecked
<1>2. F \subseteq FileRow /\ F \subseteq Txn /\ IsFiniteSet(F) /\ Cardinality(F) \in Nat
  BY <1>1, FileRowsFinite DEF OpenBatch
<1>3. /\ used' = used + Cardinality(F) /\ used \in Nat /\ overage \in Nat
      /\ overage' = IF Over(batch[b].seen) THEN overage + Cardinality(F) ELSE overage
      /\ batch' = [batch EXCEPT ![b] = state] /\ UNCHANGED <<jobs, hook>>
      /\ txn' = [s \in Txn |-> IF s \in F THEN "pending" ELSE txn[s]]
  BY DEF CommitBatch, ImportRows, InBatch, ImportOnly, TypeOK
<1>4. \A s \in Txn : Stored(s)' <=> s \in F \/ Stored(s)
  BY <1>3 DEF Stored
<1>5. \A s \in F : jobs[s] = 0
  BY <1>1, <1>2 DEF JobsFit
<1>6. /\ batch'[b] = state /\ state # Idle /\ DOMAIN batch = Import
      /\ state.pc = (IF F = {} THEN "done" ELSE "enqueue")
      /\ state.todo = F /\ state.saved = F /\ state.seen = batch[b].seen
      /\ state.rows = batch[b].rows
  BY <1>1, <1>3 DEF TypeOK, OpenBatch, Idle
<1>7. \A e \in Delivery : HookFits(e)'
  <2> SUFFICES ASSUME NEW e \in Delivery PROVE HookFits(e)'
    OBVIOUS
  <2>1. hook'[e] = hook[e] /\ hook[e] \in Hook /\ HookFits(e)
    BY <1>3 DEF TypeOK
  <2>2. hook[e].pc \in {"enqueue", "done"} => hook[e].txn \in Txn
    BY <2>1 DEF Hook, Idle
  <2>3. hook[e].pc = "store" => hook[e].seen \in Nat
    BY HookTyped DEF OpenHook
  <2> QED
    BY <2>1, <2>2, <2>3, <1>2, <1>3, <1>4 DEF HookFits
<1>8. HooksApart' /\ JobsFit'
  BY <1>3, <1>4 DEF HooksApart, JobsFit
<1>9. BatchFits(b)'
  <2>1. batch[b].seen \in Nat /\ batch[b].rows \subseteq Txn
    BY <1>1, FileRowsFinite DEF OpenBatch
  <2>2. batch[b].seen <= used'
    BY <2>1, <1>1, <1>2, <1>3 DEF BatchFits
  <2>3. \A s \in batch[b].rows : Stored(s)'
    BY <2>1, <1>1, <1>4 DEF BatchFits
  <2>4. \A s \in F : Stored(s)' /\ jobs'[s] = 0
    BY <1>2, <1>3, <1>4, <1>5
  <2> QED
    BY <2>2, <2>3, <2>4, <1>6 DEF BatchFits
<1>10. ASSUME NEW c \in Import, c # b, batch[c] # Idle
       PROVE  BatchFits(c)' /\ batch'[c] = batch[c] /\ batch[c].saved \cap F = {}
  <2>1. batch'[c] = batch[c] /\ batch[c] \in OpenBatch /\ BatchFits(c)
    BY <1>10, <1>3, <1>6, BatchTyped
  <2>2. batch[c].seen \in Nat /\ batch[c].saved \subseteq Txn /\ batch[c].rows \subseteq Txn
    BY <2>1, FileRowsFinite DEF OpenBatch
  <2>3. BatchFits(c)'
    BY <2>1, <2>2, <1>2, <1>3, <1>4 DEF BatchFits
  <2>4. batch[c].saved \cap F = {}
    BY <2>1, <1>1 DEF BatchFits
  <2> QED
    BY <2>1, <2>3, <2>4
<1>11. \A c \in Import : (batch[c] # Idle => BatchFits(c))'
  BY <1>3, <1>6, <1>9, <1>10
<1>12. BatchesApart'
  BY <1>3, <1>6, <1>10 DEF BatchesApart
<1>13. FromUploads'
  <2> SUFFICES ASSUME NEW s \in FileRow
               PROVE  (Stored(s) <=> \E c \in Import : batch[c] # Idle /\ s \in batch[c].saved)'
    BY DEF FromUploads
  <2>1. s \in Txn
    BY FileRowsFinite
  <2>2. CASE s \in F
    BY <2>1, <2>2, <1>4, <1>6
  <2>3. CASE s \notin F
    <3>1. \A c \in Import : (batch[c] # Idle /\ s \in batch[c].saved)'
             <=> batch[c] # Idle /\ s \in batch[c].saved
      <4> TAKE c \in Import
      <4>1. CASE c = b
        <5>1. batch[b].saved = {}
          BY <1>1 DEF BatchFits
        <5> QED
          BY <5>1, <4>1, <2>3, <1>6
      <4>2. CASE c # b
        BY <4>2, <1>3
      <4> QED
        BY <4>1, <4>2
    <3>2. Stored(s)' <=> Stored(s)
      BY <2>1, <2>3, <1>4
    <3> QED
      BY <3>1, <3>2 DEF FromUploads
  <2> QED
    BY <2>2, <2>3
<1>14. UsageMatchesRows'
  <2>1. {s \in Txn : Stored(s)'} = stored \union F
    BY <1>2, <1>4
  <2>2. stored \cap F = {} /\ IsFiniteSet(stored) /\ Cardinality(stored) = used
    BY <1>1, StoredRowsFinite DEF UsageMatchesRows
  <2>3. Cardinality(stored \union F) = Cardinality(stored) + Cardinality(F)
    <3>1. Cardinality(stored \union F)
             = Cardinality(stored) + Cardinality(F) - Cardinality(stored \cap F)
      BY <2>2, <1>2, FS_Union
    <3>2. Cardinality(stored \cap F) = 0
      BY <2>2, FS_EmptySet
    <3> QED
      BY <3>1, <3>2, <2>2, <1>2, <1>3
  <2> QED
    BY <2>1, <2>2, <2>3, <1>3 DEF UsageMatchesRows
<1>15. NeverOverbilled'
  <2>1. batch[b].seen \in Nat /\ batch[b].seen <= used
    BY <1>1 DEF OpenBatch, BatchFits
  <2>2. Over(batch[b].seen) => Plan = "starter" /\ used >= Quota
    BY <2>1, <1>3 DEF Over
  <2> QED
    BY <2>2, <1>2, <1>3 DEF NeverOverbilled
<1> QED
  BY <1>7, <1>8, <1>11, <1>12, <1>13, <1>14, <1>15

LEMMA AddRowJobHolds ==
    ASSUME IndInv, NEW b \in Import, NEW t \in FileRow, AddRowJob(b, t)
    PROVE  RowsInv'
<1> DEFINE state == [batch[b] EXCEPT !.todo = @ \ {t},
                         !.pc = IF batch[b].todo = {t} THEN "done" ELSE "enqueue"]
<1> USE DEF IndInv, RowsInv
<1>1. /\ batch[b] # Idle /\ batch[b] \in OpenBatch /\ BatchFits(b)
      /\ batch[b].pc = "enqueue" /\ t \in batch[b].todo
  BY BatchBegun DEF AddRowJob
<1>2. /\ jobs' = [jobs EXCEPT ![t] = @ + 1] /\ batch' = [batch EXCEPT ![b] = state]
      /\ UNCHANGED <<txn, used, overage, hook>>
  BY DEF AddRowJob, InBatch, ImportOnly
<1>3. t \in Txn /\ t \notin CasTxn /\ jobs[t] = 0 /\ t \in batch[b].saved /\ Stored(t)
  BY <1>1, FileRowsFinite DEF BatchFits, FileRow
<1>4. \A s \in Txn : jobs'[s] = IF s = t THEN 1 ELSE jobs[s]
  BY <1>2, <1>3 DEF TypeOK
<1>5. \A s : Stored(s)' <=> Stored(s)
  BY <1>2 DEF Stored
<1>6. /\ batch'[b] = state /\ state # Idle /\ DOMAIN batch = Import
      /\ state.pc = (IF batch[b].todo = {t} THEN "done" ELSE "enqueue")
      /\ state.todo = batch[b].todo \ {t} /\ state.saved = batch[b].saved
      /\ state.seen = batch[b].seen /\ state.rows = batch[b].rows
  BY <1>1, <1>2 DEF TypeOK, OpenBatch, Idle
<1>7. \A e \in Delivery : HookFits(e)'
  <2> SUFFICES ASSUME NEW e \in Delivery PROVE HookFits(e)'
    OBVIOUS
  <2>1. hook'[e] = hook[e] /\ hook[e] \in Hook /\ HookFits(e)
    BY <1>2 DEF TypeOK
  <2>2. hook[e].pc \in {"enqueue", "done"} => hook[e].txn \in Txn /\ hook[e].txn # t
    BY <2>1, <1>3 DEF Hook, Idle
  <2> QED
    BY <2>1, <2>2, <1>2, <1>4, <1>5 DEF HookFits
<1>8. HooksApart' /\ JobsFit'
  BY <1>2, <1>3, <1>4, <1>5 DEF HooksApart, JobsFit
<1>9. BatchFits(b)'
  <2>1. batch[b].saved \subseteq Txn /\ batch[b].todo \subseteq batch[b].saved
    BY <1>1, FileRowsFinite DEF OpenBatch, BatchFits
  <2>2. \A s \in batch[b].todo \ {t} : jobs'[s] = 0
    BY <2>1, <1>1, <1>4 DEF BatchFits
  <2>3. \A s \in batch[b].saved \ (batch[b].todo \ {t}) : jobs'[s] = 1
    BY <2>1, <1>1, <1>4 DEF BatchFits
  <2> QED
    BY <2>1, <2>2, <2>3, <1>1, <1>2, <1>5, <1>6 DEF BatchFits
<1>10. ASSUME NEW c \in Import, c # b, batch[c] # Idle
       PROVE  BatchFits(c)' /\ batch'[c] = batch[c]
  <2>1. batch'[c] = batch[c] /\ batch[c] \in OpenBatch /\ BatchFits(c)
    BY <1>10, <1>2, <1>6, BatchTyped
  <2>2. t \notin batch[c].saved /\ batch[c].saved \subseteq Txn
    BY <2>1, <1>1, <1>3, <1>10, FileRowsFinite DEF BatchesApart, OpenBatch
  <2>3. \A s \in batch[c].saved : jobs'[s] = jobs[s]
    BY <2>2, <1>4
  <2> QED
    BY <2>1, <2>3, <1>2, <1>5 DEF BatchFits
<1>11. \A c \in Import : (batch[c] # Idle => BatchFits(c))'
  BY <1>2, <1>6, <1>9, <1>10
<1>12. BatchesApart'
  BY <1>1, <1>2, <1>6 DEF BatchesApart
<1>13. FromUploads'
  <2>1. \A c \in Import, s \in FileRow :
           (batch[c] # Idle /\ s \in batch[c].saved)' <=> (batch[c] # Idle /\ s \in batch[c].saved)
    BY <1>1, <1>2, <1>6
  <2> QED
    BY <2>1, <1>5 DEF FromUploads
<1>14. UsageMatchesRows' /\ NeverOverbilled'
  BY <1>2, <1>5 DEF UsageMatchesRows, NeverOverbilled
<1> QED
  BY <1>7, <1>8, <1>11, <1>12, <1>13, <1>14

-----------------------------------------------------------------------------
(* All steps.                                                              *)

LEMMA HookKeepsRows ==
    ASSUME IndInv, NEW d \in Delivery, HookStep(d)
    PROVE  RowsInv'
<1> USE DEF Tables, WebhookOnly, NothingElse, GoTo
<1>0. DOMAIN hook = Delivery /\ used \in Nat
  BY DEF IndInv, TypeOK
<1>1. CASE LookUp(d)
  BY <1>0, <1>1, QuietHook DEF LookUp, Call
<1>2. CASE GrantMissing(d)
  BY <1>0, <1>2, QuietHook DEF GrantMissing, Answer, Answered
<1>3. CASE AlreadyStored(d)
  BY <1>0, <1>3, QuietHook DEF AlreadyStored, Answer, Answered
<1>4. CASE ReadQuota(d)
  BY <1>0, <1>4, QuietHook DEF ReadQuota, Call
<1>5. CASE NoSubscription(d)
  BY <1>0, <1>5, QuietHook DEF NoSubscription, Answer, Answered
<1>6. CASE StoreCollides(d)
  BY <1>0, <1>6, QuietHook DEF StoreCollides, Answer, Answered
<1> QED
  BY <1>1, <1>2, <1>3, <1>4, <1>5, <1>6, StoreHolds, AddJobHolds DEF HookStep

LEMMA BatchKeepsRows ==
    ASSUME IndInv, NEW b \in Import, BatchStep(b)
    PROVE  RowsInv'
<1>1. CASE CommitCollides(b)
  BY <1>1, FailedUploadHolds DEF CommitCollides, AllChecked, ImportOnly, Tables
<1> QED
  BY <1>1, CheckRowHolds, AddRowJobHolds, CommitBatchHolds DEF BatchStep

LEMMA OthersKeepRows ==
    ASSUME IndInv, Arrival \/ Environment
    PROVE  RowsInv'
<1> USE DEF Tables, WebhookOnly, NothingElse, GoTo
<1>0. DOMAIN hook = Delivery
  BY DEF IndInv, TypeOK
<1>1. ASSUME NEW d \in Delivery, NEW t \in CasTxn, AcquireKey(d, t)
      PROVE  RowsInv'
  BY <1>0, <1>1, QuietHook DEF AcquireKey, Call
<1>2. ASSUME NEW d \in Delivery, NEW t \in CasTxn, RefuseDuplicate(d, t)
      PROVE  RowsInv'
  BY <1>0, <1>2, QuietHook DEF RefuseDuplicate, Answered
<1>3. ASSUME NEW d \in Delivery, HookFails(d)
      PROVE  RowsInv'
  BY <1>0, <1>3, QuietHook DEF HookFails, Answer, Answered
<1>4. ASSUME NEW b \in Import, ImportFails(b)
      PROVE  RowsInv'
  BY <1>4, FailedUploadHolds DEF ImportFails, ImportOnly
<1>5. CASE LinkBank \/ SuspendTenant \/ ActivateTenant \/ \E t \in CasTxn : ExpireKey(t)
  BY <1>5, QuietElsewhere DEF LinkBank, SuspendTenant, ActivateTenant, ExpireKey
<1> QED
  BY <1>1, <1>2, <1>3, <1>4, <1>5, UploadHolds DEF Arrival, Environment

LEMMA InitHolds == Init => IndInv
<1> SUFFICES ASSUME Init PROVE IndInv
  OBVIOUS
<1>1. {t \in Txn : Stored(t)} = {}
  BY DEF Init, Stored
<1>2. UsageMatchesRows
  BY <1>1, FS_EmptySet DEF UsageMatchesRows, Init
<1>3. NeverOverbilled /\ JobsFit
  BY DEF NeverOverbilled, JobsFit, Init
<1>4. (\A d \in Delivery : HookFits(d)) /\ HooksApart
  BY DEF HookFits, HooksApart, Init, Idle
<1>5. (\A b \in Import : batch[b] # Idle => BatchFits(b)) /\ BatchesApart
  BY DEF BatchesApart, Init
<1>6. FromUploads
  BY <1>1, FileRowsFinite DEF FromUploads, Init
<1> QED
  BY <1>2, <1>3, <1>4, <1>5, <1>6, InitTyped DEF IndInv, RowsInv

LEMMA StepHolds == IndInv /\ [Next]_vars => IndInv'
<1> SUFFICES ASSUME IndInv, [Next]_vars PROVE IndInv'
  OBVIOUS
<1>1. TypeOK'
  BY StepKeepsTypes DEF IndInv
<1>2. RowsInv'
  BY QuietElsewhere, HookKeepsRows, BatchKeepsRows, OthersKeepRows DEF Next, Tables
<1> QED
  BY <1>1, <1>2 DEF IndInv

\* Between its steps every call and every upload finds what it relies on, and
\* no two of them deal with the same row.
THEOREM Inductive == Spec => []IndInv
  BY InitHolds, StepHolds, PTL DEF Spec

-----------------------------------------------------------------------------
(* The invariants the runs check.                                          *)

\* The quota counter is the number of stored transactions.
THEOREM UsageCorrect == Spec => []UsageMatchesRows
<1>1. IndInv => UsageMatchesRows
  BY DEF IndInv, RowsInv
<1> QED
  BY <1>1, Inductive, PTL

\* No overage is billed that did not happen.
THEOREM BillingCorrect == Spec => []NeverOverbilled
<1>1. IndInv => NeverOverbilled
  BY DEF IndInv, RowsInv
<1> QED
  BY <1>1, Inductive, PTL

\* Intake asks the AI at most once for a row, and only for stored rows.
THEOREM JobsCorrect == Spec => []OneJobPerRow
<1>1. ASSUME IndInv PROVE OneJobPerRow
  <2> SUFFICES ASSUME NEW t \in Txn
               PROVE  /\ jobs[t] <= 1
                      /\ t \in Owed => jobs[t] = 0
                      /\ t \in Owed \/ jobs[t] > 0 => Stored(t)
    BY DEF OneJobPerRow
  <2>1. jobs[t] \in {0, 1} /\ (jobs[t] = 1 => Stored(t))
    BY <1>1 DEF IndInv, RowsInv, JobsFit
  <2>2. ASSUME t \in Owed PROVE jobs[t] = 0 /\ Stored(t)
    <3>1. \A d \in Delivery : hook[d].pc = "enqueue" /\ hook[d].txn = t => jobs[t] = 0 /\ Stored(t)
      BY <1>1 DEF IndInv, RowsInv, HookFits
    <3>2. \A b \in Import : batch[b].pc = "enqueue" /\ t \in batch[b].todo
                               => jobs[t] = 0 /\ Stored(t)
      BY <1>1, BatchBegun DEF IndInv, RowsInv, BatchFits
    <3> QED
      BY <2>2, <3>1, <3>2 DEF Owed
  <2> QED
    BY <2>1, <2>2
<1> QED
  BY <1>1, Inductive, PTL

\* Whoever is told that a row was accepted finds it stored and queued.
THEOREM AcceptanceCorrect == Spec => []AcceptedMeansQueued
<1>1. ASSUME IndInv PROVE AcceptedMeansQueued
  <2>1. ASSUME NEW d \in Delivery, hook[d].pc = "done", hook[d].reply = "accepted"
        PROVE  Stored(hook[d].txn) /\ jobs[hook[d].txn] > 0
    BY <1>1, <2>1 DEF IndInv, RowsInv, HookFits
  <2>2. ASSUME NEW b \in Import, batch[b].pc = "done"
        PROVE  /\ \A t \in batch[b].rows : Stored(t)
               /\ \A t \in batch[b].saved : jobs[t] > 0
    BY <1>1, <2>2, BatchBegun DEF IndInv, RowsInv, BatchFits
  <2> QED
    BY <2>1, <2>2 DEF AcceptedMeansQueued
<1> QED
  BY <1>1, Inductive, PTL

\* Every stored row of a file belongs to exactly one upload.
THEOREM HistoryCorrect == Spec => []RowsBelongToOneBatch
<1>1. ASSUME IndInv PROVE RowsBelongToOneBatch
  <2>1. \A b \in Import : batch[b] # Idle => batch[b].saved \subseteq FileRow
    BY <1>1, BatchTyped DEF IndInv, OpenBatch
  <2>2. {t \in FileRow : Stored(t)}
           = UNION {batch[b].saved : b \in {c \in Import : batch[c] # Idle}}
    BY <1>1, <2>1 DEF IndInv, RowsInv, FromUploads
  <2> QED
    BY <1>1, <2>2 DEF IndInv, RowsInv, BatchesApart, RowsBelongToOneBatch
<1> QED
  BY <1>1, Inductive, PTL

-----------------------------------------------------------------------------
(* Duplicates. The key of a transaction is taken before anything is done   *)
(* and never given back, so a call that fails leaves it behind.            *)

WorksOn(c, t) == hook[c].pc \in {"lookup", "quota", "store"} /\ hook[c].txn = t
GaveUp(c, t)  == hook[c].pc = "done" /\ hook[c].reply = "failed" /\ hook[c].txn = t

\* A stored transaction stays, and who begins one stores it or says it failed.
Explained(t) == Stored(t) \/ \E c \in Delivery : WorksOn(c, t) \/ GaveUp(c, t)

\* Cas is told of a duplicate only if the transaction is stored, another call
\* is about to store it, or another call has told Cas that it failed.
DuplicatesExplained ==
    \A d \in Delivery :
        hook[d].pc = "done" /\ hook[d].reply = "duplicate" => Explained(hook[d].txn)

KeysExplained == \A t \in key : Explained(t)

\* Rows are never deleted.
LEMMA StoredStays ==
    ASSUME TypeOK, [Next]_vars, NEW t \in Txn, Stored(t)
    PROVE  Stored(t)'
<1> USE DEF Stored, NothingElse, WebhookOnly, ImportOnly
<1>1. ASSUME NEW d \in Delivery, HookStep(d) PROVE Stored(t)'
  BY <1>1 DEF HookStep, LookUp, GrantMissing, AlreadyStored, ReadQuota, NoSubscription,
              Store, StoreRow, StoreCollides, AddJob, TypeOK
<1>2. ASSUME NEW b \in Import, BatchStep(b) PROVE Stored(t)'
  BY <1>2 DEF BatchStep, CheckRow, AddRowJob, CommitBatch, ImportRows, CommitCollides
<1>3. CASE Arrival \/ Environment
  BY <1>3 DEF Arrival, Environment, AcquireKey, RefuseDuplicate, Upload, LinkBank,
              SuspendTenant, ActivateTenant, ExpireKey, HookFails, ImportFails
<1> QED
  BY <1>1, <1>2, <1>3 DEF Next

\* What a call may do to itself and to the key: it goes on with its
\* transaction, stores it, or gives up.
LEMMA CallGoesOn ==
    ASSUME TypeOK, NEW d \in Delivery, HookStep(d) \/ HookFails(d)
    PROVE  /\ UNCHANGED key /\ \A e \in Delivery : e # d => hook'[e] = hook[e]
           /\ hook[d].pc \in {"lookup", "quota", "store", "enqueue"}
           /\ hook'[d].txn = hook[d].txn
           /\ hook'[d].pc = "done" => hook'[d].reply # "duplicate" \/ Stored(hook[d].txn)
           /\ hook[d].pc # "enqueue" =>
                 \/ hook'[d].pc \in {"quota", "store"}
                 \/ hook'[d].pc = "done" /\ hook'[d].reply = "failed"
                 \/ Stored(hook[d].txn)'
<1> USE DEF NothingElse, WebhookOnly, GoTo, Answer, Answered, Call
<1>0. DOMAIN hook = Delivery
  BY DEF TypeOK
<1>1. CASE LookUp(d)
  BY <1>0, <1>1 DEF LookUp
<1>2. CASE GrantMissing(d) \/ NoSubscription(d) \/ StoreCollides(d) \/ HookFails(d)
  BY <1>0, <1>2 DEF GrantMissing, NoSubscription, StoreCollides, HookFails
<1>3. CASE AlreadyStored(d)
  BY <1>0, <1>3 DEF AlreadyStored, Stored
<1>4. CASE ReadQuota(d)
  BY <1>0, <1>4 DEF ReadQuota
<1>5. CASE Store(d)
  <2>1. hook[d].txn \in Txn
    BY <1>5, HookTyped DEF Store, StoreRow, OpenHook
  <2> QED
    BY <1>0, <1>5, <2>1 DEF Store, StoreRow, Stored, TypeOK
<1>6. CASE AddJob(d)
  BY <1>0, <1>6 DEF AddJob
<1> QED
  BY <1>1, <1>2, <1>3, <1>4, <1>5, <1>6 DEF HookStep

\* What explains a duplicate goes on explaining it.
LEMMA ExplainedStays ==
    ASSUME TypeOK, [Next]_vars, NEW t \in CasTxn, Explained(t)
    PROVE  Explained(t)'
<1>1. CASE Stored(t)
  BY <1>1, StoredStays DEF Explained
<1>2. ASSUME NEW c \in Delivery, WorksOn(c, t) \/ GaveUp(c, t)
      PROVE  Explained(t)'
  <2>1. CASE hook'[c] = hook[c]
    BY <1>2, <2>1 DEF Explained, WorksOn, GaveUp
  <2>2. CASE hook'[c] # hook[c]
    <3>1. HookStep(c) \/ HookFails(c)
      <4>1. ASSUME NEW d \in Delivery, NEW s \in CasTxn, AcquireKey(d, s) \/ RefuseDuplicate(d, s)
            PROVE  FALSE
        <5>1. DOMAIN hook = Delivery /\ hook[d] = Idle /\ \E state : hook' = [hook EXCEPT ![d] = state]
          BY <4>1 DEF TypeOK, AcquireKey, RefuseDuplicate, GoTo
        <5>2. c = d
          BY <2>2, <5>1
        <5> QED
          BY <1>2, <5>1, <5>2 DEF Idle, WorksOn, GaveUp
      <4>2. ASSUME NEW d \in Delivery, HookStep(d) \/ HookFails(d), d # c PROVE FALSE
        BY <2>2, <4>2, CallGoesOn
      <4>3. UNCHANGED hook => FALSE
        BY <2>2
      <4> QED
        BY <4>1, <4>2, <4>3
           DEF Next, Arrival, Environment, BatchStep, CheckRow, AddRowJob, CommitBatch,
               ImportRows, CommitCollides, Upload, LinkBank, SuspendTenant, ActivateTenant,
               ExpireKey, ImportFails, ImportOnly
    <3>2. WorksOn(c, t)
      BY <1>2, <3>1, CallGoesOn DEF GaveUp
    <3> QED
      BY <3>1, <3>2, CallGoesOn DEF WorksOn, GaveUp, Explained
  <2> QED
    BY <2>1, <2>2
<1> QED
  BY <1>1, <1>2 DEF Explained

\* A delivery Cas is told to forget is not forgotten: it is stored, somebody
\* is storing it, or somebody's failure was reported (banking.service.ts).
THEOREM DuplicateCorrect == Spec => []DuplicatesExplained
<1> DEFINE Inv == KeysExplained /\ DuplicatesExplained
<1>1. Init => Inv
  BY DEF Init, KeysExplained, DuplicatesExplained, Idle
<1>2. ASSUME TypeOK, Inv, [Next]_vars PROVE Inv'
  <2>0. key \subseteq CasTxn /\ hook \in [Delivery -> Hook]
    BY <1>2 DEF TypeOK
  <2>1. \A t \in CasTxn : Explained(t) => Explained(t)'
    BY <1>2, ExplainedStays
  <2>2. CASE UNCHANGED <<key, hook>> \/ (UNCHANGED hook /\ key' \subseteq key)
    <3>1. \A d \in Delivery : hook[d].pc = "done" => hook[d].txn \in CasTxn
      BY <2>0 DEF Hook, Idle
    <3> QED
      BY <1>2, <2>0, <2>1, <2>2, <3>1 DEF KeysExplained, DuplicatesExplained
  <2>3. ASSUME NEW d \in Delivery, HookStep(d) \/ HookFails(d) PROVE Inv'
    <3>1. \A e \in Delivery : hook[e].pc = "done" => hook[e].txn \in CasTxn
      BY <2>0 DEF Hook, Idle
    <3>2. hook[d].txn \in CasTxn
      BY <1>2, <2>3, CallGoesOn, HookTyped DEF OpenHook
    <3>3. KeysExplained'
      BY <1>2, <2>0, <2>1, <2>3, CallGoesOn DEF KeysExplained
    <3>4. ASSUME NEW e \in Delivery, hook'[e].pc = "done", hook'[e].reply = "duplicate"
          PROVE  Explained(hook[e].txn)'
      <4>1. CASE e = d
        <5>1. hook'[e].txn = hook[d].txn /\ Explained(hook[d].txn)
          BY <1>2, <2>3, <3>4, <4>1, CallGoesOn DEF Explained
        <5> QED
          BY <2>1, <3>2, <5>1 DEF Explained, WorksOn, GaveUp, Stored
      <4>2. CASE e # d
        <5>1. hook'[e] = hook[e] /\ Explained(hook[e].txn) /\ hook[e].txn \in CasTxn
          BY <1>2, <2>3, <3>1, <3>4, <4>2, CallGoesOn DEF DuplicatesExplained
        <5> QED
          BY <2>1, <5>1 DEF Explained, WorksOn, GaveUp, Stored
      <4> QED
        BY <4>1, <4>2
    <3> QED
      BY <3>3, <3>4 DEF DuplicatesExplained
  <2>4. ASSUME NEW d \in Delivery, NEW t \in CasTxn, AcquireKey(d, t) PROVE Inv'
    <3>1. /\ key' = key \union {t} /\ hook[d] = Idle
          /\ hook' = [hook EXCEPT ![d] = [pc |-> "lookup", txn |-> t, seen |-> 0]]
      BY <2>4 DEF AcquireKey, GoTo, Call
    <3>2. Explained(t)'
      BY <2>0, <3>1 DEF Explained, WorksOn
    <3>3. \A e \in Delivery : hook[e].pc = "done" => hook[e].txn \in CasTxn
      BY <2>0 DEF Hook, Idle
    <3> QED
      BY <1>2, <2>0, <2>1, <3>1, <3>2, <3>3 DEF KeysExplained, DuplicatesExplained
  <2>5. ASSUME NEW d \in Delivery, NEW t \in CasTxn, RefuseDuplicate(d, t) PROVE Inv'
    <3>1. /\ UNCHANGED key /\ t \in key
          /\ hook' = [hook EXCEPT ![d] = [pc |-> "done", txn |-> t, reply |-> "duplicate"]]
      BY <2>5 DEF RefuseDuplicate, GoTo, Answered
    <3>2. Explained(t)'
      BY <1>2, <2>1, <3>1 DEF KeysExplained
    <3>3. \A e \in Delivery : hook[e].pc = "done" => hook[e].txn \in CasTxn
      BY <2>0 DEF Hook, Idle
    <3> QED
      BY <1>2, <2>0, <2>1, <3>1, <3>2, <3>3 DEF KeysExplained, DuplicatesExplained
  <2>6. CASE Environment
    <3>1. UNCHANGED <<key, hook>> \/ (UNCHANGED hook /\ key' \subseteq key)
            \/ \E d \in Delivery : HookFails(d)
      BY <2>6 DEF Environment, LinkBank, SuspendTenant, ActivateTenant, ExpireKey, ImportFails,
                  ImportOnly
    <3> QED
      BY <2>2, <2>3, <3>1
  <2>7. ASSUME NEW b \in Import, BatchStep(b) \/ \E rows \in SUBSET FileRow : Upload(b, rows)
        PROVE  UNCHANGED <<key, hook>>
    BY <2>7 DEF BatchStep, CheckRow, AddRowJob, CommitBatch, ImportRows, CommitCollides,
                Upload, ImportOnly
  <2>8. CASE UNCHANGED vars
    BY <2>2, <2>8
  <2> QED
    BY <1>2, <2>2, <2>3, <2>4, <2>5, <2>6, <2>7, <2>8 DEF Next, Arrival
<1> QED
  BY <1>1, <1>2, TypeCorrect, PTL DEF Spec

\* A tenant whose bank is linked, as long as nothing failed: nobody gives up
\* a transaction that is not stored.
FailuresStored ==
    linked /\ (faults = 0 =>
                 /\ active
                 /\ \A c \in Delivery : hook[c].pc = "done" /\ hook[c].reply = "failed"
                                          => Stored(hook[c].txn))

LEMMA FailuresHold == linked /\ Spec => []FailuresStored
<1>1. Init /\ linked => FailuresStored
  BY DEF Init, FailuresStored, Idle
<1>2. ASSUME TypeOK, FailuresStored, [Next]_vars PROVE FailuresStored'
  <2> USE DEF NothingElse, WebhookOnly, ImportOnly
  <2>0. hook \in [Delivery -> Hook] /\ faults \in Nat
    BY <1>2 DEF TypeOK
  <2>1. linked'
    <3>1. ASSUME NEW d \in Delivery, HookStep(d) \/ HookFails(d) PROVE UNCHANGED linked
      BY <3>1 DEF HookStep, LookUp, GrantMissing, AlreadyStored, ReadQuota, NoSubscription,
                  Store, StoreCollides, AddJob, HookFails
    <3>2. ASSUME NEW b \in Import, BatchStep(b) PROVE UNCHANGED linked
      BY <3>2 DEF BatchStep, CheckRow, AddRowJob, CommitBatch, ImportRows, CommitCollides
    <3> QED
      BY <1>2, <3>1, <3>2 DEF FailuresStored, Next, Arrival, Environment, AcquireKey,
              RefuseDuplicate, Upload, LinkBank, SuspendTenant, ActivateTenant, ExpireKey,
              ImportFails
  <2>2. CASE /\ UNCHANGED hook /\ (faults' = 0 => faults = 0 /\ (active => active'))
    <3>1. \A c \in Delivery : hook[c].pc = "done" => hook[c].txn \in Txn
      BY <2>0 DEF Hook, Idle
    <3>2. \A t \in Txn : Stored(t) => Stored(t)'
      BY <1>2, StoredStays
    <3> QED
      BY <1>2, <2>1, <2>2, <3>1, <3>2 DEF FailuresStored
  <2>3. ASSUME NEW d \in Delivery, HookStep(d) PROVE FailuresStored'
    <3>1. UNCHANGED <<active, faults>>
      BY <2>3 DEF HookStep, LookUp, GrantMissing, AlreadyStored, ReadQuota, NoSubscription,
                  Store, StoreCollides, AddJob
    <3>2. hook[d].txn \in Txn
      BY <1>2, <2>3, CallGoesOn, HookTyped DEF OpenHook
    <3>3. faults = 0 /\ hook'[d].pc = "done" /\ hook'[d].reply = "failed" => Stored(hook[d].txn)
      <4>1. CASE GrantMissing(d) \/ NoSubscription(d)
        BY <1>2, <4>1 DEF FailuresStored, GrantMissing, NoSubscription
      <4>2. CASE StoreCollides(d)
        BY <4>2 DEF StoreCollides
      <4>3. CASE LookUp(d) \/ AlreadyStored(d) \/ ReadQuota(d) \/ Store(d) \/ AddJob(d)
        BY <2>0, <4>3 DEF LookUp, AlreadyStored, ReadQuota, Store, AddJob, GoTo, Answer,
                          Answered, Call
      <4> QED
        BY <2>3, <4>1, <4>2, <4>3 DEF HookStep
    <3>4. \A t \in Txn : Stored(t) => Stored(t)'
      BY <1>2, StoredStays
    <3>5. ASSUME NEW c \in Delivery, faults = 0, hook'[c].pc = "done", hook'[c].reply = "failed"
          PROVE  hook'[c].txn \in Txn /\ Stored(hook[c].txn)'
      <4>1. CASE c = d
        <5>1. hook'[c].txn = hook[d].txn /\ Stored(hook[d].txn)
          BY <1>2, <2>3, <3>3, <3>5, <4>1, CallGoesOn
        <5> QED
          BY <3>2, <3>4, <5>1 DEF Stored
      <4>2. CASE c # d
        <5>1. hook'[c] = hook[c] /\ Stored(hook[c].txn) /\ hook[c].txn \in Txn
          BY <1>2, <2>0, <2>3, <3>5, <4>2, CallGoesOn DEF FailuresStored, Hook, Idle
        <5> QED
          BY <3>4, <5>1 DEF Stored
      <4> QED
        BY <4>1, <4>2
    <3> QED
      BY <1>2, <2>1, <3>1, <3>5 DEF FailuresStored
  <2>4. ASSUME NEW d \in Delivery, NEW t \in CasTxn, AcquireKey(d, t) \/ RefuseDuplicate(d, t)
        PROVE  FailuresStored'
    <3>1. /\ UNCHANGED <<active, faults, txn>>
          /\ \A c \in Delivery : c # d => hook'[c] = hook[c]
          /\ ~(hook'[d].pc = "done" /\ hook'[d].reply = "failed")
      BY <2>0, <2>4 DEF AcquireKey, RefuseDuplicate, GoTo, Call, Answered
    <3> QED
      BY <1>2, <2>1, <3>1 DEF FailuresStored, Stored
  <2>5. CASE Environment \/ \E b \in Import, rows \in SUBSET FileRow : Upload(b, rows)
    <3>1. CASE faults' = faults + 1
      BY <2>0, <2>1, <3>1 DEF FailuresStored
    <3>2. CASE faults' # faults + 1
      <4>1. LinkBank \/ ActivateTenant \/ \E b \in Import, rows \in SUBSET FileRow : Upload(b, rows)
        BY <2>5, <3>2 DEF Environment, SuspendTenant, ExpireKey, HookFails, ImportFails
      <4> QED
        BY <2>2, <4>1 DEF Upload, LinkBank, ActivateTenant
    <3> QED
      BY <3>1, <3>2
  <2>6. ASSUME NEW b \in Import, BatchStep(b) PROVE UNCHANGED <<hook, faults, active>>
    BY <2>6 DEF BatchStep, CheckRow, AddRowJob, CommitBatch, ImportRows, CommitCollides
  <2> QED
    BY <1>2, <2>2, <2>3, <2>4, <2>5, <2>6 DEF Next, Arrival
<1> QED
  BY <1>1, <1>2, TypeCorrect, PTL DEF Spec

\* The documented meaning of a duplicate answer holds of a linked tenant until
\* the first failure: the run ingestion_duplicate shows it lost without these
\* two conditions.
THEOREM DuplicateClaimHolds == linked /\ Spec => [](faults = 0 => DuplicateMeansStored)
<1>1. FailuresStored /\ DuplicatesExplained => (faults = 0 => DuplicateMeansStored)
  BY DEF FailuresStored, DuplicatesExplained, Explained, GaveUp, WorksOn, DuplicateMeansStored
<1> QED
  BY <1>1, FailuresHold, DuplicateCorrect, PTL
=============================================================================
