---------------------------- MODULE PipelineProofs ----------------------------
(***************************************************************************)
(* Proofs about TransactionPipeline.tla: the composed system implements    *)
(* both of its halves, so what is proved of each holds of the whole.       *)
(*                                                                         *)
(* For Classification the intake's program counters are the rows owed.     *)
(* For Ingestion a row that has moved on counts as pending, and the queue  *)
(* is replaced by the jobs the intake ever added, which its own records    *)
(* tell: the accepted calls, and the rows of a batch not left to do.       *)
(***************************************************************************)
EXTENDS TransactionPipeline, FiniteSetTheorems, TLAPS

Arrived == [t \in Txn |-> IF txn[t] = "absent" THEN "absent" ELSE "pending"]
Accepted(d, t) == hook[d].pc = "done" /\ hook[d].reply = "accepted" /\ hook[d].txn = t
Handed(b, t) == batch[b] # In!Idle /\ t \in batch[b].saved \ batch[b].todo
AskedFor(t) == (\E d \in Delivery : Accepted(d, t)) \/ (\E b \in Import : Handed(b, t))
Asked == [t \in Txn |-> IF AskedFor(t) THEN 1 ELSE 0]

Intake == INSTANCE IngestionProofs WITH txn <- Arrived, jobs <- Asked
Books  == INSTANCE ClassificationProofs WITH
              owed <- In!Owed, faults <- jobFaults, MaxFaults <- MaxJobFaults

IndInv == Intake!IndInv /\ Books!IndInv

-----------------------------------------------------------------------------
(* The theorems of the halves, under the assumptions of the whole.         *)

LEMMA IntakeAssumed == Intake!IngestionAssumption
  BY PipelineAssumption
     DEF In!IngestionAssumption, Intake!IngestionAssumption, In!IsFiniteSet, Intake!IsFiniteSet

LEMMA BooksAssumed == Books!ClassificationAssumption
  BY PipelineAssumption DEF Book!ClassificationAssumption, Books!ClassificationAssumption

LEMMA IntakeInv ==
    /\ Intake!Init => Intake!IndInv
    /\ Intake!IndInv /\ [Intake!Next]_(Intake!vars) => Intake!IndInv'
  BY IntakeAssumed, Intake!InitHolds, Intake!StepHolds

LEMMA BooksInv ==
    /\ Books!Init => Books!IndInv
    /\ Books!IndInv /\ [Books!Next]_(Books!vars) => Books!IndInv'
<1>1. ASSUME Books!IndInv, [Books!Next]_(Books!vars) PROVE Books!IndInv'
  BY <1>1, BooksAssumed, Books!TypeStep, Books!HistoryStep, Books!ReferencesStep
     DEF Books!IndInv
<1> QED
  BY <1>1, BooksAssumed, Books!IndInit

-----------------------------------------------------------------------------
(* Classification and its instance here are the same system.               *)
LEMMA SameInit == Book!Init => Books!Init
  BY DEF Book!Init, Books!Init, Book!NoRow, Books!NoRow, Book!Idle, Books!Idle

LEMMA SameWorkerSteps == ASSUME NEW w \in Worker, Book!WorkerStep(w) PROVE Books!WorkerStep(w)
  BY DEF Book!WorkerStep, Books!WorkerStep, Book!DiscardJob, Books!DiscardJob,
         Book!StartJob, Books!StartJob, Book!CommitVerdict, Books!CommitVerdict,
         Book!FailJob, Books!FailJob, Book!JobThrows, Books!JobThrows,
         Book!JobStalls, Books!JobStalls, Book!Verdict, Books!Verdict, Book!Idle, Books!Idle,
         Book!Job, Books!Job, Book!Classified, Books!Classified, Book!NoRow, Books!NoRow,
         Book!VerdictRow, Books!VerdictRow, Book!AiRow, Books!AiRow,
         Book!VerdictAction, Books!VerdictAction, Book!Record, Books!Record,
         Book!Entry, Books!Entry

LEMMA SameUserSteps == ASSUME NEW u \in User, Book!UserStep(u) PROVE Books!UserStep(u)
<1> USE DEF Book!Idle, Books!Idle, Book!Request, Books!Request, Book!Classified, Books!Classified,
            Book!NoRow, Books!NoRow, Book!InReview, Books!InReview,
            Book!Settle, Books!Settle, Book!Record, Books!Record, Book!Entry, Books!Entry,
            Book!ManualRow, Books!ManualRow, Book!Reclassify, Books!Reclassify,
            Book!ReviewOp, Books!ReviewOp
<1>1. ASSUME NEW t \in Txn
      PROVE  /\ Book!OpenOverride(u, t) => Books!OpenOverride(u, t)
             /\ Book!EnqueueReclassify(u, t) => Books!EnqueueReclassify(u, t)
  BY DEF Book!OpenOverride, Books!OpenOverride, Book!EnqueueReclassify, Books!EnqueueReclassify
<1>2. /\ \A t \in Txn, op \in Book!ReviewOp :
            Book!OpenReview(u, op, t) => Books!OpenReview(u, op, t)
      /\ \A ids \in SUBSET Txn : Book!OpenReclassify(u, ids) => Books!OpenReclassify(u, ids)
  BY DEF Book!OpenReview, Books!OpenReview, Book!OpenReclassify, Books!OpenReclassify
<1>3. /\ Book!Confirm(u) => Books!Confirm(u)
      /\ Book!Correct(u) => Books!Correct(u)
      /\ Book!Skip(u) => Books!Skip(u)
  BY DEF Book!Confirm, Books!Confirm, Book!ConfirmedRow, Books!ConfirmedRow,
         Book!Correct, Books!Correct, Book!Skip, Books!Skip
<1>4. /\ Book!LoseConflict(u) => Books!LoseConflict(u)
      /\ Book!Override(u) => Books!Override(u)
      /\ Book!OverrideCollides(u) => Books!OverrideCollides(u)
      /\ Book!RequestDies(u) => Books!RequestDies(u)
  BY DEF Book!LoseConflict, Books!LoseConflict, Book!Override, Books!Override,
         Book!OverrideCollides, Books!OverrideCollides, Book!RequestDies, Books!RequestDies
<1> QED
  BY <1>1, <1>2, <1>3, <1>4 DEF Book!UserStep, Books!UserStep

LEMMA SameSteps == Book!Next => Books!Next
<1>1. Book!Intake => Books!Intake
  BY DEF Book!Intake, Books!Intake, Book!Receive, Books!Receive, Book!Enqueue, Books!Enqueue,
         Book!LoseJob, Books!LoseJob
<1>2. Book!Steps => Books!Steps
  BY SameWorkerSteps, SameUserSteps DEF Book!Steps, Books!Steps
<1> QED
  BY <1>1, <1>2 DEF Book!Next, Books!Next

-----------------------------------------------------------------------------
(* What the inductive invariants of the halves say here.                   *)

LEMMA StoredSame ==
    /\ \A t \in Txn : Intake!Stored(t) <=> In!Stored(t)
    /\ \A t \in Txn : Intake!Stored(t)' <=> In!Stored(t)'
  BY DEF Intake!Stored, In!Stored, Arrived

\* A call between its steps knows its transaction, a batch its rows.
LEMMA Typed ==
    ASSUME IndInv
    PROVE  /\ DOMAIN hook = Delivery /\ DOMAIN batch = Import
           /\ \A d \in Delivery :
                 hook[d].pc \in {"lookup", "quota", "store", "enqueue"} => hook[d].txn \in CasTxn
           /\ \A b \in Import :
                 batch[b].pc \in {"rows", "enqueue", "done", "failed"} =>
                    /\ batch[b] # In!Idle /\ batch[b] \in Intake!OpenBatch
                    /\ Intake!BatchFits(b)
           /\ CasTxn \subseteq Txn /\ In!FileRow = Txn \ CasTxn
<1>1. Intake!TypeOK /\ Intake!RowsInv
  BY DEF IndInv, Intake!IndInv
<1>2. Intake!Idle = In!Idle
  BY DEF Intake!Idle, In!Idle
<1>3. \A d \in Delivery :
         hook[d].pc \in {"lookup", "quota", "store", "enqueue"} => hook[d].txn \in CasTxn
  BY <1>1, IntakeAssumed, Intake!HookTyped DEF Intake!OpenHook
<1>4. \A b \in Import :
         batch[b].pc \in {"rows", "enqueue", "done", "failed"} =>
            batch[b] # In!Idle /\ batch[b] \in Intake!OpenBatch /\ Intake!BatchFits(b)
  BY <1>1, <1>2, IntakeAssumed, Intake!BatchBegun DEF Intake!RowsInv
<1>5. DOMAIN hook = Delivery /\ DOMAIN batch = Import
  BY <1>1 DEF Intake!TypeOK
<1>6. CasTxn \subseteq Txn /\ In!FileRow = Txn \ CasTxn
  BY PipelineAssumption DEF In!IngestionAssumption, In!FileRow
<1> QED
  BY <1>3, <1>4, <1>5, <1>6

\* The rows owed are stored, and owed by one request.
LEMMA OwedApart ==
    ASSUME IndInv
    PROVE  /\ \A d \in Delivery : hook[d].pc = "enqueue" =>
                  In!Stored(hook[d].txn) /\ Asked[hook[d].txn] = 0
           /\ \A d, e \in Delivery : d # e /\ hook[d].pc = "enqueue" /\ hook[e].pc = "enqueue"
                  => hook[d].txn # hook[e].txn
           /\ \A b \in Import : batch[b].pc = "enqueue" =>
                  /\ batch[b].todo \subseteq In!FileRow
                  /\ \A t \in batch[b].todo : In!Stored(t) /\ Asked[t] = 0
           /\ \A b, c \in Import : b # c /\ batch[b].pc = "enqueue" /\ batch[c].pc = "enqueue"
                  => batch[b].todo \intersect batch[c].todo = {}
<1>1. Intake!RowsInv
  BY DEF IndInv, Intake!IndInv
<1>2. \A d \in Delivery : hook[d].pc = "enqueue" =>
         In!Stored(hook[d].txn) /\ Asked[hook[d].txn] = 0
  BY <1>1, Typed, StoredSame DEF Intake!RowsInv, Intake!HookFits
<1>3. \A d, e \in Delivery : d # e /\ hook[d].pc = "enqueue" /\ hook[e].pc = "enqueue"
         => hook[d].txn # hook[e].txn
  BY <1>1 DEF Intake!RowsInv, Intake!HooksApart
<1>4. ASSUME NEW b \in Import, batch[b].pc = "enqueue"
      PROVE  /\ batch[b] # Intake!Idle /\ batch[b].todo \subseteq batch[b].saved
             /\ batch[b].todo \subseteq In!FileRow
             /\ \A t \in batch[b].todo : In!Stored(t) /\ Asked[t] = 0
  <2>1. /\ batch[b] # In!Idle /\ batch[b] \in Intake!OpenBatch /\ Intake!BatchFits(b)
    BY <1>4, Typed
  <2>2. batch[b].todo \subseteq In!FileRow
    BY <2>1 DEF Intake!OpenBatch, Intake!FileRow, In!FileRow
  <2> QED
    BY <2>1, <2>2, <1>4, Typed, StoredSame DEF Intake!BatchFits, Intake!Idle, In!Idle
<1>5. \A b, c \in Import : b # c /\ batch[b].pc = "enqueue" /\ batch[c].pc = "enqueue"
         => batch[b].todo \intersect batch[c].todo = {}
  BY <1>1, <1>4 DEF Intake!RowsInv, Intake!BatchesApart
<1> QED
  BY <1>2, <1>3, <1>4, <1>5

-----------------------------------------------------------------------------
(* The intake is an Ingestion.                                             *)

\* Nothing is asked of the AI by a call that is not over, or is refused.
LEMMA AskedByHook ==
    ASSUME NEW d \in Delivery, DOMAIN hook = Delivery, hook[d].pc # "done",
           NEW state, hook' = [hook EXCEPT ![d] = state],
           state.pc # "done" \/ state.reply # "accepted", UNCHANGED batch
    PROVE  Asked' = Asked
<1>1. \A e \in Delivery, t \in Txn : Accepted(e, t)' <=> Accepted(e, t)
  BY DEF Accepted
<1>2. \A t \in Txn : AskedFor(t)' <=> AskedFor(t)
  BY <1>1 DEF AskedFor, Handed
<1> QED
  BY <1>2 DEF Asked

\* Nor by an upload that changes neither its rows nor those left to do.
LEMMA AskedByBatch ==
    ASSUME NEW b \in Import, DOMAIN batch = Import, UNCHANGED hook,
           NEW state, batch' = [batch EXCEPT ![b] = state],
           \A t \in Txn : Handed(b, t)' <=> Handed(b, t)
    PROVE  Asked' = Asked
<1>1. \A c \in Import, t \in Txn : Handed(c, t)' <=> Handed(c, t)
  BY DEF Handed
<1>2. \A t \in Txn : AskedFor(t)' <=> AskedFor(t)
  BY <1>1 DEF AskedFor, Accepted
<1> QED
  BY <1>2 DEF Asked

LEMMA ArrivedKept == ASSUME UNCHANGED txn PROVE Arrived' = Arrived
  BY DEF Arrived

LEMMA IntakeHooks ==
    ASSUME IndInv, NEW d \in Delivery, In!HookStep(d)
    PROVE  Intake!HookStep(d)
<1> USE DEF In!WebhookOnly, Intake!WebhookOnly, In!NothingElse, Intake!NothingElse,
            In!GoTo, Intake!GoTo, In!Answer, Intake!Answer, In!Answered, Intake!Answered,
            In!Call, Intake!Call
<1>0. /\ DOMAIN hook = Delivery /\ CasTxn \subseteq Txn
      /\ hook[d].pc \in {"lookup", "quota", "store", "enqueue"} => hook[d].txn \in Txn
  BY Typed
<1>1. CASE In!LookUp(d)
  <2>1. Asked' = Asked
    BY <1>0, <1>1, AskedByHook DEF In!LookUp
  <2> QED
    BY <1>0, <1>1, <2>1, ArrivedKept, StoredSame DEF In!LookUp, Intake!LookUp, Intake!HookStep
<1>2. CASE In!GrantMissing(d)
  <2>1. Asked' = Asked
    BY <1>0, <1>2, AskedByHook DEF In!GrantMissing
  <2> QED
    BY <1>2, <2>1, ArrivedKept DEF In!GrantMissing, Intake!GrantMissing, Intake!HookStep
<1>3. CASE In!AlreadyStored(d)
  <2>1. Asked' = Asked
    BY <1>0, <1>3, AskedByHook DEF In!AlreadyStored
  <2> QED
    BY <1>0, <1>3, <2>1, ArrivedKept, StoredSame
       DEF In!AlreadyStored, Intake!AlreadyStored, Intake!HookStep
<1>4. CASE In!ReadQuota(d)
  <2>1. Asked' = Asked
    BY <1>0, <1>4, AskedByHook DEF In!ReadQuota
  <2> QED
    BY <1>4, <2>1, ArrivedKept DEF In!ReadQuota, Intake!ReadQuota, Intake!HookStep
<1>5. CASE In!NoSubscription(d)
  <2>1. Asked' = Asked
    BY <1>0, <1>5, AskedByHook DEF In!NoSubscription
  <2> QED
    BY <1>5, <2>1, ArrivedKept DEF In!NoSubscription, Intake!NoSubscription, Intake!HookStep
<1>6. CASE In!Store(d)
  <2> USE DEF In!Store, In!StoreRow
  <2>1. Asked' = Asked
    BY <1>0, <1>6, AskedByHook
  <2>2. Arrived' = [Arrived EXCEPT ![hook[d].txn] = "pending"]
    <3>1. DOMAIN txn = Txn
      BY DEF IndInv, Books!IndInv, Books!TypeOK
    <3> QED
      BY <1>0, <1>6, <3>1 DEF Arrived
  <2>3. ~Intake!Stored(hook[d].txn)
    BY <1>0, <1>6, StoredSame
  <2> QED
    BY <1>6, <2>1, <2>2, <2>3
       DEF Intake!Store, Intake!StoreRow, Intake!HookStep, In!Over, Intake!Over
<1>7. CASE In!StoreCollides(d)
  <2>1. Asked' = Asked
    BY <1>0, <1>7, AskedByHook DEF In!StoreCollides
  <2> QED
    BY <1>0, <1>7, <2>1, ArrivedKept, StoredSame
       DEF In!StoreCollides, Intake!StoreCollides, Intake!HookStep
<1>8. CASE In!AddJob(d)
  <2>1. hook[d].txn \in Txn /\ Asked[hook[d].txn] = 0
    BY <1>0, <1>8, OwedApart DEF In!AddJob
  <2>2. ASSUME NEW t \in Txn PROVE AskedFor(t)' <=> (AskedFor(t) \/ t = hook[d].txn)
    <3>1. \A e \in Delivery : Accepted(e, t)' <=> Accepted(e, t) \/ (e = d /\ t = hook[d].txn)
      BY <1>0, <1>8 DEF In!AddJob, Accepted
    <3> QED
      BY <1>8, <3>1 DEF In!AddJob, AskedFor, Handed
  <2>3. Asked' = [Asked EXCEPT ![hook[d].txn] = @ + 1]
    BY <2>1, <2>2 DEF Asked
  <2> QED
    BY <1>8, <2>3, ArrivedKept DEF In!AddJob, Intake!AddJob, Intake!HookStep
<1> QED
  BY <1>1, <1>2, <1>3, <1>4, <1>5, <1>6, <1>7, <1>8 DEF In!HookStep

LEMMA IntakeBatches ==
    ASSUME IndInv, NEW b \in Import, In!BatchStep(b)
    PROVE  Intake!BatchStep(b)
<1> USE DEF In!InBatch, Intake!InBatch, In!ImportOnly, Intake!ImportOnly,
            In!FileRow, Intake!FileRow
<1>0. /\ DOMAIN batch = Import /\ In!FileRow \subseteq Txn
      /\ batch[b].pc \in {"rows", "enqueue", "done", "failed"} =>
            /\ batch[b] # In!Idle /\ batch[b] \in Intake!OpenBatch
            /\ Intake!BatchFits(b)
  BY Typed
<1>1. ASSUME NEW t \in In!FileRow, In!CheckRow(b, t) PROVE Intake!BatchStep(b)
  <2> DEFINE state == [batch[b] EXCEPT !.todo = @ \ {t},
                           !.fresh = IF In!Stored(t) THEN @ ELSE @ \union {t}]
  <2>1. batch' = [batch EXCEPT ![b] = state] /\ UNCHANGED <<txn, hook>>
    BY <1>1 DEF In!CheckRow
  <2>2. batch[b].saved = {} /\ state.saved = {}
    BY <1>0, <1>1 DEF In!CheckRow, Intake!BatchFits, Intake!OpenBatch
  <2>3. Asked' = Asked
    BY <1>0, <2>1, <2>2, AskedByBatch DEF Handed
  <2>4. Intake!Stored(t) <=> In!Stored(t)
    BY <1>0, StoredSame
  <2>5. Intake!CheckRow(b, t)
    BY <1>1, <2>3, <2>4, ArrivedKept DEF In!CheckRow, Intake!CheckRow
  <2> QED
    BY <2>5 DEF Intake!BatchStep
<1>2. ASSUME NEW t \in In!FileRow, In!AddRowJob(b, t) PROVE Intake!BatchStep(b)
  <2> DEFINE state == [batch[b] EXCEPT !.todo = @ \ {t},
                           !.pc = IF batch[b].todo = {t} THEN "done" ELSE "enqueue"]
  <2>1. /\ batch' = [batch EXCEPT ![b] = state] /\ UNCHANGED <<txn, hook>>
        /\ batch[b].pc = "enqueue" /\ t \in batch[b].todo /\ t \in Txn
    BY <1>0, <1>2 DEF In!AddRowJob
  <2>2. /\ state.saved = batch[b].saved /\ state.todo = batch[b].todo \ {t}
        /\ batch[b] # In!Idle /\ state # In!Idle /\ t \in batch[b].saved
        /\ batch'[b] = state
    BY <1>0, <2>1 DEF Intake!BatchFits, Intake!OpenBatch, In!Idle
  <2>3. Asked[t] = 0
    BY <2>1, OwedApart
  <2>4. ASSUME NEW s \in Txn PROVE AskedFor(s)' <=> (AskedFor(s) \/ s = t)
    <3>1. \A c \in Import : Handed(c, s)' <=> Handed(c, s) \/ (c = b /\ s = t)
      <4> SUFFICES ASSUME NEW c \in Import
                   PROVE  Handed(c, s)' <=> Handed(c, s) \/ (c = b /\ s = t)
        OBVIOUS
      <4>1. CASE c = b
        BY <2>1, <2>2, <4>1 DEF Handed
      <4>2. CASE c # b
        BY <1>0, <2>1, <4>2 DEF Handed
      <4> QED
        BY <4>1, <4>2
    <3> QED
      BY <2>1, <3>1 DEF AskedFor, Accepted
  <2>5. Asked' = [Asked EXCEPT ![t] = @ + 1]
    <3>1. t \in Txn /\ ~AskedFor(t)
      BY <2>1, <2>3 DEF Asked
    <3>2. \A s \in Txn : Asked'[s] = IF s = t THEN 1 ELSE Asked[s]
      BY <2>4 DEF Asked
    <3>3. Asked' = [s \in Txn |-> Asked'[s]] /\ Asked = [s \in Txn |-> Asked[s]]
      BY DEF Asked
    <3> QED
      BY <2>3, <3>1, <3>2, <3>3
  <2>6. Intake!AddRowJob(b, t)
    BY <1>2, <2>5, ArrivedKept DEF In!AddRowJob, Intake!AddRowJob
  <2> QED
    BY <2>6 DEF Intake!BatchStep
<1>3. CASE In!CommitBatch(b)
  <2> DEFINE F == batch[b].fresh
             state == [batch[b] EXCEPT !.pc = IF F = {} THEN "done" ELSE "enqueue",
                                       !.todo = F, !.saved = F]
  <2> USE DEF In!CommitBatch, In!ImportRows, In!AllChecked
  <2>1. /\ batch' = [batch EXCEPT ![b] = state] /\ UNCHANGED hook
        /\ txn' = [t \in Txn |-> IF t \in F THEN "pending" ELSE txn[t]]
    BY <1>3
  <2>2. /\ batch[b].saved = {} /\ state.saved = F /\ state.todo = F /\ F \subseteq Txn
        /\ batch'[b] = state
    BY <1>0, <1>3, <2>1 DEF Intake!BatchFits, Intake!OpenBatch
  <2>3. Asked' = Asked
    BY <1>0, <2>1, <2>2, AskedByBatch DEF Handed
  <2>4. Arrived' = [t \in Txn |-> IF t \in F THEN "pending" ELSE Arrived[t]]
    BY <2>1 DEF Arrived
  <2>5. \A t \in F : ~Intake!Stored(t)
    BY <1>3, <2>2, StoredSame
  <2>6. Intake!CommitBatch(b)
    BY <1>3, <2>3, <2>4, <2>5
       DEF Intake!CommitBatch, Intake!ImportRows, Intake!AllChecked, In!Over, Intake!Over,
           In!Cardinality, Intake!Cardinality
  <2> QED
    BY <2>6 DEF Intake!BatchStep
<1>4. CASE In!CommitCollides(b)
  <2> DEFINE state == [batch[b] EXCEPT !.pc = "failed"]
  <2> USE DEF In!CommitCollides, In!AllChecked
  <2>1. /\ batch' = [batch EXCEPT ![b] = state] /\ UNCHANGED <<txn, hook>>
        /\ batch[b].pc = "rows"
    BY <1>4
  <2>2. /\ state.saved = batch[b].saved /\ state.todo = batch[b].todo /\ batch'[b] = state
        /\ batch[b] # In!Idle /\ state # In!Idle /\ batch[b].fresh \subseteq Txn
    BY <1>0, <2>1 DEF Intake!BatchFits, Intake!OpenBatch, In!Idle
  <2>3. Asked' = Asked
    BY <1>0, <2>1, <2>2, AskedByBatch DEF Handed
  <2>4. \E t \in batch[b].fresh : Intake!Stored(t)
    BY <1>4, <2>2, StoredSame
  <2>5. Intake!CommitCollides(b)
    BY <1>4, <2>3, <2>4, ArrivedKept DEF Intake!CommitCollides, Intake!AllChecked
  <2> QED
    BY <2>5 DEF Intake!BatchStep
<1> QED
  BY <1>1, <1>2, <1>3, <1>4 DEF In!BatchStep

\* What arrives, dies or is done by others around the intake.
LEMMA IntakeElsewhere ==
    ASSUME IndInv, In!Arrival \/ In!Environment
    PROVE  Intake!Arrival \/ Intake!Environment
<1> USE DEF In!WebhookOnly, Intake!WebhookOnly, In!NothingElse, Intake!NothingElse,
            In!GoTo, Intake!GoTo, In!Answer, Intake!Answer, In!Answered, Intake!Answered,
            In!Call, Intake!Call, In!InBatch, Intake!InBatch,
            In!ImportOnly, Intake!ImportOnly, In!Idle, Intake!Idle
<1>0. /\ DOMAIN hook = Delivery /\ DOMAIN batch = Import
      /\ \A b \in Import :
            batch[b].pc \in {"rows", "enqueue", "done", "failed"} =>
               /\ batch[b] # In!Idle /\ batch[b] \in Intake!OpenBatch
               /\ Intake!BatchFits(b)
  BY Typed
<1>1. ASSUME NEW d \in Delivery, NEW t \in CasTxn, In!AcquireKey(d, t)
      PROVE  Intake!Arrival \/ Intake!Environment
  <2> DEFINE state == [pc |-> "lookup", txn |-> t, seen |-> 0]
  <2>1. Asked' = Asked
    <3>1. hook' = [hook EXCEPT ![d] = state] /\ UNCHANGED batch /\ hook[d].pc # "done"
      BY <1>1 DEF In!AcquireKey
    <3>2. state.pc # "done" \/ state.reply # "accepted"
      OBVIOUS
    <3> HIDE DEF state
    <3> QED
      BY <1>0, <3>1, <3>2, AskedByHook
  <2>2. Intake!AcquireKey(d, t)
    BY <1>1, <2>1, ArrivedKept DEF In!AcquireKey, Intake!AcquireKey
  <2> QED
    BY <2>2 DEF Intake!Arrival
<1>2. ASSUME NEW d \in Delivery, NEW t \in CasTxn, In!RefuseDuplicate(d, t)
      PROVE  Intake!Arrival \/ Intake!Environment
  <2> DEFINE state == [pc |-> "done", txn |-> t, reply |-> "duplicate"]
  <2>1. Asked' = Asked
    <3>1. hook' = [hook EXCEPT ![d] = state] /\ UNCHANGED batch /\ hook[d].pc # "done"
      BY <1>2 DEF In!RefuseDuplicate
    <3>2. state.pc # "done" \/ state.reply # "accepted"
      OBVIOUS
    <3> HIDE DEF state
    <3> QED
      BY <1>0, <3>1, <3>2, AskedByHook
  <2>2. Intake!RefuseDuplicate(d, t)
    BY <1>2, <2>1, ArrivedKept DEF In!RefuseDuplicate, Intake!RefuseDuplicate
  <2> QED
    BY <2>2 DEF Intake!Arrival
<1>3. ASSUME NEW d \in Delivery, In!HookFails(d)
      PROVE  Intake!Arrival \/ Intake!Environment
  <2>1. Asked' = Asked
    BY <1>0, <1>3, AskedByHook DEF In!HookFails
  <2>2. Intake!HookFails(d)
    BY <1>3, <2>1, ArrivedKept DEF In!HookFails, Intake!HookFails
  <2> QED
    BY <2>2 DEF Intake!Environment
<1>4. ASSUME NEW b \in Import, In!ImportFails(b)
      PROVE  Intake!Arrival \/ Intake!Environment
  <2> DEFINE state == [batch[b] EXCEPT !.pc = "failed"]
  <2>1. batch' = [batch EXCEPT ![b] = state] /\ UNCHANGED hook
    BY <1>4 DEF In!ImportFails
  <2>2. /\ state.saved = batch[b].saved /\ state.todo = batch[b].todo /\ batch'[b] = state
        /\ batch[b] # In!Idle /\ state # In!Idle
    BY <1>0, <1>4, <2>1 DEF In!ImportFails, Intake!OpenBatch
  <2>3. Asked' = Asked
    BY <1>0, <2>1, <2>2, AskedByBatch DEF Handed
  <2>4. Intake!ImportFails(b)
    BY <1>4, <2>3, ArrivedKept DEF In!ImportFails, Intake!ImportFails
  <2> QED
    BY <2>4 DEF Intake!Environment
<1>5. ASSUME NEW b \in Import, NEW rows \in SUBSET In!FileRow, rows # {}, In!Upload(b, rows)
      PROVE  Intake!Arrival \/ Intake!Environment
  <2> DEFINE state == [pc |-> "rows", rows |-> rows, todo |-> rows, fresh |-> {},
                       saved |-> {}, seen |-> used]
  <2>1. /\ batch' = [batch EXCEPT ![b] = state] /\ UNCHANGED hook
        /\ batch[b] = In!Idle
    BY <1>5 DEF In!Upload
  <2>2. batch'[b] = state /\ state.saved = {}
    BY <1>0, <2>1
  <2>3. Asked' = Asked
    BY <1>0, <2>1, <2>2, AskedByBatch DEF Handed
  <2>4. Intake!Upload(b, rows)
    BY <1>5, <2>3, ArrivedKept
       DEF In!Upload, Intake!Upload, In!Remaining, Intake!Remaining,
           In!Cardinality, Intake!Cardinality
  <2> QED
    BY <1>5, <2>4 DEF Intake!Arrival, In!FileRow, Intake!FileRow
<1>6. CASE In!LinkBank \/ In!SuspendTenant \/ In!ActivateTenant
           \/ \E t \in CasTxn : In!ExpireKey(t)
  <2>1. Asked' = Asked /\ Arrived' = Arrived
    BY <1>6 DEF In!LinkBank, In!SuspendTenant, In!ActivateTenant, In!ExpireKey,
                Asked, AskedFor, Accepted, Handed, Arrived
  <2>2. Intake!LinkBank \/ Intake!SuspendTenant \/ Intake!ActivateTenant
        \/ \E t \in CasTxn : Intake!ExpireKey(t)
    BY <1>6, <2>1 DEF In!LinkBank, In!SuspendTenant, In!ActivateTenant, In!ExpireKey,
                      Intake!LinkBank, Intake!SuspendTenant, Intake!ActivateTenant,
                      Intake!ExpireKey
  <2> QED
    BY <2>2 DEF Intake!Environment
<1> QED
  BY <1>1, <1>2, <1>3, <1>4, <1>5, <1>6 DEF In!Arrival, In!Environment

\* The tables start empty for both.
LEMMA IntakeInit == In!Init => Intake!Init
<1> SUFFICES ASSUME In!Init PROVE Intake!Init
  OBVIOUS
<1>1. Arrived = [t \in Txn |-> "absent"]
  BY DEF In!Init, Arrived
<1>2. Asked = [t \in Txn |-> 0]
  BY DEF In!Init, Asked, AskedFor, Accepted, Handed, In!Idle
<1> QED
  BY <1>1, <1>2 DEF In!Init, Intake!Init, In!Idle, Intake!Idle

LEMMA IntakeStepped ==
    ASSUME IndInv, In!Next
    PROVE  [Intake!Next]_(Intake!vars)
  BY IntakeHooks, IntakeBatches, IntakeElsewhere DEF In!Next, Intake!Next

-----------------------------------------------------------------------------
(* People and workers leave the intake alone: they move rows that are      *)
(* stored, and store none.                                                 *)

LEMMA BooksKeepRows ==
    ASSUME IndInv, Books!Steps
    PROVE  Arrived' = Arrived
<1>1. Books!TypeOK /\ Books!ReferencesHold
  BY DEF IndInv, Books!IndInv
<1>2. ASSUME NEW w \in Worker, Books!WorkerStep(w) PROVE Arrived' = Arrived
  <2>1. CASE \E verdict \in Books!Verdict : Books!CommitVerdict(w, verdict)
    <3> PICK verdict \in Books!Verdict : Books!CommitVerdict(w, verdict)
      BY <2>1
    <3>1. /\ txn' = [txn EXCEPT ![worker[w].txn] = verdict] /\ verdict # "absent"
          /\ txn[worker[w].txn] # "absent"
      BY <1>1 DEF Books!CommitVerdict, Books!Verdict, Books!ReferencesHold
    <3> QED
      BY <1>1, <3>1 DEF Arrived, Books!TypeOK
  <2>2. CASE ~ \E verdict \in Books!Verdict : Books!CommitVerdict(w, verdict)
    <3>1. txn' = txn
      BY <1>2, <2>2 DEF Books!WorkerStep, Books!DiscardJob, Books!StartJob, Books!FailJob,
                        Books!JobThrows, Books!JobStalls
    <3> QED
      BY <3>1, ArrivedKept
  <2> QED
    BY <2>1, <2>2
<1>3. ASSUME NEW u \in User, Books!UserStep(u) PROVE Arrived' = Arrived
  <2>1. CASE Books!Confirm(u) \/ Books!Correct(u) \/ Books!Skip(u)
    <3> DEFINE t == request[u].txn
    <3>1. t \in Txn /\ Books!Classified(t) /\ Books!InReview(t)
      BY <1>1, <2>1, BooksAssumed, Books!RequestHolds
         DEF Books!Confirm, Books!Correct, Books!Skip, Books!ReferencesHold, Books!ReviewOp
    <3>2. txn[t] # "absent"
      BY <3>1 DEF IndInv, Books!IndInv, Books!History, Books!InReview, Books!NoRow
    <3>3. \E st \in {"classified", "skipped"} : txn' = [txn EXCEPT ![t] = st]
      <4>1. cls[t] \in Books!Row
        BY <1>1, <3>1 DEF Books!TypeOK, Books!Classified
      <4>2. CASE Books!Confirm(u)
        BY <4>1, <4>2 DEF Books!Confirm, Books!Settle, Books!ConfirmedRow, Books!Row
      <4>3. CASE Books!Correct(u)
        BY <4>3 DEF Books!Correct, Books!Settle, Books!ManualRow
      <4>4. CASE Books!Skip(u)
        BY <4>1, <4>4 DEF Books!Skip, Books!Settle, Books!Row
      <4> QED
        BY <2>1, <4>2, <4>3, <4>4
    <3> QED
      BY <1>1, <3>1, <3>2, <3>3 DEF Arrived, Books!TypeOK
  <2>2. CASE ~(Books!Confirm(u) \/ Books!Correct(u) \/ Books!Skip(u))
    <3>1. txn' = txn
      BY <1>3, <2>2 DEF Books!UserStep, Books!OpenReview, Books!OpenOverride,
                        Books!EnqueueReclassify, Books!OpenReclassify, Books!LoseConflict,
                        Books!Override, Books!OverrideCollides, Books!RequestDies
    <3> QED
      BY <3>1, ArrivedKept
  <2> QED
    BY <2>1, <2>2
<1> QED
  BY <1>2, <1>3 DEF Books!Steps

LEMMA BookStepped ==
    ASSUME IndInv, BookStep
    PROVE  UNCHANGED Intake!vars
<1>1. Books!Steps /\ UNCHANGED intakeVars
  BY SameWorkerSteps, SameUserSteps DEF BookStep, Book!Steps, Books!Steps
<1>2. Arrived' = Arrived
  BY <1>1, BooksKeepRows
<1>3. Asked' = Asked
  BY <1>1 DEF intakeVars, Asked, AskedFor, Accepted, Handed
<1> QED
  BY <1>1, <1>2, <1>3 DEF intakeVars, Intake!vars

-----------------------------------------------------------------------------
(* The intake is the one Classification expects: rows arrive pending and   *)
(* owed, and what is owed is queued or lost once.                          *)

CallOwes(d, t)  == hook[d].pc = "enqueue" /\ hook[d].txn = t
BatchOwes(b, t) == batch[b].pc = "enqueue" /\ t \in batch[b].todo
Owes(t) == (\E d \in Delivery : CallOwes(d, t)) \/ (\E b \in Import : BatchOwes(b, t))

LEMMA OwedMeans ==
    /\ \A t : t \in In!Owed <=> Owes(t)
    /\ \A t : t \in In!Owed' <=> Owes(t)'
<1>1. \A t : t \in In!Owed <=> Owes(t)
  BY DEF In!Owed, Owes, CallOwes, BatchOwes
<1>2. \A t : t \in In!Owed' <=> Owes(t)'
  BY DEF In!Owed, Owes, CallOwes, BatchOwes
<1> QED
  BY <1>1, <1>2

\* Only the call that moves can change what calls owe.
LEMMA OwedByCall ==
    ASSUME NEW d \in Delivery, DOMAIN hook = Delivery, UNCHANGED batch,
           NEW state, hook' = [hook EXCEPT ![d] = state]
    PROVE  /\ hook'[d] = state
           /\ \A t : t \in In!Owed' <=>
                 \/ state.pc = "enqueue" /\ state.txn = t
                 \/ \E e \in Delivery : e # d /\ CallOwes(e, t)
                 \/ \E b \in Import : BatchOwes(b, t)
           /\ \A t : t \in In!Owed <=>
                 \/ CallOwes(d, t)
                 \/ \E e \in Delivery : e # d /\ CallOwes(e, t)
                 \/ \E b \in Import : BatchOwes(b, t)
<1>1. \A t : CallOwes(d, t)' <=> (state.pc = "enqueue" /\ state.txn = t)
  BY DEF CallOwes
<1>2. \A e \in Delivery : \A t : e # d => (CallOwes(e, t)' <=> CallOwes(e, t))
  BY DEF CallOwes
<1>3. \A b \in Import : \A t : BatchOwes(b, t)' <=> BatchOwes(b, t)
  BY DEF BatchOwes
<1> QED
  BY <1>1, <1>2, <1>3, OwedMeans DEF Owes

LEMMA OwedByUpload ==
    ASSUME NEW b \in Import, DOMAIN batch = Import, UNCHANGED hook,
           NEW state, batch' = [batch EXCEPT ![b] = state]
    PROVE  /\ batch'[b] = state
           /\ \A t : t \in In!Owed' <=>
                 \/ state.pc = "enqueue" /\ t \in state.todo
                 \/ \E c \in Import : c # b /\ BatchOwes(c, t)
                 \/ \E d \in Delivery : CallOwes(d, t)
           /\ \A t : t \in In!Owed <=>
                 \/ BatchOwes(b, t)
                 \/ \E c \in Import : c # b /\ BatchOwes(c, t)
                 \/ \E d \in Delivery : CallOwes(d, t)
<1>1. \A t : BatchOwes(b, t)' <=> (state.pc = "enqueue" /\ t \in state.todo)
  BY DEF BatchOwes
<1>2. \A c \in Import : \A t : c # b => (BatchOwes(c, t)' <=> BatchOwes(c, t))
  BY DEF BatchOwes
<1>3. \A d \in Delivery : \A t : CallOwes(d, t)' <=> CallOwes(d, t)
  BY DEF CallOwes
<1> QED
  BY <1>1, <1>2, <1>3, OwedMeans DEF Owes

\* What one request owes nobody else does.
LEMMA OwedOnce ==
    ASSUME IndInv
    PROVE  /\ \A d, e \in Delivery : \A t : d # e /\ CallOwes(d, t) => ~CallOwes(e, t)
           /\ \A d \in Delivery, b \in Import : \A t : CallOwes(d, t) => ~BatchOwes(b, t)
           /\ \A b, c \in Import : \A t : b # c /\ BatchOwes(b, t) => ~BatchOwes(c, t)
<1>1. \A d, e \in Delivery : \A t : d # e /\ CallOwes(d, t) => ~CallOwes(e, t)
  BY OwedApart DEF CallOwes
<1>2. \A d \in Delivery, b \in Import : \A t : CallOwes(d, t) => ~BatchOwes(b, t)
  BY OwedApart, Typed DEF CallOwes, BatchOwes
<1>3. \A b, c \in Import : \A t : b # c /\ BatchOwes(b, t) => ~BatchOwes(c, t)
  BY OwedApart DEF BatchOwes
<1> QED
  BY <1>1, <1>2, <1>3

\* A step that touches neither table nor queue nor what is owed.
LEMMA Unnoticed ==
    ASSUME UNCHANGED bookVars, UNCHANGED <<txn, jobs>>, \A t : t \in In!Owed' <=> t \in In!Owed
    PROVE  UNCHANGED Book!vars
<1>1. In!Owed' = In!Owed
  OBVIOUS
<1> QED
  BY <1>1 DEF bookVars, Book!vars

\* What a step of the intake is to Classification: jobs are lost to failures only.
IntakeEffect ==
    \/ UNCHANGED Book!vars
    \/ \E S \in SUBSET Txn : Book!Receive(S)
    \/ \E t \in Txn : Book!Enqueue(t)
    \/ faults' = faults + 1 /\ \E S \in SUBSET Txn : Book!LoseJob(S)

LEMMA CallsAreIntake ==
    ASSUME IndInv, NEW d \in Delivery, In!HookStep(d) \/ In!HookFails(d), UNCHANGED bookVars
    PROVE  IntakeEffect
<1> USE DEF In!WebhookOnly, In!NothingElse, In!GoTo, In!Answer, In!Answered, In!Call
<1> DEFINE t == hook[d].txn
<1>0. /\ DOMAIN hook = Delivery /\ CasTxn \subseteq Txn
      /\ hook[d].pc \in {"lookup", "quota", "store", "enqueue"} => t \in Txn
  BY Typed
<1>1. CASE In!Store(d)
  <2> USE DEF In!Store, In!StoreRow
  <2> DEFINE state == [pc |-> "enqueue", txn |-> t, seen |-> 0]
  <2>1. /\ t \in Txn /\ txn[t] = "absent" /\ hook[d].pc = "store"
        /\ hook' = [hook EXCEPT ![d] = state] /\ UNCHANGED <<batch, jobs>>
    BY <1>0, <1>1 DEF In!Stored
  <2>2. In!Owed' = In!Owed \union {t}
    <3>1. \A s : s \in In!Owed' <=> s \in In!Owed \/ s = t
      <4>1. state.pc = "enqueue" /\ state.txn = t /\ \A s : ~CallOwes(d, s)
        BY <2>1 DEF CallOwes
      <4> HIDE DEF state, t
      <4> QED
        BY <1>0, <2>1, <4>1, OwedByCall
    <3> QED
      BY <3>1
  <2>3. txn' = [s \in Txn |-> IF s \in {t} THEN "pending" ELSE txn[s]]
    <3>1. DOMAIN txn = Txn /\ txn = [s \in Txn |-> txn[s]]
      BY DEF IndInv, Books!IndInv, Books!TypeOK
    <3>2. txn' = [txn EXCEPT ![t] = "pending"]
      BY <1>1
    <3> HIDE DEF t
    <3> QED
      BY <2>1, <3>1, <3>2
  <2>4. Book!Receive({t})
    BY <2>1, <2>2, <2>3 DEF Book!Receive, bookVars
  <2> QED
    BY <2>1, <2>4 DEF IntakeEffect
<1>2. CASE In!AddJob(d)
  <2> DEFINE state == [pc |-> "done", txn |-> t, reply |-> "accepted"]
  <2>1. /\ t \in Txn /\ hook[d].pc = "enqueue" /\ hook' = [hook EXCEPT ![d] = state]
        /\ UNCHANGED <<batch, txn>> /\ jobs' = [jobs EXCEPT ![t] = @ + 1]
    BY <1>0, <1>2 DEF In!AddJob
  <2>2. t \in In!Owed /\ In!Owed' = In!Owed \ {t}
    <3>1. CallOwes(d, t) /\ \A s : CallOwes(d, s) => s = t
      BY <2>1 DEF CallOwes
    <3>2. t \in In!Owed /\ \A s : s \in In!Owed' <=> s \in In!Owed /\ s # t
      <4>1. state.pc # "enqueue"
        OBVIOUS
      <4> HIDE DEF state, t
      <4> DEFINE Others(s) == \/ \E e \in Delivery : e # d /\ CallOwes(e, s)
                              \/ \E b \in Import : BatchOwes(b, s)
      <4>2. /\ \A s : s \in In!Owed' <=> Others(s)
            /\ \A s : s \in In!Owed <=> CallOwes(d, s) \/ Others(s)
        BY <1>0, <2>1, <4>1, OwedByCall
      <4>3. ~Others(t)
        BY <3>1, OwedOnce
      <4> HIDE DEF Others
      <4> QED
        BY <3>1, <4>2, <4>3
    <3> QED
      BY <3>2
  <2>3. Book!Enqueue(t)
    BY <2>1, <2>2 DEF Book!Enqueue, bookVars
  <2> QED
    BY <2>1, <2>3 DEF IntakeEffect
<1>3. CASE In!HookFails(d) /\ hook[d].pc = "enqueue"
  <2> DEFINE state == [pc |-> "done", txn |-> t, reply |-> "failed"]
  <2>1. /\ t \in Txn /\ hook' = [hook EXCEPT ![d] = state]
        /\ UNCHANGED <<batch, txn, jobs>>
    BY <1>0, <1>3 DEF In!HookFails
  <2>2. {t} \subseteq In!Owed /\ In!Owed' = In!Owed \ {t}
    <3>1. CallOwes(d, t) /\ \A s : CallOwes(d, s) => s = t
      BY <1>3 DEF CallOwes
    <3>2. t \in In!Owed /\ \A s : s \in In!Owed' <=> s \in In!Owed /\ s # t
      <4>1. state.pc # "enqueue"
        OBVIOUS
      <4> HIDE DEF state, t
      <4> DEFINE Others(s) == \/ \E e \in Delivery : e # d /\ CallOwes(e, s)
                              \/ \E b \in Import : BatchOwes(b, s)
      <4>2. /\ \A s : s \in In!Owed' <=> Others(s)
            /\ \A s : s \in In!Owed <=> CallOwes(d, s) \/ Others(s)
        BY <1>0, <2>1, <4>1, OwedByCall
      <4>3. ~Others(t)
        BY <3>1, OwedOnce
      <4> HIDE DEF Others
      <4> QED
        BY <3>1, <4>2, <4>3
    <3> QED
      BY <3>2
  <2>3. Book!LoseJob({t}) /\ faults' = faults + 1
    BY <1>3, <2>1, <2>2 DEF Book!LoseJob, bookVars, In!HookFails
  <2> QED
    BY <2>1, <2>3 DEF IntakeEffect
<1>4. CASE /\ ~In!Store(d) /\ ~In!AddJob(d)
           /\ ~(In!HookFails(d) /\ hook[d].pc = "enqueue")
  <2>1. \E state : /\ hook' = [hook EXCEPT ![d] = state] /\ state.pc # "enqueue"
                   /\ hook[d].pc # "enqueue" /\ UNCHANGED <<batch, txn, jobs>>
    BY <1>4 DEF In!HookStep, In!LookUp, In!GrantMissing, In!AlreadyStored, In!ReadQuota,
                In!NoSubscription, In!StoreCollides, In!HookFails
  <2> QED
    BY <1>0, <2>1, OwedByCall, Unnoticed DEF CallOwes, IntakeEffect
<1> QED
  BY <1>1, <1>2, <1>3, <1>4

LEMMA UploadsAreIntake ==
    ASSUME IndInv, NEW b \in Import, In!BatchStep(b) \/ In!ImportFails(b), UNCHANGED bookVars
    PROVE  IntakeEffect
<1> USE DEF In!InBatch, In!ImportOnly
<1>0. /\ DOMAIN batch = Import /\ In!FileRow \subseteq Txn
      /\ batch[b].pc \in {"rows", "enqueue", "done", "failed"} =>
            /\ batch[b] # In!Idle /\ batch[b] \in Intake!OpenBatch
            /\ Intake!BatchFits(b)
  BY Typed
<1>1. CASE In!CommitBatch(b)
  <2> DEFINE F == batch[b].fresh
             state == [batch[b] EXCEPT !.pc = IF F = {} THEN "done" ELSE "enqueue",
                                       !.todo = F, !.saved = F]
  <2>1. /\ batch' = [batch EXCEPT ![b] = state] /\ UNCHANGED <<hook, jobs>>
        /\ txn' = [t \in Txn |-> IF t \in F THEN "pending" ELSE txn[t]]
        /\ batch[b].pc = "rows" /\ \A t \in F : txn[t] = "absent"
    BY <1>1 DEF In!CommitBatch, In!ImportRows, In!AllChecked, In!Stored
  <2>2. /\ state.todo = F /\ F \subseteq Txn
        /\ state.pc = IF F = {} THEN "done" ELSE "enqueue"
    BY <1>0, <2>1 DEF Intake!OpenBatch, Intake!FileRow
  <2>3. In!Owed' = In!Owed \union F
    <3>1. \A s : s \in In!Owed' <=> s \in In!Owed \/ s \in F
      <4> HIDE DEF state, F
      <4> QED
        BY <1>0, <2>1, <2>2, OwedByUpload DEF BatchOwes
    <3> QED
      BY <3>1
  <2>4. CASE F = {}
    <3>1. txn' = txn
      BY <2>1, <2>4 DEF IndInv, Books!IndInv, Books!TypeOK
    <3> QED
      BY <2>1, <2>3, <2>4, <3>1 DEF Book!vars, bookVars, IntakeEffect
  <2>5. CASE F # {}
    <3>1. Book!Receive(F)
      BY <2>1, <2>3, <2>5 DEF Book!Receive, bookVars
    <3> QED
      BY <2>2, <3>1 DEF IntakeEffect
  <2> QED
    BY <2>4, <2>5
<1>2. ASSUME NEW t \in In!FileRow, In!AddRowJob(b, t) PROVE IntakeEffect
  <2> DEFINE state == [batch[b] EXCEPT !.todo = @ \ {t},
                           !.pc = IF batch[b].todo = {t} THEN "done" ELSE "enqueue"]
  <2>1. /\ batch' = [batch EXCEPT ![b] = state] /\ UNCHANGED <<txn, hook>>
        /\ batch[b].pc = "enqueue" /\ t \in batch[b].todo /\ t \in Txn
        /\ jobs' = [jobs EXCEPT ![t] = @ + 1]
    BY <1>0, <1>2 DEF In!AddRowJob
  <2>2. /\ state.todo = batch[b].todo \ {t}
        /\ state.pc = IF batch[b].todo = {t} THEN "done" ELSE "enqueue"
    BY <1>0, <2>1 DEF Intake!OpenBatch
  <2>3. t \in In!Owed /\ In!Owed' = In!Owed \ {t}
    <3>1. /\ BatchOwes(b, t)
          /\ \A s : state.pc = "enqueue" /\ s \in state.todo <=> BatchOwes(b, s) /\ s # t
      BY <2>1, <2>2 DEF BatchOwes
    <3>2. t \in In!Owed /\ \A s : s \in In!Owed' <=> s \in In!Owed /\ s # t
      <4> HIDE DEF state
      <4> QED
        BY <1>0, <2>1, <3>1, OwedByUpload, OwedOnce
    <3> QED
      BY <3>2
  <2>4. Book!Enqueue(t)
    BY <2>1, <2>3 DEF Book!Enqueue, bookVars
  <2> QED
    BY <2>1, <2>4 DEF IntakeEffect
<1>3. CASE In!ImportFails(b)
  <2> DEFINE state == [batch[b] EXCEPT !.pc = "failed"]
             S == IF batch[b].pc = "enqueue" THEN batch[b].todo ELSE {}
  <2>1. batch' = [batch EXCEPT ![b] = state] /\ UNCHANGED <<txn, hook, jobs>>
    BY <1>3 DEF In!ImportFails
  <2>2. state.pc = "failed" /\ S \subseteq Txn
    BY <1>0, <1>3 DEF In!ImportFails, Intake!OpenBatch, Intake!FileRow
  <2>3. S \subseteq In!Owed /\ In!Owed' = In!Owed \ S
    <3>1. \A s : BatchOwes(b, s) <=> s \in S
      BY DEF BatchOwes
    <3>2. \A s : /\ s \in S => s \in In!Owed
                 /\ s \in In!Owed' <=> s \in In!Owed /\ s \notin S
      <4> HIDE DEF state, S
      <4> QED
        BY <1>0, <2>1, <2>2, <3>1, OwedByUpload, OwedOnce
    <3> QED
      BY <3>2
  <2>4. CASE S = {}
    BY <2>1, <2>3, <2>4 DEF Book!vars, bookVars, IntakeEffect
  <2>5. CASE S # {}
    <3>1. Book!LoseJob(S) /\ faults' = faults + 1
      BY <1>3, <2>1, <2>3, <2>5 DEF Book!LoseJob, bookVars, In!ImportFails
    <3> QED
      BY <2>2, <3>1 DEF IntakeEffect
  <2> QED
    BY <2>4, <2>5
<1>4. CASE In!CommitCollides(b) \/ \E t \in In!FileRow : In!CheckRow(b, t)
  <2>1. batch[b].pc = "rows" /\ batch[b] \in Intake!OpenBatch /\ UNCHANGED <<hook, txn, jobs>>
    BY <1>0, <1>4 DEF In!CommitCollides, In!AllChecked, In!CheckRow
  <2>2. \E state : batch' = [batch EXCEPT ![b] = state] /\ state.pc # "enqueue"
    <3>1. CASE In!CommitCollides(b)
      <4> DEFINE state == [batch[b] EXCEPT !.pc = "failed"]
      <4>1. batch' = [batch EXCEPT ![b] = state] /\ state.pc # "enqueue"
        BY <2>1, <3>1 DEF In!CommitCollides, Intake!OpenBatch
      <4> QED
        BY <4>1
    <3>2. ASSUME NEW t \in In!FileRow, In!CheckRow(b, t)
          PROVE  \E state : batch' = [batch EXCEPT ![b] = state] /\ state.pc # "enqueue"
      <4> DEFINE state == [batch[b] EXCEPT !.todo = @ \ {t},
                               !.fresh = IF In!Stored(t) THEN @ ELSE @ \union {t}]
      <4>1. batch' = [batch EXCEPT ![b] = state] /\ state.pc # "enqueue"
        BY <2>1, <3>2 DEF In!CheckRow, Intake!OpenBatch
      <4> QED
        BY <4>1
    <3> QED
      BY <1>4, <3>1, <3>2
  <2> QED
    BY <1>0, <2>1, <2>2, OwedByUpload, Unnoticed DEF BatchOwes, IntakeEffect
<1> QED
  BY <1>1, <1>2, <1>3, <1>4 DEF In!BatchStep

LEMMA StepsAreIntake ==
    ASSUME IndInv, IntakeStep
    PROVE  IntakeEffect
<1> USE DEF In!WebhookOnly, In!NothingElse, In!GoTo, In!Answered, In!Call,
            In!InBatch, In!ImportOnly, In!Idle
<1>0. DOMAIN hook = Delivery /\ DOMAIN batch = Import /\ In!Next /\ UNCHANGED bookVars
  BY Typed DEF IntakeStep
<1>1. ASSUME NEW d \in Delivery, NEW t \in CasTxn, In!AcquireKey(d, t) \/ In!RefuseDuplicate(d, t)
      PROVE  IntakeEffect
  <2>1. \E state : /\ hook' = [hook EXCEPT ![d] = state] /\ state.pc # "enqueue"
                   /\ hook[d].pc # "enqueue" /\ UNCHANGED <<batch, txn, jobs>>
    <3>1. CASE In!AcquireKey(d, t)
      <4> DEFINE state == [pc |-> "lookup", txn |-> t, seen |-> 0]
      <4>1. /\ hook' = [hook EXCEPT ![d] = state] /\ state.pc # "enqueue"
            /\ hook[d].pc # "enqueue" /\ UNCHANGED <<batch, txn, jobs>>
        BY <3>1 DEF In!AcquireKey
      <4> QED
        BY <4>1
    <3>2. CASE In!RefuseDuplicate(d, t)
      <4> DEFINE state == [pc |-> "done", txn |-> t, reply |-> "duplicate"]
      <4>1. /\ hook' = [hook EXCEPT ![d] = state] /\ state.pc # "enqueue"
            /\ hook[d].pc # "enqueue" /\ UNCHANGED <<batch, txn, jobs>>
        BY <3>2 DEF In!RefuseDuplicate
      <4> QED
        BY <4>1
    <3> QED
      BY <1>1, <3>1, <3>2
  <2> QED
    BY <1>0, <2>1, OwedByCall, Unnoticed DEF CallOwes, IntakeEffect
<1>2. ASSUME NEW b \in Import, NEW rows \in SUBSET In!FileRow, In!Upload(b, rows)
      PROVE  IntakeEffect
  <2> DEFINE state == [pc |-> "rows", rows |-> rows, todo |-> rows, fresh |-> {},
                       saved |-> {}, seen |-> used]
  <2>1. /\ batch' = [batch EXCEPT ![b] = state] /\ state.pc # "enqueue"
        /\ batch[b].pc # "enqueue" /\ UNCHANGED <<hook, txn, jobs>>
    BY <1>2 DEF In!Upload
  <2> HIDE DEF state
  <2> QED
    BY <1>0, <2>1, OwedByUpload, Unnoticed DEF BatchOwes, IntakeEffect
<1>3. CASE In!LinkBank \/ In!SuspendTenant \/ In!ActivateTenant
           \/ \E t \in CasTxn : In!ExpireKey(t)
  <2>1. UNCHANGED <<txn, jobs, hook, batch>>
    BY <1>3 DEF In!LinkBank, In!SuspendTenant, In!ActivateTenant, In!ExpireKey
  <2>2. In!Owed' = In!Owed
    BY <2>1 DEF In!Owed
  <2> QED
    BY <1>0, <2>1, <2>2, Unnoticed DEF IntakeEffect
<1> QED
  BY <1>0, <1>1, <1>2, <1>3, CallsAreIntake, UploadsAreIntake
     DEF In!Next, In!Arrival, In!Environment

-----------------------------------------------------------------------------
(* The whole.                                                              *)

LEMMA BookRefined ==
    ASSUME IndInv, [Next]_vars
    PROVE  [Book!Next]_(Book!vars)
<1>1. CASE IntakeStep
  BY <1>1, StepsAreIntake DEF IntakeEffect, Book!Next, Book!Intake
<1>2. CASE BookStep
  BY <1>2 DEF BookStep, Book!Next
<1>3. CASE UNCHANGED vars
  BY <1>3 DEF vars, intakeVars, bookVars, Book!vars, In!Owed
<1> QED
  BY <1>1, <1>2, <1>3 DEF Next

LEMMA IntakeRefined ==
    ASSUME IndInv, [Next]_vars
    PROVE  [Intake!Next]_(Intake!vars)
<1>1. CASE IntakeStep
  BY <1>1, IntakeStepped DEF IntakeStep
<1>2. CASE BookStep
  BY <1>2, BookStepped
<1>3. CASE UNCHANGED vars
  <2>1. Arrived' = Arrived /\ Asked' = Asked
    BY <1>3 DEF vars, intakeVars, Arrived, Asked, AskedFor, Accepted, Handed
  <2> QED
    BY <1>3, <2>1 DEF vars, intakeVars, Intake!vars
<1> QED
  BY <1>1, <1>2, <1>3 DEF Next

LEMMA InitHolds == Init => IndInv
  BY IntakeInit, SameInit, IntakeInv, BooksInv DEF Init, IndInv

LEMMA StepHolds == IndInv /\ [Next]_vars => IndInv'
<1> SUFFICES ASSUME IndInv, [Next]_vars PROVE IndInv'
  OBVIOUS
<1>1. Intake!IndInv'
  BY IntakeRefined, IntakeInv DEF IndInv
<1>2. Books!IndInv'
  <2>1. Book!vars = Books!vars /\ (UNCHANGED Book!vars <=> UNCHANGED Books!vars)
    BY DEF Book!vars, Books!vars
  <2>2. [Books!Next]_(Books!vars)
    BY <2>1, BookRefined, SameSteps
  <2> QED
    BY <2>2, BooksInv DEF IndInv
<1> QED
  BY <1>1, <1>2 DEF IndInv

\* Whatever the intake, the workers and the people do at the same time, both
\* halves keep what they rely on.
THEOREM Inductive == Spec => []IndInv
  BY InitHolds, StepHolds, PTL DEF Spec

\* The real intake does to the transactions and the queue what Classification
\* assumes of it, so every theorem of ClassificationProofs holds of the whole.
THEOREM BooksImplemented == Spec => ImplementsClassification
<1>1. Init => Book!Init
  BY DEF Init
<1>2. IndInv /\ [Next]_vars => [Book!Next]_(Book!vars)
  BY BookRefined
<1> QED
  BY <1>1, <1>2, Inductive, PTL DEF Spec, ImplementsClassification, Book!Spec

\* Jobs that run and rows that move on do not disturb the intake: it behaves
\* as Ingestion says, and every theorem of IngestionProofs holds of the whole.
THEOREM IntakeImplemented == Spec => Intake!Spec
<1>1. Init => Intake!Init
  BY IntakeInit DEF Init
<1>2. IndInv /\ [Next]_vars => [Intake!Next]_(Intake!vars)
  BY IntakeRefined
<1> QED
  BY <1>1, <1>2, Inductive, PTL DEF Spec, Intake!Spec

\* Usage, overage and the history of the uploads stay right while jobs and
\* people move the rows on.
THEOREM LedgerCorrect ==
    Spec => [](In!UsageMatchesRows /\ In!NeverOverbilled /\ In!RowsBelongToOneBatch)
<1>1. ASSUME IndInv
      PROVE  In!UsageMatchesRows /\ In!NeverOverbilled /\ In!RowsBelongToOneBatch
  <2>1. Intake!TypeOK /\ Intake!RowsInv
    BY <1>1 DEF IndInv, Intake!IndInv
  <2>2. In!UsageMatchesRows
    <3>1. {t \in Txn : Intake!Stored(t)} = {t \in Txn : In!Stored(t)}
      BY StoredSame
    <3> QED
      BY <2>1, <3>1 DEF Intake!RowsInv, Intake!UsageMatchesRows, In!UsageMatchesRows,
                        In!Cardinality, Intake!Cardinality
  <2>3. In!NeverOverbilled
    BY <2>1 DEF Intake!RowsInv, Intake!NeverOverbilled, In!NeverOverbilled
  <2>4. In!RowsBelongToOneBatch
    <3> USE DEF In!FileRow, Intake!FileRow, In!Idle, Intake!Idle
    <3>1. \A b \in Import : batch[b] # In!Idle => batch[b].saved \subseteq In!FileRow
      BY <2>1, IntakeAssumed, Intake!BatchTyped DEF Intake!OpenBatch
    <3>2. \A t \in In!FileRow :
             In!Stored(t) <=> \E b \in Import : batch[b] # In!Idle /\ t \in batch[b].saved
      BY <2>1, StoredSame DEF Intake!RowsInv, Intake!FromUploads
    <3>3. {t \in In!FileRow : In!Stored(t)}
             = UNION {batch[b].saved : b \in {c \in Import : batch[c] # In!Idle}}
      BY <3>1, <3>2
    <3>4. \A b, c \in Import : b # c /\ batch[b] # In!Idle /\ batch[c] # In!Idle
             => batch[b].saved \intersect batch[c].saved = {}
      BY <2>1 DEF Intake!RowsInv, Intake!BatchesApart
    <3> QED
      BY <3>3, <3>4 DEF In!RowsBelongToOneBatch
  <2> QED
    BY <2>2, <2>3, <2>4
<1> QED
  BY <1>1, Inductive, PTL

-----------------------------------------------------------------------------
(* Nothing is forgotten.                                                   *)

Kept(t) ==
    \/ t \in In!Owed
    \/ jobs[t] > 0
    \/ \E w \in Worker : worker[w] = Book!Job(t)
Waiting(t) == txn[t] # "absent" /\ ~Book!Classified(t)

LEMMA FaultsGrow ==
    ASSUME [Next]_vars
    PROVE  /\ faults' = faults \/ faults' = faults + 1
           /\ jobFaults' = jobFaults \/ jobFaults' = jobFaults + 1
<1>1. CASE IntakeStep
  <2> USE DEF In!NothingElse, In!WebhookOnly, In!ImportOnly
  <2>1. ASSUME NEW d \in Delivery, In!HookStep(d) PROVE faults' = faults
    BY <2>1 DEF In!HookStep, In!LookUp, In!GrantMissing, In!AlreadyStored, In!ReadQuota,
                In!NoSubscription, In!Store, In!StoreCollides, In!AddJob
  <2>2. ASSUME NEW b \in Import, In!BatchStep(b) PROVE faults' = faults
    BY <2>2 DEF In!BatchStep, In!CheckRow, In!AddRowJob, In!CommitBatch, In!ImportRows,
                In!CommitCollides
  <2>3. ASSUME NEW d \in Delivery, NEW t \in CasTxn,
               In!AcquireKey(d, t) \/ In!RefuseDuplicate(d, t)
        PROVE  faults' = faults
    BY <2>3 DEF In!AcquireKey, In!RefuseDuplicate
  <2>4. ASSUME NEW b \in Import, NEW rows \in SUBSET In!FileRow, In!Upload(b, rows)
        PROVE  faults' = faults
    BY <2>4 DEF In!Upload
  <2>5. ASSUME In!LinkBank \/ In!ActivateTenant PROVE faults' = faults
    BY <2>5 DEF In!LinkBank, In!ActivateTenant
  <2>6. ASSUME In!SuspendTenant PROVE faults' = faults + 1
    BY <2>6 DEF In!SuspendTenant
  <2>7. ASSUME NEW t \in CasTxn, In!ExpireKey(t) PROVE faults' = faults + 1
    BY <2>7 DEF In!ExpireKey
  <2>8. ASSUME NEW d \in Delivery, In!HookFails(d) PROVE faults' = faults + 1
    BY <2>8 DEF In!HookFails
  <2>9. ASSUME NEW b \in Import, In!ImportFails(b) PROVE faults' = faults + 1
    BY <2>9 DEF In!ImportFails
  <2>10. jobFaults' = jobFaults
    BY <1>1 DEF IntakeStep, bookVars
  <2>11. In!Arrival => faults' = faults
    BY <2>3, <2>4 DEF In!Arrival
  <2>12. In!Environment => faults' = faults \/ faults' = faults + 1
    BY <2>5, <2>6, <2>7, <2>8, <2>9 DEF In!Environment
  <2> QED
    BY <1>1, <2>1, <2>2, <2>10, <2>11, <2>12 DEF IntakeStep, In!Next
<1>2. CASE BookStep
  <2>1. ASSUME NEW w \in Worker, Book!WorkerStep(w)
        PROVE  jobFaults' = jobFaults \/ jobFaults' = jobFaults + 1
    BY <2>1 DEF Book!WorkerStep, Book!DiscardJob, Book!StartJob, Book!CommitVerdict,
                Book!FailJob, Book!JobThrows, Book!JobStalls
  <2>2. ASSUME NEW u \in User, Book!UserStep(u) PROVE jobFaults' = jobFaults
    BY <2>2 DEF Book!UserStep, Book!OpenReview, Book!OpenOverride, Book!EnqueueReclassify,
                Book!OpenReclassify, Book!Confirm, Book!Correct, Book!Skip, Book!Settle,
                Book!LoseConflict, Book!Override, Book!OverrideCollides, Book!RequestDies
  <2> QED
    BY <1>2, <2>1, <2>2 DEF BookStep, Book!Steps, intakeVars
<1>3. CASE UNCHANGED vars
  BY <1>3 DEF vars, intakeVars, bookVars
<1> QED
  BY <1>1, <1>2, <1>3 DEF Next

LEMMA IntakeRemembers ==
    ASSUME IntakeStep, IntakeEffect, IndInv, faults' # faults + 1,
           NEW t \in Txn, Waiting(t)', Waiting(t) => Kept(t)
    PROVE  Kept(t)'
<1> USE DEF Waiting, Kept, Book!Classified, Book!NoRow
<1>0. jobs \in [Txn -> Nat]
  BY DEF IndInv, Books!IndInv, Books!TypeOK
<1>1. CASE UNCHANGED Book!vars
  BY <1>1 DEF Book!vars
<1>2. ASSUME NEW S \in SUBSET Txn, Book!Receive(S) PROVE Kept(t)'
  BY <1>2 DEF Book!Receive
<1>3. ASSUME NEW s \in Txn, Book!Enqueue(s) PROVE Kept(t)'
  <2>1. CASE s = t
    BY <1>0, <1>3, <2>1 DEF Book!Enqueue
  <2>2. CASE s # t
    BY <1>0, <1>3, <2>2 DEF Book!Enqueue
  <2> QED
    BY <2>1, <2>2
<1> QED
  BY <1>1, <1>2, <1>3 DEF IntakeEffect

LEMMA WorkersRemember ==
    ASSUME IndInv, NEW w \in Worker, Book!WorkerStep(w), UNCHANGED In!Owed,
           jobFaults' # jobFaults + 1,
           NEW t \in Txn, Waiting(t)', txn[t] # "absent", Waiting(t) => Kept(t)
    PROVE  Kept(t)'
<1> USE DEF Waiting, Kept, Book!Classified, Book!NoRow, Book!Job, Book!Idle
<1>0. /\ jobs \in [Txn -> Nat] /\ DOMAIN worker = Worker /\ DOMAIN cls = Txn
      /\ jobFaults \in Nat
      /\ \A v \in Worker : worker[v] # Book!Idle =>
            worker[v].txn \in Txn /\ worker[v] = Book!Job(worker[v].txn)
  BY BooksAssumed, Books!WorkerHolds
     DEF IndInv, Books!IndInv, Books!TypeOK, Books!Idle, Books!Job
<1>1. ASSUME NEW s \in Txn, Book!DiscardJob(w, s) PROVE Kept(t)'
  <2>1. CASE s = t
    <3>1. txn[t] # "pending" /\ cls' = cls
      BY <1>1, <2>1 DEF Book!DiscardJob
    <3>2. Books!History(t)
      BY DEF IndInv, Books!IndInv
    <3>3. cls[t] # Book!NoRow
      <4>1. \A u : /\ Books!ManualRow(u) # Book!NoRow
                   /\ Books!AiRow("classified", "manual", u) # Book!NoRow
                   /\ Books!AiRow("skipped", "manual", u) # Book!NoRow
        BY DEF Books!ManualRow, Books!AiRow
      <4>2. /\ Books!VerdictRow("classified") # Book!NoRow
            /\ Books!VerdictRow("review") # Book!NoRow
        BY DEF Books!VerdictRow, Books!AiRow
      <4>3. Books!Overridden(t) => cls[t] # Book!NoRow
        BY <4>1 DEF Books!Overridden
      <4> HIDE DEF Book!NoRow
      <4> QED
        BY <3>1, <3>2, <4>1, <4>2, <4>3 DEF Books!History
    <3> QED
      BY <3>1, <3>3
  <2>2. CASE s # t
    BY <1>0, <1>1, <2>2 DEF Book!DiscardJob
  <2> QED
    BY <2>1, <2>2
<1>2. ASSUME NEW s \in Txn, Book!StartJob(w, s) PROVE Kept(t)'
  <2>1. CASE s = t
    <3>1. worker'[w] = Book!Job(t)
      BY <1>0, <1>2, <2>1 DEF Book!StartJob
    <3> QED
      BY <3>1
  <2>2. CASE s # t
    <3>1. \A v \in Worker : worker[v] = Book!Job(t) => worker'[v] = Book!Job(t)
      BY <1>0, <1>2 DEF Book!StartJob
    <3> QED
      BY <1>0, <1>2, <2>2, <3>1 DEF Book!StartJob
  <2> QED
    BY <2>1, <2>2
<1>3. ASSUME NEW verdict \in Book!Verdict, Book!CommitVerdict(w, verdict) PROVE Kept(t)'
  <2> DEFINE s == worker[w].txn
  <2>1. /\ s \in Txn /\ worker[w] = Book!Job(s)
        /\ cls' = [cls EXCEPT ![s] = Book!VerdictRow(verdict)]
        /\ worker' = [worker EXCEPT ![w] = Book!Idle] /\ UNCHANGED jobs
    BY <1>0, <1>3 DEF Book!CommitVerdict
  <2>2. s # t
    <3>1. Book!VerdictRow(verdict).status # "none"
      BY DEF Book!VerdictRow, Book!AiRow, Book!Verdict
    <3> QED
      BY <1>0, <2>1, <3>1
  <2>3. cls'[t] = cls[t]
    BY <1>0, <2>1, <2>2
  <2>4. \A v \in Worker : worker[v] = Book!Job(t) => worker'[v] = Book!Job(t)
    BY <1>0, <2>1, <2>2
  <2> QED
    BY <2>1, <2>3, <2>4
<1>4. CASE Book!FailJob(w)
  <2>1. worker[w].txn # t
    BY <1>4 DEF Book!FailJob
  <2>2. \A v \in Worker : worker[v] = Book!Job(t) => worker'[v] = Book!Job(t)
    BY <1>0, <1>4, <2>1 DEF Book!FailJob
  <2> QED
    BY <1>4, <2>2 DEF Book!FailJob
<1> QED
  BY <1>1, <1>2, <1>3, <1>4 DEF Book!WorkerStep, Book!JobThrows, Book!JobStalls

LEMMA UsersRemember ==
    ASSUME IndInv, NEW u \in User, Book!UserStep(u), UNCHANGED In!Owed,
           NEW t \in Txn, Waiting(t)', txn[t] # "absent", Waiting(t) => Kept(t)
    PROVE  Kept(t)'
<1> USE DEF Waiting, Kept, Book!Classified, Book!NoRow
<1>0. jobs \in [Txn -> Nat] /\ DOMAIN cls = Txn /\ cls \in [Txn -> Books!Row \union {Books!NoRow}]
  BY DEF IndInv, Books!IndInv, Books!TypeOK
<1>1. CASE \E s \in Txn : Book!EnqueueReclassify(u, s)
  BY <1>0, <1>1 DEF Book!EnqueueReclassify
<1>2. CASE Book!Override(u)
  <2>1. ~Book!Classified(t)
    BY <1>0, <1>2 DEF Book!Override, Book!ManualRow
  <2> QED
    BY <1>2, <2>1 DEF Book!Override
<1>3. CASE Book!Confirm(u) \/ Book!Correct(u) \/ Book!Skip(u)
  <2>1. /\ UNCHANGED <<jobs, worker>> /\ Book!InReview(request[u].txn)
        /\ \E row : cls' = [cls EXCEPT ![request[u].txn] = row]
    BY <1>3 DEF Book!Confirm, Book!Correct, Book!Skip, Book!Settle
  <2>2. ~Book!Classified(t)
    <3>1. CASE request[u].txn = t
      <4>1. cls[t] \in Books!Row
        BY <1>0, <2>1, <3>1 DEF Book!InReview, Books!NoRow
      <4>2. cls'[t].status \in {"classified", "skipped"}
        <5>1. CASE Book!Confirm(u)
          BY <1>0, <3>1, <4>1, <5>1 DEF Book!Confirm, Book!Settle, Book!ConfirmedRow, Books!Row
        <5>2. CASE Book!Correct(u)
          BY <1>0, <3>1, <5>2 DEF Book!Correct, Book!Settle, Book!ManualRow
        <5>3. CASE Book!Skip(u)
          BY <1>0, <3>1, <4>1, <5>3 DEF Book!Skip, Book!Settle, Books!Row
        <5> QED
          BY <1>3, <5>1, <5>2, <5>3
      <4> QED
        BY <4>2
    <3>2. CASE request[u].txn # t
      BY <1>0, <2>1, <3>2
    <3> QED
      BY <3>1, <3>2
  <2> QED
    BY <2>1, <2>2
<1>4. CASE /\ ~ \E s \in Txn : Book!EnqueueReclassify(u, s)
           /\ ~Book!Override(u) /\ ~(Book!Confirm(u) \/ Book!Correct(u) \/ Book!Skip(u))
  <2>1. UNCHANGED <<cls, jobs, worker>>
    BY <1>4 DEF Book!UserStep, Book!OpenReview, Book!OpenOverride, Book!OpenReclassify,
                Book!LoseConflict, Book!OverrideCollides, Book!RequestDies
  <2> QED
    BY <2>1
<1> QED
  BY <1>1, <1>2, <1>3, <1>4

\* As long as nothing failed, a stored transaction without a classification is
\* owed a job, waits in the queue, or is with a worker.
THEOREM NothingLost == Spec => []NothingForgotten
<1>1. Init => NothingForgotten
  BY DEF Init, In!Init, NothingForgotten
<1>2. ASSUME IndInv, NothingForgotten, [Next]_vars PROVE NothingForgotten'
  <2> SUFFICES ASSUME faults' = 0, jobFaults' = 0, NEW t \in Txn, Waiting(t)'
               PROVE  Kept(t)'
    BY DEF NothingForgotten, Waiting, Kept
  <2>0. faults \in Nat /\ jobFaults \in Nat
    BY <1>2, PipelineAssumption
       DEF IndInv, Intake!IndInv, Intake!TypeOK, Books!IndInv, Books!TypeOK,
           In!IngestionAssumption, Book!ClassificationAssumption
  <2>1. /\ faults = 0 /\ jobFaults = 0 /\ faults' # faults + 1 /\ jobFaults' # jobFaults + 1
    BY <1>2, <2>0, FaultsGrow
  <2>2. Waiting(t) => Kept(t)
    BY <1>2, <2>1 DEF NothingForgotten, Waiting, Kept
  <2>3. CASE IntakeStep
    BY <1>2, <2>1, <2>2, <2>3, StepsAreIntake, IntakeRemembers
  <2>4. CASE BookStep
    <3>1. Books!Steps /\ In!Owed' = In!Owed
      BY <2>4, SameWorkerSteps, SameUserSteps
         DEF BookStep, Book!Steps, Books!Steps, intakeVars, In!Owed
    <3>2. txn[t] # "absent"
      <4>1. Arrived' = Arrived
        BY <1>2, <3>1, BooksKeepRows
      <4> QED
        BY <4>1 DEF Arrived, Waiting
    <3> QED
      BY <1>2, <2>1, <2>2, <2>4, <3>1, <3>2, WorkersRemember, UsersRemember
         DEF BookStep, Book!Steps
  <2>5. CASE UNCHANGED vars
    BY <2>2, <2>5 DEF vars, intakeVars, bookVars, Waiting, Kept, In!Owed, Book!Classified
  <2> QED
    BY <1>2, <2>3, <2>4, <2>5 DEF Next
<1> QED
  BY <1>1, <1>2, Inductive, PTL DEF Spec

-----------------------------------------------------------------------------
(* What the halves promise, promised by the whole.                         *)

\* The whole system is also an instance of Classification as its proofs see it.
LEMMA BooksAreKept == Spec => Books!Spec
<1>1. Init => Books!Init
  BY SameInit DEF Init
<1>2. IndInv /\ [Next]_vars => [Books!Next]_(Books!vars)
  <2>1. UNCHANGED Book!vars => UNCHANGED Books!vars
    BY DEF Book!vars, Books!vars
  <2> QED
    BY <2>1, BookRefined, SameSteps
<1> QED
  BY <1>1, <1>2, Inductive, PTL DEF Spec, Books!Spec

\* With the real intake in front of it, people and workers still leave the
\* review queue, the audit trail and the rows in agreement.
THEOREM BooksCorrect ==
    Spec => [](/\ Book!QueueAgrees /\ Book!OneReviewDecision
               /\ Book!AuditExplainsStatus /\ Book!ProvenanceHolds)
<1>1. Books!Spec => [](/\ Books!QueueAgrees /\ Books!OneReviewDecision
                       /\ Books!AuditExplainsStatus /\ Books!ProvenanceHolds)
  BY BooksAssumed, Books!QueueCorrect, Books!ReviewedOnce, Books!AuditCorrect,
     Books!ProvenanceCorrect, PTL
<1>2. /\ Books!QueueAgrees => Book!QueueAgrees
      /\ Books!OneReviewDecision => Book!OneReviewDecision
  BY DEF Books!QueueAgrees, Book!QueueAgrees, Books!OneReviewDecision, Book!OneReviewDecision,
         Books!Decisions, Book!Decisions, Books!DecisionAction, Book!DecisionAction,
         Books!InReview, Book!InReview, Books!Classified, Book!Classified,
         Books!NoRow, Book!NoRow
<1>3. /\ Books!AuditExplainsStatus => Book!AuditExplainsStatus
      /\ Books!ProvenanceHolds => Book!ProvenanceHolds
  BY DEF Books!AuditExplainsStatus, Book!AuditExplainsStatus, Books!Entry, Book!Entry,
         Books!ProvenanceHolds, Book!ProvenanceHolds, Books!Classified, Book!Classified,
         Books!NoRow, Book!NoRow, Books!VerdictRow, Book!VerdictRow, Books!AiRow, Book!AiRow
<1> QED
  BY <1>1, <1>2, <1>3, BooksAreKept, PTL

\* From the webhook to the last reviewer the whole system implements the
\* documented life of a transaction.
THEOREM LifecycleImplemented == Spec => Book!ImplementsLifecycle
<1>1. Books!Spec => Books!ImplementsLifecycle
  BY BooksAssumed, Books!LifecycleImplemented
<1>2. Books!Lifecycle!Init => Book!Lifecycle!Init
  BY DEF Books!Lifecycle!Init, Book!Lifecycle!Init, Books!Decisions, Book!Decisions,
         Books!DecisionAction, Book!DecisionAction
<1>3. [Books!Lifecycle!Next]_(Books!Lifecycle!vars) => [Book!Lifecycle!Next]_(Book!Lifecycle!vars)
  BY DEF Books!Lifecycle!Next, Book!Lifecycle!Next, Books!Lifecycle!vars, Book!Lifecycle!vars,
         Books!Lifecycle!Receive, Book!Lifecycle!Receive, Books!Lifecycle!Judge,
         Book!Lifecycle!Judge, Books!Lifecycle!Decide, Book!Lifecycle!Decide,
         Books!Decisions, Book!Decisions, Books!DecisionAction, Book!DecisionAction
<1>4. Books!ImplementsLifecycle => Book!ImplementsLifecycle
  BY <1>2, <1>3, PTL DEF Books!ImplementsLifecycle, Book!ImplementsLifecycle,
                         Books!Lifecycle!Spec, Book!Lifecycle!Spec
<1> QED
  BY <1>1, <1>4, BooksAreKept, PTL

\* Nothing that arrives late, from a webhook, an upload, a worker or a person,
\* moves a settled transaction or puts the AI's accounts over a person's.
THEOREM DecisionsLast == Spec => Book!SettledStays /\ Book!AccountsChangeByHandOnly
<1>1. Books!Spec => Books!SettledStays /\ Books!AccountsChangeByHandOnly
  BY BooksAssumed, Books!SettledForever, Books!AccountsByHand
<1>2. [\A t \in Txn : txn[t] \in {"classified", "skipped"} => txn'[t] = txn[t]]_(Books!vars)
         => [\A t \in Txn : txn[t] \in {"classified", "skipped"} => txn'[t] = txn[t]]_(Book!vars)
  BY DEF Books!vars, Book!vars
<1>3. [\A t \in Txn : Books!Classified(t) /\ cls'[t].accounts # cls[t].accounts
          => cls'[t].accounts \in User /\ cls'[t].by = cls'[t].accounts]_(Books!vars)
         => [\A t \in Txn : Book!Classified(t) /\ cls'[t].accounts # cls[t].accounts
          => cls'[t].accounts \in User /\ cls'[t].by = cls'[t].accounts]_(Book!vars)
  BY DEF Books!vars, Book!vars, Books!Classified, Book!Classified, Books!NoRow, Book!NoRow
<1>4. Books!SettledStays => Book!SettledStays
  BY <1>2, PTL DEF Books!SettledStays, Book!SettledStays
<1>5. Books!AccountsChangeByHandOnly => Book!AccountsChangeByHandOnly
  BY <1>3, PTL DEF Books!AccountsChangeByHandOnly, Book!AccountsChangeByHandOnly
<1> QED
  BY <1>1, <1>4, <1>5, BooksAreKept, PTL

-----------------------------------------------------------------------------
(* An accepted row is in hand.                                             *)

\* Whoever is told that a row was accepted added its job in the same step.
LEMMA AskedIsQueued ==
    ASSUME IndInv, IntakeStep, NEW t \in Txn, AskedFor(t)', ~AskedFor(t)
    PROVE  jobs'[t] > 0
<1>0. /\ Asked'[t] # Asked[t] /\ Asked' # Asked
      /\ jobs \in [Txn -> Nat] /\ In!FileRow \subseteq Txn
  BY Typed DEF Asked, IndInv, Books!IndInv, Books!TypeOK
<1>1. ASSUME NEW d \in Delivery, In!HookStep(d) PROVE jobs'[t] > 0
  <2>1. Intake!AddJob(d)
    BY <1>0, <1>1, IntakeHooks
       DEF Intake!HookStep, Intake!LookUp, Intake!GrantMissing, Intake!AlreadyStored,
           Intake!ReadQuota, Intake!NoSubscription, Intake!Store, Intake!StoreCollides,
           Intake!NothingElse, Intake!WebhookOnly
  <2>2. In!AddJob(d) /\ hook[d].txn \in Txn
    BY <1>1, <2>1, Typed
       DEF Intake!AddJob, In!HookStep, In!LookUp, In!GrantMissing, In!AlreadyStored,
           In!ReadQuota, In!NoSubscription, In!Store, In!StoreRow, In!StoreCollides
  <2>3. hook[d].txn = t
    BY <1>0, <2>1, <2>2 DEF Intake!AddJob, Asked
  <2> QED
    BY <1>0, <2>2, <2>3 DEF In!AddJob
<1>2. ASSUME NEW b \in Import, In!BatchStep(b) PROVE jobs'[t] > 0
  <2>1. PICK s \in Intake!FileRow : Intake!AddRowJob(b, s)
    BY <1>0, <1>2, IntakeBatches
       DEF Intake!BatchStep, Intake!CheckRow, Intake!CommitBatch, Intake!ImportRows,
           Intake!CommitCollides, Intake!ImportOnly
  <2>2. PICK r \in In!FileRow : In!AddRowJob(b, r)
    BY <1>2, <2>1 DEF Intake!AddRowJob, In!BatchStep, In!CheckRow, In!CommitBatch, In!AllChecked,
                      In!CommitCollides
  <2>3. r = t
    <3>1. s = t
      BY <1>0, <2>1 DEF Intake!AddRowJob, Asked
    <3>2. s \in batch[b].todo /\ r \in batch[b].todo /\ DOMAIN batch = Import
      BY <2>1, <2>2, Typed DEF Intake!AddRowJob, In!AddRowJob
    <3>3. batch'[b].todo = batch[b].todo \ {s} /\ batch'[b].todo = batch[b].todo \ {r}
      <4>1. batch[b] \in Intake!OpenBatch
        BY <2>2, Typed DEF In!AddRowJob
      <4> QED
        BY <2>1, <2>2, <3>2, <4>1
           DEF Intake!AddRowJob, In!AddRowJob, Intake!InBatch, In!InBatch, Intake!OpenBatch
    <3> QED
      BY <3>1, <3>2, <3>3
  <2> QED
    BY <1>0, <2>2, <2>3 DEF In!AddRowJob
<1>3. ASSUME In!Arrival \/ In!Environment PROVE FALSE
  BY <1>0, <1>3, IntakeElsewhere
     DEF Intake!Arrival, Intake!Environment, Intake!AcquireKey, Intake!RefuseDuplicate,
         Intake!Upload, Intake!LinkBank, Intake!SuspendTenant, Intake!ActivateTenant,
         Intake!ExpireKey, Intake!HookFails, Intake!ImportFails, Intake!NothingElse,
         Intake!WebhookOnly, Intake!ImportOnly
<1> QED
  BY <1>1, <1>2, <1>3 DEF IntakeStep, In!Next

Queues(t) == jobs[t] > 0 \/ \E w \in Worker : worker[w] = Book!Job(t)

\* A row whose request was answered with success, or that an upload handed
\* over, is classified, waits in the queue, or is with a worker: whatever
\* fails in the intake, only a failed or stalled job can lose it.
AcceptedIsInHand ==
    jobFaults = 0 => \A t \in Txn : AskedFor(t) => Book!Classified(t) \/ Queues(t)

LEMMA AskedIsStored ==
    ASSUME IndInv, NEW t \in Txn, AskedFor(t)
    PROVE  txn[t] # "absent" /\ t \notin In!Owed
<1>1. Asked[t] = 1
  BY DEF Asked
<1>2. txn[t] # "absent"
  BY <1>1, StoredSame DEF IndInv, Intake!IndInv, Intake!RowsInv, Intake!JobsFit, In!Stored
<1>3. t \notin In!Owed
  BY <1>1, OwedMeans, OwedApart DEF Owes, CallOwes, BatchOwes
<1> QED
  BY <1>2, <1>3

\* What the intake answered for is never dropped between the queue, the
\* workers and the books (banking.service.ts, import.service.ts,
\* classification.processor.ts).
THEOREM AcceptedCorrect == Spec => []AcceptedIsInHand
<1>1. Init => AcceptedIsInHand
  BY DEF Init, In!Init, AcceptedIsInHand, AskedFor, Accepted, Handed, In!Idle
<1>2. ASSUME IndInv, AcceptedIsInHand, [Next]_vars PROVE AcceptedIsInHand'
  <2> SUFFICES ASSUME jobFaults' = 0, NEW t \in Txn, AskedFor(t)', ~Book!Classified(t)'
               PROVE  Queues(t)'
    BY DEF AcceptedIsInHand
  <2>0. jobs \in [Txn -> Nat] /\ jobs' \in [Txn -> Nat] /\ jobFaults \in Nat
    BY <1>2, StepHolds, PipelineAssumption
       DEF IndInv, Books!IndInv, Books!TypeOK, Book!ClassificationAssumption
  <2>1. jobFaults = 0 /\ jobFaults' # jobFaults + 1
    BY <1>2, <2>0, FaultsGrow
  <2>2. AskedFor(t) => Book!Classified(t) \/ Queues(t)
    BY <1>2, <2>1 DEF AcceptedIsInHand
  <2>3. CASE IntakeStep
    <3>1. CASE AskedFor(t)
      <4>1. UNCHANGED <<cls, worker>> /\ Queues(t)
        BY <2>2, <2>3, <3>1 DEF IntakeStep, bookVars, Book!Classified
      <4>2. jobs'[t] >= jobs[t]
        BY <1>2, <2>0, <2>3, StepsAreIntake
           DEF IntakeEffect, Book!vars, Book!Receive, Book!Enqueue, Book!LoseJob
      <4> QED
        BY <2>0, <4>1, <4>2 DEF Queues
    <3> QED
      BY <1>2, <2>3, <3>1, AskedIsQueued DEF Queues
  <2>4. CASE BookStep
    <3>1. In!Owed' = In!Owed /\ AskedFor(t)
      BY <2>4 DEF BookStep, intakeVars, In!Owed, AskedFor, Accepted, Handed
    <3>2. txn[t] # "absent" /\ t \notin In!Owed
      BY <1>2, <3>1, AskedIsStored
    <3>3. Books!Steps
      BY <2>4, SameWorkerSteps, SameUserSteps DEF BookStep, Book!Steps, Books!Steps
    <3>4. Waiting(t)' /\ (Waiting(t) => Kept(t))
      <4>1. Arrived' = Arrived
        BY <1>2, <3>3, BooksKeepRows
      <4> QED
        BY <2>2, <3>1, <3>2, <4>1 DEF Waiting, Kept, Queues, Arrived
    <3>5. Kept(t)'
      BY <1>2, <2>1, <2>4, <3>1, <3>2, <3>4, WorkersRemember, UsersRemember
         DEF BookStep, Book!Steps
    <3> QED
      BY <3>1, <3>2, <3>5 DEF Kept, Queues
  <2>5. CASE UNCHANGED vars
    BY <2>2, <2>5 DEF vars, intakeVars, bookVars, Book!Classified, Queues, AskedFor,
                      Accepted, Handed
  <2> QED
    BY <1>2, <2>3, <2>4, <2>5 DEF Next
<1> QED
  BY <1>1, <1>2, Inductive, PTL DEF Spec

-----------------------------------------------------------------------------
(* From Cas to the books.                                                  *)

\* Until something fails, whatever a linked tenant's webhook calls answered:
\* the transaction is classified, owed a job, in the queue, with a worker, or
\* another call is about to store it.
EveryAnswerIsKept ==
    faults = 0 /\ jobFaults = 0 =>
        \A d \in Delivery : hook[d].pc = "done" =>
            LET t == hook[d].txn IN
            Book!Classified(t) \/ Kept(t) \/ \E c \in Delivery : Intake!WorksOn(c, t)

\* A report of Cas is never answered and dropped: an accepted one is stored, a
\* refused one was stored before or is being stored, and a stored one is on its
\* way to the books (banking.service.ts, classification.processor.ts).
THEOREM AnswersKept == linked /\ Spec => []EveryAnswerIsKept
<1>1. linked /\ Spec => [](Intake!FailuresStored /\ Intake!DuplicatesExplained)
  BY IntakeAssumed, IntakeImplemented, Intake!FailuresHold, Intake!DuplicateCorrect, PTL
<1>2. ASSUME IndInv, NothingForgotten, Intake!FailuresStored, Intake!DuplicatesExplained
      PROVE  EveryAnswerIsKept
  <2> SUFFICES ASSUME faults = 0, jobFaults = 0, NEW d \in Delivery, hook[d].pc = "done",
                      ~ \E c \in Delivery : Intake!WorksOn(c, hook[d].txn)
               PROVE  Book!Classified(hook[d].txn) \/ Kept(hook[d].txn)
    BY DEF EveryAnswerIsKept
  <2> DEFINE t == hook[d].txn
  <2>1. hook[d].reply \in {"duplicate", "accepted", "failed"} /\ t \in Txn
    <3>1. hook[d] \in Intake!Hook /\ hook[d] # Intake!Idle
      BY <1>2 DEF IndInv, Intake!IndInv, Intake!TypeOK, Intake!Idle
    <3> QED
      BY <1>2, <3>1, Typed DEF Intake!Hook
  <2>2. hook[d].reply = "accepted" => Intake!Stored(t)
    BY <1>2 DEF IndInv, Intake!IndInv, Intake!RowsInv, Intake!HookFits
  <2>3. ASSUME \E c \in Delivery : Intake!GaveUp(c, t)
        PROVE  Intake!Stored(t)
    BY <1>2, <2>3 DEF Intake!GaveUp, Intake!FailuresStored
  <2>4. hook[d].reply = "duplicate" => Intake!Stored(t)
    BY <1>2, <2>3 DEF Intake!DuplicatesExplained, Intake!Explained
  <2>5. hook[d].reply = "failed" => Intake!Stored(t)
    BY <2>3 DEF Intake!GaveUp
  <2>6. txn[t] # "absent"
    <3>1. Intake!Stored(t)
      BY <2>1, <2>2, <2>4, <2>5
    <3> QED
      BY <2>1, <3>1, StoredSame DEF In!Stored
  <2> QED
    BY <1>2, <2>1, <2>6 DEF NothingForgotten, Kept
<1> QED
  BY <1>1, <1>2, Inductive, NothingLost, PTL
=============================================================================
