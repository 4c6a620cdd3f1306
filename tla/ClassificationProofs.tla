------------------------ MODULE ClassificationProofs ------------------------
(***************************************************************************)
(* Proofs about Classification.tla for any number of transactions, people  *)
(* and workers.  The argument rests on one inductive invariant, IndInv:    *)
(* its heart, History, lists every combination of status, audit trail and  *)
(* classification a transaction can be in.                                 *)
(***************************************************************************)
EXTENDS Classification, TLAPS

USE DEF vars

-----------------------------------------------------------------------------
(* What a busy worker or request holds.                                    *)

\* A busy worker slot works on a transaction.
LEMMA WorkerHolds ==
    ASSUME TypeOK, NEW w \in Worker, worker[w] # Idle
    PROVE  worker[w].txn \in Txn /\ worker[w] = Job(worker[w].txn)
  BY DEF TypeOK, Job

\* A request for one transaction names it; a bulk request names a set.
LEMMA RequestHolds ==
    ASSUME TypeOK, NEW u \in User
    PROVE  /\ request[u].pc \in {"confirm", "correct", "skip", "overwrite", "insert"} =>
                  /\ request[u].txn \in Txn
                  /\ request[u] = Request(request[u].pc, request[u].txn)
           /\ request[u].pc = "enqueue" =>
                  /\ request[u].ids \in SUBSET Txn
                  /\ request[u] = Reclassify(request[u].ids)
  BY DEF TypeOK, Request, Reclassify, Idle, ReviewOp

-----------------------------------------------------------------------------
(* Type correctness.                                                       *)

\* Every step of the worker keeps every variable in its type.
LEMMA WorkerKeepsTypes ==
    ASSUME TypeOK, NEW w \in Worker, WorkerStep(w)
    PROVE  TypeOK'
<1>1. ASSUME NEW t \in Txn, DiscardJob(w, t) PROVE TypeOK'
  BY <1>1 DEF DiscardJob, TypeOK
<1>2. ASSUME NEW t \in Txn, StartJob(w, t) PROVE TypeOK'
  BY <1>2 DEF StartJob, TypeOK
<1>3. ASSUME NEW verdict \in Verdict, CommitVerdict(w, verdict) PROVE TypeOK'
  <2> DEFINE t == worker[w].txn
  <2>1. t \in Txn
    BY <1>3, WorkerHolds DEF CommitVerdict
  <2>2. VerdictRow(verdict) \in Row
    BY DEF VerdictRow, AiRow, Row, Verdict, Actor
  <2>3. Entry(VerdictAction(verdict), "ai") \in [action : AuditAction, actor : Actor]
    BY DEF Entry, VerdictAction, AuditAction, Actor
  <2>4. cls' \in [Txn -> Row \union {NoRow}] /\ txn' \in [Txn -> TransactionStatus \union {"absent"}]
    BY <1>3, <2>1, <2>2 DEF TypeOK, CommitVerdict, Verdict, TransactionStatus
  <2>5. audit' \in [Txn -> SUBSET [action : AuditAction, actor : Actor]]
    BY <1>3, <2>1, <2>3 DEF TypeOK, CommitVerdict, Record
  <2> QED
    BY <1>3, <2>4, <2>5 DEF TypeOK, CommitVerdict
<1>4. CASE FailJob(w)
  BY <1>4 DEF FailJob, TypeOK
<1>5. CASE JobThrows(w)
  BY <1>5, ClassificationAssumption DEF JobThrows, TypeOK
<1>6. CASE JobStalls(w)
  <2>1. worker[w].txn \in Txn
    BY <1>6, WorkerHolds DEF JobStalls
  <2>2. jobs' \in [Txn -> Nat] /\ faults' \in 0..MaxFaults
    BY <1>6, <2>1, ClassificationAssumption DEF JobStalls, TypeOK
  <2>3. worker' \in [Worker -> {Idle} \union {Job(t) : t \in Txn}]
    BY <1>6 DEF JobStalls, TypeOK
  <2> QED
    BY <1>6, <2>2, <2>3 DEF JobStalls, TypeOK
<1> QED
  BY <1>1, <1>2, <1>3, <1>4, <1>5, <1>6 DEF WorkerStep

\* Settling a review item with a well-formed row keeps the types.
LEMMA SettleKeepsTypes ==
    ASSUME TypeOK, NEW u \in User, NEW t \in Txn, NEW row \in Row,
           NEW action \in AuditAction, Settle(u, t, row, action)
    PROVE  TypeOK'
<1>1. row.status \in TransactionStatus
  BY DEF Row, TransactionStatus
<1>2. Entry(action, u) \in [action : AuditAction, actor : Actor]
  BY DEF Entry, Actor
<1>3. audit' \in [Txn -> SUBSET [action : AuditAction, actor : Actor]]
  BY <1>2 DEF TypeOK, Settle, Record
<1>4. cls' \in [Txn -> Row \union {NoRow}]
  BY DEF TypeOK, Settle
<1>5. txn' \in [Txn -> TransactionStatus \union {"absent"}]
  BY <1>1 DEF TypeOK, Settle
<1> QED
  BY <1>3, <1>4, <1>5 DEF TypeOK, Settle

\* Every step of a person's request keeps every variable in its type.
LEMMA UserKeepsTypes ==
    ASSUME TypeOK, NEW u \in User, UserStep(u)
    PROVE  TypeOK'
<1>1. \A t \in Txn : Classified(t) => cls[t] \in Row
  BY DEF TypeOK, Classified
<1>2. \A t \in Txn : InReview(t) => Classified(t)
  BY DEF InReview, Classified, NoRow
<1>3. ManualRow(u) \in Row
  BY DEF ManualRow, Row, Actor
<1>4. ASSUME NEW t \in Txn, NEW op \in ReviewOp, OpenReview(u, op, t) PROVE TypeOK'
  BY <1>4 DEF OpenReview, TypeOK
<1>5. ASSUME NEW t \in Txn, OpenOverride(u, t) PROVE TypeOK'
  <2>1. PICK op \in {"overwrite", "insert"} :
            request' = [request EXCEPT ![u] = Request(op, t)]
    BY <1>5 DEF OpenOverride
  <2> QED
    BY <1>5, <2>1 DEF OpenOverride, TypeOK
<1>6. ASSUME NEW t \in Txn, EnqueueReclassify(u, t) PROVE TypeOK'
  BY <1>6, RequestHolds DEF EnqueueReclassify, TypeOK
<1>7. ASSUME NEW ids \in SUBSET Txn, OpenReclassify(u, ids) PROVE TypeOK'
  <2>1. PICK eligible \in SUBSET Txn :
            request' = [request EXCEPT ![u] = Reclassify(eligible)]
    BY <1>7 DEF OpenReclassify
  <2>2. Reclassify(eligible) \in {Reclassify(s) : s \in SUBSET Txn}
    OBVIOUS
  <2>3. request' \in [User -> {Idle}
            \union {Request(op, t) : op \in ReviewOp \union {"overwrite", "insert"}, t \in Txn}
            \union {Reclassify(s) : s \in SUBSET Txn}]
    BY <2>1, <2>2 DEF TypeOK
  <2> QED
    BY <1>7, <2>3 DEF OpenReclassify, TypeOK
<1>8. CASE Confirm(u)
  <2>1. request[u].txn \in Txn /\ InReview(request[u].txn)
    BY <1>8, RequestHolds DEF Confirm
  <2>2. ConfirmedRow(u, request[u].txn) \in Row
    BY <2>1, <1>1, <1>2 DEF ConfirmedRow, Row, Actor
  <2> QED
    BY <1>8, <2>1, <2>2, SettleKeepsTypes DEF Confirm, AuditAction
<1>9. CASE Correct(u)
  BY <1>3, <1>9, RequestHolds, SettleKeepsTypes DEF Correct, AuditAction
<1>10. CASE Skip(u)
  <2>1. request[u].txn \in Txn /\ InReview(request[u].txn)
    BY <1>10, RequestHolds DEF Skip
  <2>2. [cls[request[u].txn] EXCEPT !.status = "skipped"] \in Row
    BY <2>1, <1>1, <1>2 DEF Row
  <2> QED
    BY <1>10, <2>1, <2>2, SettleKeepsTypes DEF Skip, AuditAction
<1>11. CASE Override(u)
  <2>1. request[u].txn \in Txn
    BY <1>11, RequestHolds DEF Override
  <2>2. cls' \in [Txn -> Row \union {NoRow}]
    BY <1>3, <1>11, <2>1 DEF Override, TypeOK
  <2> QED
    BY <1>11, <2>2 DEF Override, TypeOK
<1>12. CASE LoseConflict(u) \/ OverrideCollides(u) \/ RequestDies(u)
  BY <1>12 DEF LoseConflict, OverrideCollides, RequestDies, TypeOK
<1> QED
  BY <1>4, <1>5, <1>6, <1>7, <1>8, <1>9, <1>10, <1>11, <1>12 DEF UserStep

\* No step takes a variable out of its type.
LEMMA TypeStep == TypeOK /\ [Next]_vars => TypeOK'
<1> SUFFICES ASSUME TypeOK, [Next]_vars PROVE TypeOK'
  OBVIOUS
<1>1. CASE Intake
  <2>1. ASSUME NEW S \in SUBSET Txn, Receive(S) PROVE TypeOK'
    BY <2>1 DEF Receive, TypeOK, TransactionStatus
  <2>2. ASSUME NEW S \in SUBSET Txn, LoseJob(S) PROVE TypeOK'
    BY <2>2 DEF LoseJob, TypeOK
  <2>3. ASSUME NEW t \in Txn, Enqueue(t) PROVE TypeOK'
    BY <2>3 DEF Enqueue, TypeOK
  <2> QED
    BY <1>1, <2>1, <2>2, <2>3 DEF Intake
<1>2. CASE UNCHANGED vars
  BY <1>2 DEF TypeOK
<1> QED
  BY <1>1, <1>2, WorkerKeepsTypes, UserKeepsTypes DEF Next, Steps

\* An empty database is well typed.
LEMMA TypeInit == Init => TypeOK
  BY ClassificationAssumption DEF Init, TypeOK

\* Every variable keeps its type.
THEOREM TypeCorrect == Spec => []TypeOK
<1>1. TypeOK /\ [Next]_vars => TypeOK'
  BY TypeStep
<1> QED
  BY <1>1, TypeInit, PTL DEF Spec

-----------------------------------------------------------------------------
(* The inductive invariant.                                                *)

\* What History says about a classification, without its cases.
LEMMA HistoryFacts ==
    ASSUME TypeOK, NEW t \in Txn, History(t)
    PROVE  /\ InReview(t) => /\ txn[t] = "review" /\ audit[t] = {Queued}
                             /\ cls[t] = VerdictRow("review")
           /\ ~Classified(t) <=> cls[t] = NoRow
           /\ Classified(t) => txn[t] # "absent"
           /\ ~Classified(t) => txn[t] \in {"absent", "pending"} /\ audit[t] = {}
<1>1. NoRow.status = "none"
  BY DEF NoRow
<1>2. VerdictRow("review").status = "review" /\ VerdictRow("classified").status = "classified"
  BY DEF VerdictRow, AiRow
<1>3. Overridden(t) => cls[t].status = "classified"
  BY DEF Overridden, ManualRow
<1>4. /\ AiRow("skipped", "manual", "ai").status = "skipped"
      /\ \A u \in User : AiRow("classified", "manual", u).status = "classified"
  BY DEF AiRow
<1>5. \/ txn[t] = "absent" /\ audit[t] = {} /\ cls[t] = NoRow
      \/ txn[t] = "pending" /\ audit[t] = {} /\ cls[t] = NoRow
      \/ txn[t] = "review" /\ audit[t] = {Queued} /\ cls[t] = VerdictRow("review")
      \/ txn[t] # "absent" /\ cls[t].status \in {"classified", "skipped"}
  BY <1>2, <1>3, <1>4 DEF History
<1> QED
  BY <1>1, <1>2, <1>5 DEF InReview, Classified

\* A transaction whose row, trail and classification a step leaves alone
\* keeps its history.
LEMMA Untouched ==
    ASSUME NEW t \in Txn, History(t),
           txn'[t] = txn[t], cls'[t] = cls[t], audit'[t] = audit[t]
    PROVE  History(t)'
  BY DEF History, Overridden

\* A step that leaves the three tables alone keeps every history.
LEMMA TablesUntouched ==
    ASSUME \A t \in Txn : History(t), UNCHANGED <<txn, cls, audit>>
    PROVE  \A t \in Txn : History(t)'
  BY Untouched

\* The AI's verdict starts a history.
LEMMA VerdictHistory ==
    ASSUME IndInv, NEW w \in Worker, NEW verdict \in Verdict, CommitVerdict(w, verdict)
    PROVE  \A t \in Txn : History(t)'
<1> PICK s \in Txn : s = worker[w].txn
  BY WorkerHolds DEF CommitVerdict, IndInv
<1>1. ~Classified(s) /\ txn[s] # "absent"
  BY DEF CommitVerdict, IndInv, ReferencesHold
<1>2. audit[s] = {}
  BY <1>1, HistoryFacts DEF IndInv
<1>3. /\ txn'[s] = verdict /\ cls'[s] = VerdictRow(verdict)
      /\ audit'[s] = {Entry(VerdictAction(verdict), "ai")}
  BY <1>1, <1>2 DEF CommitVerdict, Record, IndInv, TypeOK
<1>4. History(s)'
  BY <1>3 DEF History, Verdict, VerdictAction, Queued
<1>5. ASSUME NEW t \in Txn, t # s PROVE History(t)'
  <2>1. txn'[t] = txn[t] /\ cls'[t] = cls[t] /\ audit'[t] = audit[t]
    BY <1>1, <1>5 DEF CommitVerdict, Record, IndInv, TypeOK
  <2> QED
    BY <2>1, Untouched DEF IndInv
<1> QED
  BY <1>4, <1>5

\* What a decision writes, and that it writes it to one transaction only.
LEMMA SettleWrites ==
    ASSUME IndInv, NEW u \in User, NEW s \in Txn, InReview(s), NEW row, NEW action,
           Settle(u, s, row, action)
    PROVE  /\ txn'[s] = row.status /\ cls'[s] = row
           /\ audit'[s] = {Queued, Entry(action, u)}
           /\ \A t \in Txn : t # s => History(t)'
<1>1. audit[s] = {Queued}
  BY HistoryFacts DEF IndInv
<1>2. txn'[s] = row.status /\ cls'[s] = row
  BY DEF Settle, IndInv, TypeOK
<1>3. audit'[s] = {Queued, Entry(action, u)}
  BY <1>1 DEF Settle, Record, IndInv, TypeOK
<1>4. ASSUME NEW t \in Txn, t # s PROVE History(t)'
  <2>1. txn'[t] = txn[t] /\ cls'[t] = cls[t] /\ audit'[t] = audit[t]
    BY <1>4 DEF Settle, Record, IndInv, TypeOK
  <2> QED
    BY <2>1, Untouched DEF IndInv
<1> QED
  BY <1>2, <1>3, <1>4

\* A decision extends the history of a queued transaction.
LEMMA DecisionHistory ==
    ASSUME IndInv, NEW u \in User, Confirm(u) \/ Correct(u) \/ Skip(u)
    PROVE  \A t \in Txn : History(t)'
<1> PICK s \in Txn : s = request[u].txn
  BY RequestHolds DEF IndInv, Confirm, Correct, Skip
<1>1. InReview(s)
  BY DEF Confirm, Correct, Skip
<1>2. cls[s] = [status |-> "review", type |-> "manual", by |-> "ai", accounts |-> "ai"]
  BY <1>1, HistoryFacts DEF IndInv, VerdictRow, AiRow
<1>3. CASE Confirm(u)
  <2> DEFINE row == AiRow("classified", "manual", u)
  <2>1. ConfirmedRow(u, s) = row
    <3>1. ConfirmedRow(u, s) = [[cls[s] EXCEPT !.status = "classified"] EXCEPT !.type = "manual", !.by = u]
      BY DEF ConfirmedRow
    <3>2. [cls[s] EXCEPT !.status = "classified"]
            = [status |-> "classified", type |-> "manual", by |-> "ai", accounts |-> "ai"]
      BY <1>2
    <3> QED
      BY <3>1, <3>2 DEF AiRow
  <2>2. row.status = "classified"
    BY <2>1 DEF AiRow
  <2>3. Settle(u, s, row, "review_confirmed")
    BY <1>3, <2>1 DEF Confirm
  <2>4. /\ txn'[s] = row.status /\ cls'[s] = row
        /\ audit'[s] = {Queued, Entry("review_confirmed", u)}
        /\ \A t \in Txn : t # s => History(t)'
    BY <1>1, <2>3, SettleWrites
  <2>5. History(s)'
    BY <2>1, <2>2, <2>4 DEF History
  <2> QED
    BY <2>4, <2>5
<1>4. CASE Correct(u)
  <2>1. Settle(u, s, ManualRow(u), "review_corrected")
    BY <1>4 DEF Correct
  <2>2. /\ txn'[s] = "classified" /\ cls'[s] = ManualRow(u)
        /\ audit'[s] = {Queued, Entry("review_corrected", u)}
        /\ \A t \in Txn : t # s => History(t)'
    BY <1>1, <2>1, SettleWrites DEF ManualRow
  <2>3. History(s)'
    BY <2>2 DEF History, Overridden
  <2> QED
    BY <2>2, <2>3
<1>5. CASE Skip(u)
  <2> DEFINE row == AiRow("skipped", "manual", "ai")
  <2>1. [cls[s] EXCEPT !.status = "skipped"] = row /\ row.status = "skipped"
    BY <1>2 DEF AiRow
  <2>2. Settle(u, s, row, "review_skipped")
    BY <1>5, <2>1 DEF Skip
  <2>3. /\ txn'[s] = row.status /\ cls'[s] = row
        /\ audit'[s] = {Queued, Entry("review_skipped", u)}
        /\ \A t \in Txn : t # s => History(t)'
    BY <1>1, <2>2, SettleWrites
  <2>4. History(s)'
    BY <2>1, <2>3 DEF History
  <2> QED
    BY <2>3, <2>4
<1> QED
  BY <1>3, <1>4, <1>5

\* An override replaces the classification and nothing else, whatever the
\* history was.
LEMMA OverrideHistory ==
    ASSUME IndInv, NEW u \in User, Override(u)
    PROVE  \A t \in Txn : History(t)'
<1> PICK s \in Txn : s = request[u].txn
  BY RequestHolds DEF IndInv, Override
<1>1. txn[s] # "absent"
  <2>1. CASE request[u].pc = "insert"
    BY <2>1 DEF IndInv, ReferencesHold
  <2>2. CASE request[u].pc = "overwrite"
    BY <2>2, HistoryFacts DEF IndInv, ReferencesHold
  <2> QED
    BY <2>1, <2>2 DEF Override
<1>2. txn'[s] = txn[s] /\ audit'[s] = audit[s] /\ cls'[s] = ManualRow(u)
  BY <1>1 DEF Override, IndInv, TypeOK
<1>3. Overridden(s)'
  BY <1>2 DEF Overridden
<1>4. History(s)'
  BY <1>1, <1>2, <1>3 DEF History, IndInv
<1>5. ASSUME NEW t \in Txn, t # s PROVE History(t)'
  <2>1. txn'[t] = txn[t] /\ cls'[t] = cls[t] /\ audit'[t] = audit[t]
    BY <1>1, <1>5 DEF Override, IndInv, TypeOK
  <2> QED
    BY <2>1, Untouched DEF IndInv
<1> QED
  BY <1>4, <1>5

\* Histories survive every step.
LEMMA HistoryStep ==
    ASSUME IndInv, [Next]_vars
    PROVE  \A t \in Txn : History(t)'
<1>1. ASSUME NEW S \in SUBSET Txn, Receive(S) PROVE \A t \in Txn : History(t)'
  <2>1. ASSUME NEW t \in Txn, t \in S PROVE History(t)'
    <3>1. cls[t] = NoRow /\ audit[t] = {}
      BY <1>1, <2>1, HistoryFacts DEF IndInv, Receive
    <3> QED
      BY <1>1, <2>1, <3>1 DEF Receive, History
  <2>2. ASSUME NEW t \in Txn, t \notin S PROVE History(t)'
    BY <1>1, <2>2, Untouched DEF Receive, IndInv
  <2> QED
    BY <2>1, <2>2
<1>2. ASSUME NEW w \in Worker, NEW verdict \in Verdict, CommitVerdict(w, verdict)
      PROVE \A t \in Txn : History(t)'
  BY <1>2, VerdictHistory
<1>3. ASSUME NEW u \in User, Confirm(u) \/ Correct(u) \/ Skip(u)
      PROVE \A t \in Txn : History(t)'
  BY <1>3, DecisionHistory
<1>4. ASSUME NEW u \in User, Override(u) PROVE \A t \in Txn : History(t)'
  BY <1>4, OverrideHistory
<1>5. CASE UNCHANGED <<txn, cls, audit>>
  BY <1>5, TablesUntouched DEF IndInv
<1>6. CASE Intake
  BY <1>1, <1>5, <1>6 DEF Intake, Enqueue, LoseJob
<1>7. ASSUME NEW w \in Worker, WorkerStep(w) PROVE \A t \in Txn : History(t)'
  BY <1>2, <1>5, <1>7 DEF WorkerStep, DiscardJob, StartJob, FailJob, JobThrows, JobStalls
<1>8. ASSUME NEW u \in User, UserStep(u) PROVE \A t \in Txn : History(t)'
  BY <1>3, <1>4, <1>5, <1>8
     DEF UserStep, OpenReview, OpenOverride, EnqueueReclassify, OpenReclassify,
         LoseConflict, OverrideCollides, RequestDies
<1>9. CASE UNCHANGED vars
  BY <1>5, <1>9
<1> QED
  BY <1>6, <1>7, <1>8, <1>9 DEF Next, Steps

\* Neither a transaction nor a classification is ever deleted.
LEMMA RowsStay ==
    ASSUME IndInv, [Next]_vars, NEW t \in Txn
    PROVE  /\ txn[t] # "absent" => txn'[t] # "absent"
           /\ Classified(t) => Classified(t)'
<1>1. ASSUME NEW S \in SUBSET Txn, Receive(S)
      PROVE txn'[t] # "absent" \/ txn'[t] = txn[t]
  BY <1>1 DEF Receive
<1>2. ASSUME NEW w \in Worker, NEW verdict \in Verdict, CommitVerdict(w, verdict)
      PROVE /\ txn'[t] # "absent" \/ txn'[t] = txn[t]
            /\ cls'[t] # NoRow \/ cls'[t] = cls[t]
  BY <1>2, WorkerHolds DEF CommitVerdict, IndInv, TypeOK, Verdict, VerdictRow, AiRow, NoRow
<1>3. ASSUME NEW u \in User, NEW s \in Txn, NEW row, NEW action, Settle(u, s, row, action),
             row.status \in {"classified", "skipped"}
      PROVE /\ txn'[t] # "absent" \/ txn'[t] = txn[t]
            /\ cls'[t] # NoRow \/ cls'[t] = cls[t]
  BY <1>3 DEF Settle, IndInv, TypeOK, NoRow
<1>4. ASSUME NEW u \in User, Confirm(u) \/ Correct(u) \/ Skip(u)
      PROVE /\ txn'[t] # "absent" \/ txn'[t] = txn[t]
            /\ cls'[t] # NoRow \/ cls'[t] = cls[t]
  <2> PICK s \in Txn : s = request[u].txn
    BY <1>4, RequestHolds DEF IndInv, Confirm, Correct, Skip
  <2>1. InReview(s)
    BY <1>4 DEF Confirm, Correct, Skip
  <2>2. cls[s] = [status |-> "review", type |-> "manual", by |-> "ai", accounts |-> "ai"]
    BY <2>1, HistoryFacts DEF IndInv, VerdictRow, AiRow
  <2>3. ConfirmedRow(u, s).status = "classified"
    BY <2>2 DEF ConfirmedRow
  <2>4. [cls[s] EXCEPT !.status = "skipped"].status = "skipped"
    BY <2>2
  <2>5. ManualRow(u).status = "classified"
    BY DEF ManualRow
  <2>6. CASE Confirm(u)
    BY <2>3, <2>6, <1>3 DEF Confirm
  <2>7. CASE Correct(u)
    BY <2>5, <2>7, <1>3 DEF Correct
  <2>8. CASE Skip(u)
    BY <2>4, <2>8, <1>3 DEF Skip
  <2> QED
    BY <1>4, <2>6, <2>7, <2>8
<1>5. ASSUME NEW u \in User, Override(u) PROVE cls'[t] # NoRow \/ cls'[t] = cls[t]
  BY <1>5 DEF Override, IndInv, TypeOK, ManualRow, NoRow
<1>6. CASE Intake
  BY <1>1, <1>6 DEF Intake, Receive, Enqueue, LoseJob, Classified
<1>7. ASSUME NEW w \in Worker, WorkerStep(w)
      PROVE /\ txn'[t] # "absent" \/ txn'[t] = txn[t]
            /\ cls'[t] # NoRow \/ cls'[t] = cls[t]
  BY <1>2, <1>7 DEF WorkerStep, DiscardJob, StartJob, FailJob, JobThrows, JobStalls
<1>8. ASSUME NEW u \in User, UserStep(u)
      PROVE /\ txn'[t] # "absent" \/ txn'[t] = txn[t]
            /\ cls'[t] # NoRow \/ cls'[t] = cls[t]
  BY <1>4, <1>5, <1>8
     DEF UserStep, OpenReview, OpenOverride, EnqueueReclassify, OpenReclassify,
         LoseConflict, Override, OverrideCollides, RequestDies
<1> QED
  BY <1>6, <1>7, <1>8 DEF Next, Steps, Classified

\* What is in the queue, with a worker or in a request stays there or was
\* put there for a transaction that exists.
LEMMA ReferencesStep ==
    ASSUME IndInv, [Next]_vars
    PROVE  ReferencesHold'
<1>1. \A t \in Txn : /\ txn[t] # "absent" => txn'[t] # "absent"
                     /\ Classified(t) => Classified(t)'
  BY RowsStay
<1>2. \A t \in Txn : txn[t] # "absent" => txn'[t] # "absent"
  BY <1>1
<1>3. \A t \in Txn : t \in owed' \/ jobs'[t] > 0 => txn'[t] # "absent"
  <2>1. CASE UNCHANGED <<owed, jobs>>
    BY <1>2, <2>1 DEF IndInv, ReferencesHold
  <2>2. ASSUME NEW S \in SUBSET Txn, Receive(S) \/ LoseJob(S)
        PROVE \A t \in Txn : t \in owed' \/ jobs'[t] > 0 => txn'[t] # "absent"
    BY <1>2, <2>2 DEF Receive, LoseJob, IndInv, ReferencesHold
  <2>3. ASSUME NEW s \in Txn, Enqueue(s)
        PROVE \A t \in Txn : t \in owed' \/ jobs'[t] > 0 => txn'[t] # "absent"
    BY <1>2, <2>3 DEF Enqueue, IndInv, ReferencesHold, TypeOK
  <2>4. ASSUME NEW w \in Worker, NEW s \in Txn, DiscardJob(w, s) \/ StartJob(w, s)
        PROVE \A t \in Txn : t \in owed' \/ jobs'[t] > 0 => txn'[t] # "absent"
    BY <1>2, <2>4 DEF DiscardJob, StartJob, IndInv, ReferencesHold, TypeOK
  <2>5. ASSUME NEW w \in Worker, JobStalls(w)
        PROVE \A t \in Txn : t \in owed' \/ jobs'[t] > 0 => txn'[t] # "absent"
    BY <1>2, <2>5, WorkerHolds DEF JobStalls, IndInv, ReferencesHold, TypeOK
  <2>6. ASSUME NEW u \in User, NEW s \in Txn, EnqueueReclassify(u, s)
        PROVE \A t \in Txn : t \in owed' \/ jobs'[t] > 0 => txn'[t] # "absent"
    BY <1>2, <2>6 DEF EnqueueReclassify, IndInv, ReferencesHold, TypeOK
  <2>7. CASE Intake
    BY <2>2, <2>3, <2>7 DEF Intake
  <2>8. ASSUME NEW w \in Worker, WorkerStep(w)
        PROVE \A t \in Txn : t \in owed' \/ jobs'[t] > 0 => txn'[t] # "absent"
    BY <2>1, <2>4, <2>5, <2>8 DEF WorkerStep, CommitVerdict, FailJob, JobThrows
  <2>9. ASSUME NEW u \in User, UserStep(u)
        PROVE \A t \in Txn : t \in owed' \/ jobs'[t] > 0 => txn'[t] # "absent"
    BY <2>1, <2>6, <2>9
       DEF UserStep, OpenReview, OpenOverride, OpenReclassify, Confirm, Correct, Skip, Settle,
           LoseConflict, Override, OverrideCollides, RequestDies
  <2> QED
    BY <2>1, <2>7, <2>8, <2>9 DEF Next, Steps
<1>4. \A w \in Worker : worker'[w] # Idle => txn'[worker'[w].txn] # "absent"
  <2> SUFFICES ASSUME NEW w \in Worker, worker'[w] # Idle
               PROVE  txn'[worker'[w].txn] # "absent"
    OBVIOUS
  <2>1. CASE worker'[w] = worker[w]
    BY <1>2, <2>1, WorkerHolds DEF IndInv, ReferencesHold
  <2>2. ASSUME NEW v \in Worker, NEW s \in Txn, StartJob(v, s), worker'[w] # worker[w]
        PROVE txn'[worker'[w].txn] # "absent"
    BY <2>2 DEF StartJob, IndInv, TypeOK, Job
  <2>3. \/ worker'[w] \in {worker[w], Idle}
        \/ \E v \in Worker, s \in Txn : StartJob(v, s)
    <3>1. CASE Intake
      BY <3>1 DEF Intake, Receive, Enqueue, LoseJob
    <3>2. ASSUME NEW v \in Worker, WorkerStep(v), ~\E s \in Txn : StartJob(v, s)
          PROVE worker'[w] \in {worker[w], Idle}
      BY <3>2 DEF WorkerStep, DiscardJob, CommitVerdict, FailJob, JobThrows, JobStalls,
                  IndInv, TypeOK
    <3>3. ASSUME NEW u \in User, UserStep(u) PROVE worker' = worker
      BY <3>3 DEF UserStep, OpenReview, OpenOverride, EnqueueReclassify, OpenReclassify,
           Confirm, Correct, Skip, Settle, LoseConflict, Override, OverrideCollides, RequestDies
    <3> QED
      BY <3>1, <3>2, <3>3 DEF Next, Steps
  <2> QED
    BY <2>1, <2>2, <2>3
<1> DEFINE Insert(r)    == r.pc = "insert" => txn'[r.txn] # "absent"
           Write(r)     == r.pc \in ReviewOp \union {"overwrite"} => cls'[r.txn] # NoRow
           ToEnqueue(r) == r.pc = "enqueue" => \A t \in r.ids : txn'[t] # "absent"
           Fine(r)      == Insert(r) /\ Write(r) /\ ToEnqueue(r)
<1>5. \A t \in Txn : cls[t] # NoRow => cls'[t] # NoRow
  BY <1>1 DEF Classified
<1>6. ASSUME NEW u \in User PROVE Fine(request'[u])
  <2>1. Fine(request[u])
    <3>1. Insert(request[u])
      BY <1>2, RequestHolds DEF IndInv, ReferencesHold
    <3>2. Write(request[u])
      BY <1>5, RequestHolds DEF IndInv, ReferencesHold, Classified, ReviewOp
    <3>3. ToEnqueue(request[u])
      BY <1>2, RequestHolds DEF IndInv, ReferencesHold
    <3> QED
      BY <3>1, <3>2, <3>3
  <2>2. Fine(Idle)
    BY DEF Idle, ReviewOp
  <2>3. ASSUME NEW s \in Txn, NEW op \in ReviewOp, OpenReview(u, op, s)
        PROVE Fine(request'[u])
    <3>1. /\ request'[u] = Request(op, s)
          /\ cls'[s] # NoRow
      BY <2>3, <1>5 DEF OpenReview, Classified, IndInv, TypeOK
    <3> QED
      BY <3>1 DEF Request, ReviewOp
  <2>4. ASSUME NEW s \in Txn, OpenOverride(u, s)
        PROVE Fine(request'[u])
    <3>1. /\ request'[u] = Request(IF Classified(s) THEN "overwrite" ELSE "insert", s)
          /\ txn'[s] # "absent"
      BY <2>4, <1>2 DEF OpenOverride, IndInv, TypeOK
    <3>2. Classified(s) => cls'[s] # NoRow
      BY <1>5 DEF Classified
    <3> QED
      BY <3>1, <3>2 DEF Request, ReviewOp
  <2>5. ASSUME NEW ids \in SUBSET Txn, OpenReclassify(u, ids)
        PROVE Fine(request'[u])
    <3>1. /\ request'[u] = Reclassify({t \in ids : txn[t] = "pending"})
          /\ txn' = txn
      BY <2>5 DEF OpenReclassify, IndInv, TypeOK
    <3> QED
      BY <3>1 DEF Reclassify, ReviewOp
  <2>6. ASSUME NEW s \in Txn, EnqueueReclassify(u, s)
        PROVE Fine(request'[u])
    <3>1. CASE request[u].ids = {s}
      BY <3>1, <2>2, <2>6 DEF EnqueueReclassify, IndInv, TypeOK
    <3>2. CASE request[u].ids # {s}
      <4>1. /\ request'[u] = Reclassify(request[u].ids \ {s})
            /\ request[u].pc = "enqueue"
        BY <3>2, <2>6 DEF EnqueueReclassify, IndInv, TypeOK
      <4> QED
        BY <4>1, <2>1 DEF Reclassify, ReviewOp
    <3> QED
      BY <3>1, <3>2
  <2>7. ASSUME NEW v \in User, UserStep(v), v # u
        PROVE request'[u] = request[u]
    <3> USE DEF IndInv, TypeOK
    <3>1. ASSUME NEW t \in Txn, NEW op \in ReviewOp, OpenReview(v, op, t)
          PROVE request'[u] = request[u]
      BY <2>7, <3>1 DEF OpenReview
    <3>2. ASSUME NEW t \in Txn, OpenOverride(v, t) \/ EnqueueReclassify(v, t)
          PROVE request'[u] = request[u]
      BY <2>7, <3>2 DEF OpenOverride, EnqueueReclassify
    <3>3. ASSUME NEW ids \in SUBSET Txn, OpenReclassify(v, ids)
          PROVE request'[u] = request[u]
      BY <2>7, <3>3 DEF OpenReclassify
    <3>4. ASSUME Confirm(v) \/ Correct(v) \/ Skip(v)
          PROVE request'[u] = request[u]
      BY <2>7, <3>4 DEF Confirm, Correct, Skip, Settle
    <3>5. ASSUME LoseConflict(v) \/ Override(v) \/ OverrideCollides(v) \/ RequestDies(v)
          PROVE request'[u] = request[u]
      BY <2>7, <3>5 DEF LoseConflict, Override, OverrideCollides, RequestDies
    <3> QED
      BY <2>7, <3>1, <3>2, <3>3, <3>4, <3>5 DEF UserStep
  <2>8. ASSUME Confirm(u) \/ Correct(u) \/ Skip(u) \/ LoseConflict(u) \/ Override(u)
               \/ OverrideCollides(u) \/ RequestDies(u)
        PROVE request'[u] = Idle
    BY <2>8 DEF Confirm, Correct, Skip, Settle, LoseConflict, Override, OverrideCollides,
       RequestDies, IndInv, TypeOK
  <2>9. CASE UserStep(u)
    BY <2>2, <2>3, <2>4, <2>5, <2>6, <2>8, <2>9 DEF UserStep
  <2>10. CASE UNCHANGED request
    BY <2>1, <2>10
  <2>11. CASE Intake
    BY <2>10, <2>11 DEF Intake, Receive, Enqueue, LoseJob
  <2>12. ASSUME NEW w \in Worker, WorkerStep(w) PROVE UNCHANGED request
    BY <2>12 DEF WorkerStep, DiscardJob, StartJob, CommitVerdict, FailJob, JobThrows, JobStalls
  <2>13. CASE UNCHANGED vars
    BY <2>10, <2>13 DEF vars
  <2> HIDE DEF Fine
  <2> QED
    BY <2>1, <2>7, <2>9, <2>10, <2>11, <2>12, <2>13 DEF Next, Steps
<1> QED
  BY <1>3, <1>4, <1>6 DEF ReferencesHold, Classified

\* An empty database has no history.
LEMMA IndInit == Init => IndInv
<1> SUFFICES ASSUME Init PROVE IndInv
  OBVIOUS
<1>1. \A t \in Txn : History(t)
  BY DEF Init, History
<1>2. ReferencesHold
  BY DEF Init, ReferencesHold, Idle, ReviewOp
<1> QED
  BY <1>1, <1>2, TypeInit DEF IndInv

\* Every transaction's status, audit trail and classification row go through
\* the listed combinations only, whoever works on it at the same time
\* (transaction-classifier.service.ts, classification.service.ts).
THEOREM Inductive == Spec => []IndInv
<1>1. IndInv /\ [Next]_vars => IndInv'
  <2> SUFFICES ASSUME IndInv, [Next]_vars PROVE IndInv'
    OBVIOUS
  <2>1. TypeOK'
    BY TypeStep DEF IndInv
  <2>2. \A t \in Txn : History(t)'
    BY HistoryStep
  <2>3. ReferencesHold'
    BY ReferencesStep
  <2> QED
    BY <2>1, <2>2, <2>3 DEF IndInv
<1> QED
  BY <1>1, IndInit, PTL DEF Spec

-----------------------------------------------------------------------------
(* What follows from it.                                                   *)

\* The review queue, the classification rows and the transactions agree.
THEOREM QueueCorrect == Spec => []QueueAgrees
<1>1. IndInv => QueueAgrees
  BY HistoryFacts DEF IndInv, QueueAgrees
<1> QED
  BY <1>1, Inductive, PTL

\* A transaction's audit trail holds at most one decision of a reviewer.
LEMMA DecisionFacts ==
    ASSUME NEW t \in Txn, History(t)
    PROVE  \A d, e \in Decisions(t) : d = e
<1>1. Queued \notin {e \in audit[t] : e.action \in DecisionAction}
  BY DEF Queued, Entry, DecisionAction
<1>2. Entry("ai_auto_classify", "ai").action \notin DecisionAction
  BY DEF Entry, DecisionAction
<1>3. \/ Decisions(t) = {}
      \/ \E u \in User, action \in DecisionAction : audit[t] = {Queued, Entry(action, u)}
  BY <1>1, <1>2 DEF History, Decisions, DecisionAction
<1> QED
  BY <1>1, <1>3 DEF Decisions

\* However many people open the same review item, one decides it.
THEOREM ReviewedOnce == Spec => []OneReviewDecision
<1>1. IndInv => OneReviewDecision
  BY DecisionFacts DEF IndInv, OneReviewDecision
<1> QED
  BY <1>1, Inductive, PTL

\* Says(A, S): trail A has an entry with one of the actions S.
Says(A, S) == \E e \in A : e.action \in S
Booked == {"ai_auto_classify", "review_confirmed", "review_corrected"}

\* The status of a transaction is what its audit trail says.
THEOREM AuditCorrect == Spec => []AuditExplainsStatus
<1> DEFINE Explains(s, A) == /\ s \in {"absent", "pending"} <=> A = {}
                             /\ s = "review" <=> A = {Queued}
                             /\ s = "skipped" <=> Says(A, {"review_skipped"})
                             /\ s = "classified" <=> Says(A, Booked)
           AutoEntry == Entry("ai_auto_classify", "ai")
<1>1. Explains("absent", {}) /\ Explains("pending", {})
  BY DEF Says
<1>2. ASSUME NEW e, e.action \in {"ai_queued_review", "ai_auto_classify"},
             e = Queued <=> e.action = "ai_queued_review"
      PROVE Explains(IF e = Queued THEN "review" ELSE "classified", {e})
  <2>1. {e} # {} /\ ({e} = {Queued} <=> e = Queued)
    OBVIOUS
  <2>2. ~Says({e}, {"review_skipped"}) /\ (Says({e}, Booked) <=> e # Queued)
    BY <1>2 DEF Says, Booked
  <2> QED
    BY <2>1, <2>2
<1>3. Explains("review", {Queued}) /\ Explains("classified", {AutoEntry})
  <2>1. /\ Queued.action = "ai_queued_review" /\ AutoEntry.action = "ai_auto_classify"
        /\ AutoEntry # Queued
    BY DEF Queued, Entry
  <2> HIDE DEF AutoEntry, Explains
  <2>2. Explains(IF Queued = Queued THEN "review" ELSE "classified", {Queued})
    BY <2>1, <1>2
  <2>3. Explains(IF AutoEntry = Queued THEN "review" ELSE "classified", {AutoEntry})
    BY <2>1, <1>2
  <2> QED
    BY <2>1, <2>2, <2>3
<1>4. ASSUME NEW u \in User, NEW action \in DecisionAction
      PROVE Explains(IF action = "review_skipped" THEN "skipped" ELSE "classified",
                     {Queued, Entry(action, u)})
  <2> DEFINE last == Entry(action, u)
             trail == {Queued, last}
  <2>1. /\ Queued.action = "ai_queued_review" /\ last.action = action
        /\ last # Queued
    BY DEF Queued, Entry, DecisionAction
  <2> HIDE DEF last
  <2>2. trail # {} /\ trail # {Queued}
    BY <2>1
  <2>3. Says(trail, {"review_skipped"}) <=> action = "review_skipped"
    BY <2>1 DEF Says
  <2>4. Says(trail, Booked) <=> action # "review_skipped"
    BY <2>1 DEF Says, Booked, DecisionAction
  <2> HIDE DEF trail
  <2>5. Explains(IF action = "review_skipped" THEN "skipped" ELSE "classified", trail)
    BY <2>2, <2>3, <2>4
  <2> QED
    BY <2>5 DEF last, trail
<1>5. ASSUME NEW t \in Txn, History(t) PROVE Explains(txn[t], audit[t])
  <2> HIDE DEF Explains
  <2>1. CASE \E u \in User, action \in DecisionAction :
               /\ txn[t] = IF action = "review_skipped" THEN "skipped" ELSE "classified"
               /\ audit[t] = {Queued, Entry(action, u)}
    BY <2>1, <1>4
  <2>2. CASE \/ txn[t] \in {"absent", "pending"} /\ audit[t] = {}
             \/ txn[t] = "review" /\ audit[t] = {Queued}
             \/ txn[t] = "classified" /\ audit[t] = {AutoEntry}
    BY <2>2, <1>1, <1>3
  <2> QED
    BY <1>5, <2>1, <2>2 DEF History, DecisionAction
<1>6. IndInv => AuditExplainsStatus
  BY <1>5 DEF IndInv, AuditExplainsStatus, Says, Booked, Queued
<1> QED
  BY <1>6, Inductive, PTL

\* A classification row names whoever chose its accounts, and an automatic
\* row was never touched by a person.
THEOREM ProvenanceCorrect == Spec => []ProvenanceHolds
<1>1. ASSUME NEW t \in Txn, History(t), Classified(t)
      PROVE \/ cls[t] \in {VerdictRow("review"), VerdictRow("classified"),
                            AiRow("skipped", "manual", "ai")}
            \/ \E u \in User : cls[t] \in {AiRow("classified", "manual", u), ManualRow(u)}
  BY <1>1 DEF History, Overridden, Classified
<1>2. ASSUME NEW t \in Txn, cls[t] \in {VerdictRow("review"), VerdictRow("classified"),
                                       AiRow("skipped", "manual", "ai")}
      PROVE /\ cls[t].accounts = "ai" /\ cls[t].by = "ai"
            /\ cls[t].type = "auto" => cls[t] = VerdictRow("classified")
  BY <1>2 DEF VerdictRow, AiRow
<1>3. ASSUME NEW t \in Txn, NEW u \in User,
             cls[t] \in {AiRow("classified", "manual", u), ManualRow(u)}
      PROVE /\ cls[t].accounts \in {"ai", u} /\ cls[t].by = u
            /\ cls[t].type = "manual" /\ cls[t].status = "classified"
  BY <1>3 DEF AiRow, ManualRow
<1>4. IndInv => ProvenanceHolds
  BY <1>1, <1>2, <1>3, ClassificationAssumption DEF IndInv, ProvenanceHolds
<1> QED
  BY <1>4, Inductive, PTL

-----------------------------------------------------------------------------
(* What a step may do to the three tables, and the two properties of steps *)
(* and the implementation of the lifecycle that follow.                    *)

Judged(s, verdict) ==
    /\ txn[s] = "pending" /\ cls[s] = NoRow /\ audit[s] = {}
    /\ txn' = [txn EXCEPT ![s] = verdict]
    /\ cls' = [cls EXCEPT ![s] = VerdictRow(verdict)]
    /\ audit' = [audit EXCEPT ![s] = {Entry(VerdictAction(verdict), "ai")}]

Decided(s, u, row, action) ==
    /\ txn[s] = "review" /\ cls[s] = VerdictRow("review") /\ audit[s] = {Queued}
    /\ txn' = [txn EXCEPT ![s] = row.status]
    /\ cls' = [cls EXCEPT ![s] = row]
    /\ audit' = [audit EXCEPT ![s] = {Queued, Entry(action, u)}]

Overwritten(s, u) ==
    /\ cls' = [cls EXCEPT ![s] = ManualRow(u)]
    /\ UNCHANGED <<txn, audit>>

\* The rows a decision may write.
DecidedRow(u) == {AiRow("classified", "manual", u), ManualRow(u),
                  AiRow("skipped", "manual", "ai")}

\* A verdict finds the transaction pending and without a classification.
LEMMA CommitJudges ==
    ASSUME IndInv, NEW w \in Worker, NEW verdict \in Verdict, CommitVerdict(w, verdict)
    PROVE  \E s \in Txn : Judged(s, verdict)
<1> PICK s \in Txn : s = worker[w].txn
  BY WorkerHolds DEF CommitVerdict, IndInv
<1>1. ~Classified(s) /\ txn[s] # "absent"
  BY DEF CommitVerdict, IndInv, ReferencesHold
<1>2. txn[s] = "pending" /\ cls[s] = NoRow /\ audit[s] = {}
  BY <1>1, HistoryFacts DEF IndInv
<1>3. audit' = [audit EXCEPT ![s] = {Entry(VerdictAction(verdict), "ai")}]
  <2>1. audit' = [audit EXCEPT ![s] = audit[s] \union {Entry(VerdictAction(verdict), "ai")}]
    BY DEF CommitVerdict, Record
  <2> QED
    BY <1>2, <2>1
<1> QED
  BY <1>2, <1>3 DEF Judged, CommitVerdict

\* A decision finds the transaction in review, as the AI left it.
LEMMA ReviewDecides ==
    ASSUME IndInv, NEW u \in User, Confirm(u) \/ Correct(u) \/ Skip(u)
    PROVE  \E s \in Txn, action \in DecisionAction, row \in DecidedRow(u) :
              Decided(s, u, row, action)
<1> PICK s \in Txn : s = request[u].txn
  BY RequestHolds DEF IndInv, Confirm, Correct, Skip
<1>1. InReview(s)
  BY DEF Confirm, Correct, Skip
<1>2. txn[s] = "review" /\ audit[s] = {Queued} /\ cls[s] = VerdictRow("review")
  BY <1>1, HistoryFacts DEF IndInv
<1>3. ASSUME NEW row, NEW action, Settle(u, s, row, action)
      PROVE Decided(s, u, row, action)
  <2>1. audit' = [audit EXCEPT ![s] = audit[s] \union {Entry(action, u)}]
    BY <1>3 DEF Settle, Record
  <2>2. audit' = [audit EXCEPT ![s] = {Queued, Entry(action, u)}]
    BY <1>2, <2>1
  <2> QED
    BY <1>2, <1>3, <2>2 DEF Decided, Settle
<1>4. cls[s] = [status |-> "review", type |-> "manual", by |-> "ai", accounts |-> "ai"]
  BY <1>2 DEF VerdictRow, AiRow
<1>5. ConfirmedRow(u, s) = AiRow("classified", "manual", u)
  <2>1. [cls[s] EXCEPT !.status = "classified"]
          = [status |-> "classified", type |-> "manual", by |-> "ai", accounts |-> "ai"]
    BY <1>4
  <2>2. ConfirmedRow(u, s)
          = [[cls[s] EXCEPT !.status = "classified"] EXCEPT !.type = "manual", !.by = u]
    BY DEF ConfirmedRow
  <2> QED
    BY <2>1, <2>2 DEF AiRow
<1>6. [cls[s] EXCEPT !.status = "skipped"] = AiRow("skipped", "manual", "ai")
  BY <1>4 DEF AiRow
<1> QED
  BY <1>3, <1>5, <1>6 DEF Confirm, Correct, Skip, DecidedRow, DecisionAction

\* The five things a step can do to the tables.
LEMMA StepKinds ==
    ASSUME IndInv, [Next]_vars
    PROVE  \/ UNCHANGED <<txn, cls, audit>>
           \/ \E S \in SUBSET Txn : Receive(S)
           \/ \E s \in Txn, verdict \in Verdict : Judged(s, verdict)
           \/ \E s \in Txn, u \in User, action \in DecisionAction :
                 \E row \in DecidedRow(u) : Decided(s, u, row, action)
           \/ \E s \in Txn, u \in User : Overwritten(s, u)
<1>1. CASE Intake
  BY <1>1 DEF Intake, LoseJob, Enqueue
<1>2. ASSUME NEW w \in Worker, WorkerStep(w)
      PROVE \/ UNCHANGED <<txn, cls, audit>>
            \/ \E s \in Txn, verdict \in Verdict : Judged(s, verdict)
  BY <1>2, CommitJudges DEF WorkerStep, DiscardJob, StartJob, FailJob, JobThrows, JobStalls
<1>3. ASSUME NEW u \in User, Override(u) PROVE \E s \in Txn : Overwritten(s, u)
  <2>1. request[u].txn \in Txn
    BY <1>3, RequestHolds DEF Override, IndInv
  <2> QED
    BY <1>3, <2>1 DEF Override, Overwritten
<1>4. ASSUME NEW u \in User, UserStep(u)
      PROVE \/ UNCHANGED <<txn, cls, audit>>
            \/ \E s \in Txn, action \in DecisionAction, row \in DecidedRow(u) :
                  Decided(s, u, row, action)
            \/ \E s \in Txn : Overwritten(s, u)
  BY <1>3, <1>4, ReviewDecides
     DEF UserStep, OpenReview, OpenOverride, EnqueueReclassify, OpenReclassify,
         LoseConflict, OverrideCollides, RequestDies
<1>5. CASE UNCHANGED vars
  BY <1>5 DEF vars
<1> QED
  BY <1>1, <1>2, <1>4, <1>5 DEF Next, Steps

\* A classified or skipped transaction keeps its status whatever workers and
\* people still hold of it.
THEOREM SettledForever == Spec => SettledStays
<1>1. ASSUME IndInv, [Next]_vars, NEW t \in Txn, txn[t] \in {"classified", "skipped"}
      PROVE  txn'[t] = txn[t]
  <2>1. ASSUME NEW s \in Txn, txn[s] \notin {"classified", "skipped"}, NEW status,
               txn' = [txn EXCEPT ![s] = status]
        PROVE txn'[t] = txn[t]
    BY <1>1, <2>1 DEF IndInv, TypeOK
  <2>2. ASSUME NEW S \in SUBSET Txn, Receive(S) PROVE txn'[t] = txn[t]
    BY <1>1, <2>2 DEF Receive
  <2> QED
    BY <1>1, <2>1, <2>2, StepKinds DEF Judged, Decided, Overwritten
<1>2. IndInv /\ [Next]_vars =>
        [\A t \in Txn : txn[t] \in {"classified", "skipped"} => txn'[t] = txn[t]]_vars
  BY <1>1
<1> QED
  BY <1>2, Inductive, PTL DEF Spec, SettledStays

\* No AI result lands on top of an existing classification: its accounts
\* change only to those a person chose, and the row names that person.
THEOREM AccountsByHand == Spec => AccountsChangeByHandOnly
<1>1. ASSUME IndInv, [Next]_vars, NEW t \in Txn, Classified(t),
             cls'[t].accounts # cls[t].accounts
      PROVE  cls'[t].accounts \in User /\ cls'[t].by = cls'[t].accounts
  <2>1. CASE UNCHANGED cls
    BY <1>1, <2>1
  <2>2. ASSUME NEW s \in Txn, NEW verdict \in Verdict, Judged(s, verdict)
        PROVE cls'[t] = cls[t]
    BY <1>1, <2>2 DEF Judged, Classified, IndInv, TypeOK
  <2>3. ASSUME NEW s \in Txn, NEW u \in User, Overwritten(s, u)
        PROVE cls'[t] = cls[t] \/ cls'[t] = ManualRow(u)
    BY <2>3 DEF Overwritten, IndInv, TypeOK
  <2>4. ASSUME NEW s \in Txn, NEW u \in User, NEW action \in DecisionAction,
               NEW row \in DecidedRow(u), Decided(s, u, row, action)
        PROVE \/ cls'[t] = cls[t]
              \/ cls[t] = VerdictRow("review") /\ cls'[t] = row
    BY <2>4 DEF Decided, IndInv, TypeOK
  <2>5. ASSUME NEW u \in User, NEW row \in DecidedRow(u)
        PROVE row.accounts = "ai" \/ row = ManualRow(u)
    BY <2>5 DEF DecidedRow, AiRow
  <2>6. VerdictRow("review").accounts = "ai"
    BY DEF VerdictRow, AiRow
  <2>7. \A u \in User : ManualRow(u).accounts = u /\ ManualRow(u).by = u
    BY DEF ManualRow
  <2>8. ASSUME NEW S \in SUBSET Txn, Receive(S) PROVE UNCHANGED cls
    BY <2>8 DEF Receive
  <2> QED
    BY <1>1, <2>1, <2>2, <2>3, <2>4, <2>5, <2>6, <2>7, <2>8, StepKinds
<1>2. IndInv /\ [Next]_vars =>
        [\A t \in Txn : Classified(t) /\ cls'[t].accounts # cls[t].accounts
                         => cls'[t].accounts \in User /\ cls'[t].by = cls'[t].accounts]_vars
  BY <1>1
<1> QED
  BY <1>2, Inductive, PTL DEF Spec, AccountsChangeByHandOnly

\* Who decided a transaction depends on its audit trail alone, and only a
\* decision of a person changes it.
LEMMA DecidersKept ==
    ASSUME NEW t \in Txn, audit'[t] = audit[t]
    PROVE  Decisions(t)' = Decisions(t)
  BY DEF Decisions

\* A trail with one decision in it names one decider, the AI none.
LEMMA DecidersOfTrails ==
    /\ \A e : e.action \notin DecisionAction => {d \in {e} : d.action \in DecisionAction} = {}
    /\ \A u, action : action \in DecisionAction =>
          {d \in {Queued, Entry(action, u)} : d.action \in DecisionAction} = {Entry(action, u)}
  BY DEF Queued, Entry, DecisionAction

\* The worker and the review endpoints implement the documented life of a
\* transaction: every step of theirs receives, judges or decides, or is
\* invisible to it.
THEOREM LifecycleImplemented == Spec => ImplementsLifecycle
<1> DEFINE deciders == [t \in Txn |-> {e.actor : e \in Decisions(t)}]
<1>1. Init => Lifecycle!Init
  BY DEF Init, Lifecycle!Init, Decisions
<1>2. IndInv /\ [Next]_vars => [Lifecycle!Next]_Lifecycle!vars
  <2> SUFFICES ASSUME IndInv, [Next]_vars PROVE Lifecycle!Next \/ UNCHANGED Lifecycle!vars
    OBVIOUS
  <2>1. ASSUME UNCHANGED audit PROVE deciders' = deciders
    BY <2>1, DecidersKept
  <2>2. CASE UNCHANGED <<txn, cls, audit>>
    BY <2>1, <2>2 DEF Lifecycle!vars
  <2>3. ASSUME NEW S \in SUBSET Txn, Receive(S) PROVE Lifecycle!Next
    <3>1. Lifecycle!Receive(S)
      BY <2>1, <2>3 DEF Receive, Lifecycle!Receive
    <3> QED
      BY <3>1 DEF Lifecycle!Next
  <2>4. ASSUME NEW s \in Txn, NEW u \in User, Overwritten(s, u) PROVE UNCHANGED Lifecycle!vars
    BY <2>1, <2>4 DEF Overwritten, Lifecycle!vars
  <2>5. ASSUME NEW s \in Txn, NEW verdict \in Verdict, Judged(s, verdict) PROVE Lifecycle!Next
    <3>1. Decisions(s) = {} /\ Decisions(s)' = {}
      <4>1. /\ audit[s] = {} /\ audit'[s] = {Entry(VerdictAction(verdict), "ai")}
            /\ Entry(VerdictAction(verdict), "ai").action \notin DecisionAction
        BY <2>5 DEF Judged, IndInv, TypeOK, Entry, VerdictAction, DecisionAction
      <4> QED
        BY <4>1, DecidersOfTrails DEF Decisions
    <3>2. \A t \in Txn : Decisions(t)' = Decisions(t)
      <4> SUFFICES ASSUME NEW t \in Txn, t # s PROVE audit'[t] = audit[t]
        BY <3>1, DecidersKept
      <4> QED
        BY <2>5 DEF Judged, IndInv, TypeOK
    <3>3. deciders' = deciders
      BY <3>2
    <3>4. Lifecycle!Judge(s, verdict)
      BY <2>5, <3>3 DEF Judged, Lifecycle!Judge
    <3> QED
      BY <3>4 DEF Lifecycle!Next, Verdict
  <2>6. ASSUME NEW s \in Txn, NEW u \in User, NEW action \in DecisionAction,
               NEW row \in DecidedRow(u), Decided(s, u, row, action)
        PROVE Lifecycle!Next
    <3>1. Decisions(s) = {} /\ Decisions(s)' = {Entry(action, u)}
      <4>1. /\ audit[s] = {Queued} /\ audit'[s] = {Queued, Entry(action, u)}
            /\ Queued.action \notin DecisionAction
        BY <2>6 DEF Decided, IndInv, TypeOK, Queued, Entry, DecisionAction
      <4> QED
        BY <4>1, DecidersOfTrails DEF Decisions
    <3>2. ASSUME NEW t \in Txn, t # s PROVE Decisions(t)' = Decisions(t)
      <4>1. audit'[t] = audit[t]
        BY <2>6, <3>2 DEF Decided, IndInv, TypeOK
      <4> QED
        BY <4>1, DecidersKept
    <3>3. deciders[s] = {} /\ deciders'[s] = {u}
      <4>1. {e.actor : e \in {}} = {}
        OBVIOUS
      <4>2. {e.actor : e \in {Entry(action, u)}} = {u}
        BY DEF Entry
      <4>3. /\ deciders[s] = {e.actor : e \in Decisions(s)}
            /\ deciders'[s] = {e.actor : e \in Decisions(s)'}
        OBVIOUS
      <4> QED
        BY <3>1, <4>1, <4>2, <4>3
    <3>4. deciders' = [deciders EXCEPT ![s] = {u}]
      BY <3>2, <3>3
    <3>5. row.status \in {"classified", "skipped"}
      BY DEF DecidedRow, AiRow, ManualRow
    <3>6. Lifecycle!Decide(s, u, row.status)
      BY <2>6, <3>3, <3>4 DEF Decided, Lifecycle!Decide
    <3> QED
      BY <3>5, <3>6 DEF Lifecycle!Next
  <2> QED
    BY <2>2, <2>3, <2>4, <2>5, <2>6, StepKinds
<1> QED
  BY <1>1, <1>2, Inductive, PTL DEF Spec, ImplementsLifecycle, Lifecycle!Spec
=============================================================================
