------------------------- MODULE TransactionPipeline -------------------------
(***************************************************************************)
(* Intake and classification together: Ingestion.tla and Classification.tla*)
(* share the transactions table and the ai-classify queue, and take their  *)
(* steps in any order.                                                     *)
(***************************************************************************)
EXTENDS Naturals, FiniteSets

CONSTANTS
    Txn, CasTxn, Delivery, Import, Plan, Quota, MaxFaults,  \* of Ingestion
    User, Worker, MaxJobs,                                  \* of Classification
    MaxJobFaults                                            \* its MaxFaults

VARIABLES
    txn, jobs,                                              \* shared
    key, linked, active, used, overage, hook, batch, faults, \* intake
    cls, audit, worker, request, jobFaults                  \* classification

intakeVars == <<key, linked, active, used, overage, hook, batch, faults>>
bookVars   == <<cls, audit, worker, request, jobFaults>>
vars == <<txn, jobs, intakeVars, bookVars>>

In   == INSTANCE Ingestion
Book == INSTANCE Classification WITH
            owed <- In!Owed, faults <- jobFaults, MaxFaults <- MaxJobFaults

ASSUME PipelineAssumption == In!IngestionAssumption /\ Book!ClassificationAssumption

Init == In!Init /\ Book!Init

IntakeStep == In!Next /\ UNCHANGED bookVars
BookStep   == UNCHANGED intakeVars /\ Book!Steps
Next == IntakeStep \/ BookStep

Spec == Init /\ [][Next]_vars

\* A running process executes its handlers to the end; jobs are served in the
\* end, none of them starved by the others, and a running job ends.
FairSpec ==
    /\ Spec
    /\ \A d \in Delivery : WF_vars(In!HookStep(d) /\ UNCHANGED bookVars)
    /\ \A b \in Import : WF_vars(In!BatchStep(b) /\ UNCHANGED bookVars)
    /\ \A t \in Txn : SF_vars(/\ UNCHANGED intakeVars
                              /\ \E w \in Worker : Book!StartJob(w, t) \/ Book!DiscardJob(w, t))
    /\ \A w \in Worker : WF_vars(/\ UNCHANGED intakeVars
                                 /\ \/ Book!FailJob(w)
                                    \/ \E v \in Book!Verdict : Book!CommitVerdict(w, v))

-----------------------------------------------------------------------------
\* The real intake does to the transactions and the queue what Classification
\* assumes of it: its rows appear pending, each is queued once or lost once.
ImplementsClassification == Book!Spec

\* As long as nothing failed, a transaction nobody has classified is somebody's
\* business: its intake owes the job, the job waits, or a worker has it.
NothingForgotten ==
    faults = 0 /\ jobFaults = 0 =>
        \A t \in Txn : txn[t] # "absent" /\ ~Book!Classified(t) =>
            \/ t \in In!Owed
            \/ jobs[t] > 0
            \/ \E w \in Worker : worker[w] = Book!Job(t)

Received(t) ==
    txn[t] # "absent" \/ \E d \in Delivery : hook[d].pc = "quota" /\ hook[d].txn = t
Failed == faults # 0 \/ jobFaults # 0

\* A transaction Cas reports to a known tenant, or a row an upload saves, ends up
\* classified, if nothing fails before that.
ReceivedIsClassified == \A t \in Txn : Received(t) ~> Book!Classified(t) \/ Failed
=============================================================================
