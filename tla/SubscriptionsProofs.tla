------------------------ MODULE SubscriptionsProofs ------------------------
(***************************************************************************)
(* Proofs about Subscriptions.tla for any number of requests, any plans    *)
(* and quotas, any number of failures.                                     *)
(***************************************************************************)
EXTENDS Subscriptions, SequenceTheorems, TLAPS

USE DEF vars, Tables

-----------------------------------------------------------------------------
(* What the type invariant says of the two tables and of a request.        *)

\* The tables are functions on an initial segment of the numbers.
LEMMA TablesAreFunctions ==
    ASSUME TypeOK
    PROVE  /\ Len(sub) \in Nat /\ DOMAIN sub = 1..Len(sub)
           /\ sub \in [1..Len(sub) -> SubRow]
           /\ Len(order) \in Nat /\ DOMAIN order = 1..Len(order)
           /\ order \in [1..Len(order) -> OrderRow]
  BY DEF TypeOK

\* Their elements are rows.
LEMMA RowsTyped ==
    ASSUME TypeOK
    PROVE  /\ \A s \in DOMAIN sub : s \in Nat /\ sub[s] \in SubRow
           /\ \A o \in DOMAIN order : o \in Nat /\ order[o] \in OrderRow
  BY TablesAreFunctions

\* What the code writes to a subscription leaves it one.
LEMMA RowUpdatesTyped ==
    ASSUME NEW row \in SubRow, NEW now \in Nat, NEW status \in {"active", "suspended", "cancelled"}
    PROVE  /\ [row EXCEPT !.status = status] \in SubRow
           /\ [row EXCEPT !.used = @ + 1] \in SubRow
           /\ [row EXCEPT !.chats = @ + 1] \in SubRow
           /\ [row EXCEPT !.due = TRUE] \in SubRow
           /\ Renewed(row, now) \in SubRow
<1>1. row.used + 1 \in Nat /\ row.chats + 1 \in Nat
  BY DEF SubRow
<1> QED
  BY <1>1 DEF SubRow, Renewed

\* Writing a row of a table, or past its end, leaves a table of the same length.
LEMMA UpdateKeepsTable ==
    ASSUME NEW T, NEW table \in Seq(T), NEW i, NEW row, i \in DOMAIN table => row \in T
    PROVE  /\ [table EXCEPT ![i] = row] \in Seq(T)
           /\ Len([table EXCEPT ![i] = row]) = Len(table)
<1>1. table \in [1..Len(table) -> T] /\ Len(table) \in Nat
  OBVIOUS
<1>2. [table EXCEPT ![i] = row] \in [1..Len(table) -> T]
  BY <1>1
<1> QED
  BY <1>1, <1>2

\* Cancelling rows keeps the table a sequence of rows of the same length.
LEMMA CancelKeepsTable ==
    ASSUME TypeOK, NEW S
    PROVE  /\ Cancel(S) \in Seq(SubRow) /\ Len(Cancel(S)) = Len(sub)
           /\ \A s \in DOMAIN sub :
                 Cancel(S)[s] = IF s \in S THEN [sub[s] EXCEPT !.status = "cancelled"]
                                ELSE sub[s]
<1>1. Cancel(S) \in [1..Len(sub) -> SubRow]
  <2>1. ASSUME NEW s \in DOMAIN sub PROVE [sub[s] EXCEPT !.status = "cancelled"] \in SubRow
    BY TablesAreFunctions, <2>1 DEF SubRow
  <2> QED
    BY <2>1, TablesAreFunctions DEF Cancel
<1> QED
  BY <1>1, TablesAreFunctions DEF Cancel

\* Only a reading request is at a reader's program counter.
LEMMA ReaderHolds ==
    ASSUME TypeOK, NEW r \in Request, request[r].pc \in
               {"miss", "fill", "found", "pending", "create", "reset", "next", "turn"}
    PROVE  request[r] \in ReaderState
<1>1. request[r] \in {Idle, Done} \union ReaderState \union WriterState
  BY DEF TypeOK
<1>2. request[r] # Idle /\ request[r] # Done
  BY DEF Idle, Done
<1>3. request[r] \notin WriterState
  BY DEF WriterState
<1> QED
  BY <1>1, <1>2, <1>3

LEMMA WriterHolds ==
    ASSUME TypeOK, NEW r \in Request, request[r].pc \in
               {"pay", "switch", "commit", "write", "invalidate"}
    PROVE  request[r] \in WriterState
<1>1. request[r] \in {Idle, Done} \union ReaderState \union WriterState
  BY DEF TypeOK
<1>2. request[r] # Idle /\ request[r] # Done
  BY DEF Idle, Done
<1>3. request[r] \notin ReaderState
  BY DEF ReaderState
<1> QED
  BY <1>1, <1>2, <1>3

-----------------------------------------------------------------------------
(* Type correctness.                                                       *)

State == {Idle, Done} \union ReaderState \union WriterState

LEMMA GoToTyped ==
    ASSUME TypeOK, NEW r \in Request, NEW state \in State, GoTo(r, state)
    PROVE  request' \in [Request -> State]
  BY DEF TypeOK, GoTo, State

\* A finished request is typed.
LEMMA FinishTyped ==
    ASSUME TypeOK, NEW r \in Request, Finish(r)
    PROVE  request' \in [Request -> State]
  BY GoToTyped DEF Finish, State

\* A reader that only moves on is typed; so is a writer.
LEMMA ReaderStepTyped ==
    ASSUME TypeOK, NEW r \in Request, request[r] \in ReaderState,
           NEW pc \in {"found", "create", "reset", "next"}, Step(r, pc),
           pc = "create" => request[r].pc = "pending"
    PROVE  request' \in [Request -> State]
<1>1. [request[r] EXCEPT !.pc = pc] \in ReaderState
  BY DEF ReaderState
<1> QED
  BY <1>1, GoToTyped DEF Step, State

LEMMA WriterStepTyped ==
    ASSUME TypeOK, NEW r \in Request, request[r] \in WriterState,
           NEW pc \in {"pay", "switch", "commit", "write", "invalidate"}, Step(r, pc)
    PROVE  request' \in [Request -> State]
<1>1. [request[r] EXCEPT !.pc = pc] \in WriterState
  BY DEF WriterState
<1> QED
  BY <1>1, GoToTyped DEF Step, State

\* What a request starts with is typed.
LEMMA ReadTyped ==
    ASSUME NEW op \in Reader, NEW p \in Plan \union {"none"}, op = "upgrade" => p \in Plan
    PROVE  Read(op, p) \in ReaderState
  BY DEF Read, ReaderState

LEMMA WriteTyped ==
    ASSUME NEW op \in {"confirm", "setPlan", "suspend", "activate", "store"},
           NEW pc \in {"pay", "switch", "commit", "write", "invalidate"},
           NEW p \in Plan, NEW s \in Nat, NEW now \in Nat
    PROVE  Write(op, pc, p, s, now) \in WriterState
  BY DEF Write, WriterState

\* Reading through the cache keeps the types.
LEMMA StartReadTyped ==
    ASSUME TypeOK, NEW r \in Request, NEW state \in ReaderState, StartRead(r, state)
    PROVE  /\ request' \in [Request -> State]
           /\ UNCHANGED <<sub, order, log, cache, clock>> /\ faults' \in 0..MaxFaults
<1>1. [state EXCEPT !.pc = "found", !.copy = cache] \in ReaderState
  BY DEF TypeOK, ReaderState
<1> QED
  BY <1>1, GoToTyped, SubscriptionsAssumption DEF StartRead, Fails, State, TypeOK

LEMMA CopyOfTyped ==
    ASSUME TypeOK, NEW s \in DOMAIN sub
    PROVE  CopyOf(s) \in Copy
  BY TablesAreFunctions DEF CopyOf, Copy, SubRow

\* The reads, and the cache.
LEMMA ReadingKeepsTypes ==
    ASSUME TypeOK, NEW r \in Request, ReadActive(r) \/ FillCache(r) \/ FillFails(r)
                                    \/ NightlyRefused(r) \/ Invalidate(r)
    PROVE  TypeOK'
<1>1. CASE ReadActive(r)
  <2>1. request[r] \in ReaderState
    BY <1>1, ReaderHolds DEF ReadActive, At
  <2>2. request' \in [Request -> State]
    <3>1. CASE Active = {} /\ Step(r, "found")
      BY <2>1, <3>1, ReaderStepTyped
    <3>2. ASSUME NEW s \in Latest(Active),
                 GoTo(r, [request[r] EXCEPT !.pc = "fill", !.copy = CopyOf(s)])
          PROVE  request' \in [Request -> State]
      <4>1. CopyOf(s) \in Copy
        BY CopyOfTyped DEF Latest, Active, WithStatus
      <4>2. [request[r] EXCEPT !.pc = "fill", !.copy = CopyOf(s)] \in ReaderState
        BY <2>1, <4>1 DEF ReaderState
      <4> QED
        BY <3>2, <4>2, GoToTyped DEF State
    <3> QED
      BY <1>1, <3>1, <3>2 DEF ReadActive
  <2> QED
    BY <1>1, <2>2 DEF ReadActive, TypeOK, State
<1>2. CASE FillCache(r)
  <2>1. request[r] \in ReaderState
    BY <1>2, ReaderHolds DEF FillCache, At
  <2>2. request' \in [Request -> State] /\ cache' \in Copy \union {NoCopy}
    BY <1>2, <2>1, ReaderStepTyped DEF FillCache, ReaderState
  <2> QED
    BY <1>2, <2>2 DEF FillCache, TypeOK, State
<1>3. CASE Invalidate(r)
  BY <1>3, FinishTyped DEF Invalidate, TypeOK, State
<1>4. CASE FillFails(r)
  <2>1. request[r] \in ReaderState
    BY <1>4, ReaderHolds DEF FillFails, At
  <2>2. request' \in [Request -> State]
    BY <1>4, <2>1, ReaderStepTyped DEF FillFails
  <2>3. faults' \in 0..MaxFaults
    BY <1>4, SubscriptionsAssumption DEF FillFails, Fails, TypeOK
  <2> QED
    BY <1>4, <2>2, <2>3 DEF FillFails, TypeOK, State
<1>5. CASE NightlyRefused(r)
  <2>1. request[r] \in ReaderState
    BY <1>5, ReaderHolds DEF NightlyRefused, At
  <2>2. request' \in [Request -> State]
    BY <1>5, <2>1, ReaderStepTyped, FinishTyped DEF NightlyRefused, AfterReset
  <2>3. faults' \in 0..MaxFaults
    BY <1>5, SubscriptionsAssumption DEF NightlyRefused, Fails, TypeOK
  <2> QED
    BY <1>5, <2>2, <2>3 DEF NightlyRefused, TypeOK, State
<1> QED
  BY <1>1, <1>2, <1>3, <1>4, <1>5

\* A row appended to a table of rows.
LEMMA NewSubTyped ==
    ASSUME NEW p \in Plan, NEW now \in Nat, NEW o \in Nat
    PROVE  NewSub(p, now, o) \in SubRow
  BY DEF NewSub, SubRow

\* Orders and their payment.
LEMMA PaymentKeepsTypes ==
    ASSUME TypeOK, NEW r \in Request,
           \/ CreateUpgradeOrder(r) \/ PayOverage(r) \/ BeginSwitch(r) \/ CommitSwitch(r)
    PROVE  TypeOK'
<1>0. [order EXCEPT ![request[r].row].status = "paid"] \in Seq(OrderRow)
  <2> DEFINE o == request[r].row
  <2>1. o \in DOMAIN order => [order[o] EXCEPT !.status = "paid"] \in OrderRow
    BY RowsTyped DEF OrderRow
  <2> QED
    BY <2>1, UpdateKeepsTable DEF TypeOK
<1>1. CASE CreateUpgradeOrder(r)
  <2>1. request[r] \in ReaderState
    BY <1>1, ReaderHolds DEF CreateUpgradeOrder, At
  <2>2. order' \in Seq(OrderRow)
    <3>1. request[r].plan \in Plan
      BY <1>1, <2>1 DEF CreateUpgradeOrder, At, ReaderState
    <3>2. order' \in Seq(OrderRow)
      <4>1. [type |-> "upgrade", plan |-> request[r].plan, status |-> "pending",
             charged |-> {}] \in OrderRow
        BY <3>1 DEF OrderRow
      <4> QED
        BY <1>1, <4>1 DEF CreateUpgradeOrder, TypeOK
    <3> QED
      BY <3>2
  <2> QED
    BY <1>1, <2>2, FinishTyped DEF CreateUpgradeOrder, TypeOK, State
<1>2. CASE PayOverage(r)
  <2>1. order' \in Seq(OrderRow)
    BY <1>0, <1>2 DEF PayOverage
  <2> QED
    BY <1>2, <2>1, FinishTyped DEF PayOverage, TypeOK, State
<1>3. CASE BeginSwitch(r)
  <2>1. request[r] \in WriterState
    BY <1>3, WriterHolds DEF BeginSwitch, At
  <2>2. Active \in SUBSET Nat
    BY RowsTyped DEF Active, WithStatus
  <2>3. [request[r] EXCEPT !.pc = "commit", !.doomed = Active] \in WriterState
    BY <2>1, <2>2 DEF WriterState
  <2> QED
    BY <1>3, <2>3, GoToTyped DEF BeginSwitch, TypeOK, State
<1>4. CASE CommitSwitch(r)
  <2>1. request[r] \in WriterState
    BY <1>4, WriterHolds DEF CommitSwitch, At
  <2>2. order' \in Seq(OrderRow)
    BY <1>0, <1>4 DEF CommitSwitch
  <2>3. sub' \in Seq(SubRow)
    <3>1. NewSub(request[r].plan, request[r].now, request[r].row) \in SubRow
      BY <2>1, NewSubTyped DEF WriterState
    <3>2. Cancel(request[r].doomed \intersect Active) \in Seq(SubRow)
      BY CancelKeepsTable
    <3> QED
      BY <1>4, <3>1, <3>2 DEF CommitSwitch
  <2>4. request' \in [Request -> State]
    BY <1>4, <2>1, WriterStepTyped DEF CommitSwitch
  <2> QED
    BY <1>4, <2>2, <2>3, <2>4 DEF CommitSwitch, TypeOK, State
<1> QED
  BY <1>1, <1>2, <1>3, <1>4

\* The partner's changes.
LEMMA PartnerKeepsTypes ==
    ASSUME TypeOK, NEW r \in Request,
           CommitSetPlan(r) \/ SuspendTenant(r) \/ ActivateTenant(r)
    PROVE  TypeOK'
<1> USE TablesAreFunctions
<1>1. CASE CommitSetPlan(r)
  <2>1. request[r] \in WriterState
    BY <1>1, WriterHolds DEF CommitSetPlan, At
  <2>2. sub' \in Seq(SubRow)
    <3>1. NewSub(request[r].plan, request[r].now, 0) \in SubRow
      BY <2>1, NewSubTyped DEF WriterState
    <3> QED
      BY <1>1, <3>1, CancelKeepsTable DEF CommitSetPlan
  <2>3. request' \in [Request -> State]
    BY <1>1, <2>1, WriterStepTyped DEF CommitSetPlan
  <2> QED
    BY <1>1, <2>2, <2>3 DEF CommitSetPlan, TypeOK, State
<1>2. ASSUME NEW op, NEW status \in {"active", "suspended"}, SetStatus(r, op, status)
      PROVE  TypeOK'
  <2> DEFINE s == request[r].row
  <2>1. s \in DOMAIN sub => [sub[s] EXCEPT !.status = status] \in SubRow
    BY RowsTyped, RowUpdatesTyped
  <2>2. sub' \in Seq(SubRow)
    BY <1>2, <2>1, UpdateKeepsTable DEF SetStatus, TypeOK
  <2> QED
    BY <1>2, <2>2, FinishTyped DEF SetStatus, TypeOK, State
<1> QED
  BY <1>1, <1>2 DEF SuspendTenant, ActivateTenant

\* The counters and the cycle.
LEMMA CountingKeepsTypes ==
    ASSUME TypeOK, NEW r \in Request, StoreTransaction(r) \/ CountChat(r) \/ ResetCycle(r)
    PROVE  TypeOK'
<1> USE TablesAreFunctions
<1> DEFINE s == request[r].row
<1>1. CASE StoreTransaction(r)
  <2>1. sub' \in Seq(SubRow)
    <3>1. s \in DOMAIN sub => [sub[s] EXCEPT !.used = @ + 1] \in SubRow
      BY RowsTyped, RowUpdatesTyped
    <3> QED
      BY <1>1, <3>1, UpdateKeepsTable DEF StoreTransaction, TypeOK
  <2>2. log' \in SUBSET Nat /\ clock' \in Nat
    BY <1>1 DEF StoreTransaction, TypeOK
  <2> QED
    BY <1>1, <2>1, <2>2, FinishTyped DEF StoreTransaction, TypeOK, State
<1>2. CASE CountChat(r)
  <2>1. sub' \in Seq(SubRow)
    <3>1. s \in DOMAIN sub => [sub[s] EXCEPT !.chats = @ + 1] \in SubRow
      BY RowsTyped, RowUpdatesTyped
    <3> QED
      BY <1>2, <3>1, UpdateKeepsTable DEF CountChat, TypeOK
  <2> QED
    BY <1>2, <2>1, FinishTyped DEF CountChat, TypeOK, State
<1>3. CASE ResetCycle(r)
  <2>1. request[r] \in ReaderState
    BY <1>3, ReaderHolds DEF ResetCycle, At
  <2>2. sub' \in Seq(SubRow)
    <3>1. request[r].now \in Nat
      BY <2>1 DEF ReaderState
    <3>2. s \in DOMAIN sub => Renewed(sub[s], request[r].now) \in SubRow
      BY <3>1, RowsTyped, RowUpdatesTyped
    <3> QED
      BY <1>3, <3>2, UpdateKeepsTable DEF ResetCycle, TypeOK
  <2>3. request' \in [Request -> State]
    BY <1>3, <2>1, FinishTyped, ReaderStepTyped DEF ResetCycle, AfterReset
  <2> QED
    BY <1>3, <2>2, <2>3 DEF ResetCycle, TypeOK, State
<1> QED
  BY <1>1, <1>2, <1>3

\* The turn's admission and the overage order.
LEMMA DecidingKeepsTypes ==
    ASSUME TypeOK, NEW r \in Request,
           \/ GuardChat(r) \/ CountOverage(r) \/ FindPending(r) \/ CreateOverageOrder(r)
           \/ \E s \in DOMAIN sub : NextExpired(r, s)
    PROVE  TypeOK'
<1> USE TablesAreFunctions
<1>0. ASSUME request[r] \in ReaderState, LeaveOverage(r)
      PROVE  request' \in [Request -> State]
  BY <1>0, FinishTyped, ReaderStepTyped DEF LeaveOverage
<1>1. CASE GuardChat(r)
  <2>1. request[r] \in ReaderState
    BY <1>1, ReaderHolds DEF GuardChat, At
  <2>2. CASE request[r].copy = NoCopy
    BY <1>1, <2>2, FinishTyped DEF GuardChat, TypeOK, State, Finish
  <2>3. CASE request[r].copy # NoCopy
    <3>1. request[r].copy \in Copy /\ request[r].copy.id \in Nat
      BY <2>1, <2>3 DEF ReaderState, Copy
    <3>2. [request[r] EXCEPT !.pc = "turn", !.row = request[r].copy.id] \in ReaderState
      BY <2>1, <3>1 DEF ReaderState
    <3>3. request' \in [Request -> State]
      BY <1>1, <3>2, GoToTyped DEF GuardChat, State
    <3> QED
      BY <1>1, <3>3 DEF GuardChat, TypeOK, State
  <2> QED
    BY <2>2, <2>3
<1>2. CASE CountOverage(r)
  <2>1. request[r] \in ReaderState
    BY <1>2, ReaderHolds DEF CountOverage, At
  <2>2. ASSUME NEW found \in SUBSET log, request[r].copy # NoCopy
        PROVE  [request[r] EXCEPT !.pc = "pending", !.charged = found] \in ReaderState
    <3>1. request[r].copy \in Copy /\ found \in SUBSET Nat
      BY <2>1, <2>2 DEF ReaderState, TypeOK
    <3> QED
      BY <2>1, <3>1 DEF ReaderState
  <2>3. request' \in [Request -> State]
    BY <1>0, <1>2, <2>1, <2>2, GoToTyped DEF CountOverage, State
  <2> QED
    BY <1>2, <2>3 DEF CountOverage, TypeOK, State
<1>3. CASE FindPending(r)
  <2>1. request[r] \in ReaderState
    BY <1>3, ReaderHolds DEF FindPending, At
  <2>2. request' \in [Request -> State]
    BY <1>0, <1>3, <2>1, ReaderStepTyped DEF FindPending, At
  <2> QED
    BY <1>3, <2>2 DEF FindPending, TypeOK, State
<1>4. CASE CreateOverageOrder(r)
  <2>1. request[r] \in ReaderState
    BY <1>4, ReaderHolds DEF CreateOverageOrder, At
  <2>2. request' \in [Request -> State]
    BY <1>0, <1>4, <2>1 DEF CreateOverageOrder
  <2>3. order' \in Seq(OrderRow)
    <3>1. request[r].copy \in Copy /\ request[r].charged \in SUBSET Nat
      BY <1>4, <2>1 DEF CreateOverageOrder, At, ReaderState
    <3>2. [type |-> "overage", plan |-> request[r].copy.plan, status |-> "pending",
           charged |-> request[r].charged] \in OrderRow
      BY <3>1 DEF OrderRow, Copy
    <3> QED
      BY <1>4, <3>2 DEF CreateOverageOrder, TypeOK
  <2> QED
    BY <1>4, <2>2, <2>3 DEF CreateOverageOrder, TypeOK, State
<1>5. ASSUME NEW s \in DOMAIN sub, NextExpired(r, s) PROVE TypeOK'
  <2>1. request[r] \in ReaderState
    BY <1>5, ReaderHolds DEF NextExpired, At
  <2>2. [request[r] EXCEPT !.pc = "miss", !.copy = NoCopy, !.charged = {}, !.row = s,
                           !.todo = @ \ {s}] \in ReaderState
    <3>1. s \in Nat /\ request[r].todo \ {s} \in SUBSET Nat
      BY <2>1, RowsTyped DEF ReaderState
    <3> QED
      BY <2>1, <3>1 DEF ReaderState
  <2> QED
    BY <1>5, <2>2, StartReadTyped DEF NextExpired, TypeOK, State
<1> QED
  BY <1>1, <1>2, <1>3, <1>4, <1>5

\* The first step of each call.
LEMMA StartKeepsTypes ==
    ASSUME TypeOK, NEW r \in Request, Start(r)
    PROVE  TypeOK'
<1> USE TablesAreFunctions
<1>1. ASSUME NEW p \in Plan, StartUpgrade(r, p) PROVE TypeOK'
  BY <1>1, ReadTyped, StartReadTyped DEF StartUpgrade, TypeOK, State, Reader
<1>2. ASSUME NEW p \in Plan, StartSetPlan(r, p) PROVE TypeOK'
  <2>1. ASSUME NEW s \in Nat PROVE Write("setPlan", "write", p, s, clock) \in State
    BY WriteTyped DEF TypeOK, State
  <2>2. PICK s \in Nat : \/ Finish(r) /\ UNCHANGED clock
                         \/ /\ GoTo(r, Write("setPlan", "write", p, s, clock))
                            /\ clock' = clock + 1
    BY <1>2 DEF StartSetPlan, Latest, WithStatus
  <2> QED
    BY <1>2, <2>1, <2>2, FinishTyped, GoToTyped DEF StartSetPlan, TypeOK, State
<1>3. ASSUME NEW o \in DOMAIN order, StartConfirm(r, o) PROVE TypeOK'
  <2>1. ASSUME NEW pc \in {"pay", "switch"}
        PROVE  Write("confirm", pc, order[o].plan, o, clock) \in State
    <3>1. order[o].plan \in Plan /\ o \in Nat /\ clock \in Nat
      BY RowsTyped DEF TypeOK, OrderRow
    <3> QED
      BY <3>1, WriteTyped DEF State
  <2> QED
    BY <1>3, <2>1, FinishTyped, GoToTyped DEF StartConfirm, TypeOK, State
<1>4. ASSUME NEW s \in DOMAIN sub, StartStore(r, s) PROVE TypeOK'
  <2>1. [Write("store", "write", sub[s].plan, s, 0) EXCEPT !.seen = sub[s].used] \in State
    <3>1. sub[s].plan \in Plan /\ sub[s].used \in Nat /\ s \in Nat
      BY RowsTyped DEF SubRow
    <3>2. Write("store", "write", sub[s].plan, s, 0) \in WriterState
      BY <3>1, WriteTyped
    <3> QED
      BY <3>1, <3>2 DEF WriterState, State
  <2> QED
    BY <1>4, <2>1, GoToTyped DEF StartStore, TypeOK, State
<1>5. CASE StartSuspend(r)
  <2>1. ASSUME NEW s \in DOMAIN sub PROVE Write("suspend", "write", sub[s].plan, s, 0) \in State
    BY <2>1, RowsTyped, WriteTyped DEF SubRow, State
  <2> QED
    BY <1>5, <2>1, GoToTyped DEF StartSuspend, TypeOK, State, Latest
<1>6. CASE StartActivate(r)
  <2>1. ASSUME NEW s \in DOMAIN sub PROVE Write("activate", "write", sub[s].plan, s, 0) \in State
    BY <2>1, RowsTyped, WriteTyped DEF SubRow, State
  <2> QED
    BY <1>6, <2>1, GoToTyped DEF StartActivate, TypeOK, State, Latest
<1>7. CASE StartChat(r)
  BY <1>7, ReadTyped, StartReadTyped DEF StartChat, TypeOK, State, Reader
<1>8. CASE StartOverage(r)
  BY <1>8, ReadTyped, StartReadTyped DEF StartOverage, TypeOK, State, Reader
<1>9. CASE StartCron(r)
  <2>1. [Read("cron", "none") EXCEPT !.pc = "next", !.todo = {s \in Active : sub[s].due},
                                     !.now = clock] \in ReaderState
    <3>1. {s \in Active : sub[s].due} \in SUBSET Nat /\ clock \in Nat
      BY RowsTyped DEF Active, WithStatus, TypeOK
    <3>2. Read("cron", "none") \in ReaderState
      BY ReadTyped DEF Reader
    <3> QED
      BY <3>1, <3>2 DEF Read, ReaderState
  <2> QED
    BY <1>9, <2>1, GoToTyped DEF StartCron, TypeOK, State
<1> QED
  BY <1>1, <1>2, <1>3, <1>4, <1>5, <1>6, <1>7, <1>8, <1>9 DEF Start

-----------------------------------------------------------------------------
(* The strengthening: what clocks, the nightly job and an open confirmation *)
(* refer to.                                                               *)

Running(r) == request[r] \in ReaderState \union WriterState

ClockAhead ==
    /\ clock > 0
    /\ \A s \in DOMAIN sub : sub[s].cycleStart < clock
    /\ \A r \in Request : Running(r) => request[r].now < clock

IsCron(r) == Running(r) /\ request[r].op = "cron"
DueIn(table, s, now) == s \in DOMAIN table /\ table[s].due /\ table[s].cycleStart < now
RowsDue(table, job) ==
    /\ \A s \in job.todo : DueIn(table, s, job.now)
    /\ job.pc # "next" => job.row \notin job.todo /\ DueIn(table, job.row, job.now)

\* One nightly job at most; the rows it has not reset yet are still due.
CronHolds ==
    \A r \in Request : IsCron(r) =>
        RowsDue(sub, request[r]) /\ \A q \in Request : IsCron(q) => q = r

Confirming(r) ==
    Running(r) /\ request[r].op = "confirm" /\ request[r].pc \in {"pay", "switch", "commit"}

\* An open confirmation knows its order's plan and kind.
ConfirmHolds ==
    \A r \in Request : Confirming(r) =>
        LET q == request[r] IN
        /\ q.row \in DOMAIN order /\ q.plan = order[q.row].plan
        /\ (q.pc = "pay") = (order[q.row].type = "overage")

IndInv == TypeOK /\ ClockAhead /\ CronHolds /\ ConfirmHolds

-----------------------------------------------------------------------------
(* What a step does to the subscriptions.                                  *)

RowKept(old, new) ==
    /\ new.plan = old.plan /\ new.paidBy = old.paidBy /\ new.cycleStart = old.cycleStart
    /\ new.used >= old.used /\ new.chats >= old.chats /\ (old.due => new.due)

\* No row is lost, no counter falls, new rows begin in the past.
TableGrows ==
    /\ DOMAIN sub \subseteq DOMAIN sub'
    /\ \A s \in DOMAIN sub : RowKept(sub[s], sub'[s])
    /\ \A s \in DOMAIN sub' : s \notin DOMAIN sub => sub'[s].cycleStart < clock'

LEMMA SameRowKept ==
    ASSUME NEW row \in SubRow, NEW status
    PROVE  /\ RowKept(row, row)
           /\ RowKept(row, [row EXCEPT !.status = status])
           /\ RowKept(row, [row EXCEPT !.used = @ + 1])
           /\ RowKept(row, [row EXCEPT !.chats = @ + 1])
           /\ RowKept(row, [row EXCEPT !.due = TRUE])
<1>1. row.used \in Nat /\ row.chats \in Nat
  BY DEF SubRow
<1> QED
  BY <1>1 DEF RowKept, SubRow

LEMMA SameTableGrows ==
    ASSUME TypeOK, UNCHANGED sub
    PROVE  TableGrows
  BY RowsTyped, SameRowKept DEF TableGrows

\* Writing one row.
LEMMA RowWriteGrows ==
    ASSUME TypeOK, NEW s, NEW row, sub' = [sub EXCEPT ![s] = row],
           s \in DOMAIN sub => RowKept(sub[s], row)
    PROVE  TableGrows
  BY RowsTyped, TablesAreFunctions, SameRowKept DEF TableGrows

\* Cancelling some rows and adding one.
LEMMA SwitchGrows ==
    ASSUME TypeOK, NEW S, NEW p, NEW now \in Nat, NEW o,
           sub' = Append(Cancel(S), NewSub(p, now, o)), now < clock'
    PROVE  TableGrows
<1> DEFINE new == Cancel(S)
<1>1. /\ new \in Seq(SubRow) /\ Len(new) = Len(sub)
      /\ \A s \in DOMAIN sub : new[s] = IF s \in S THEN [sub[s] EXCEPT !.status = "cancelled"]
                                        ELSE sub[s]
  BY CancelKeepsTable
<1>2. /\ DOMAIN sub' = 1..(Len(sub) + 1)
      /\ \A s \in DOMAIN sub : sub'[s] = new[s]
      /\ sub'[Len(sub) + 1] = NewSub(p, now, o)
  <2> HIDE DEF new
  <2> QED
    BY <1>1, TablesAreFunctions DEF new
<1>3. ASSUME NEW s \in DOMAIN sub PROVE RowKept(sub[s], sub'[s])
  <2>1. sub[s] \in SubRow /\ sub'[s] \in {sub[s], [sub[s] EXCEPT !.status = "cancelled"]}
    BY <1>1, <1>2, RowsTyped
  <2>2. RowKept(sub[s], sub[s]) /\ RowKept(sub[s], [sub[s] EXCEPT !.status = "cancelled"])
    BY <2>1, SameRowKept
  <2> QED
    BY <2>1, <2>2
<1>4. sub'[Len(sub) + 1].cycleStart < clock'
  BY <1>2 DEF NewSub
<1> QED
  BY <1>2, <1>3, <1>4, TablesAreFunctions DEF TableGrows

\* Every step but the nightly reset.
LEMMA StepGrowsTable ==
    ASSUME IndInv, [Next]_vars
    PROVE  TableGrows \/ \E r \in Request : ResetCycle(r)
<1> USE DEF IndInv
<1>1. ASSUME NEW r \in Request, Start(r) PROVE UNCHANGED sub
  BY <1>1 DEF Start, StartUpgrade, StartSetPlan, StartConfirm, StartStore, StartSuspend,
     StartActivate, StartChat, StartOverage, StartCron, StartRead
<1>2. ASSUME NEW r \in Request, Continue(r) PROVE TableGrows \/ ResetCycle(r)
  <2>1. CASE CommitSwitch(r)
    <3>1. request[r] \in WriterState
      BY <2>1, WriterHolds DEF CommitSwitch, At
    <3>2. request[r].now \in Nat /\ request[r].now < clock'
      BY <2>1, <3>1 DEF CommitSwitch, ClockAhead, Running, WriterState
    <3> QED
      BY <2>1, <3>2, SwitchGrows DEF CommitSwitch
  <2>2. CASE CommitSetPlan(r)
    <3>1. request[r] \in WriterState
      BY <2>2, WriterHolds DEF CommitSetPlan, At
    <3>2. request[r].now \in Nat /\ request[r].now < clock'
      BY <2>2, <3>1 DEF CommitSetPlan, ClockAhead, Running, WriterState
    <3> QED
      BY <2>2, <3>2, SwitchGrows DEF CommitSetPlan
  <2>3. CASE SuspendTenant(r) \/ ActivateTenant(r)
    BY <2>3, RowsTyped, SameRowKept, RowWriteGrows DEF SuspendTenant, ActivateTenant, SetStatus
  <2>4. CASE StoreTransaction(r)
    BY <2>4, RowsTyped, SameRowKept, RowWriteGrows DEF StoreTransaction
  <2>5. CASE CountChat(r)
    BY <2>5, RowsTyped, SameRowKept, RowWriteGrows DEF CountChat
  <2>6. CASE \/ ReadActive(r) \/ FillCache(r) \/ FillFails(r) \/ NightlyRefused(r)
             \/ Invalidate(r) \/ CreateUpgradeOrder(r)
             \/ PayOverage(r) \/ BeginSwitch(r) \/ GuardChat(r) \/ CountOverage(r)
             \/ FindPending(r) \/ CreateOverageOrder(r)
             \/ \E s \in DOMAIN sub : NextExpired(r, s)
    BY <2>6, SameTableGrows DEF ReadActive, FillCache, FillFails, NightlyRefused, Invalidate,
       CreateUpgradeOrder,
       PayOverage, BeginSwitch, GuardChat, CountOverage, FindPending, CreateOverageOrder,
       NextExpired, StartRead
  <2> QED
    BY <1>2, <2>1, <2>2, <2>3, <2>4, <2>5, <2>6 DEF Continue
<1>3. ASSUME NEW s \in DOMAIN sub, CycleElapses(s) PROVE TableGrows
  BY <1>3, RowsTyped, SameRowKept, RowWriteGrows DEF CycleElapses
<1> QED
  BY <1>1, <1>2, <1>3, SameTableGrows DEF Next, RequestDies, ExpireCache

\* The nightly reset writes one due row of an earlier cycle.
LEMMA ResetEffect ==
    ASSUME IndInv, NEW r \in Request, ResetCycle(r)
    PROVE  /\ IsCron(r) /\ request[r].row \notin request[r].todo
           /\ DueIn(sub, request[r].row, request[r].now) /\ request[r].now < clock
           /\ sub' = [sub EXCEPT ![request[r].row] = Renewed(@, request[r].now)]
           /\ UNCHANGED <<order, cache, clock>>
<1>1. request[r] \in ReaderState /\ request[r].op = "cron" /\ request[r].pc = "reset"
  BY ReaderHolds DEF ResetCycle, At, IndInv
<1>2. IsCron(r)
  BY <1>1 DEF IsCron, Running
<1> QED
  BY <1>1, <1>2 DEF IndInv, CronHolds, RowsDue, ClockAhead, Running, ResetCycle

-----------------------------------------------------------------------------
(* What a step does to one request.                                        *)

NowKnown(r, now) ==
    \/ now = 0
    \/ now = clock /\ clock' = clock + 1
    \/ Running(r) /\ now = request[r].now

RequestMoves(r) ==
    /\ \A q \in Request : q # r => request'[q] = request[q]
    /\ request'[r] \in ReaderState \union WriterState => NowKnown(r, request'[r].now)

LEMMA StatesDiffer ==
    /\ ReaderState \intersect WriterState = {}
    /\ Idle \notin ReaderState \union WriterState /\ Done \notin ReaderState \union WriterState
  BY DEF ReaderState, WriterState, Idle, Done

LEMMA FinishMoves ==
    ASSUME TypeOK, NEW r \in Request, Finish(r)
    PROVE  RequestMoves(r)
  BY StatesDiffer DEF Finish, GoTo, RequestMoves, TypeOK

\* Moving on with the same clock.
LEMMA SameHoldsMoves ==
    ASSUME TypeOK, NEW r \in Request, Running(r), NEW state, GoTo(r, state),
           state \in ReaderState => request[r] \in ReaderState /\ state.copy = request[r].copy,
           state.now = request[r].now
    PROVE  RequestMoves(r)
  BY DEF GoTo, RequestMoves, NowKnown, TypeOK

LEMMA StepMoves ==
    ASSUME TypeOK, NEW r \in Request, Running(r), NEW pc, Step(r, pc)
    PROVE  RequestMoves(r)
<1> DEFINE state == [request[r] EXCEPT !.pc = pc]
<1>1. CASE request[r] \in ReaderState
  <2>1. state.copy = request[r].copy /\ state.now = request[r].now
    BY <1>1 DEF ReaderState
  <2> QED
    BY <1>1, <2>1, SameHoldsMoves DEF Step
<1>2. CASE request[r] \in WriterState
  <2>1. state.now = request[r].now /\ "seen" \in DOMAIN state
    BY <1>2 DEF WriterState
  <2>2. state \notin ReaderState
    BY <2>1 DEF ReaderState
  <2> QED
    BY <1>2, <2>1, <2>2, SameHoldsMoves DEF Step
<1> QED
  BY <1>1, <1>2 DEF Running

\* A writer starts with the clock or without.
LEMMA WriteMoves ==
    ASSUME TypeOK, NEW r \in Request, NEW op, NEW pc, NEW p, NEW s, NEW now,
           GoTo(r, Write(op, pc, p, s, now)), now = 0 \/ (now = clock /\ clock' = clock + 1)
    PROVE  RequestMoves(r)
<1> DEFINE state == Write(op, pc, p, s, now)
<1>1. state.now = now /\ "seen" \in DOMAIN state
  BY DEF Write
<1>2. state \notin ReaderState
  BY <1>1 DEF ReaderState
<1> QED
  BY <1>1, <1>2 DEF GoTo, RequestMoves, NowKnown, TypeOK

\* A reader finds the cache or nothing yet.
LEMMA StartReadMoves ==
    ASSUME TypeOK, NEW r \in Request, NEW state \in ReaderState, StartRead(r, state),
           state.copy = NoCopy, NowKnown(r, state.now)
    PROVE  RequestMoves(r)
<1> DEFINE next == [state EXCEPT !.pc = "found", !.copy = cache]
<1>1. next.copy = cache /\ next.now = state.now
  BY DEF ReaderState
<1> QED
  BY <1>1 DEF StartRead, GoTo, RequestMoves, TypeOK

\* The first steps of a request.
LEMMA StartsMove ==
    ASSUME TypeOK, NEW r \in Request, Start(r)
    PROVE  RequestMoves(r)
<1>1. ASSUME NEW op \in Reader, NEW p \in Plan \union {"none"}, op = "upgrade" => p \in Plan,
             StartRead(r, Read(op, p))
      PROVE  RequestMoves(r)
  BY <1>1, ReadTyped, StartReadMoves DEF Read, NowKnown
<1>2. ASSUME NEW p \in Plan, StartUpgrade(r, p) PROVE RequestMoves(r)
  BY <1>1, <1>2 DEF StartUpgrade, Reader
<1>3. CASE StartChat(r) \/ StartOverage(r)
  BY <1>1, <1>3 DEF StartChat, StartOverage, Reader
<1>4. ASSUME NEW p \in Plan, StartSetPlan(r, p) PROVE RequestMoves(r)
  BY <1>4, FinishMoves, WriteMoves DEF StartSetPlan
<1>5. ASSUME NEW o \in DOMAIN order, StartConfirm(r, o) PROVE RequestMoves(r)
  <2>1. CASE order[o].status = "paid"
    BY <1>5, <2>1, FinishMoves DEF StartConfirm
  <2>2. CASE order[o].status # "paid"
    BY <1>5, <2>2, WriteMoves DEF StartConfirm
  <2> QED
    BY <2>1, <2>2
<1>6. ASSUME NEW s \in DOMAIN sub, StartStore(r, s) PROVE RequestMoves(r)
  <2> DEFINE state == [Write("store", "write", sub[s].plan, s, 0) EXCEPT !.seen = sub[s].used]
  <2>1. state.now = 0 /\ "seen" \in DOMAIN state
    BY DEF Write
  <2>2. state \notin ReaderState
    BY <2>1 DEF ReaderState
  <2> QED
    BY <1>6, <2>1, <2>2 DEF StartStore, GoTo, RequestMoves, NowKnown, TypeOK
<1>7. CASE StartSuspend(r)
  <2>1. PICK s \in Latest(DOMAIN sub) :
            GoTo(r, IF sub[s].status = "suspended" THEN Done
                    ELSE Write("suspend", "write", sub[s].plan, s, 0))
    BY <1>7 DEF StartSuspend
  <2>2. CASE Finish(r)
    BY <2>2, FinishMoves
  <2>3. ASSUME NEW p, GoTo(r, Write("suspend", "write", p, s, 0)) PROVE RequestMoves(r)
    <3> DEFINE state == Write("suspend", "write", p, s, 0)
    <3>1. state.now = 0 /\ "seen" \in DOMAIN state
      BY DEF Write
    <3>2. state \notin ReaderState
      BY <3>1 DEF ReaderState
    <3> QED
      BY <2>3, <3>1, <3>2 DEF GoTo, RequestMoves, NowKnown, TypeOK
  <2> QED
    BY <2>1, <2>2, <2>3 DEF Finish
<1>8. CASE StartActivate(r)
  <2>1. PICK s \in Latest(DOMAIN sub) :
            GoTo(r, IF sub[s].status = "active" THEN Done
                    ELSE Write("activate", "write", sub[s].plan, s, 0))
    BY <1>8 DEF StartActivate
  <2>2. CASE Finish(r)
    BY <2>2, FinishMoves
  <2>3. ASSUME NEW p, GoTo(r, Write("activate", "write", p, s, 0)) PROVE RequestMoves(r)
    <3> DEFINE state == Write("activate", "write", p, s, 0)
    <3>1. state.now = 0 /\ "seen" \in DOMAIN state
      BY DEF Write
    <3>2. state \notin ReaderState
      BY <3>1 DEF ReaderState
    <3> QED
      BY <2>3, <3>1, <3>2 DEF GoTo, RequestMoves, NowKnown, TypeOK
  <2> QED
    BY <2>1, <2>2, <2>3 DEF Finish
<1>9. CASE StartCron(r)
  <2> DEFINE state == [Read("cron", "none") EXCEPT !.pc = "next", !.now = clock,
                                                   !.todo = {s \in Active : sub[s].due}]
  <2>1. state.copy = NoCopy /\ state.now = clock
    BY DEF Read
  <2> QED
    BY <1>9, <2>1 DEF StartCron, GoTo, RequestMoves, NowKnown, TypeOK
<1> QED
  BY <1>2, <1>3, <1>4, <1>5, <1>6, <1>7, <1>8, <1>9 DEF Start

\* The later ones.
LEMMA ContinueMoves ==
    ASSUME TypeOK, NEW r \in Request, Continue(r)
    PROVE  RequestMoves(r)
<1>1. ASSUME request[r].pc \in {"miss", "fill", "found", "pending", "create", "reset", "next",
                                "turn", "pay", "switch", "commit", "write", "invalidate"}
      PROVE  Running(r)
  BY <1>1, ReaderHolds, WriterHolds DEF Running
<1>2. CASE ReadActive(r)
  <2>1. request[r] \in ReaderState
    BY <1>2, ReaderHolds DEF ReadActive, At
  <2>2. CASE Step(r, "found")
    BY <2>1, <2>2, StepMoves DEF Running
  <2>3. ASSUME NEW s \in Latest(Active),
               GoTo(r, [request[r] EXCEPT !.pc = "fill", !.copy = CopyOf(s)])
        PROVE  RequestMoves(r)
    <3> DEFINE state == [request[r] EXCEPT !.pc = "fill", !.copy = CopyOf(s)]
    <3>1. state.copy = CopyOf(s) /\ state.now = request[r].now /\ s \in DOMAIN sub
      BY <2>1 DEF ReaderState, Latest, Active, WithStatus
    <3> QED
      BY <2>1, <2>3, <3>1 DEF GoTo, RequestMoves, NowKnown, Running, TypeOK
  <2> QED
    BY <1>2, <2>2, <2>3 DEF ReadActive
<1>3. CASE FillCache(r) \/ FillFails(r) \/ CommitSwitch(r) \/ CommitSetPlan(r)
  BY <1>1, <1>3, StepMoves DEF FillCache, FillFails, CommitSwitch, CommitSetPlan, At
<1>4. CASE \/ Invalidate(r) \/ CreateUpgradeOrder(r) \/ PayOverage(r) \/ SuspendTenant(r)
           \/ ActivateTenant(r) \/ StoreTransaction(r) \/ CountChat(r)
  BY <1>4, FinishMoves DEF Invalidate, CreateUpgradeOrder, PayOverage, SuspendTenant,
     ActivateTenant, SetStatus, StoreTransaction, CountChat
<1>5. CASE BeginSwitch(r)
  <2> DEFINE state == [request[r] EXCEPT !.pc = "commit", !.doomed = Active]
  <2>1. request[r] \in WriterState
    BY <1>5, WriterHolds DEF BeginSwitch, At
  <2>2. state.now = request[r].now /\ "seen" \in DOMAIN state
    BY <2>1 DEF WriterState
  <2>3. state \notin ReaderState
    BY <2>2 DEF ReaderState
  <2> QED
    BY <1>5, <2>1, <2>2, <2>3, SameHoldsMoves DEF BeginSwitch, Running
<1>6. CASE GuardChat(r)
  <2> DEFINE state == [request[r] EXCEPT !.pc = "turn", !.row = request[r].copy.id]
  <2>1. request[r] \in ReaderState
    BY <1>6, ReaderHolds DEF GuardChat, At
  <2>2. state.copy = request[r].copy /\ state.now = request[r].now
    BY <2>1 DEF ReaderState
  <2> QED
    BY <1>6, <2>1, <2>2, SameHoldsMoves, FinishMoves DEF GuardChat, Running, Finish
<1>7. ASSUME Running(r), LeaveOverage(r) PROVE RequestMoves(r)
  BY <1>7, FinishMoves, StepMoves DEF LeaveOverage
<1>8. CASE CountOverage(r)
  <2>1. request[r] \in ReaderState
    BY <1>8, ReaderHolds DEF CountOverage, At
  <2>2. ASSUME NEW found, GoTo(r, [request[r] EXCEPT !.pc = "pending", !.charged = found])
        PROVE  RequestMoves(r)
    <3> DEFINE state == [request[r] EXCEPT !.pc = "pending", !.charged = found]
    <3>1. state.copy = request[r].copy /\ state.now = request[r].now
      BY <2>1 DEF ReaderState
    <3> QED
      BY <2>1, <2>2, <3>1, SameHoldsMoves DEF Running
  <2> QED
    BY <1>7, <1>8, <2>1, <2>2 DEF CountOverage, Running
<1>9. CASE FindPending(r) \/ CreateOverageOrder(r)
  BY <1>1, <1>7, <1>9, StepMoves DEF FindPending, CreateOverageOrder, At
<1>10. CASE ResetCycle(r) \/ NightlyRefused(r)
  BY <1>1, <1>10, FinishMoves, StepMoves DEF ResetCycle, NightlyRefused, AfterReset, At
<1>11. ASSUME NEW s \in DOMAIN sub, NextExpired(r, s) PROVE RequestMoves(r)
  <2> DEFINE state == [request[r] EXCEPT !.pc = "miss", !.copy = NoCopy, !.charged = {},
                                         !.row = s, !.todo = @ \ {s}]
  <2>1. request[r] \in ReaderState
    BY <1>11, ReaderHolds DEF NextExpired, At
  <2>2. s \in Nat /\ request[r].todo \ {s} \in SUBSET Nat
    BY <2>1, RowsTyped DEF ReaderState
  <2>3. state \in ReaderState /\ state.copy = NoCopy /\ state.now = request[r].now
    BY <2>1, <2>2 DEF ReaderState
  <2> QED
    BY <1>11, <2>1, <2>3, StartReadMoves DEF NextExpired, NowKnown, Running
<1> QED
  BY <1>2, <1>3, <1>4, <1>5, <1>6, <1>8, <1>9, <1>10, <1>11 DEF Continue

-----------------------------------------------------------------------------
(* The invariant is kept.                                                  *)

LEMMA ClockGrows ==
    ASSUME TypeOK, [Next]_vars
    PROVE  clock' = clock \/ clock' = clock + 1
<1>1. ASSUME NEW r \in Request, Start(r) PROVE clock' = clock \/ clock' = clock + 1
  BY <1>1 DEF Start, StartUpgrade, StartSetPlan, StartConfirm, StartStore, StartSuspend,
     StartActivate, StartChat, StartOverage, StartCron, StartRead
<1>2. ASSUME NEW r \in Request, Continue(r) PROVE clock' = clock \/ clock' = clock + 1
  BY <1>2 DEF Continue, ReadActive, FillCache, FillFails, NightlyRefused, Invalidate,
     CreateUpgradeOrder, PayOverage,
     BeginSwitch, CommitSwitch, CommitSetPlan, SuspendTenant, ActivateTenant, SetStatus,
     StoreTransaction, GuardChat, CountChat, CountOverage, FindPending, CreateOverageOrder,
     ResetCycle, NextExpired, StartRead
<1> QED
  BY <1>1, <1>2 DEF Next, RequestDies, CycleElapses, ExpireCache

\* Requests either stand still or one of them moves.
LEMMA OneMoves ==
    ASSUME TypeOK, [Next]_vars
    PROVE  UNCHANGED request \/ \E r \in Request : RequestMoves(r)
<1>1. ASSUME NEW r \in Request, RequestDies(r) PROVE RequestMoves(r)
  BY <1>1, FinishMoves DEF RequestDies
<1> QED
  BY <1>1, StartsMove, ContinueMoves DEF Next, CycleElapses, ExpireCache

LEMMA ClockStep ==
    ASSUME IndInv, TypeOK', [Next]_vars
    PROVE  ClockAhead'
<1> USE DEF IndInv
<1>1. clock \in Nat /\ clock > 0 /\ clock' \in Nat /\ clock' >= clock
  BY ClockGrows DEF TypeOK, ClockAhead
<1>2. \A s \in DOMAIN sub' : sub'[s].cycleStart < clock'
  <2>0. \A s \in DOMAIN sub : sub[s].cycleStart \in Nat /\ sub[s].cycleStart < clock
    BY RowsTyped DEF ClockAhead, SubRow
  <2>1. CASE TableGrows
    BY <1>1, <2>0, <2>1 DEF TableGrows, RowKept
  <2>2. ASSUME NEW r \in Request, ResetCycle(r) PROVE <1>2
    <3> DEFINE row == request[r].row
               now == request[r].now
    <3>1. /\ row \in DOMAIN sub /\ now < clock
          /\ sub' = [sub EXCEPT ![row] = Renewed(@, now)] /\ clock' = clock
      BY <2>2, ResetEffect DEF DueIn
    <3>2. sub[row] \in SubRow
      BY <3>1, RowsTyped
    <3>3. Renewed(sub[row], now).cycleStart = now
      BY <3>2 DEF Renewed, SubRow
    <3> QED
      BY <2>0, <3>1, <3>3, TablesAreFunctions
  <2> QED
    BY <2>1, <2>2, StepGrowsTable
<1>3. ASSUME NEW q \in Request, Running(q)' PROVE request'[q].now < clock'
  <2>1. Running(q) => request[q].now \in Nat /\ request[q].now < clock
    BY DEF ClockAhead, Running, ReaderState, WriterState
  <2>2. CASE request'[q] = request[q]
    BY <1>1, <1>3, <2>1, <2>2 DEF Running
  <2>3. CASE request'[q] # request[q]
    <3>1. NowKnown(q, request'[q].now)
      BY <1>3, <2>3, OneMoves DEF RequestMoves, Running
    <3> QED
      BY <1>1, <2>1, <3>1 DEF NowKnown
  <2> QED
    BY <2>2, <2>3
<1> QED
  BY <1>1, <1>2, <1>3 DEF ClockAhead

\* What the nightly job's next step leaves of its list.
CronMoves(r) ==
    /\ IsCron(r) /\ request'[r].now = request[r].now
    /\ \/ /\ request[r].pc = "next" /\ request'[r].row \in request[r].todo
          /\ request'[r].todo = request[r].todo \ {request'[r].row}
       \/ /\ request[r].pc # "next" /\ request'[r].row = request[r].row
          /\ request'[r].todo = request[r].todo

LEMMA CronContinues ==
    ASSUME TypeOK, NEW r \in Request, Continue(r), IsCron(r)'
    PROVE  CronMoves(r)
<1>0. IsCron(r)' => request'[r] \notin {Idle, Done} /\ request'[r].op = "cron"
  BY StatesDiffer DEF IsCron, Running
<1>1. ASSUME request[r] \in ReaderState, request[r].pc # "next", NEW pc, Step(r, pc)
      PROVE  CronMoves(r)
  <2> DEFINE state == [request[r] EXCEPT !.pc = pc]
  <2>1. /\ state.op = request[r].op /\ state.now = request[r].now
        /\ state.row = request[r].row /\ state.todo = request[r].todo
    BY <1>1 DEF ReaderState
  <2>2. request'[r] = state
    BY <1>1 DEF Step, GoTo, TypeOK
  <2> QED
    BY <1>0, <1>1, <2>1, <2>2 DEF CronMoves, IsCron, Running
<1>2. ~Finish(r)
  BY <1>0 DEF Finish, GoTo, TypeOK
<1>3. CASE ReadActive(r)
  <2>1. request[r] \in ReaderState /\ request[r].pc # "next"
    BY <1>3, ReaderHolds DEF ReadActive, At
  <2>2. ASSUME NEW s \in Latest(Active),
               GoTo(r, [request[r] EXCEPT !.pc = "fill", !.copy = CopyOf(s)])
        PROVE  CronMoves(r)
    <3> DEFINE state == [request[r] EXCEPT !.pc = "fill", !.copy = CopyOf(s)]
    <3>1. /\ state.op = request[r].op /\ state.now = request[r].now
          /\ state.row = request[r].row /\ state.todo = request[r].todo
      BY <2>1 DEF ReaderState
    <3>2. request'[r] = state
      BY <2>2 DEF GoTo, TypeOK
    <3> QED
      BY <1>0, <2>1, <3>1, <3>2 DEF CronMoves, IsCron, Running
  <2> QED
    BY <1>1, <1>3, <2>1, <2>2 DEF ReadActive
<1>4. CASE \/ FillCache(r) \/ FillFails(r) \/ NightlyRefused(r)
           \/ FindPending(r) \/ CreateOverageOrder(r) \/ ResetCycle(r)
  <2>1. request[r] \in ReaderState /\ request[r].pc # "next"
    BY <1>4, ReaderHolds DEF FillCache, FillFails, NightlyRefused, FindPending,
       CreateOverageOrder, ResetCycle, At
  <2> QED
    BY <1>1, <1>2, <1>4, <2>1 DEF FillCache, FillFails, NightlyRefused, FindPending,
       CreateOverageOrder, ResetCycle,
       LeaveOverage, AfterReset
<1>5. CASE CountOverage(r)
  <2>1. request[r] \in ReaderState /\ request[r].pc # "next"
    BY <1>5, ReaderHolds DEF CountOverage, At
  <2>2. ASSUME NEW found, GoTo(r, [request[r] EXCEPT !.pc = "pending", !.charged = found])
        PROVE  CronMoves(r)
    <3> DEFINE state == [request[r] EXCEPT !.pc = "pending", !.charged = found]
    <3>1. /\ state.op = request[r].op /\ state.now = request[r].now
          /\ state.row = request[r].row /\ state.todo = request[r].todo
      BY <2>1 DEF ReaderState
    <3>2. request'[r] = state
      BY <2>2 DEF GoTo, TypeOK
    <3> QED
      BY <1>0, <2>1, <3>1, <3>2 DEF CronMoves, IsCron, Running
  <2> QED
    BY <1>1, <1>2, <1>5, <2>1, <2>2 DEF CountOverage, LeaveOverage
<1>6. ASSUME NEW s \in DOMAIN sub, NextExpired(r, s) PROVE CronMoves(r)
  <2> DEFINE state == [request[r] EXCEPT !.pc = "miss", !.copy = NoCopy, !.charged = {},
                                         !.row = s, !.todo = @ \ {s}]
  <2>1. /\ request[r] \in ReaderState /\ request[r].op = "cron" /\ request[r].pc = "next"
        /\ s \in request[r].todo
    BY <1>6, ReaderHolds DEF NextExpired, At
  <2>2. request'[r] \in {state, [state EXCEPT !.pc = "found", !.copy = cache]}
    BY <1>6 DEF NextExpired, StartRead, GoTo, TypeOK
  <2>3. /\ state.now = request[r].now /\ state.row = s /\ state.todo = request[r].todo \ {s}
        /\ [state EXCEPT !.pc = "found", !.copy = cache].now = request[r].now
        /\ [state EXCEPT !.pc = "found", !.copy = cache].row = s
        /\ [state EXCEPT !.pc = "found", !.copy = cache].todo = request[r].todo \ {s}
    BY <2>1 DEF ReaderState
  <2> HIDE DEF state
  <2> QED
    BY <2>1, <2>2, <2>3 DEF CronMoves, IsCron, Running
<1>7. CASE CommitSwitch(r) \/ CommitSetPlan(r) \/ BeginSwitch(r)
  <2>1. request[r] \in WriterState
    BY <1>7, WriterHolds DEF CommitSwitch, CommitSetPlan, BeginSwitch, At
  <2>2. request'[r].op = request[r].op /\ request[r].op # "cron"
    BY <1>7, <2>1 DEF CommitSwitch, CommitSetPlan, BeginSwitch, Step, GoTo, WriterState, TypeOK
  <2> QED
    BY <1>0, <2>2
<1>8. CASE GuardChat(r)
  <2>1. request[r] \in ReaderState /\ request[r].op = "chat"
    BY <1>8, ReaderHolds DEF GuardChat, At
  <2>2. request'[r] = Done \/ request'[r] = [request[r] EXCEPT !.pc = "turn",
                                                               !.row = request[r].copy.id]
    BY <1>8 DEF GuardChat, GoTo, TypeOK
  <2>3. [request[r] EXCEPT !.pc = "turn", !.row = request[r].copy.id].op = "chat"
    BY <2>1 DEF ReaderState
  <2> QED
    BY <1>0, <2>2, <2>3
<1> QED
  BY <1>2, <1>3, <1>4, <1>5, <1>6, <1>7, <1>8 DEF Continue, Invalidate, CreateUpgradeOrder,
     PayOverage, SuspendTenant, ActivateTenant, SetStatus, StoreTransaction, CountChat

LEMMA CronStarts ==
    ASSUME IndInv, NEW r \in Request, Start(r), IsCron(r)'
    PROVE  /\ \A q \in Request : ~IsCron(q)
           /\ RowsDue(sub, request'[r])
<1> USE DEF IndInv
<1>0. request'[r] \notin {Idle, Done} /\ request'[r].op = "cron"
  BY StatesDiffer DEF IsCron, Running
<1>1. CASE StartCron(r)
  <2> DEFINE state == [Read("cron", "none") EXCEPT !.pc = "next", !.now = clock,
                                                   !.todo = {s \in Active : sub[s].due}]
  <2>1. state.pc = "next" /\ state.now = clock /\ state.todo = {s \in Active : sub[s].due}
    BY DEF Read
  <2>2. request'[r] = state
    BY <1>1 DEF StartCron, GoTo, TypeOK
  <2>3. \A s \in Active : s \in DOMAIN sub /\ sub[s].cycleStart < clock
    BY DEF Active, WithStatus, ClockAhead
  <2>4. RowsDue(sub, state)
    <3> HIDE DEF state
    <3> QED
      BY <2>1, <2>3 DEF RowsDue, DueIn
  <2>5. \A q \in Request : ~IsCron(q)
    BY <1>1, StatesDiffer DEF StartCron, IsCron, Running
  <2> QED
    BY <2>2, <2>4, <2>5
<1>2. ASSUME NEW op, NEW p, op # "cron", StartRead(r, Read(op, p)) PROVE FALSE
  <2>1. Read(op, p).op = op /\ [Read(op, p) EXCEPT !.pc = "found", !.copy = cache].op = op
    BY DEF Read
  <2> QED
    BY <1>0, <1>2, <2>1 DEF StartRead, GoTo, TypeOK
<1>3. ASSUME NEW op, NEW pc, NEW p, NEW s, NEW now, op # "cron",
             GoTo(r, Write(op, pc, p, s, now))
      PROVE  FALSE
  BY <1>0, <1>3 DEF Write, GoTo, TypeOK
<1>4. ~Finish(r)
  BY <1>0 DEF Finish, GoTo, TypeOK
<1>5. ASSUME NEW p \in Plan, StartUpgrade(r, p) PROVE FALSE
  BY <1>2, <1>5 DEF StartUpgrade
<1>6. CASE StartChat(r) \/ StartOverage(r)
  BY <1>2, <1>6 DEF StartChat, StartOverage
<1>7. ASSUME NEW p \in Plan, StartSetPlan(r, p) PROVE FALSE
  BY <1>3, <1>4, <1>7 DEF StartSetPlan
<1>8. ASSUME NEW o \in DOMAIN order, StartConfirm(r, o) PROVE FALSE
  BY <1>3, <1>4, <1>8 DEF StartConfirm
<1>9. ASSUME NEW s \in DOMAIN sub, StartStore(r, s) PROVE FALSE
  BY <1>0, <1>9 DEF StartStore, Write, GoTo, TypeOK
<1>10. CASE StartSuspend(r) \/ StartActivate(r)
  <2>1. PICK s \in DOMAIN sub, op \in {"suspend", "activate"} :
            Finish(r) \/ GoTo(r, Write(op, "write", sub[s].plan, s, 0))
    BY <1>10 DEF StartSuspend, StartActivate, Finish, Latest
  <2>2. Write(op, "write", sub[s].plan, s, 0).op = op
    BY DEF Write
  <2> QED
    BY <1>0, <1>4, <2>1, <2>2 DEF GoTo, TypeOK
<1> QED
  BY <1>1, <1>5, <1>6, <1>7, <1>8, <1>9, <1>10 DEF Start

LEMMA CronStep ==
    ASSUME IndInv, TypeOK', [Next]_vars
    PROVE  CronHolds'
<1> USE DEF IndInv
<1>1. ASSUME NEW job, RowsDue(sub, job), TableGrows PROVE RowsDue(sub', job)
  BY <1>1 DEF RowsDue, DueIn, TableGrows, RowKept
<1>2. ASSUME NEW r \in Request, CronMoves(r), RowsDue(sub, request[r])
      PROVE  RowsDue(sub, request'[r])
  BY <1>2 DEF CronMoves, RowsDue
<1>3. ASSUME NEW r \in Request, Continue(r), NEW q \in Request, IsCron(q)'
      PROVE  IsCron(q) /\ RowsDue(sub, request'[q])
  <2>1. CASE q = r
    BY <1>2, <1>3, <2>1, CronContinues DEF CronHolds, CronMoves
  <2>2. CASE q # r
    BY <1>3, <2>2, ContinueMoves DEF CronHolds, RequestMoves, IsCron, Running
  <2> QED
    BY <2>1, <2>2
<1>4. ASSUME NEW r \in Request, Continue(r), TableGrows PROVE CronHolds'
  BY <1>1, <1>3, <1>4 DEF CronHolds
<1>5. ASSUME NEW r \in Request, ResetCycle(r) PROVE CronHolds'
  <2>1. /\ IsCron(r) /\ request[r].row \notin request[r].todo /\ request[r].pc = "reset"
        /\ sub' = [sub EXCEPT ![request[r].row] = Renewed(@, request[r].now)]
    BY <1>5, ResetEffect DEF ResetCycle, At
  <2>2. Continue(r)
    BY <1>5 DEF Continue
  <2>3. ASSUME NEW q \in Request, IsCron(q)' PROVE q = r
    BY <1>3, <2>1, <2>2, <2>3 DEF CronHolds
  <2>4. ASSUME IsCron(r)' PROVE RowsDue(sub', request'[r])
    <3>1. RowsDue(sub, request'[r]) /\ CronMoves(r)
      BY <1>3, <2>2, <2>4, CronContinues
    <3>2. request'[r].todo = request[r].todo
      BY <2>1, <3>1 DEF CronMoves
    <3>3. request'[r].pc = "next"
      <4>1. Step(r, "next")
        BY <1>5, <2>4, StatesDiffer DEF ResetCycle, AfterReset, Finish, GoTo, TypeOK, IsCron,
           Running
      <4>2. request[r] \in ReaderState
        BY <1>5, ReaderHolds DEF ResetCycle, At
      <4> QED
        BY <4>1, <4>2 DEF Step, GoTo, TypeOK, ReaderState
    <3> QED
      BY <2>1, <3>1, <3>2, <3>3, TablesAreFunctions DEF RowsDue, DueIn
  <2> QED
    BY <2>3, <2>4 DEF CronHolds
<1>6. ASSUME NEW r \in Request, Start(r), TableGrows PROVE CronHolds'
  <2>1. ASSUME NEW q \in Request, IsCron(q)', q # r
        PROVE  IsCron(q) /\ request'[q] = request[q]
    BY <1>6, <2>1, StartsMove DEF RequestMoves, IsCron, Running
  <2>2. CASE IsCron(r)'
    BY <1>1, <1>6, <2>1, <2>2, CronStarts DEF CronHolds
  <2>3. CASE ~IsCron(r)'
    BY <1>1, <1>6, <2>1, <2>3 DEF CronHolds
  <2> QED
    BY <2>2, <2>3
<1>7. ASSUME NEW r \in Request, RequestDies(r), TableGrows PROVE CronHolds'
  <2>1. ~IsCron(r)'
    BY <1>7, StatesDiffer DEF RequestDies, Finish, GoTo, IsCron, Running, TypeOK
  <2>2. ASSUME NEW q \in Request, IsCron(q)', q # r
        PROVE  IsCron(q) /\ request'[q] = request[q]
    BY <1>7, <2>2, FinishMoves DEF RequestDies, RequestMoves, IsCron, Running
  <2> QED
    BY <1>1, <1>7, <2>1, <2>2 DEF CronHolds
<1>8. CASE UNCHANGED request /\ TableGrows
  BY <1>1, <1>8 DEF CronHolds, IsCron, Running
<1> QED
  BY <1>4, <1>5, <1>6, <1>7, <1>8, StepGrowsTable DEF Next, CycleElapses, ExpireCache

-----------------------------------------------------------------------------
(* Orders.                                                                 *)

Granted(table, o, p) == \E s \in DOMAIN table : table[s].paidBy = o /\ table[s].plan = p

\* Orders keep their plan and kind, and an upgrade is only paid together with
\* its subscription.
OrdersGrow ==
    /\ DOMAIN order \subseteq DOMAIN order'
    /\ \A o \in DOMAIN order :
          /\ order'[o].type = order[o].type /\ order'[o].plan = order[o].plan
          /\ order'[o].status = "paid" =>
                \/ order[o].status = "paid"
                \/ order[o].type = "overage"
                \/ Granted(sub', o, order[o].plan)
    /\ \A o \in DOMAIN order' : o \notin DOMAIN order => order'[o].status = "pending"

LEMMA SameOrdersGrow ==
    ASSUME UNCHANGED order
    PROVE  OrdersGrow
  BY DEF OrdersGrow

LEMMA NewOrderGrows ==
    ASSUME TypeOK, NEW row, row.status = "pending", order' = Append(order, row)
    PROVE  OrdersGrow
  BY TablesAreFunctions DEF OrdersGrow, TypeOK

LEMMA StepGrowsOrders ==
    ASSUME IndInv, [Next]_vars
    PROVE  OrdersGrow
<1> USE DEF IndInv
<1>1. ASSUME NEW r \in Request, Start(r) PROVE UNCHANGED order
  BY <1>1 DEF Start, StartUpgrade, StartSetPlan, StartConfirm, StartStore, StartSuspend,
     StartActivate, StartChat, StartOverage, StartCron, StartRead
<1>2. ASSUME NEW r \in Request, CreateUpgradeOrder(r) \/ CreateOverageOrder(r) PROVE OrdersGrow
  BY <1>2, NewOrderGrows, SameOrdersGrow DEF CreateUpgradeOrder, CreateOverageOrder
<1>3. ASSUME NEW r \in Request, PayOverage(r) \/ CommitSwitch(r)
      PROVE  /\ Confirming(r) /\ request[r] \in WriterState
             /\ request[r].row \in DOMAIN order
             /\ request[r].plan = order[request[r].row].plan
             /\ (request[r].pc = "pay") = (order[request[r].row].type = "overage")
  <2>1. request[r] \in WriterState
    BY <1>3, WriterHolds DEF PayOverage, CommitSwitch, At
  <2>2. Confirming(r)
    BY <1>3, <2>1 DEF PayOverage, CommitSwitch, At, Confirming, Running
  <2> QED
    BY <2>1, <2>2 DEF ConfirmHolds
<1>4. ASSUME NEW r \in Request, PayOverage(r) PROVE OrdersGrow
  <2>1. order[request[r].row].type = "overage"
    BY <1>3, <1>4 DEF PayOverage, At
  <2>2. order' = [order EXCEPT ![request[r].row].status = "paid"]
    BY <1>4 DEF PayOverage
  <2> QED
    BY <1>3, <1>4, <2>1, <2>2, RowsTyped DEF OrdersGrow, OrderRow
<1>5. ASSUME NEW r \in Request, CommitSwitch(r) PROVE OrdersGrow
  <2> DEFINE o == request[r].row
             p == request[r].plan
  <2>1. /\ order' = [order EXCEPT ![o].status = "paid"] /\ o \in DOMAIN order
        /\ p = order[o].plan
    BY <1>3, <1>5 DEF CommitSwitch
  <2>2. Granted(sub', o, p)
    <3> DEFINE old == Cancel(request[r].doomed \intersect Active)
               new == NewSub(p, request[r].now, o)
    <3>1. old \in Seq(SubRow) /\ sub' = Append(old, new)
      BY <1>5, CancelKeepsTable DEF CommitSwitch
    <3>2. new.paidBy = o /\ new.plan = p
      BY DEF NewSub
    <3> HIDE DEF old, new
    <3>3. Len(old) + 1 \in DOMAIN sub' /\ sub'[Len(old) + 1] = new
      BY <3>1
    <3> QED
      BY <3>2, <3>3 DEF Granted
  <2> QED
    BY <2>1, <2>2, RowsTyped DEF OrdersGrow, OrderRow
<1>6. ASSUME NEW r \in Request, Continue(r) PROVE OrdersGrow
  BY <1>2, <1>4, <1>5, <1>6, SameOrdersGrow DEF Continue, ReadActive, FillCache, FillFails,
     NightlyRefused, Invalidate,
     BeginSwitch, CommitSetPlan, SuspendTenant, ActivateTenant, SetStatus, StoreTransaction,
     GuardChat, CountChat, CountOverage, FindPending, ResetCycle, NextExpired, StartRead
<1> QED
  BY <1>1, <1>6, SameOrdersGrow DEF Next, RequestDies, CycleElapses, ExpireCache

\* A request keeps its operation.
LEMMA OpStays ==
    ASSUME TypeOK, NEW r \in Request, Continue(r), request'[r] # Done
    PROVE  request'[r].op = request[r].op
<1>1. ~Finish(r)
  BY DEF Finish, GoTo, TypeOK
<1>2. ASSUME NEW pc, Step(r, pc), request[r] \in ReaderState \union WriterState
      PROVE  request'[r].op = request[r].op
  BY <1>2 DEF Step, GoTo, TypeOK, ReaderState, WriterState
<1>3. request[r] \in ReaderState \union WriterState
  BY ReaderHolds, WriterHolds DEF Continue, ReadActive, FillCache, FillFails, NightlyRefused,
     Invalidate,
     CreateUpgradeOrder, PayOverage, BeginSwitch, CommitSwitch, CommitSetPlan, SuspendTenant,
     ActivateTenant, SetStatus, StoreTransaction, GuardChat, CountChat, CountOverage,
     FindPending, CreateOverageOrder, ResetCycle, NextExpired, At
<1>4. CASE ReadActive(r)
  <2>1. ASSUME NEW c, GoTo(r, [request[r] EXCEPT !.pc = "fill", !.copy = c])
        PROVE  request'[r].op = request[r].op
    BY <1>3, <2>1 DEF GoTo, TypeOK, ReaderState, WriterState
  <2> QED
    BY <1>2, <1>3, <1>4, <2>1 DEF ReadActive
<1>5. CASE BeginSwitch(r) \/ GuardChat(r)
  <2>1. ASSUME NEW x, GoTo(r, [request[r] EXCEPT !.pc = "commit", !.doomed = x])
        PROVE  request'[r].op = request[r].op
    BY <1>3, <2>1 DEF GoTo, TypeOK, ReaderState, WriterState
  <2>2. ASSUME NEW x, GoTo(r, [request[r] EXCEPT !.pc = "turn", !.row = x])
        PROVE  request'[r].op = request[r].op
    BY <1>3, <2>2 DEF GoTo, TypeOK, ReaderState, WriterState
  <2>3. GuardChat(r) => Finish(r) \/ GoTo(r, [request[r] EXCEPT !.pc = "turn",
                                                                !.row = request[r].copy.id])
    BY DEF GuardChat, Finish
  <2> QED
    BY <1>1, <1>5, <2>1, <2>2, <2>3 DEF BeginSwitch
<1>6. CASE CountOverage(r)
  <2>1. ASSUME NEW found, GoTo(r, [request[r] EXCEPT !.pc = "pending", !.charged = found])
        PROVE  request'[r].op = request[r].op
    BY <1>3, <2>1 DEF GoTo, TypeOK, ReaderState, WriterState
  <2> QED
    BY <1>1, <1>2, <1>3, <1>6, <2>1 DEF CountOverage, LeaveOverage
<1>7. ASSUME NEW s \in DOMAIN sub, NextExpired(r, s) PROVE request'[r].op = request[r].op
  <2> DEFINE state == [request[r] EXCEPT !.pc = "miss", !.copy = NoCopy, !.charged = {},
                                         !.row = s, !.todo = @ \ {s}]
  <2>1. state.op = request[r].op
        /\ [state EXCEPT !.pc = "found", !.copy = cache].op = request[r].op
    BY <1>3 DEF ReaderState, WriterState
  <2>2. request'[r] \in {state, [state EXCEPT !.pc = "found", !.copy = cache]}
    BY <1>7 DEF NextExpired, StartRead, GoTo, TypeOK
  <2> QED
    BY <2>1, <2>2
<1>8. CASE \/ FillCache(r) \/ FillFails(r) \/ NightlyRefused(r)
           \/ CommitSwitch(r) \/ CommitSetPlan(r) \/ FindPending(r)
           \/ CreateOverageOrder(r) \/ ResetCycle(r)
  BY <1>1, <1>2, <1>3, <1>8 DEF FillCache, FillFails, NightlyRefused, CommitSwitch,
     CommitSetPlan, FindPending,
     CreateOverageOrder, ResetCycle, LeaveOverage, AfterReset
<1> QED
  BY <1>1, <1>4, <1>5, <1>6, <1>7, <1>8 DEF Continue, Invalidate, CreateUpgradeOrder,
     PayOverage, SuspendTenant, ActivateTenant, SetStatus, StoreTransaction, CountChat

LEMMA ConfirmStep ==
    ASSUME IndInv, TypeOK', [Next]_vars
    PROVE  ConfirmHolds'
<1> USE DEF IndInv
<1> DEFINE Knows(q) == /\ q.row \in DOMAIN order /\ q.plan = order[q.row].plan
                       /\ (q.pc = "pay") = (order[q.row].type = "overage")
<1>1. ASSUME NEW r \in Request, Start(r), Confirming(r)' PROVE Knows(request'[r])
  <2>0. request'[r] \notin {Idle, Done} /\ request'[r].op = "confirm"
    BY <1>1, StatesDiffer DEF Confirming, Running
  <2>1. ~Finish(r)
    BY <2>0 DEF Finish, GoTo, TypeOK
  <2>2. ASSUME NEW op, NEW pc, NEW p, NEW s, NEW now, op # "confirm",
               GoTo(r, Write(op, pc, p, s, now))
        PROVE  FALSE
    BY <2>0, <2>2 DEF Write, GoTo, TypeOK
  <2>3. ASSUME NEW op, NEW p, op # "confirm", StartRead(r, Read(op, p)) PROVE FALSE
    <3>1. Read(op, p).op = op /\ [Read(op, p) EXCEPT !.pc = "found", !.copy = cache].op = op
      BY DEF Read
    <3> QED
      BY <2>0, <2>3, <3>1 DEF StartRead, GoTo, TypeOK
  <2>4. ASSUME NEW o \in DOMAIN order, StartConfirm(r, o) PROVE Knows(request'[r])
    <3> DEFINE pc == IF order[o].type = "overage" THEN "pay" ELSE "switch"
               state == Write("confirm", pc, order[o].plan, o, clock)
    <3>1. request'[r] = state
      BY <2>1, <2>4 DEF StartConfirm, GoTo, TypeOK
    <3>2. state.row = o /\ state.plan = order[o].plan /\ state.pc = pc
      BY DEF Write
    <3> QED
      BY <3>1, <3>2
  <2>5. ASSUME NEW p \in Plan, StartUpgrade(r, p) \/ StartSetPlan(r, p) PROVE FALSE
    BY <2>1, <2>2, <2>3, <2>5 DEF StartUpgrade, StartSetPlan
  <2>6. ASSUME NEW s \in DOMAIN sub, StartStore(r, s) PROVE FALSE
    BY <2>0, <2>6 DEF StartStore, Write, GoTo, TypeOK
  <2>7. CASE StartSuspend(r) \/ StartActivate(r)
    <3>1. PICK s \in DOMAIN sub, op \in {"suspend", "activate"} :
              Finish(r) \/ GoTo(r, Write(op, "write", sub[s].plan, s, 0))
      BY <2>7 DEF StartSuspend, StartActivate, Finish, Latest
    <3>2. Write(op, "write", sub[s].plan, s, 0).op = op
      BY DEF Write
    <3> QED
      BY <2>0, <2>1, <3>1, <3>2 DEF GoTo, TypeOK
  <2>8. CASE StartChat(r) \/ StartOverage(r)
    BY <2>3, <2>8 DEF StartChat, StartOverage
  <2>9. ~StartCron(r)
    <3> DEFINE state == [Read("cron", "none") EXCEPT !.pc = "next", !.now = clock,
                                                     !.todo = {s \in Active : sub[s].due}]
    <3>1. state.op = "cron"
      BY DEF Read
    <3> QED
      BY <2>0, <3>1 DEF StartCron, GoTo, TypeOK
  <2> HIDE DEF Knows
  <2> QED
    BY <1>1, <2>4, <2>5, <2>6, <2>7, <2>8, <2>9 DEF Start
<1>2. ASSUME NEW r \in Request, Continue(r), Confirming(r)' PROVE Knows(request'[r])
  <2>0. request'[r] \notin {Idle, Done} /\ request'[r].op = "confirm"
        /\ request'[r].pc \in {"pay", "switch", "commit"}
    BY <1>2, StatesDiffer DEF Confirming, Running
  <2>1. ~Finish(r) /\ request[r].op = "confirm"
    BY <1>2, <2>0, OpStays DEF Finish, GoTo, TypeOK
  <2>2. BeginSwitch(r) \/ CommitSwitch(r)
    BY <1>2, <2>1, ReaderHolds DEF Continue, ReadActive, FillCache, FillFails, NightlyRefused,
       Invalidate,
       CreateUpgradeOrder, PayOverage, CommitSetPlan, SuspendTenant, ActivateTenant, SetStatus,
       StoreTransaction, GuardChat, CountChat, CountOverage, FindPending, CreateOverageOrder,
       ResetCycle, NextExpired, At, Reader
  <2>3. request[r] \in WriterState
    BY <2>2, WriterHolds DEF BeginSwitch, CommitSwitch, At
  <2>4. ~CommitSwitch(r)
    BY <2>0, <2>3 DEF CommitSwitch, Step, GoTo, TypeOK, WriterState
  <2>5. /\ request'[r].row = request[r].row /\ request'[r].plan = request[r].plan
        /\ request'[r].pc = "commit" /\ request[r].pc = "switch"
    <3>1. request'[r] = [request[r] EXCEPT !.pc = "commit", !.doomed = Active]
          /\ request[r].pc = "switch"
      BY <2>2, <2>4 DEF BeginSwitch, At, GoTo, TypeOK
    <3> QED
      BY <2>3, <3>1 DEF WriterState
  <2>6. Confirming(r)
    BY <2>1, <2>3, <2>5 DEF Confirming, Running
  <2> QED
    BY <2>5, <2>6 DEF ConfirmHolds
<1>3. ASSUME NEW r \in Request, Confirming(r)', request'[r] = request[r]
      PROVE  Knows(request'[r])
  BY <1>3 DEF ConfirmHolds, Confirming, Running
<1>4. ASSUME NEW q, Knows(q)
      PROVE  /\ q.row \in DOMAIN order' /\ q.plan = order'[q.row].plan
             /\ (q.pc = "pay") = (order'[q.row].type = "overage")
  BY <1>4, StepGrowsOrders DEF OrdersGrow
<1> HIDE DEF Knows
<1>5. ASSUME NEW r \in Request, Confirming(r)' PROVE Knows(request'[r])
  <2>1. CASE UNCHANGED request
    BY <1>3, <1>5, <2>1
  <2>2. ASSUME NEW q \in Request, Start(q) PROVE Knows(request'[r])
    BY <1>1, <1>3, <1>5, <2>2, StartsMove DEF RequestMoves
  <2>3. ASSUME NEW q \in Request, Continue(q) PROVE Knows(request'[r])
    BY <1>2, <1>3, <1>5, <2>3, ContinueMoves DEF RequestMoves
  <2>4. ASSUME NEW q \in Request, RequestDies(q) PROVE Knows(request'[r])
    BY <1>3, <1>5, <2>4, FinishMoves, StatesDiffer DEF RequestMoves, RequestDies, Finish, GoTo,
       TypeOK, Confirming, Running
  <2> QED
    BY <2>1, <2>2, <2>3, <2>4 DEF Next, CycleElapses, ExpireCache
<1> QED
  BY <1>4, <1>5 DEF ConfirmHolds

-----------------------------------------------------------------------------
(* The theorems.                                                           *)

LEMMA StepKeepsTypes ==
    ASSUME TypeOK, [Next]_vars
    PROVE  TypeOK'
<1>1. ASSUME NEW r \in Request, Start(r) PROVE TypeOK'
  BY <1>1, StartKeepsTypes
<1>2. ASSUME NEW r \in Request, Continue(r) PROVE TypeOK'
  BY <1>2, ReadingKeepsTypes, PaymentKeepsTypes, PartnerKeepsTypes, CountingKeepsTypes,
     DecidingKeepsTypes DEF Continue
<1>3. ASSUME NEW r \in Request, RequestDies(r) PROVE TypeOK'
  BY <1>3, FinishTyped, SubscriptionsAssumption DEF RequestDies, Fails, TypeOK, State
<1>4. ASSUME NEW s \in DOMAIN sub, CycleElapses(s) PROVE TypeOK'
  <2>1. [sub[s] EXCEPT !.due = TRUE] \in SubRow
    BY RowsTyped, RowUpdatesTyped
  <2> QED
    BY <1>4, <2>1, UpdateKeepsTable DEF CycleElapses, TypeOK
<1>5. CASE ExpireCache
  BY <1>5 DEF ExpireCache, TypeOK
<1>6. CASE UNCHANGED vars
  BY <1>6 DEF TypeOK
<1> QED
  BY <1>1, <1>2, <1>3, <1>4, <1>5, <1>6 DEF Next

LEMMA InitIndInv ==
    ASSUME Init
    PROVE  IndInv
<1>1. sub \in Seq(SubRow) /\ DOMAIN sub = {1}
  <2>1. [NewSub("starter", 0, 0) EXCEPT !.used = TxnQuota] \in SubRow
    BY NewSubTyped, SubscriptionsAssumption DEF SubRow
  <2> QED
    BY <2>1 DEF Init
<1>2. order \in Seq(OrderRow)
  BY DEF Init, OrderRow
<1>3. CopyOf(1) \in Copy
  <2>1. sub[1] \in SubRow
    BY <1>1
  <2>2. sub[1].cycleStart \in Nat /\ sub[1].chats \in Nat
    BY <2>1 DEF SubRow
  <2> QED
    BY <1>1, <2>1, <2>2 DEF CopyOf, Copy, SubRow
<1>4. TypeOK
  BY <1>1, <1>2, <1>3, SubscriptionsAssumption DEF Init, TypeOK
<1>5. \A r \in Request : ~Running(r)
  BY StatesDiffer DEF Init, Running
<1>6. clock > 0 /\ \A s \in DOMAIN sub : sub[s].cycleStart < clock
  BY <1>1 DEF Init, NewSub
<1> QED
  BY <1>4, <1>5, <1>6 DEF IndInv, ClockAhead, CronHolds, ConfirmHolds, IsCron, Confirming

LEMMA StepIndInv ==
    ASSUME IndInv, [Next]_vars
    PROVE  IndInv'
<1>1. TypeOK'
  BY StepKeepsTypes DEF IndInv
<1> QED
  BY <1>1, ClockStep, CronStep, ConfirmStep DEF IndInv

\* For any number of calls and failures the billing state is well formed, one
\* nightly job runs and what it has still to reset is due, an open confirmation
\* knows its order.
THEOREM Inductive == Spec => []IndInv
<1>1. Init => IndInv
  BY InitIndInv
<1>2. IndInv /\ [Next]_vars => IndInv'
  BY StepIndInv
<1> QED
  BY <1>1, <1>2, PTL DEF Spec

\* Every variable of the billing module keeps its type.
THEOREM TypeCorrect == Spec => []TypeOK
<1>1. IndInv => TypeOK
  BY DEF IndInv
<1> QED
  BY <1>1, Inductive, PTL

\* A tenant always has a subscription that is active or suspended.
THEOREM Covered == Spec => []AlwaysCovered
<1>1. Init => AlwaysCovered
  <2>1. ASSUME Init PROVE 1 \in WithStatus({"active", "suspended"})
    BY <2>1 DEF Init, NewSub, WithStatus
  <2> QED
    BY <2>1 DEF AlwaysCovered
<1>2. ASSUME IndInv, AlwaysCovered, [Next]_vars PROVE AlwaysCovered'
  <2> USE DEF IndInv
  <2>1. ASSUME UNCHANGED sub PROVE AlwaysCovered'
    BY <1>2, <2>1 DEF AlwaysCovered, WithStatus
  <2>2. ASSUME NEW S, NEW p, NEW now, NEW o, sub' = Append(Cancel(S), NewSub(p, now, o))
        PROVE  AlwaysCovered'
    <3> DEFINE old == Cancel(S)
               new == NewSub(p, now, o)
    <3>1. old \in Seq(SubRow) /\ sub' = Append(old, new) /\ new.status = "active"
      BY <1>2, <2>2, CancelKeepsTable DEF NewSub
    <3> HIDE DEF old, new
    <3>2. Len(old) + 1 \in DOMAIN sub' /\ sub'[Len(old) + 1] = new
      BY <3>1
    <3> QED
      BY <3>1, <3>2 DEF AlwaysCovered, WithStatus
  <2>3. ASSUME NEW s, NEW row, sub' = [sub EXCEPT ![s] = row],
               s \in DOMAIN sub => row.status \in {sub[s].status, "active", "suspended"}
        PROVE  AlwaysCovered'
    BY <1>2, <2>3 DEF AlwaysCovered, WithStatus
  <2>4. ASSUME NEW r \in Request, Start(r) PROVE UNCHANGED sub
    BY <2>4 DEF Start, StartUpgrade, StartSetPlan, StartConfirm, StartStore, StartSuspend,
       StartActivate, StartChat, StartOverage, StartCron, StartRead
  <2>5. ASSUME NEW r \in Request,
               \/ SuspendTenant(r) \/ ActivateTenant(r) \/ StoreTransaction(r) \/ CountChat(r)
               \/ ResetCycle(r)
        PROVE  AlwaysCovered'
    <3>1. ASSUME NEW row \in SubRow, NEW status, NEW now
          PROVE  /\ [row EXCEPT !.status = status].status = status
                 /\ [row EXCEPT !.used = @ + 1].status = row.status
                 /\ [row EXCEPT !.chats = @ + 1].status = row.status
                 /\ Renewed(row, now).status = row.status
      BY DEF SubRow, Renewed
    <3>2. CASE SuspendTenant(r) \/ ActivateTenant(r)
      <4>1. PICK op \in {"suspend", "activate"}, status \in {"active", "suspended"} :
                SetStatus(r, op, status)
        BY <3>2 DEF SuspendTenant, ActivateTenant
      <4> DEFINE row == request[r].row
                 new == [sub[row] EXCEPT !.status = status]
      <4>2. row \in DOMAIN sub => new.status = status
        BY <1>2, <3>1, RowsTyped
      <4>3. sub' = [sub EXCEPT ![row] = new]
        BY <4>1 DEF SetStatus
      <4> HIDE DEF new
      <4> QED
        BY <2>3, <4>2, <4>3
    <3>3. CASE StoreTransaction(r)
      BY <1>2, <2>3, <3>1, <3>3, RowsTyped DEF StoreTransaction
    <3>4. CASE CountChat(r)
      BY <1>2, <2>3, <3>1, <3>4, RowsTyped DEF CountChat
    <3>5. CASE ResetCycle(r)
      <4> DEFINE row == request[r].row
                 new == Renewed(sub[row], request[r].now)
      <4>1. row \in DOMAIN sub => new.status = sub[row].status
        BY <1>2, <3>1, RowsTyped
      <4>2. sub' = [sub EXCEPT ![row] = new]
        BY <3>5 DEF ResetCycle
      <4> HIDE DEF new
      <4> QED
        BY <2>3, <4>1, <4>2
    <3> QED
      BY <2>5, <3>2, <3>3, <3>4, <3>5
  <2>6. ASSUME NEW r \in Request, Continue(r) PROVE AlwaysCovered'
    BY <2>1, <2>2, <2>5, <2>6 DEF Continue, ReadActive, FillCache, FillFails, NightlyRefused,
       Invalidate,
       CreateUpgradeOrder, PayOverage, BeginSwitch, CommitSwitch, CommitSetPlan, GuardChat,
       CountOverage, FindPending, CreateOverageOrder, NextExpired, StartRead
  <2>7. ASSUME NEW s \in DOMAIN sub, CycleElapses(s) PROVE AlwaysCovered'
    <3>1. [sub[s] EXCEPT !.due = TRUE].status = sub[s].status
      BY <1>2, RowsTyped DEF SubRow
    <3> QED
      BY <2>3, <2>7, <3>1 DEF CycleElapses
  <2> QED
    BY <1>2, <2>1, <2>4, <2>6, <2>7 DEF Next, RequestDies, ExpireCache
<1> QED
  BY <1>1, <1>2, Inductive, PTL DEF Spec

\* A paid upgrade has its subscription.
THEOREM PaymentsGranted == Spec => []PaidOrderGranted
<1>1. Init => PaidOrderGranted
  BY DEF Init, PaidOrderGranted
<1>2. ASSUME IndInv, PaidOrderGranted, [Next]_vars PROVE PaidOrderGranted'
  <2> USE DEF IndInv
  <2>1. ASSUME NEW o, NEW p, Granted(sub, o, p) PROVE Granted(sub', o, p)
    <3>1. CASE TableGrows
      BY <2>1, <3>1 DEF Granted, TableGrows, RowKept
    <3>2. ASSUME NEW r \in Request, ResetCycle(r) PROVE Granted(sub', o, p)
      <4> DEFINE row == request[r].row
                 now == request[r].now
      <4>1. row \in DOMAIN sub /\ sub' = [sub EXCEPT ![row] = Renewed(@, now)]
        BY <1>2, <3>2, ResetEffect DEF DueIn
      <4>2. sub[row] \in SubRow
        BY <1>2, <4>1, RowsTyped
      <4>3. /\ Renewed(sub[row], now).paidBy = sub[row].paidBy
            /\ Renewed(sub[row], now).plan = sub[row].plan
        BY <4>2 DEF Renewed, SubRow
      <4> QED
        BY <2>1, <4>1, <4>3 DEF Granted
    <3> QED
      BY <1>2, <3>1, <3>2, StepGrowsTable
  <2> SUFFICES ASSUME NEW o \in DOMAIN order', order'[o].type = "upgrade",
                      order'[o].status = "paid"
               PROVE  Granted(sub', o, order'[o].plan)
    BY DEF PaidOrderGranted, Granted
  <2>2. o \in DOMAIN order /\ order'[o].type = order[o].type /\ order'[o].plan = order[o].plan
    BY <1>2, StepGrowsOrders DEF OrdersGrow
  <2>3. CASE order[o].status = "paid"
    BY <1>2, <2>1, <2>2, <2>3 DEF PaidOrderGranted, Granted
  <2>4. CASE order[o].status # "paid"
    BY <1>2, <2>2, <2>4, StepGrowsOrders DEF OrdersGrow
  <2> QED
    BY <2>3, <2>4
<1> QED
  BY <1>1, <1>2, Inductive, PTL DEF Spec

\* Counters fall only at the end of their cycle.
THEOREM CountersReset == Spec => CountersResetWhenDue
<1>1. ASSUME IndInv, [Next]_vars, NEW s \in DOMAIN sub,
             sub'[s].used < sub[s].used \/ sub'[s].chats < sub[s].chats
      PROVE  sub[s].due
  <2> USE DEF IndInv
  <2>1. sub[s] \in SubRow /\ sub[s].used \in Nat /\ sub[s].chats \in Nat
    BY <1>1, RowsTyped DEF SubRow
  <2>2. TypeOK'
    BY <1>1, StepKeepsTypes
  <2>3. ~TableGrows
    <3>1. ASSUME TableGrows PROVE sub'[s] \in SubRow
      BY <2>2, <3>1 DEF TableGrows, TypeOK
    <3>2. ASSUME TableGrows PROVE sub'[s].used \in Nat /\ sub'[s].chats \in Nat
      BY <3>1, <3>2 DEF SubRow
    <3> QED
      BY <1>1, <2>1, <3>2 DEF TableGrows, RowKept
  <2>4. PICK r \in Request : ResetCycle(r)
    BY <1>1, <2>3, StepGrowsTable
  <2>5. /\ request[r].row \in DOMAIN sub /\ sub[request[r].row].due
        /\ sub' = [sub EXCEPT ![request[r].row] = Renewed(@, request[r].now)]
    BY <1>1, <2>4, ResetEffect DEF DueIn
  <2>6. CASE s = request[r].row
    BY <2>5, <2>6
  <2>7. CASE s # request[r].row
    BY <1>1, <2>1, <2>5, <2>7
  <2> QED
    BY <2>6, <2>7
<1>2. IndInv /\ [Next]_vars =>
          [\A s \in DOMAIN sub :
              (sub'[s].used < sub[s].used \/ sub'[s].chats < sub[s].chats) => sub[s].due]_vars
  BY <1>1
<1> QED
  BY <1>2, Inductive, PTL DEF Spec, CountersResetWhenDue

-----------------------------------------------------------------------------
(* The other direction: nothing is granted for an order that was not paid. *)

\* The subscription was bought with this upgrade order.
PaysFor(o, s) ==
    /\ o \in DOMAIN order /\ order[o].type = "upgrade" /\ order[o].status = "paid"
    /\ order[o].plan = sub[s].plan

\* Every subscription that names an order is of the plan of that order, which
\* is an upgrade that was paid.
GrantsArePaid == \A s \in DOMAIN sub : sub[s].paidBy # 0 => PaysFor(sub[s].paidBy, s)

\* The order of a payment stays the order of that payment.
LEMMA PaidStaysPaid ==
    ASSUME IndInv, [Next]_vars, NEW o \in DOMAIN order, order[o].status = "paid"
    PROVE  /\ o \in DOMAIN order' /\ order'[o].status = "paid"
           /\ order'[o].type = order[o].type /\ order'[o].plan = order[o].plan
<1>1. /\ o \in DOMAIN order'
      /\ order'[o].type = order[o].type /\ order'[o].plan = order[o].plan
  BY StepGrowsOrders DEF OrdersGrow
<1>2. ASSUME NEW r \in Request, Start(r) PROVE UNCHANGED order
  BY <1>2 DEF Start, StartUpgrade, StartSetPlan, StartConfirm, StartStore, StartSuspend,
     StartActivate, StartChat, StartOverage, StartCron, StartRead
<1>3. ASSUME NEW row, order' = Append(order, row) PROVE order'[o] = order[o]
  BY <1>3, TablesAreFunctions DEF IndInv, TypeOK
<1>4. ASSUME NEW q, order' = [order EXCEPT ![q].status = "paid"] PROVE order'[o].status = "paid"
  BY <1>4, RowsTyped DEF IndInv, OrderRow
<1>5. ASSUME NEW r \in Request, Continue(r) PROVE order'[o].status = "paid"
  BY <1>3, <1>4, <1>5 DEF Continue, ReadActive, FillCache, FillFails, NightlyRefused, Invalidate,
     CreateUpgradeOrder, PayOverage, CommitSwitch, CreateOverageOrder,
     BeginSwitch, CommitSetPlan, SuspendTenant, ActivateTenant, SetStatus, StoreTransaction,
     GuardChat, CountChat, CountOverage, FindPending, ResetCycle, NextExpired, StartRead
<1>6. order'[o].status = "paid"
  BY <1>2, <1>5 DEF Next, RequestDies, CycleElapses, ExpireCache
<1> QED
  BY <1>1, <1>6

\* A subscription appears by a payment or by the partner's hand.
LEMMA NewRowsBought ==
    ASSUME IndInv, [Next]_vars, NEW s \in DOMAIN sub', s \notin DOMAIN sub
    PROVE  \/ sub'[s].paidBy = 0
           \/ \E r \in Request : /\ CommitSwitch(r)
                                 /\ sub'[s].paidBy = request[r].row
                                 /\ sub'[s].plan = request[r].plan
<1>1. DOMAIN sub' # DOMAIN sub
  OBVIOUS
<1>2. ASSUME NEW S, NEW p, NEW now, NEW o, sub' = Append(Cancel(S), NewSub(p, now, o))
      PROVE  sub'[s].paidBy = o /\ sub'[s].plan = p
  <2> DEFINE old == Cancel(S)
             new == NewSub(p, now, o)
  <2>1. old \in Seq(SubRow) /\ Len(old) = Len(sub) /\ sub' = Append(old, new)
        /\ new.paidBy = o /\ new.plan = p
    BY <1>2, CancelKeepsTable DEF NewSub, IndInv
  <2> HIDE DEF old, new
  <2>2. s = Len(old) + 1 /\ sub'[s] = new
    BY <2>1, TablesAreFunctions DEF IndInv
  <2> QED
    BY <2>1, <2>2
<1>3. ASSUME NEW r \in Request, Start(r) PROVE FALSE
  BY <1>1, <1>3 DEF Start, StartUpgrade, StartSetPlan, StartConfirm, StartStore, StartSuspend,
     StartActivate, StartChat, StartOverage, StartCron, StartRead
<1>4. ASSUME NEW r \in Request, Continue(r)
      PROVE  CommitSwitch(r) \/ CommitSetPlan(r)
  BY <1>1, <1>4 DEF Continue, ReadActive, FillCache, FillFails, NightlyRefused, Invalidate,
     CreateUpgradeOrder, PayOverage, CreateOverageOrder, BeginSwitch, SuspendTenant,
     ActivateTenant, SetStatus, StoreTransaction, GuardChat, CountChat, CountOverage,
     FindPending, ResetCycle, NextExpired, StartRead
<1>5. PICK r \in Request : CommitSwitch(r) \/ CommitSetPlan(r)
  BY <1>1, <1>3, <1>4 DEF Next, RequestDies, CycleElapses, ExpireCache
<1>6. CASE CommitSwitch(r)
  <2>1. \E S : sub' = Append(Cancel(S), NewSub(request[r].plan, request[r].now, request[r].row))
    BY <1>6 DEF CommitSwitch
  <2> QED
    BY <1>2, <1>6, <2>1
<1>7. CASE CommitSetPlan(r)
  <2>1. \E S, p, now : sub' = Append(Cancel(S), NewSub(p, now, 0))
    BY <1>7 DEF CommitSetPlan
  <2>2. sub'[s].paidBy = 0
    BY <1>2, <2>1
  <2> QED
    BY <2>2
<1> QED
  BY <1>5, <1>6, <1>7

\* Nobody is given a plan on the strength of an order that was not paid, of an
\* overage order, or of an order for another plan (billing.service.ts).
THEOREM GrantsCorrect == Spec => []GrantsArePaid
<1>1. Init => GrantsArePaid
  BY DEF Init, GrantsArePaid, NewSub
<1>2. ASSUME IndInv, GrantsArePaid, [Next]_vars PROVE GrantsArePaid'
  <2>1. ASSUME NEW s \in DOMAIN sub
        PROVE  sub'[s].paidBy = sub[s].paidBy /\ sub'[s].plan = sub[s].plan
    <3>1. CASE TableGrows
      BY <3>1 DEF TableGrows, RowKept
    <3>2. ASSUME NEW r \in Request, ResetCycle(r)
          PROVE  sub'[s].paidBy = sub[s].paidBy /\ sub'[s].plan = sub[s].plan
      <4>1. sub' = [sub EXCEPT ![request[r].row] = Renewed(@, request[r].now)]
        BY <1>2, <3>2, ResetEffect
      <4>2. /\ Renewed(sub[s], request[r].now).paidBy = sub[s].paidBy
            /\ Renewed(sub[s], request[r].now).plan = sub[s].plan
        BY <1>2, RowsTyped DEF Renewed, SubRow, IndInv
      <4> QED
        BY <4>1, <4>2
    <3> QED
      BY <1>2, <3>1, <3>2, StepGrowsTable
  <2>2. ASSUME NEW s \in DOMAIN sub', s \in DOMAIN sub, sub'[s].paidBy # 0
        PROVE  PaysFor(sub[s].paidBy, s)'
    BY <1>2, <2>1, <2>2, PaidStaysPaid DEF GrantsArePaid, PaysFor
  <2>3. ASSUME NEW s \in DOMAIN sub', s \notin DOMAIN sub, sub'[s].paidBy # 0
        PROVE  PaysFor(sub[s].paidBy, s)'
    <3>1. PICK r \in Request : /\ CommitSwitch(r) /\ sub'[s].paidBy = request[r].row
                               /\ sub'[s].plan = request[r].plan
      BY <1>2, <2>3, NewRowsBought
    <3>2. Confirming(r) /\ request[r].pc = "commit"
      BY <1>2, <3>1, WriterHolds DEF CommitSwitch, At, Confirming, Running, IndInv
    <3>3. /\ request[r].row \in DOMAIN order /\ request[r].plan = order[request[r].row].plan
          /\ order[request[r].row].type # "overage"
      BY <1>2, <3>2 DEF IndInv, ConfirmHolds
    <3>4. order[request[r].row].type = "upgrade"
      BY <1>2, <3>3, RowsTyped DEF IndInv, OrderRow
    <3>5. order' = [order EXCEPT ![request[r].row].status = "paid"]
      BY <3>1 DEF CommitSwitch
    <3> QED
      BY <1>2, <3>1, <3>3, <3>4, <3>5, RowsTyped DEF PaysFor, IndInv, OrderRow
  <2> QED
    BY <2>2, <2>3 DEF GrantsArePaid
<1> QED
  BY <1>1, <1>2, Inductive, PTL DEF Spec
=============================================================================
