---------------------------- MODULE Subscriptions ----------------------------
(***************************************************************************)
(* What one tenant is entitled to: its subscriptions and payment orders,   *)
(* the partner's plan changes, the end of a billing cycle, the overage     *)
(* orders, and the copy of the active subscription in Redis that the       *)
(* guards, the billing pages and the cycle end read.                       *)
(*                                                                         *)
(* A request is a process; every await between two outside calls separates *)
(* two actions.  The audit entries a $transaction writes with its rows are *)
(* not variables, and neither are notifications.                           *)
(***************************************************************************)
EXTENDS Naturals, Sequences, FiniteSets

CONSTANTS
    Request,    \* calls of the API, PayOS webhooks, the nightly job
    Plan,       \* the plans on offer
    TxnQuota,   \* transactionQuota of a plan
    ChatQuota,  \* copilotQuota of a plan
    MaxFaults   \* bound: calls of PostgreSQL or Redis that fail, crashes

ASSUME SubscriptionsAssumption ==
    /\ Plan \subseteq {"free", "starter", "pro", "enterprise"} /\ "starter" \in Plan
    /\ TxnQuota \in Nat /\ ChatQuota \in Nat
    /\ MaxFaults \in Nat

VARIABLES
    sub,        \* subscriptions, in the order of their creation
    order,      \* payment_orders, in the order of their creation
    log,        \* usage_logs overage_transaction: the moments of recordedAt
    cache,      \* Redis key sub:active:<tenant>
    request,    \* what each request is doing
    clock,      \* the next moment new Date() can return
    faults      \* failures so far

vars == <<sub, order, log, cache, request, clock, faults>>

-----------------------------------------------------------------------------
Price(p) == CASE p = "free" -> 0 [] p = "starter" -> 1 [] p = "pro" -> 2 [] OTHER -> 3
OveragePlan(p) == p \in {"starter", "pro"}
ChatLimited(p) == p # "enterprise"

\* started and cycleStart are moments; due: currentCycleEnd has passed;
\* paidBy: the order that bought the row, 0 for the other ways to get one.
SubRow == [plan : Plan, status : {"active", "suspended", "cancelled"}, started : Nat,
           cycleStart : Nat, due : BOOLEAN, used : Nat, chats : Nat, paidBy : Nat]
NewSub(p, now, o) ==
    [plan |-> p, status |-> "active", started |-> now, cycleStart |-> now,
     due |-> FALSE, used |-> 0, chats |-> 0, paidBy |-> o]

\* charged: the overage logs an overage order was computed from.
OrderRow == [type : {"upgrade", "overage"}, plan : Plan, status : {"pending", "paid"},
             charged : SUBSET Nat]

WithStatus(st) == {s \in DOMAIN sub : sub[s].status \in st}
Active == WithStatus({"active"})
\* Ordered by startedAt, descending: the first row is one of these.
Latest(S) == {s \in S : \A r \in S : sub[r].started <= sub[s].started}

\* The cached DTO, and what a request holds of it; id 0: no subscription.
Copy == [id : Nat, plan : Plan, cycleStart : Nat, chats : Nat]
NoCopy == [id |-> 0]
CopyOf(s) == [id |-> s, plan |-> sub[s].plan, cycleStart |-> sub[s].cycleStart,
              chats |-> sub[s].chats]

Idle == [pc |-> "idle"]
Done == [pc |-> "done"]
Reader == {"upgrade", "overage", "chat", "cron"}

\* A request that reads through the cache: plan is the one asked for; row the
\* subscription the nightly job is at or a chat was admitted on, todo the ones
\* it has left, now its new Date().
ReaderState ==
    {state \in [op : Reader,
                pc : {"miss", "fill", "found", "pending", "create", "reset", "next", "turn"},
                plan : Plan \union {"none"}, copy : Copy \union {NoCopy},
                charged : SUBSET Nat, row : Nat, todo : SUBSET Nat, now : Nat] :
        /\ state.op = "upgrade" => state.plan \in Plan
        /\ state.pc \in {"fill", "pending", "create", "turn"} => state.copy \in Copy}
Read(op, p) == [op |-> op, pc |-> "miss", plan |-> p, copy |-> NoCopy, charged |-> {},
                row |-> 0, todo |-> {}, now |-> 0]

\* A request that writes subscriptions: row is what it read, doomed the rows
\* its open $transaction will cancel.
WriterState ==
    [op : {"confirm", "setPlan", "suspend", "activate", "store"},
     pc : {"pay", "switch", "commit", "write", "invalidate"},
     plan : Plan, row : Nat, doomed : SUBSET Nat, now : Nat, seen : Nat]
Write(op, pc, p, s, now) == [op |-> op, pc |-> pc, plan |-> p, row |-> s, doomed |-> {},
                             now |-> now, seen |-> 0]

TypeOK ==
    /\ sub \in Seq(SubRow) /\ order \in Seq(OrderRow)
    /\ log \in SUBSET Nat /\ clock \in Nat
    /\ cache \in Copy \union {NoCopy}
    /\ request \in [Request -> {Idle, Done} \union ReaderState \union WriterState]
    /\ faults \in 0..MaxFaults

\* A starter tenant that has used its quota, with an order for the dearest plan
\* not paid yet: every race below is a few requests away.
Init ==
    /\ sub = <<[NewSub("starter", 0, 0) EXCEPT !.used = TxnQuota]>>
    /\ \E p \in Plan :
          /\ Price(p) >= Price("starter") /\ p # "starter"
          /\ order = <<[type |-> "upgrade", plan |-> p, status |-> "pending",
                        charged |-> {}]>>
    /\ log = {} /\ clock = 1
    /\ cache \in {NoCopy, CopyOf(1)}
    /\ request = [r \in Request |-> Idle]
    /\ faults = 0

-----------------------------------------------------------------------------
(* SubscriptionQueryAdapter                                                *)

GoTo(r, state) == request' = [request EXCEPT ![r] = state]
Step(r, pc) == GoTo(r, [request[r] EXCEPT !.pc = pc])
Finish(r) == GoTo(r, Done)
At(r, ops, pc) == request[r].pc = pc /\ request[r].op \in ops
Tables == <<sub, order, log>>

Fails == faults < MaxFaults /\ faults' = faults + 1

\* findActive, as far as the answer of Redis; a refusal counts as a miss.
StartRead(r, state) ==
    /\ \/ cache = NoCopy /\ GoTo(r, state) /\ UNCHANGED faults
       \/ /\ cache # NoCopy
          /\ GoTo(r, [state EXCEPT !.pc = "found", !.copy = cache])
          /\ UNCHANGED faults
       \/ cache # NoCopy /\ GoTo(r, state) /\ Fails
    /\ UNCHANGED <<Tables, cache, clock>>

ReadActive(r) ==
    /\ At(r, Reader, "miss")
    /\ \/ Active = {} /\ Step(r, "found")
       \/ \E s \in Latest(Active) :
             GoTo(r, [request[r] EXCEPT !.pc = "fill", !.copy = CopyOf(s)])
    /\ UNCHANGED <<Tables, cache, clock, faults>>

\* Redis refuses the copy; the caller goes on with what it read.
FillFails(r) ==
    /\ At(r, Reader, "fill")
    /\ Step(r, "found")
    /\ Fails
    /\ UNCHANGED <<Tables, cache, clock>>

FillCache(r) ==
    /\ At(r, Reader, "fill")
    /\ cache' = request[r].copy
    /\ Step(r, "found")
    /\ UNCHANGED <<Tables, clock, faults>>

ExpireCache ==
    /\ cache # NoCopy
    /\ cache' = NoCopy
    /\ UNCHANGED <<Tables, request, clock, faults>>

Invalidate(r) ==
    /\ At(r, {"confirm", "setPlan"}, "invalidate")
    /\ cache' = NoCopy
    /\ Finish(r)
    /\ UNCHANGED <<Tables, clock, faults>>

-----------------------------------------------------------------------------
(* Upgrades and their payment                                              *)

StartUpgrade(r, p) ==
    /\ request[r] = Idle
    /\ StartRead(r, Read("upgrade", p))

MayUpgrade(c, p) == c = NoCopy \/ (c.plan # p /\ Price(p) >= Price(c.plan))

CreateUpgradeOrder(r) ==
    /\ At(r, {"upgrade"}, "found")
    /\ LET q == request[r] IN
       order' = IF MayUpgrade(q.copy, q.plan)
                THEN Append(order, [type |-> "upgrade", plan |-> q.plan,
                                    status |-> "pending", charged |-> {}])
                ELSE order
    /\ Finish(r)
    /\ UNCHANGED <<sub, log, cache, clock, faults>>

\* confirmPayment, from PayOS's webhook or the mock endpoint; a paid order ends
\* the call.
StartConfirm(r, o) ==
    /\ request[r] = Idle
    /\ IF order[o].status = "paid" THEN Finish(r) /\ UNCHANGED clock
       ELSE /\ GoTo(r, Write("confirm", IF order[o].type = "overage" THEN "pay" ELSE "switch",
                             order[o].plan, o, clock))
            /\ clock' = clock + 1
    /\ UNCHANGED <<Tables, cache, faults>>

PayOverage(r) ==
    /\ At(r, {"confirm"}, "pay")
    /\ order' = [order EXCEPT ![request[r].row].status = "paid"]
    /\ Finish(r)
    /\ UNCHANGED <<sub, log, cache, clock, faults>>

\* Mutant: the order is marked paid when the $transaction begins.
PayFirst(r) ==
    /\ At(r, {"confirm"}, "switch")
    /\ ~\E q \in Request : At(q, {"confirm"}, "commit") /\ request[q].row = request[r].row
    /\ order' = [order EXCEPT ![request[r].row].status = "paid"]
    /\ GoTo(r, [request[r] EXCEPT !.pc = "commit", !.doomed = Active])
    /\ UNCHANGED <<sub, log, cache, clock, faults>>

\* The $transaction locks the order and then sees the active rows committed by
\* then; a row another open $transaction creates stays unseen.
BeginSwitch(r) ==
    /\ At(r, {"confirm"}, "switch")
    /\ ~\E q \in Request : At(q, {"confirm"}, "commit") /\ request[q].row = request[r].row
    /\ GoTo(r, [request[r] EXCEPT !.pc = "commit", !.doomed = Active])
    /\ UNCHANGED <<Tables, cache, clock, faults>>

Cancel(S) == [s \in DOMAIN sub |->
                 IF s \in S THEN [sub[s] EXCEPT !.status = "cancelled"] ELSE sub[s]]

CommitSwitch(r) ==
    /\ At(r, {"confirm"}, "commit")
    /\ LET q == request[r] IN
       /\ order' = [order EXCEPT ![q.row].status = "paid"]
       /\ sub' = Append(Cancel(q.doomed \intersect Active), NewSub(q.plan, q.now, q.row))
    /\ Step(r, "invalidate")
    /\ UNCHANGED <<log, cache, clock, faults>>

-----------------------------------------------------------------------------
(* The partner: PlanPricingService and TenantManagementService             *)

StartSetPlan(r, p) ==
    /\ request[r] = Idle
    /\ LET known == WithStatus({"active", "suspended"}) IN
       \E s \in IF known = {} THEN {0} ELSE Latest(known) :
          IF s # 0 /\ sub[s].plan = p /\ sub[s].status = "active"
          THEN Finish(r) /\ UNCHANGED clock
          ELSE GoTo(r, Write("setPlan", "write", p, s, clock)) /\ clock' = clock + 1
    /\ UNCHANGED <<Tables, cache, faults>>

\* Mutant: the old row is cancelled before the new one can be created.
CancelFirst(r) ==
    /\ At(r, {"setPlan"}, "write")
    /\ LET q == request[r] IN
       IF q.row = 0 THEN /\ sub' = Append(sub, NewSub(q.plan, q.now, 0))
                         /\ Step(r, "invalidate")
       ELSE sub' = Cancel({q.row}) /\ GoTo(r, [q EXCEPT !.row = 0])
    /\ UNCHANGED <<order, log, cache, clock, faults>>

CommitSetPlan(r) ==
    /\ At(r, {"setPlan"}, "write")
    /\ LET q == request[r] IN sub' = Append(Cancel({q.row}), NewSub(q.plan, q.now, 0))
    /\ Step(r, "invalidate")
    /\ UNCHANGED <<order, log, cache, clock, faults>>

\* Both read the row with the latest startedAt, whatever its status.
StartSuspend(r) ==
    /\ request[r] = Idle
    /\ \E s \in Latest(DOMAIN sub) :
          GoTo(r, IF sub[s].status = "suspended" THEN Done
                  ELSE Write("suspend", "write", sub[s].plan, s, 0))
    /\ UNCHANGED <<Tables, cache, clock, faults>>

StartActivate(r) ==
    /\ request[r] = Idle
    /\ \E s \in Latest(DOMAIN sub) :
          GoTo(r, IF sub[s].status = "active" THEN Done
                  ELSE Write("activate", "write", sub[s].plan, s, 0))
    /\ UNCHANGED <<Tables, cache, clock, faults>>

\* Neither touches the cache.
SetStatus(r, op, status) ==
    /\ At(r, {op}, "write")
    /\ sub' = [sub EXCEPT ![request[r].row].status = status]
    /\ Finish(r)
    /\ UNCHANGED <<order, log, cache, clock, faults>>

SuspendTenant(r) == SetStatus(r, "suspend", "suspended")
ActivateTenant(r) == SetStatus(r, "activate", "active")

-----------------------------------------------------------------------------
(* Usage: the intake counts transactions, the Copilot its turns            *)

\* Any active row: the intake's query has no order.
StartStore(r, s) ==
    /\ request[r] = Idle /\ s \in Active
    /\ GoTo(r, [Write("store", "write", sub[s].plan, s, 0) EXCEPT !.seen = sub[s].used])
    /\ UNCHANGED <<Tables, cache, clock, faults>>

StoreTransaction(r) ==
    /\ At(r, {"store"}, "write")
    /\ LET q == request[r] IN
       /\ sub' = [sub EXCEPT ![q.row].used = @ + 1]
       /\ IF OveragePlan(q.plan) /\ q.seen + 1 > TxnQuota
          THEN log' = log \union {clock} /\ clock' = clock + 1
          ELSE UNCHANGED <<log, clock>>
    /\ Finish(r)
    /\ UNCHANGED <<order, cache, faults>>

StartChat(r) ==
    /\ request[r] = Idle
    /\ StartRead(r, Read("chat", "none"))

\* CopilotQuotaGuard; without a subscription the turn is served uncounted.
GuardChat(r) ==
    /\ At(r, {"chat"}, "found")
    /\ LET c == request[r].copy IN
       GoTo(r, IF c = NoCopy \/ (ChatLimited(c.plan) /\ c.chats >= ChatQuota) THEN Done
               ELSE [request[r] EXCEPT !.pc = "turn", !.row = c.id])
    /\ UNCHANGED <<Tables, cache, clock, faults>>

CountChat(r) ==
    /\ At(r, {"chat"}, "turn")
    /\ sub' = [sub EXCEPT ![request[r].row].chats = @ + 1]
    /\ Finish(r)
    /\ UNCHANGED <<order, log, cache, clock, faults>>

-----------------------------------------------------------------------------
(* Overage orders and the end of a cycle                                   *)

StartOverage(r) ==
    /\ request[r] = Idle
    /\ StartRead(r, Read("overage", "none"))

CycleElapses(s) ==
    /\ sub[s].status # "cancelled" /\ ~sub[s].due
    /\ sub' = [sub EXCEPT ![s].due = TRUE]
    /\ UNCHANGED <<order, log, cache, request, clock, faults>>

\* One nightly job at a time: @Cron takes no lock, but there is one backend
\* container, and it fires once a night.
StartCron(r) ==
    /\ request[r] = Idle
    /\ \A q \in Request : request[q] \notin {Idle, Done} => request[q].op # "cron"
    /\ LET expired == {s \in Active : sub[s].due} IN
       /\ expired # {}
       /\ GoTo(r, [Read("cron", "none") EXCEPT !.pc = "next", !.todo = expired, !.now = clock])
    /\ clock' = clock + 1
    /\ UNCHANGED <<Tables, cache, faults>>

NextExpired(r, s) ==
    /\ At(r, {"cron"}, "next") /\ s \in request[r].todo
    /\ StartRead(r, [request[r] EXCEPT !.pc = "miss", !.copy = NoCopy, !.charged = {},
                                       !.row = s, !.todo = @ \ {s}])

\* The nightly job swallows a refusal and goes on to the reset.
LeaveOverage(r) == IF request[r].op = "cron" THEN Step(r, "reset") ELSE Finish(r)

CountOverage(r) ==
    /\ At(r, {"overage", "cron"}, "found")
    /\ LET c == request[r].copy
           found == {l \in log : l >= c.cycleStart}
       IN IF c = NoCopy \/ ~OveragePlan(c.plan) \/ found = {} THEN LeaveOverage(r)
          ELSE GoTo(r, [request[r] EXCEPT !.pc = "pending", !.charged = found])
    /\ UNCHANGED <<Tables, cache, clock, faults>>

FindPending(r) ==
    /\ At(r, {"overage", "cron"}, "pending")
    /\ IF \E o \in DOMAIN order : order[o].type = "overage" /\ order[o].status = "pending"
       THEN LeaveOverage(r) ELSE Step(r, "create")
    /\ UNCHANGED <<Tables, cache, clock, faults>>

CreateOverageOrder(r) ==
    /\ At(r, {"overage", "cron"}, "create")
    /\ order' = Append(order, [type |-> "overage", plan |-> request[r].copy.plan,
                               status |-> "pending", charged |-> request[r].charged])
    /\ LeaveOverage(r)
    /\ UNCHANGED <<sub, log, cache, clock, faults>>

\* Mutant: the quota of the old cycle is subtracted instead of starting at zero.
CarryOver(row, now) == [row EXCEPT !.used = @ - TxnQuota, !.chats = 0, !.cycleStart = now,
                                   !.due = FALSE]

Renewed(row, now) == [row EXCEPT !.used = 0, !.chats = 0, !.cycleStart = now, !.due = FALSE]

AfterReset(r) == IF request[r].todo = {} THEN Finish(r) ELSE Step(r, "next")

\* Mutant: the reset finds its row again by tenant and status.
ResetTenant(r) ==
    /\ At(r, {"cron"}, "reset")
    /\ sub' = [s \in DOMAIN sub |-> IF s \in Active THEN Renewed(sub[s], request[r].now)
                                     ELSE sub[s]]
    /\ AfterReset(r)
    /\ UNCHANGED <<order, log, cache, clock, faults>>

ResetCycle(r) ==
    /\ At(r, {"cron"}, "reset")
    /\ sub' = [sub EXCEPT ![request[r].row] = Renewed(@, request[r].now)]
    /\ AfterReset(r)
    /\ UNCHANGED <<order, log, cache, clock, faults>>

\* PostgreSQL or PayOS refuses the nightly job a call: it goes on without the
\* overage order, or without the reset.
NightlyRefused(r) ==
    /\ \/ At(r, {"cron"}, "reset") /\ AfterReset(r)
       \/ \E pc \in {"miss", "found", "pending", "create"} :
             At(r, {"cron"}, pc) /\ Step(r, "reset")
    /\ Fails
    /\ UNCHANGED <<Tables, cache, clock>>

\* A crash, or PostgreSQL refusing a call; Redis refusing to delete the copy.
RequestDies(r) ==
    /\ request[r] \notin {Idle, Done}
    /\ Finish(r)
    /\ Fails
    /\ UNCHANGED <<Tables, cache, clock>>

-----------------------------------------------------------------------------
\* What a running request does next.
Continue(r) ==
    \/ ReadActive(r) \/ FillCache(r) \/ FillFails(r) \/ Invalidate(r)
    \/ CreateUpgradeOrder(r) \/ PayOverage(r) \/ BeginSwitch(r) \/ CommitSwitch(r)
    \/ CommitSetPlan(r) \/ SuspendTenant(r) \/ ActivateTenant(r)
    \/ StoreTransaction(r) \/ GuardChat(r) \/ CountChat(r)
    \/ CountOverage(r) \/ FindPending(r) \/ CreateOverageOrder(r) \/ ResetCycle(r)
    \/ NightlyRefused(r)
    \/ \E s \in DOMAIN sub : NextExpired(r, s)

Start(r) ==
    \/ \E p \in Plan : StartUpgrade(r, p) \/ StartSetPlan(r, p)
    \/ \E o \in DOMAIN order : StartConfirm(r, o)
    \/ \E s \in DOMAIN sub : StartStore(r, s)
    \/ StartSuspend(r) \/ StartActivate(r)
    \/ StartChat(r) \/ StartOverage(r) \/ StartCron(r)

Next ==
    \/ \E r \in Request : Start(r) \/ Continue(r) \/ RequestDies(r)
    \/ \E s \in DOMAIN sub : CycleElapses(s)
    \/ ExpireCache

Spec == Init /\ [][Next]_vars

-----------------------------------------------------------------------------
\* However plan changes, payments, suspensions and their failures interleave, a
\* tenant is never left with nothing but cancelled subscriptions.
AlwaysCovered == WithStatus({"active", "suspended"}) # {}

\* Money taken for an upgrade has opened a subscription of the plan paid for.
PaidOrderGranted ==
    \A o \in DOMAIN order : order[o].type = "upgrade" /\ order[o].status = "paid" =>
        \E s \in DOMAIN sub : sub[s].paidBy = o /\ sub[s].plan = order[o].plan

\* Counters go down only when the cycle they count is over.
CountersResetWhenDue ==
    [][\A s \in DOMAIN sub :
          (sub'[s].used < sub[s].used \/ sub'[s].chats < sub[s].chats) => sub[s].due]_vars

\* What payos-billing-plan.md says of confirmPayment: a payment reported twice is
\* applied once.
OrderAppliedOnce ==
    \A s, t \in DOMAIN sub : sub[s].paidBy # 0 /\ sub[s].paidBy = sub[t].paidBy => s = t

\* What copilot-quota-spec.md says of the quota: with all turns of a cycle used the
\* next one is refused, which is why the check must not read a cached count.
ChatsWithinQuota ==
    \A s \in DOMAIN sub : ChatLimited(sub[s].plan) => sub[s].chats <= ChatQuota

\* What rbac.md says of overage_price_per_transaction, the fee of each transaction
\* above the quota: no two orders the tenant has paid charge the same one.
OverageChargedOnce ==
    \A o, p \in DOMAIN order :
        o # p /\ order[o].status = "paid" /\ order[p].status = "paid" =>
            order[o].charged \intersect order[p].charged = {}
=============================================================================
