------------------------- MODULE CopilotRecordsProofs -------------------------
(***************************************************************************)
(* Proofs about CopilotTurn.tla: what a turn writes to its response, what  *)
(* it leaves in the database and what it is charged, for any number of     *)
(* questions and streams, any limit, any number of events and failures.    *)
(***************************************************************************)
EXTENDS CopilotTurnProofs

USE CopilotAssumption

-----------------------------------------------------------------------------
(* The order of the events.                                                *)

NoDone(s) == \A i \in DOMAIN s : s[i] # "done"
OnlyPartial(s) == \A i \in DOMAIN s : s[i] = "partial"
DoneThenPartial(s) == \A i, j \in DOMAIN s : s[i] = "done" /\ i < j => s[j] = "partial"

LEMMA EmptyOrder == NoDone(<<>>) /\ OnlyPartial(<<>>) /\ DoneThenPartial(<<>>)
  BY DEF NoDone, OnlyPartial, DoneThenPartial

\* What may be pushed behind what.
LEMMA AppendOrder ==
    ASSUME NEW s \in Seq(Event), NEW e \in Event
    PROVE  /\ NoDone(s) => DoneThenPartial(Append(s, e))
           /\ e = "partial" /\ DoneThenPartial(s) => DoneThenPartial(Append(s, e))
           /\ e = "partial" /\ OnlyPartial(s) => OnlyPartial(Append(s, e))
           /\ NoDone(Append(s, e)) <=> NoDone(s) /\ e # "done"
<1> DEFINE a == Append(s, e)
<1>1. /\ DOMAIN s = 1..Len(s) /\ Len(s) \in Nat
      /\ DOMAIN a = 1..(Len(s) + 1) /\ a[Len(s) + 1] = e
      /\ \A i \in DOMAIN s : i \in DOMAIN a /\ a[i] = s[i]
  OBVIOUS
<1>2. \A i \in DOMAIN a : i = Len(s) + 1 \/ (i \in DOMAIN s /\ a[i] = s[i])
  BY <1>1
<1> HIDE DEF a
<1>3. NoDone(s) => DoneThenPartial(a)
  BY <1>1, <1>2 DEF NoDone, DoneThenPartial
<1>4. NoDone(a) <=> NoDone(s) /\ e # "done"
  BY <1>1, <1>2 DEF NoDone
<1>5. e = "partial" /\ DoneThenPartial(s) => DoneThenPartial(a)
  BY <1>1, <1>2 DEF DoneThenPartial
<1>6. e = "partial" /\ OnlyPartial(s) => OnlyPartial(a)
  BY <1>1, <1>2 DEF OnlyPartial
<1> QED
  BY <1>3, <1>4, <1>5, <1>6 DEF a

\* What is left when the first event is read.
LEMMA TailOrder ==
    ASSUME NEW s \in Seq(Event), s # <<>>
    PROVE  /\ DoneThenPartial(s) => DoneThenPartial(Tail(s))
           /\ DoneThenPartial(s) /\ Head(s) = "done" => OnlyPartial(Tail(s))
           /\ OnlyPartial(s) => OnlyPartial(Tail(s))
           /\ NoDone(s) <=> NoDone(Tail(s)) /\ Head(s) # "done"
<1> DEFINE u == Tail(s)
<1>1. /\ DOMAIN s = 1..Len(s) /\ Len(s) \in Nat \ {0} /\ Head(s) = s[1] /\ 1 \in DOMAIN s
      /\ DOMAIN u = 1..(Len(s) - 1)
      /\ \A i \in DOMAIN u : i + 1 \in DOMAIN s /\ u[i] = s[i + 1]
  OBVIOUS
<1>2. \A i \in DOMAIN s : i = 1 \/ (i - 1 \in DOMAIN u /\ s[i] = u[i - 1])
  BY <1>1
<1> HIDE DEF u
<1>3. DoneThenPartial(s) => DoneThenPartial(u)
  BY <1>1 DEF DoneThenPartial
<1>4. DoneThenPartial(s) /\ Head(s) = "done" => OnlyPartial(u)
  BY <1>1 DEF DoneThenPartial, OnlyPartial
<1>5. OnlyPartial(s) => OnlyPartial(u)
  BY <1>1 DEF OnlyPartial
<1>6. NoDone(s) <=> NoDone(u) /\ Head(s) # "done"
  BY <1>1, <1>2 DEF NoDone
<1> QED
  BY <1>3, <1>4, <1>5, <1>6 DEF u
-----------------------------------------------------------------------------
(* The inductive invariant.                                                *)

Unasked == {"off", "guard", "incr", "expire", "refused", "prepare"}
LastSteps == {"close", "over"}

\* The reply of the turn has reached the response, or waits in the queue.
Answered(r) == r.sent \/ ~NoDone(Cont(r))

\* What the generator has still to write fits what both of them have done; it
\* leaves the queue only when told, and an end without a reply is an error or
\* an abort.
WriterFits(t, r) ==
    /\ DoneThenPartial(Cont(r))
    /\ r.sent => OnlyPartial(Cont(r))
    /\ r.pump = "off" => Cont(r) = <<>> /\ (r.sent => r.pc \in LastSteps)
    /\ r.pump \in {"answer", "fallback", "count"} => ~Answered(r)
    /\ r.pump = "partial" => r.heard
    /\ r.pump = "over" /\ ~r.heard => r.queue.fatal \/ Answered(r)
    /\ r.pump # "off" => r.pc = "tools" \/ (r.told /\ Cont(r) = <<>>)
    /\ r.heard => r.signal
    /\ r.queue.fatal \/ r.pc = "delete" => r.broken
    /\ r.pc \in Unasked \union {"history", "simple", "count"} => ~r.broken
    /\ t[2] = "brief" => r.pump = "off" /\ r.pc \in Unasked \union LastSteps

\* What the turn was charged and the rows it left, by where it is.
RecordFits(r, count, kept, failed) ==
    /\ r.broken => failed > 0
    /\ r.pc \in Unasked => kept = {}
    /\ failed = 0 /\ r.pc \in {"history", "simple", "count", "tools"} => "question" \in kept
    /\ failed = 0 /\ Answered(r) => "question" \in kept /\ (r.free \/ count >= 1)
    /\ "reply" \in kept <=> Answered(r) \/ r.pc = "count" \/ r.pump = "count"
    /\ r.pump = "partial" => "partial" \in kept
    /\ count <= (IF Answered(r) THEN 1 ELSE 0)
                  + (IF r.pump = "over" /\ "partial" \in kept THEN 1 ELSE 0)
    /\ r.pc \in LastSteps /\ ~r.sent /\ ~r.signal /\ "question" \in kept
          => failed > IF r.broken THEN 1 ELSE 0

\* A stream that is still connected shows its reply, and is not asked again.
AnswerShown(q) ==
    /\ chat[q].got => turn[Stream(q)].sent
    /\ turn[Stream(q)].link = "up" /\ turn[Stream(q)].sent => chat[q].got
    /\ turn[Stream(q)].link = "up" /\ turn[Json(q)].pc # "off"
          => turn[Stream(q)].pc \in LastSteps /\ ~chat[q].got
    /\ chat[q].pc = "answered" => chat[q].got \/ turn[Json(q)].sent

TurnFits(t) == WriterFits(t, turn[t]) /\ RecordFits(turn[t], used[t], rows[t], faults)

RecordInv ==
    /\ IndInv
    /\ \A t \in Turn : TurnFits(t)
    /\ \A q \in Question : AnswerShown(q)

LEMMA RecordTyped ==
    ASSUME RecordInv, NEW t \in Turn
    PROVE  /\ turn \in [Turn -> Request] /\ turn[t] \in Request /\ turn[t].queue \in TQ!Queue
           /\ used \in [Turn -> Nat] /\ rows \in [Turn -> SUBSET Row] /\ faults \in Nat
           /\ Fits(t, turn[t]) /\ TurnFits(t)
  BY Expand DEF RecordInv, IndInv, TypeOK

LEMMA ContTyped ==
    ASSUME NEW r \in Request
    PROVE  Cont(r) \in Seq(Event)
<1>1. r.queue.pending \in Seq(Event)
  BY DEF Request, TQ!Queue
<1>2. CASE r.queue.handed \in Event
  <2>1. <<r.queue.handed>> \in Seq(Event)
    BY <1>2
  <2> QED
    BY <1>1, <1>2, <2>1 DEF Cont, TQ!Contents
<1>3. CASE r.queue.handed \notin Event
  BY <1>1, <1>3 DEF Cont, TQ!Contents
<1> QED
  BY <1>2, <1>3

\* Before the pump starts there is no reply.
LEMMA EarlyAnswer ==
    ASSUME NEW t, NEW r, WriterFits(t, r), r.pump = "off", r.pc \notin LastSteps
    PROVE  ~Answered(r)
  BY EmptyOrder DEF WriterFits, Answered

-----------------------------------------------------------------------------
(* The generator.                                                          *)

\* A request that differs in its program counter only.
SameButPc(a, b) ==
    /\ b.queue = a.queue /\ b.told = a.told /\ b.pump = a.pump /\ b.sent = a.sent
    /\ b.heard = a.heard /\ b.signal = a.signal /\ b.broken = a.broken

LEMMA GoFields ==
    ASSUME RecordInv, NEW t \in Turn, NEW pc, Go(t, pc)
    PROVE  /\ turn'[t].pc = pc /\ SameButPc(turn[t], turn'[t])
           /\ turn'[t].free = turn[t].free
  BY RecordTyped DEF Go, SameButPc, Request

LEMMA SameAnswer ==
    ASSUME NEW a, NEW b, b.queue = a.queue, b.sent = a.sent
    PROVE  Cont(b) = Cont(a) /\ (Answered(b) <=> Answered(a))
  BY DEF Cont, Answered

\* A failure is counted, and nothing else changes the count.
LEMMA FaultsCount == ASSUME RecordInv, Fails PROVE faults' = faults + 1 /\ faults' \in Nat
  BY DEF Fails, RecordInv, IndInv, TypeOK

LEMMA GuardsRecord ==
    ASSUME RecordInv, NEW t \in Turn,
           Guard(t) \/ Incr(t) \/ Expire(t) \/ Refuse(t) \/ Brief(t)
    PROVE  TurnFits(t)'
<1> USE DEF At, Records
<1> DEFINE a == turn[t]
           b == turn'[t]
<1>0. /\ turn \in [Turn -> Request] /\ a \in Request /\ faults \in Nat
      /\ WriterFits(t, a) /\ RecordFits(a, used[t], rows[t], faults)
  BY RecordTyped DEF TurnFits
<1>1. /\ used'[t] = used[t] /\ rows'[t] = rows[t]
      /\ faults' \in Nat /\ faults' >= faults
  BY <1>0, FaultsCount DEF Guard, Incr, Expire, Refuse, Decr, Brief
<1>2. /\ SameButPc(a, b) /\ a.pc \in Unasked /\ b.pc \in Unasked \union LastSteps
      /\ b.pc = "close" => a.pc = "prepare"
  <2>1. CASE Refuse(t) \/ Brief(t)
    BY <2>1, GoFields DEF Refuse, Brief, Unasked, LastSteps
  <2>4. CASE Guard(t)
    BY <1>0, <2>4 DEF Guard, Go, SameButPc, Request, Unasked, LastSteps
  <2>2. CASE Incr(t)
    BY <1>0, <2>2 DEF Incr, SameButPc, Request, Unasked
  <2>3. CASE Expire(t)
    BY <1>0, <2>3 DEF Expire, SameButPc, Request, Unasked, LastSteps
  <2> QED
    BY <2>1, <2>2, <2>3, <2>4
<1>3. a.pump = "off"
  BY <1>2, EarlyTurn DEF RecordInv, Unasked, Late
<1>4. ~Answered(a) /\ ~Answered(b) /\ Cont(b) = Cont(a)
  BY <1>0, <1>2, <1>3, EarlyAnswer, SameAnswer DEF SameButPc, Unasked, LastSteps
<1> HIDE DEF a, b
<1>5. WriterFits(t, b)
  BY <1>0, <1>2, <1>3, <1>4 DEF WriterFits, SameButPc, Unasked, LastSteps
<1>6. RecordFits(b, used'[t], rows'[t], faults')
  BY <1>0, <1>1, <1>2, <1>3, <1>4 DEF RecordFits, SameButPc, Unasked, LastSteps
<1> QED
  BY <1>5, <1>6 DEF TurnFits, b

LEMMA GiveBackRecords ==
    ASSUME RecordInv, NEW t \in Turn, GiveBack(t)
    PROVE  TurnFits(t)'
<1> DEFINE a == turn[t]
           b == turn'[t]
<1>0. WriterFits(t, a) /\ RecordFits(a, used[t], rows[t], faults) /\ faults \in Nat
  BY RecordTyped DEF TurnFits
<1>1. /\ used'[t] = used[t] /\ rows'[t] = rows[t]
      /\ faults' \in Nat /\ faults' >= faults
  BY <1>0, FaultsCount DEF GiveBack, Decr, Records
<1>2. SameButPc(a, b) /\ b.free = a.free /\ a.pc = "close" /\ b.pc = "over"
  BY GoFields DEF GiveBack, At
<1>3. Cont(b) = Cont(a) /\ (Answered(b) <=> Answered(a))
  BY <1>2, SameAnswer DEF SameButPc
<1> HIDE DEF a, b
<1>4. WriterFits(t, b)
  BY <1>0, <1>2, <1>3 DEF WriterFits, SameButPc, Unasked, LastSteps
<1>5. RecordFits(b, used'[t], rows'[t], faults')
  BY <1>0, <1>1, <1>2, <1>3 DEF RecordFits, SameButPc, Unasked, LastSteps
<1> QED
  BY <1>4, <1>5 DEF TurnFits, b

\* The question is stored, or the turn ends without it.
LEMMA SaveQuestionRecords ==
    ASSUME RecordInv, NEW t \in Turn, SaveQuestion(t)
    PROVE  TurnFits(t)'
<1> USE DEF At
<1> DEFINE a == turn[t]
           b == turn'[t]
<1>0. /\ rows \in [Turn -> SUBSET Row] /\ faults \in Nat
      /\ WriterFits(t, a) /\ RecordFits(a, used[t], rows[t], faults)
  BY RecordTyped DEF TurnFits
<1>1. a.pc = "prepare" /\ t[2] # "brief" /\ used'[t] = used[t]
  BY DEF SaveQuestion
<1>2. a.pump = "off" /\ rows[t] = {}
  BY <1>0, <1>1, EarlyTurn DEF RecordInv, Late, RecordFits, Unasked
<1>3. SameButPc(a, b) /\ b.pc \in {"history"} \union LastSteps
  BY GoFields, LeftLate DEF SaveQuestion, LastSteps
<1>4. /\ b.pc = "history" => rows'[t] = {"question"} /\ faults' = faults
      /\ b.pc \in LastSteps => rows'[t] = {} /\ faults' = faults + 1
  BY <1>0, <1>2, GoFields, LeftLate, FaultsCount DEF SaveQuestion, Save, LastSteps
<1>5. ~Answered(a) /\ ~Answered(b) /\ Cont(b) = Cont(a)
  BY <1>0, <1>1, <1>2, <1>3, EarlyAnswer, SameAnswer DEF SameButPc, LastSteps
<1> HIDE DEF a, b
<1>6. WriterFits(t, b)
  BY <1>0, <1>1, <1>2, <1>3, <1>5 DEF WriterFits, SameButPc, Unasked, LastSteps
<1>7. RecordFits(b, used'[t], rows'[t], faults')
  BY <1>0, <1>1, <1>2, <1>3, <1>4, <1>5 DEF RecordFits, SameButPc, Unasked, LastSteps
<1> QED
  BY <1>6, <1>7 DEF TurnFits, b

\* The pump starts, or the turn goes on without one, or it ends and leaves its
\* question.
LEMMA ReadHistoryRecords ==
    ASSUME RecordInv, NEW t \in Turn, ReadHistory(t)
    PROVE  TurnFits(t)'
<1> USE DEF At
<1> DEFINE a == turn[t]
           b == turn'[t]
<1>0. /\ a \in Request /\ turn \in [Turn -> Request] /\ faults \in Nat
      /\ WriterFits(t, a) /\ RecordFits(a, used[t], rows[t], faults)
  BY RecordTyped DEF TurnFits
<1>1. a.pc = "history" /\ used'[t] = used[t] /\ rows'[t] = rows[t]
  BY DEF ReadHistory, Records
<1>2. a.pump = "off" /\ ~a.heard
  BY <1>1, EarlyTurn DEF RecordInv, Late
<1>3. ~Answered(a)
  BY <1>0, <1>1, <1>2, EarlyAnswer DEF LastSteps
<1>4. CASE Go(t, "simple") /\ UNCHANGED faults
  <2>1. SameButPc(a, b) /\ b.pc = "simple"
    BY <1>4, GoFields
  <2>2. ~Answered(b) /\ Cont(b) = Cont(a)
    BY <1>3, <2>1, SameAnswer DEF SameButPc
  <2> HIDE DEF a, b
  <2>3. WriterFits(t, b)
    BY <1>0, <1>1, <1>2, <2>1, <2>2 DEF WriterFits, SameButPc, Unasked, LastSteps
  <2>4. RecordFits(b, used'[t], rows'[t], faults')
    BY <1>0, <1>1, <1>2, <1>3, <1>4, <2>1, <2>2 DEF RecordFits, SameButPc, Unasked, LastSteps
  <2> QED
    BY <2>3, <2>4 DEF TurnFits, b
<1>5. CASE Go(t, Left(t)) /\ Fails
  <2>1. SameButPc(a, b) /\ b.pc \in LastSteps /\ faults' = faults + 1
    BY <1>5, GoFields, LeftLate, FaultsCount DEF LastSteps
  <2>2. ~Answered(b) /\ Cont(b) = Cont(a)
    BY <1>3, <2>1, SameAnswer DEF SameButPc
  <2> HIDE DEF a, b
  <2>3. WriterFits(t, b)
    BY <1>0, <1>1, <1>2, <2>1, <2>2 DEF WriterFits, SameButPc, Unasked, LastSteps
  <2>4. RecordFits(b, used'[t], rows'[t], faults')
    BY <1>0, <1>1, <1>2, <1>3, <2>1, <2>2
       DEF RecordFits, WriterFits, SameButPc, Unasked, LastSteps
  <2> QED
    BY <2>3, <2>4 DEF TurnFits, b
<1>6. CASE /\ turn' = [turn EXCEPT ![t].pc = "tools", ![t].pump = "answer",
                                   ![t].heard = turn[t].signal]
           /\ UNCHANGED faults
  <2>1. /\ b.pc = "tools" /\ b.pump = "answer" /\ b.heard = a.signal /\ b.signal = a.signal
        /\ b.queue = a.queue /\ b.sent = a.sent /\ b.broken = a.broken /\ b.told = a.told
    BY <1>0, <1>6 DEF Request
  <2>2. ~Answered(b) /\ Cont(b) = Cont(a)
    BY <1>3, <2>1, SameAnswer
  <2> HIDE DEF a, b
  <2>3. WriterFits(t, b)
    BY <1>0, <1>1, <1>2, <2>1, <2>2 DEF WriterFits, Unasked, LastSteps
  <2>4. RecordFits(b, used'[t], rows'[t], faults')
    BY <1>0, <1>1, <1>2, <1>3, <1>6, <2>1, <2>2 DEF RecordFits, Unasked, LastSteps
  <2> QED
    BY <2>3, <2>4 DEF TurnFits, b
<1> QED
  BY <1>4, <1>5, <1>6 DEF ReadHistory

\* The reply of a turn without a pump is stored, is dropped, or fails.
LEMMA SimpleReplyRecords ==
    ASSUME RecordInv, NEW t \in Turn, SimpleReply(t)
    PROVE  TurnFits(t)'
<1> USE DEF At
<1> DEFINE a == turn[t]
           b == turn'[t]
<1>0. /\ a \in Request /\ turn \in [Turn -> Request] /\ faults \in Nat
      /\ rows \in [Turn -> SUBSET Row]
      /\ WriterFits(t, a) /\ RecordFits(a, used[t], rows[t], faults)
  BY RecordTyped DEF TurnFits
<1>1. a.pc = "simple" /\ used'[t] = used[t]
  BY DEF SimpleReply
<1>2. a.pump = "off" /\ ~a.heard
  BY <1>1, EarlyTurn DEF RecordInv, Late
<1>3. ~Answered(a)
  BY <1>0, <1>1, <1>2, EarlyAnswer DEF LastSteps
<1>4. CASE a.signal /\ Go(t, Left(t)) /\ UNCHANGED <<rows, faults>>
  <2>1. SameButPc(a, b) /\ b.pc \in LastSteps /\ rows'[t] = rows[t] /\ faults' = faults
    BY <1>4, GoFields, LeftLate DEF LastSteps
  <2>2. ~Answered(b) /\ Cont(b) = Cont(a)
    BY <1>3, <2>1, SameAnswer DEF SameButPc
  <2> HIDE DEF a, b
  <2>3. WriterFits(t, b)
    BY <1>0, <1>1, <1>2, <2>1, <2>2 DEF WriterFits, SameButPc, Unasked, LastSteps
  <2>4. RecordFits(b, used'[t], rows'[t], faults')
    BY <1>0, <1>1, <1>2, <1>3, <1>4, <2>1, <2>2 DEF RecordFits, SameButPc, Unasked, LastSteps
  <2> QED
    BY <2>3, <2>4 DEF TurnFits, b
<1>5. CASE Go(t, "count") /\ Save(t, "reply") /\ UNCHANGED faults
  <2>1. /\ SameButPc(a, b) /\ b.pc = "count" /\ faults' = faults
        /\ rows'[t] = rows[t] \union {"reply"}
    BY <1>0, <1>5, GoFields DEF Save
  <2>2. ~Answered(b) /\ Cont(b) = Cont(a)
    BY <1>3, <2>1, SameAnswer DEF SameButPc
  <2> HIDE DEF a, b
  <2>3. WriterFits(t, b)
    BY <1>0, <1>1, <1>2, <2>1, <2>2 DEF WriterFits, SameButPc, Unasked, LastSteps
  <2>4. RecordFits(b, used'[t], rows'[t], faults')
    BY <1>0, <1>1, <1>2, <1>3, <2>1, <2>2 DEF RecordFits, SameButPc, Unasked, LastSteps
  <2> QED
    BY <2>3, <2>4 DEF TurnFits, b
<1>6. CASE /\ turn' = [turn EXCEPT ![t].pc = "delete", ![t].broken = TRUE]
           /\ Fails /\ UNCHANGED rows
  <2>1. /\ b.pc = "delete" /\ b.broken = TRUE /\ b.pump = a.pump /\ b.heard = a.heard
        /\ b.signal = a.signal /\ b.queue = a.queue /\ b.sent = a.sent /\ b.told = a.told
        /\ rows'[t] = rows[t] /\ faults' = faults + 1
    BY <1>0, <1>6, FaultsCount DEF Request
  <2>2. ~Answered(b) /\ Cont(b) = Cont(a)
    BY <1>3, <2>1, SameAnswer
  <2> HIDE DEF a, b
  <2>3. WriterFits(t, b)
    BY <1>0, <1>1, <1>2, <2>1, <2>2 DEF WriterFits, Unasked, LastSteps
  <2>4. RecordFits(b, used'[t], rows'[t], faults')
    BY <1>0, <1>1, <1>2, <1>3, <2>1, <2>2 DEF RecordFits, Unasked, LastSteps
  <2> QED
    BY <2>3, <2>4 DEF TurnFits, b
<1> QED
  BY <1>4, <1>5, <1>6 DEF SimpleReply

LEMMA CountsOne ==
    ASSUME RecordInv, NEW t \in Turn, Count(t)
    PROVE  /\ faults' \in Nat
           /\ \/ used'[t] = used[t] + 1 /\ faults' = faults
              \/ used'[t] = used[t] /\ faults' = faults + 1
              \/ used'[t] = used[t] /\ faults' = faults /\ turn[t].free
  BY RecordTyped, FaultsCount DEF Count

LEMMA SimpleDoneRecords ==
    ASSUME RecordInv, NEW t \in Turn, SimpleDone(t)
    PROVE  TurnFits(t)'
<1> USE DEF At
<1> DEFINE a == turn[t]
           b == turn'[t]
<1>0. /\ a \in Request /\ turn \in [Turn -> Request] /\ faults \in Nat /\ used[t] \in Nat
      /\ WriterFits(t, a) /\ RecordFits(a, used[t], rows[t], faults)
  BY RecordTyped DEF TurnFits
<1>1. a.pc = "count" /\ rows'[t] = rows[t]
  BY DEF SimpleDone
<1>2. a.pump = "off" /\ ~a.heard
  BY <1>1, EarlyTurn DEF RecordInv, Late
<1>3. ~Answered(a)
  BY <1>0, <1>1, <1>2, EarlyAnswer DEF LastSteps
<1>4. /\ faults' \in Nat
      /\ \/ used'[t] = used[t] + 1 /\ faults' = faults
         \/ used'[t] = used[t] /\ faults' = faults + 1
         \/ used'[t] = used[t] /\ faults' = faults /\ a.free
  BY CountsOne DEF SimpleDone
<1>5. /\ b.pc \in LastSteps /\ b.sent = TRUE /\ b.pump = a.pump /\ b.heard = a.heard
      /\ b.signal = a.signal /\ b.queue = a.queue /\ b.broken = a.broken /\ b.told = a.told
      /\ b.free = a.free
  BY <1>0, LeftLate DEF SimpleDone, Request, LastSteps
<1>6. Answered(b) /\ Cont(b) = Cont(a) /\ Cont(a) = <<>>
  BY <1>0, <1>2, <1>5 DEF Answered, Cont, WriterFits
<1> HIDE DEF a, b
<1>7. WriterFits(t, b)
  BY <1>0, <1>1, <1>2, <1>5, <1>6, EmptyOrder DEF WriterFits, Unasked, LastSteps
<1>8. RecordFits(b, used'[t], rows'[t], faults')
  BY <1>0, <1>1, <1>2, <1>3, <1>4, <1>5, <1>6 DEF RecordFits, Unasked, LastSteps
<1> QED
  BY <1>7, <1>8 DEF TurnFits, b

\* The question of a broken turn goes, or a second failure leaves it.
LEMMA DeleteQuestionRecords ==
    ASSUME RecordInv, NEW t \in Turn, DeleteQuestion(t)
    PROVE  TurnFits(t)'
<1> USE DEF At
<1> DEFINE a == turn[t]
           b == turn'[t]
<1>0. /\ faults \in Nat /\ rows \in [Turn -> SUBSET Row]
      /\ WriterFits(t, a) /\ RecordFits(a, used[t], rows[t], faults)
  BY RecordTyped DEF TurnFits
<1>1. a.pc = "delete" /\ a.broken /\ faults > 0 /\ used'[t] = used[t]
  BY <1>0 DEF DeleteQuestion, WriterFits, RecordFits
<1>2. SameButPc(a, b) /\ b.free = a.free /\ b.pc \in LastSteps
  BY GoFields, LeftLate DEF DeleteQuestion, LastSteps
<1>3. \/ rows'[t] = rows[t] \ {"question"} /\ faults' = faults
      \/ rows'[t] = rows[t] /\ faults' = faults + 1
  BY <1>0, FaultsCount DEF DeleteQuestion
<1>4. Cont(b) = Cont(a) /\ (Answered(b) <=> Answered(a))
  BY <1>2, SameAnswer DEF SameButPc
<1> HIDE DEF a, b
<1>5. WriterFits(t, b)
  BY <1>0, <1>1, <1>2, <1>4 DEF WriterFits, SameButPc, Unasked, LastSteps
<1>6. RecordFits(b, used'[t], rows'[t], faults')
  BY <1>0, <1>1, <1>2, <1>3, <1>4 DEF RecordFits, SameButPc, Unasked, LastSteps
<1> QED
  BY <1>5, <1>6 DEF TurnFits, b

\* Reading an event never hides that the turn is answered.
LEMMA DeliverRecords ==
    ASSUME RecordInv, NEW t \in Turn, Deliver(t)
    PROVE  TurnFits(t)'
<1> USE DEF At
<1> DEFINE a == turn[t]
           b == turn'[t]
<1>0. /\ a \in Request /\ turn \in [Turn -> Request] /\ a.queue \in TQ!Queue
      /\ Sound(a.queue) /\ faults \in Nat
      /\ WriterFits(t, a) /\ RecordFits(a, used[t], rows[t], faults)
  BY RecordTyped DEF TurnFits, Fits
<1>1. /\ a.pc = "tools" /\ a.queue.handed \in Event
      /\ used'[t] = used[t] /\ rows'[t] = rows[t] /\ faults' = faults
  BY DEF Deliver, Records
<1>2. /\ b.queue = TQ!Pulled(a.queue) /\ b.sent = (a.sent \/ a.queue.handed = "done")
      /\ b.pc = a.pc /\ b.pump = a.pump /\ b.heard = a.heard /\ b.signal = a.signal
      /\ b.broken = a.broken /\ b.told = a.told /\ b.free = a.free
  BY <1>0 DEF Deliver, Request
<1>3. /\ b.queue.fatal = a.queue.fatal
      /\ Cont(a) # <<>> /\ Head(Cont(a)) = a.queue.handed /\ Cont(b) = Tail(Cont(a))
  BY <1>0, <1>1, <1>2, PulledReads DEF Cont
<1>4. Cont(a) \in Seq(Event) /\ a.sent \in BOOLEAN
  BY <1>0, ContTyped DEF Request
<1>5. /\ DoneThenPartial(Cont(b))
      /\ a.queue.handed = "done" => OnlyPartial(Cont(b))
      /\ OnlyPartial(Cont(a)) => OnlyPartial(Cont(b))
      /\ NoDone(Cont(a)) <=> NoDone(Cont(b)) /\ a.queue.handed # "done"
  BY <1>0, <1>3, <1>4, TailOrder DEF WriterFits
<1>6. (Answered(b) <=> Answered(a)) /\ (b.sent => OnlyPartial(Cont(b)))
  BY <1>0, <1>2, <1>4, <1>5 DEF Answered, WriterFits
<1>7. a.pump # "off"
  BY <1>0, <1>3 DEF WriterFits
<1> HIDE DEF a, b
<1>8. WriterFits(t, b)
  BY <1>0, <1>1, <1>2, <1>3, <1>5, <1>6, <1>7 DEF WriterFits, Unasked, LastSteps
<1>9. RecordFits(b, used'[t], rows'[t], faults')
  BY <1>0, <1>1, <1>2, <1>6 DEF RecordFits, Unasked, LastSteps
<1> QED
  BY <1>8, <1>9 DEF TurnFits, b

\* The generator leaves the queue: an end without an error comes with a reply
\* that was sent, or after an abort.
LEMMA LeaveToolsRecords ==
    ASSUME RecordInv, NEW t \in Turn, LeaveTools(t)
    PROVE  TurnFits(t)'
<1> USE DEF At
<1> DEFINE a == turn[t]
           b == turn'[t]
<1>0. /\ a \in Request /\ turn \in [Turn -> Request] /\ faults \in Nat
      /\ Fits(t, a) /\ Sound(a.queue)
      /\ WriterFits(t, a) /\ RecordFits(a, used[t], rows[t], faults)
  BY RecordTyped DEF TurnFits, Fits
<1>1. /\ a.pc = "tools" /\ a.queue.handed \in {TQ!End, TQ!Error}
      /\ used'[t] = used[t] /\ rows'[t] = rows[t] /\ faults' = faults
  BY DEF LeaveTools, Records
<1>2. /\ b.pc = (IF a.queue.handed = TQ!End THEN Left(t) ELSE "delete") /\ b.told = TRUE
      /\ b.queue = a.queue /\ b.sent = a.sent /\ b.pump = a.pump /\ b.heard = a.heard
      /\ b.signal = a.signal /\ b.broken = a.broken /\ b.free = a.free
  BY <1>0 DEF LeaveTools, Request
<1>3. Cont(b) = Cont(a) /\ (Answered(b) <=> Answered(a))
  BY <1>2, SameAnswer
<1>4. Cont(a) = <<>> /\ a.pump = "over"
  BY <1>0, <1>1 DEF Fits, Sound, Cont, TQ!Contents, TQ!End, TQ!Error, Event
<1>5. Answered(a) => a.sent
  BY <1>4, EmptyOrder DEF Answered
<1>6. \/ b.pc \in LastSteps /\ ~a.queue.fatal
      \/ b.pc = "delete" /\ a.queue.fatal
  BY <1>0, <1>1, <1>2, LeftLate DEF Sound, LastSteps
<1> HIDE DEF a, b
<1>7. WriterFits(t, b)
  BY <1>0, <1>1, <1>2, <1>3, <1>4, <1>6 DEF WriterFits, Unasked, LastSteps
<1>8. RecordFits(b, used'[t], rows'[t], faults')
  BY <1>0, <1>1, <1>2, <1>3, <1>4, <1>5, <1>6 DEF RecordFits, WriterFits, Unasked, LastSteps
<1> QED
  BY <1>7, <1>8 DEF TurnFits, b

\* A close that the pump hears is heard by streamChat too.
LEMMA CloseRecords ==
    ASSUME RecordInv, NEW t \in Turn, Close(t)
    PROVE  TurnFits(t)'
<1> DEFINE a == turn[t]
           b == turn'[t]
           listening == a.pc \in {"prepare", "history", "simple", "count", "tools"}
           running == a.pump \in {"answer", "fallback", "count", "partial"}
<1>0. /\ a \in Request /\ turn \in [Turn -> Request] /\ faults \in Nat /\ Fits(t, a)
      /\ WriterFits(t, a) /\ RecordFits(a, used[t], rows[t], faults)
  BY RecordTyped DEF TurnFits
<1>1. used'[t] = used[t] /\ rows'[t] = rows[t] /\ faults' = faults
  BY DEF Close, Records
<1>2. running => listening
  BY <1>0 DEF Fits, WriterFits
<1> HIDE DEF listening, running
<1>3. /\ b.signal = (a.signal \/ listening) /\ b.heard = (a.heard \/ running)
      /\ b.pc = a.pc /\ b.queue = a.queue /\ b.sent = a.sent /\ b.pump = a.pump
      /\ b.broken = a.broken /\ b.told = a.told /\ b.free = a.free
  BY <1>0 DEF Close, Request, listening, running
<1>4. Cont(b) = Cont(a) /\ (Answered(b) <=> Answered(a))
  BY <1>3, SameAnswer
<1>5. a.heard \in BOOLEAN /\ a.signal \in BOOLEAN
  BY <1>0 DEF Request
<1> HIDE DEF a, b
<1>6. WriterFits(t, b)
  BY <1>0, <1>2, <1>3, <1>4, <1>5 DEF WriterFits, Unasked, LastSteps
<1>7. RecordFits(b, used'[t], rows'[t], faults')
  BY <1>0, <1>1, <1>3, <1>4, <1>5 DEF RecordFits, Unasked, LastSteps
<1> QED
  BY <1>6, <1>7 DEF TurnFits, b

-----------------------------------------------------------------------------
(* The pump.                                                               *)

\* What the pump leaves alone.
SameButQueue(a, b) ==
    /\ b.pc = a.pc /\ b.told = a.told /\ b.sent = a.sent /\ b.heard = a.heard
    /\ b.signal = a.signal /\ b.free = a.free

\* While the pump runs the generator waits for it.
LEMMA Awaited ==
    ASSUME RecordInv, NEW t \in Turn, turn[t].pump \notin {"off", "over"}
    PROVE  /\ turn[t].pc = "tools" /\ ~turn[t].told /\ ~turn[t].queue.fatal /\ t[2] # "brief"
           /\ ~turn[t].queue.ended /\ Sound(turn[t].queue)
  BY RunningPump, RecordTyped DEF TurnFits, WriterFits, RecordInv

\* The request after an event was pushed and before the pump moves on.
LEMMA PushFields ==
    ASSUME RecordInv, NEW t \in Turn, turn[t].pump \notin {"off", "over"}, NEW e \in Event
    PROVE  /\ Push(t, e) \in Request /\ SameButQueue(turn[t], Push(t, e))
           /\ Push(t, e).pump = turn[t].pump /\ Push(t, e).broken = turn[t].broken
           /\ Push(t, e).queue \in TQ!Queue /\ Sound(Push(t, e).queue)
           /\ ~Push(t, e).queue.ended /\ ~Push(t, e).queue.fatal
           /\ Cont(Push(t, e)) = Append(Cont(turn[t]), e)
<1> DEFINE p == TQ!Pushed(turn[t].queue, e)
<1>0. turn[t] \in Request /\ turn[t].queue \in TQ!Queue
  BY RecordTyped
<1>1. /\ p \in TQ!Queue /\ Sound(p) /\ ~p.ended /\ ~p.fatal
      /\ TQ!Contents(p) = Append(TQ!Contents(turn[t].queue), e)
  BY <1>0, Awaited, PushedAppends
<1>2. Push(t, e) = [turn[t] EXCEPT !.queue = p]
  BY DEF Push
<1> HIDE DEF p
<1> QED
  BY <1>0, <1>1, <1>2 DEF Request, SameButQueue, Cont

\* The finally block keeps what was said, or closes the queue as it is.
WoundUp(t, s, b) ==
    /\ SameButQueue(s, b) /\ b.broken = s.broken /\ Cont(b) = Cont(s)
    /\ \/ /\ s.heard /\ b.pump = "partial" /\ b.queue.fatal = FALSE
          /\ rows'[t] = rows[t] \union {"partial"}
       \/ /\ b.pump = "over" /\ b.queue.fatal = s.broken
          /\ rows'[t] = rows[t]

LEMMA ClosedFields ==
    ASSUME NEW s \in Request, s.queue \in TQ!Queue, Sound(s.queue), ~s.queue.ended
    PROVE  /\ SameButQueue(s, Finished(s)) /\ Finished(s).broken = s.broken
           /\ Cont(Finished(s)) = Cont(s)
           /\ Finished(s).pump = "over" /\ Finished(s).queue.fatal = s.broken
<1> DEFINE q == IF s.broken THEN TQ!Failed(s.queue) ELSE TQ!Ended(s.queue)
<1>1. q \in TQ!Queue /\ q.fatal = s.broken /\ TQ!Contents(q) = TQ!Contents(s.queue)
  <2>1. s.broken \in BOOLEAN
    BY DEF Request
  <2>2. CASE s.broken
    BY <2>2, ClosedKeeps DEF TQ!Queue
  <2>3. CASE ~s.broken
    BY <2>1, <2>3, ClosedKeeps DEF TQ!Queue
  <2> QED
    BY <2>2, <2>3
<1>2. Finished(s) = [s EXCEPT !.pump = "over", !.text = FALSE, !.queue = q]
  BY DEF Finished
<1> HIDE DEF q
<1> QED
  BY <1>1, <1>2 DEF Request, SameButQueue, Cont

LEMMA WindFields ==
    ASSUME RecordInv, NEW t \in Turn, NEW s \in Request, s.queue \in TQ!Queue, Sound(s.queue),
           ~s.queue.ended, ~s.queue.fatal, Wind(t, s)
    PROVE  WoundUp(t, s, turn'[t])
<1>0. turn \in [Turn -> Request] /\ rows \in [Turn -> SUBSET Row]
  BY RecordTyped
<1>1. CASE s.heard /\ s.text
  <2> DEFINE r == [s EXCEPT !.pump = "partial"]
  <2>1. turn'[t] = r /\ rows'[t] = rows[t] \union {"partial"}
    BY <1>0, <1>1 DEF Wind, Save
  <2>2. SameButQueue(s, r) /\ r.broken = s.broken /\ r.queue = s.queue /\ r.pump = "partial"
    BY DEF SameButQueue, Request
  <2>3. s.queue.fatal = FALSE
    BY DEF TQ!Queue
  <2> HIDE DEF r
  <2> QED
    BY <1>1, <2>1, <2>2, <2>3 DEF WoundUp, Cont
<1>2. CASE ~(s.heard /\ s.text)
  <2>1. turn'[t] = Finished(s) /\ rows'[t] = rows[t]
    BY <1>0, <1>2 DEF Wind
  <2>2. /\ SameButQueue(s, Finished(s)) /\ Finished(s).broken = s.broken
        /\ Cont(Finished(s)) = Cont(s)
        /\ Finished(s).pump = "over" /\ Finished(s).queue.fatal = s.broken
    BY ClosedFields
  <2> QED
    BY <2>1, <2>2 DEF WoundUp
<1> QED
  BY <1>1, <1>2

\* A piece of text or a tool call is no reply.
LEMMA EmitRecords ==
    ASSUME RecordInv, NEW t \in Turn, Emit(t)
    PROVE  TurnFits(t)'
<1> USE DEF Pump
<1> DEFINE a == turn[t]
           b == turn'[t]
<1>0. /\ a \in Request /\ turn \in [Turn -> Request] /\ a.pump = "answer"
      /\ WriterFits(t, a) /\ RecordFits(a, used[t], rows[t], faults)
  BY RecordTyped DEF TurnFits, Emit
<1>1. used'[t] = used[t] /\ rows'[t] = rows[t] /\ faults' = faults
  BY DEF Emit, Records
<1>2. PICK e \in {"activity", "delta"} :
          turn' = [turn EXCEPT ![t] =
              [Push(t, e) EXCEPT !.emitted = @ + 1, !.text = @ \/ e = "delta"]]
  BY DEF Emit
<1> DEFINE s == Push(t, e)
<1>3. /\ s \in Request /\ SameButQueue(a, s) /\ s.pump = a.pump /\ s.broken = a.broken
      /\ ~s.queue.fatal /\ Cont(s) = Append(Cont(a), e)
  BY <1>0, PushFields DEF Event
<1>4. b = [s EXCEPT !.emitted = @ + 1, !.text = @ \/ e = "delta"]
  BY <1>0, <1>2
<1> HIDE DEF s
<1>5. /\ SameButQueue(a, b) /\ b.pump = a.pump /\ b.broken = a.broken /\ ~b.queue.fatal
      /\ Cont(b) = Append(Cont(a), e)
  BY <1>3, <1>4 DEF SameButQueue, Request, Cont
<1>6. Cont(a) \in Seq(Event) /\ e \in Event /\ e # "done"
  BY <1>0, ContTyped DEF Event
<1>7. ~a.sent /\ NoDone(Cont(a))
  BY <1>0 DEF WriterFits, Answered
<1>8. NoDone(Cont(b)) /\ DoneThenPartial(Cont(b))
  BY <1>5, <1>6, <1>7, AppendOrder
<1>9. ~Answered(a) /\ ~Answered(b) /\ ~b.sent
  BY <1>5, <1>7, <1>8 DEF Answered, SameButQueue
<1>10. a.pc = "tools" /\ t[2] # "brief"
  BY <1>0, Awaited
<1> HIDE DEF a, b
<1>11. WriterFits(t, b)
  BY <1>0, <1>5, <1>8, <1>9, <1>10 DEF WriterFits, SameButQueue, Unasked, LastSteps
<1>12. RecordFits(b, used'[t], rows'[t], faults')
  BY <1>0, <1>1, <1>5, <1>9, <1>10 DEF RecordFits, SameButQueue, Unasked, LastSteps
<1> QED
  BY <1>11, <1>12 DEF TurnFits, b

\* The pump turns to the next thing it awaits.
LEMMA PumpFields ==
    ASSUME RecordInv, NEW t \in Turn, NEW pump,
           \/ turn' = [turn EXCEPT ![t].pump = pump]
           \/ turn' = [turn EXCEPT ![t].pump = pump, ![t].emitted = 0]
    PROVE  /\ SameButQueue(turn[t], turn'[t]) /\ turn'[t].queue = turn[t].queue
           /\ turn'[t].broken = turn[t].broken /\ turn'[t].pump = pump
           /\ Cont(turn'[t]) = Cont(turn[t])
  BY RecordTyped DEF SameButQueue, Request, Cont

LEMMA ReplyRecords ==
    ASSUME RecordInv, NEW t \in Turn, turn[t].pump \in {"answer", "fallback"},
           \/ turn' = [turn EXCEPT ![t].pump = "count"]
           \/ turn' = [turn EXCEPT ![t].pump = "count", ![t].emitted = 0],
           Save(t, "reply"), UNCHANGED <<used, faults>>
    PROVE  TurnFits(t)'
<1> DEFINE a == turn[t]
           b == turn'[t]
<1>0. WriterFits(t, a) /\ RecordFits(a, used[t], rows[t], faults)
  BY RecordTyped DEF TurnFits
<1>1. used'[t] = used[t] /\ rows'[t] = rows[t] \union {"reply"} /\ faults' = faults
  BY RecordTyped DEF Save
<1>2. /\ SameButQueue(a, b) /\ b.queue = a.queue /\ b.broken = a.broken /\ b.pump = "count"
      /\ Cont(b) = Cont(a)
  BY PumpFields
<1>3. ~Answered(a) /\ ~Answered(b)
  BY <1>0, <1>2 DEF WriterFits, Answered, SameButQueue
<1>4. a.pc = "tools" /\ t[2] # "brief"
  BY Awaited
<1> HIDE DEF a, b
<1>5. WriterFits(t, b)
  BY <1>0, <1>2, <1>3, <1>4 DEF WriterFits, SameButQueue, Unasked, LastSteps
<1>6. RecordFits(b, used'[t], rows'[t], faults')
  BY <1>0, <1>1, <1>2, <1>3, <1>4 DEF RecordFits, SameButQueue, Unasked, LastSteps, a
<1> QED
  BY <1>5, <1>6 DEF TurnFits, b

\* finalContent settled: after an abort what was said is kept, else the reply
\* is, or the fallback is asked.
LEMMA AnswerRecords ==
    ASSUME RecordInv, NEW t \in Turn, Answer(t)
    PROVE  TurnFits(t)'
<1> USE DEF Pump
<1> DEFINE a == turn[t]
           b == turn'[t]
           s == [a EXCEPT !.emitted = 0]
<1>0. /\ a \in Request /\ a.queue \in TQ!Queue /\ turn \in [Turn -> Request] /\ used[t] \in Nat
      /\ a.pump = "answer" /\ a.broken \in BOOLEAN
      /\ WriterFits(t, a) /\ RecordFits(a, used[t], rows[t], faults)
  BY RecordTyped DEF TurnFits, Answer, Request
<1>1. used'[t] = used[t] /\ faults' = faults
  BY DEF Answer
<1>2. a.pc = "tools" /\ t[2] # "brief" /\ ~a.queue.fatal /\ ~a.queue.ended /\ Sound(a.queue)
  BY <1>0, Awaited
<1>3. ~Answered(a)
  BY <1>0 DEF WriterFits
<1>4. CASE a.heard /\ Wind(t, s)
  <2>0. /\ s \in Request /\ SameButQueue(a, s) /\ s.queue = a.queue
        /\ s.broken = a.broken
    BY <1>0, CopilotAssumption DEF Request, SameButQueue
  <2> HIDE DEF s
  <2>1. WoundUp(t, s, b)
    BY <1>0, <1>2, <1>4, <2>0, WindFields
  <2>2. ~Answered(b) /\ Cont(b) = Cont(a)
    BY <1>3, <2>0, <2>1 DEF WoundUp, Answered, SameButQueue, Cont
  <2> HIDE DEF a, b
  <2>3. WriterFits(t, b)
    BY <1>0, <1>2, <1>4, <2>0, <2>1, <2>2 DEF WriterFits, WoundUp, SameButQueue, Unasked, LastSteps
  <2>4. RecordFits(b, used'[t], rows'[t], faults')
    BY <1>0, <1>1, <1>2, <1>3, <2>0, <2>1, <2>2
       DEF RecordFits, WoundUp, SameButQueue, Unasked, LastSteps
  <2> QED
    BY <2>3, <2>4 DEF TurnFits, b
<1>5. CASE turn' = [turn EXCEPT ![t].pump = "count", ![t].emitted = 0] /\ Save(t, "reply")
  BY <1>0, <1>5, ReplyRecords DEF Answer
<1>6. CASE turn' = [turn EXCEPT ![t].pump = "fallback", ![t].emitted = 0] /\ UNCHANGED rows
  <2>1. /\ SameButQueue(a, b) /\ b.queue = a.queue /\ b.broken = a.broken
        /\ b.pump = "fallback" /\ Cont(b) = Cont(a) /\ rows'[t] = rows[t]
    BY <1>6, PumpFields
  <2>2. ~Answered(b)
    BY <1>3, <2>1 DEF Answered, SameButQueue
  <2> HIDE DEF a, b
  <2>3. WriterFits(t, b)
    BY <1>0, <1>2, <2>1, <2>2 DEF WriterFits, SameButQueue, Unasked, LastSteps
  <2>4. RecordFits(b, used'[t], rows'[t], faults')
    BY <1>0, <1>1, <1>2, <1>3, <2>1, <2>2 DEF RecordFits, SameButQueue, Unasked, LastSteps
  <2> QED
    BY <2>3, <2>4 DEF TurnFits, b
<1> QED
  BY <1>4, <1>5, <1>6 DEF Answer

\* The fallback answers, or its failure ends the queue with an error.
LEMMA FallbackRecords ==
    ASSUME RecordInv, NEW t \in Turn, Fallback(t)
    PROVE  TurnFits(t)'
<1> USE DEF Pump
<1> DEFINE a == turn[t]
           b == turn'[t]
           s == [a EXCEPT !.broken = TRUE]
<1>0. /\ a \in Request /\ a.queue \in TQ!Queue /\ turn \in [Turn -> Request] /\ used[t] \in Nat
      /\ a.pump = "fallback" /\ faults \in Nat
      /\ WriterFits(t, a) /\ RecordFits(a, used[t], rows[t], faults)
  BY RecordTyped DEF TurnFits, Fallback
<1>1. used'[t] = used[t]
  BY DEF Fallback
<1>2. a.pc = "tools" /\ t[2] # "brief" /\ ~a.queue.fatal /\ ~a.queue.ended /\ Sound(a.queue)
  BY <1>0, Awaited
<1>3. ~Answered(a)
  BY <1>0 DEF WriterFits
<1>4. CASE turn' = [turn EXCEPT ![t].pump = "count"] /\ Save(t, "reply") /\ UNCHANGED faults
  BY <1>0, <1>4, ReplyRecords DEF Fallback
<1>5. CASE Wind(t, s) /\ Fails
  <2>1. s \in Request /\ SameButQueue(a, s) /\ s.queue = a.queue /\ s.broken = TRUE
    BY <1>0 DEF Request, SameButQueue
  <2>2. faults' = faults + 1 /\ faults' \in Nat
    BY <1>5, FaultsCount
  <2> HIDE DEF s
  <2>3. WoundUp(t, s, b)
    BY <1>0, <1>2, <1>5, <2>1, WindFields
  <2>4. ~Answered(b) /\ Cont(b) = Cont(a)
    BY <1>3, <2>1, <2>3 DEF WoundUp, Answered, SameButQueue, Cont
  <2> HIDE DEF a, b
  <2>5. WriterFits(t, b)
    BY <1>0, <1>2, <2>1, <2>3, <2>4 DEF WriterFits, WoundUp, SameButQueue, Unasked, LastSteps
  <2>6. RecordFits(b, used'[t], rows'[t], faults')
    BY <1>0, <1>1, <1>2, <1>3, <2>1, <2>2, <2>3, <2>4
       DEF RecordFits, WoundUp, SameButQueue, Unasked, LastSteps
  <2> QED
    BY <2>5, <2>6 DEF TurnFits, b
<1> QED
  BY <1>4, <1>5 DEF Fallback

\* The reply is counted, or counting it failed, and done is pushed.
LEMMA PushDoneRecords ==
    ASSUME RecordInv, NEW t \in Turn, PushDone(t)
    PROVE  TurnFits(t)'
<1> USE DEF Pump
<1> DEFINE a == turn[t]
           b == turn'[t]
           s == Push(t, "done")
<1>0. /\ a \in Request /\ a.pump = "count" /\ faults \in Nat /\ used[t] \in Nat
      /\ WriterFits(t, a) /\ RecordFits(a, used[t], rows[t], faults)
  BY RecordTyped DEF TurnFits, PushDone
<1>1. /\ faults' \in Nat
      /\ \/ used'[t] = used[t] + 1 /\ faults' = faults
         \/ used'[t] = used[t] /\ faults' = faults + 1
         \/ used'[t] = used[t] /\ faults' = faults /\ a.free
  BY CountsOne DEF PushDone
<1>2. a.pc = "tools" /\ t[2] # "brief"
  BY <1>0, Awaited
<1>3. ~Answered(a) /\ Cont(a) \in Seq(Event) /\ "done" \in Event
  BY <1>0, ContTyped DEF WriterFits, Event
<1>4. /\ s \in Request /\ SameButQueue(a, s) /\ s.broken = a.broken
      /\ s.queue \in TQ!Queue /\ Sound(s.queue) /\ ~s.queue.ended /\ ~s.queue.fatal
      /\ Cont(s) = Append(Cont(a), "done")
  BY <1>0, <1>3, PushFields
<1>5. Wind(t, s)
  BY DEF PushDone
<1> HIDE DEF s
<1>6. WoundUp(t, s, b)
  BY <1>4, <1>5, WindFields
<1>7. ~a.sent /\ NoDone(Cont(a))
  BY <1>3 DEF Answered
<1>8. DoneThenPartial(Cont(b)) /\ ~NoDone(Cont(b))
  BY <1>3, <1>4, <1>6, <1>7, AppendOrder DEF WoundUp
<1>9. Answered(b) /\ ~b.sent
  BY <1>4, <1>6, <1>7, <1>8 DEF Answered, WoundUp, SameButQueue
<1> HIDE DEF a, b
<1>10. WriterFits(t, b)
  BY <1>0, <1>2, <1>4, <1>6, <1>8, <1>9 DEF WriterFits, WoundUp, SameButQueue, Unasked, LastSteps
<1>11. RecordFits(b, used'[t], rows'[t], faults')
  BY <1>0, <1>1, <1>2, <1>3, <1>4, <1>6, <1>9
     DEF RecordFits, WoundUp, SameButQueue, Unasked, LastSteps
<1> QED
  BY <1>10, <1>11 DEF TurnFits, b

\* What an aborted turn has said is counted like a reply.
LEMMA PushPartialRecords ==
    ASSUME RecordInv, NEW t \in Turn, PushPartial(t)
    PROVE  TurnFits(t)'
<1> USE DEF Pump
<1> DEFINE a == turn[t]
           b == turn'[t]
           s == Push(t, "partial")
<1>0. /\ a \in Request /\ a.pump = "partial" /\ faults \in Nat /\ used[t] \in Nat
      /\ turn \in [Turn -> Request]
      /\ WriterFits(t, a) /\ RecordFits(a, used[t], rows[t], faults)
  BY RecordTyped DEF TurnFits, PushPartial
<1>1. /\ faults' \in Nat /\ rows'[t] = rows[t]
      /\ \/ used'[t] = used[t] + 1 /\ faults' = faults
         \/ used'[t] = used[t] /\ faults' = faults + 1
         \/ used'[t] = used[t] /\ faults' = faults /\ a.free
  BY CountsOne DEF PushPartial
<1>2. a.pc = "tools" /\ t[2] # "brief" /\ a.heard
  BY <1>0, Awaited DEF WriterFits
<1>3. Cont(a) \in Seq(Event) /\ "partial" \in Event /\ "partial" # "done"
  BY <1>0, ContTyped DEF Event
<1>4. /\ s \in Request /\ SameButQueue(a, s) /\ s.broken = a.broken
      /\ s.queue \in TQ!Queue /\ Sound(s.queue) /\ ~s.queue.ended
      /\ Cont(s) = Append(Cont(a), "partial")
  BY <1>0, <1>3, PushFields
<1>5. b = Finished(s)
  BY <1>0 DEF PushPartial
<1> HIDE DEF s
<1>6. /\ SameButQueue(s, b) /\ b.broken = s.broken /\ Cont(b) = Cont(s)
      /\ b.pump = "over" /\ b.queue.fatal = s.broken
  BY <1>4, <1>5, ClosedFields
<1>7. /\ DoneThenPartial(Cont(b))
      /\ NoDone(Cont(b)) <=> NoDone(Cont(a))
      /\ OnlyPartial(Cont(a)) => OnlyPartial(Cont(b))
  BY <1>0, <1>3, <1>4, <1>5, <1>6, AppendOrder DEF WriterFits
<1>8. (Answered(b) <=> Answered(a)) /\ (b.sent => OnlyPartial(Cont(b)))
  BY <1>0, <1>4, <1>5, <1>6, <1>7 DEF Answered, SameButQueue, WriterFits
<1> HIDE DEF a, b
<1>9. WriterFits(t, b)
  BY <1>0, <1>2, <1>4, <1>5, <1>6, <1>7, <1>8 DEF WriterFits, SameButQueue, Unasked, LastSteps
<1>10. RecordFits(b, used'[t], rows'[t], faults')
  BY <1>0, <1>1, <1>2, <1>4, <1>5, <1>6, <1>8 DEF RecordFits, SameButQueue, Unasked, LastSteps
<1> QED
  BY <1>9, <1>10 DEF TurnFits, b
-----------------------------------------------------------------------------
(* What a step of one turn leaves alone.                                   *)

\* Whatever fits goes on fitting while failures are added up.
LEMMA Untouched ==
    ASSUME RecordInv, NEW u \in Turn, turn'[u] = turn[u], used'[u] = used[u],
           rows'[u] = rows[u], faults' \in Nat, faults' >= faults
    PROVE  TurnFits(u)'
<1>1. WriterFits(u, turn[u]) /\ RecordFits(turn[u], used[u], rows[u], faults) /\ faults \in Nat
  BY RecordTyped DEF TurnFits
<1>2. RecordFits(turn[u], used[u], rows[u], faults')
  BY <1>1 DEF RecordFits
<1> QED
  BY <1>1, <1>2 DEF TurnFits

LEMMA SavedApart ==
    ASSUME RecordInv, NEW t \in Turn, NEW u \in Turn \ {t}
    PROVE  /\ \A row : Save(t, row) => rows'[u] = rows[u]
           /\ \A s : Wind(t, s) => rows'[u] = rows[u]
           /\ Count(t) => used'[u] = used[u]
<1>1. used \in [Turn -> Nat] /\ rows \in [Turn -> SUBSET Row]
  BY RecordTyped
<1>2. \A row : Save(t, row) => rows'[u] = rows[u]
  BY <1>1 DEF Save
<1> QED
  BY <1>1, <1>2 DEF Wind, Count

LEMMA ServingApart ==
    ASSUME RecordInv, NEW t \in Turn, Serving(t), NEW u \in Turn \ {t}
    PROVE  turn'[u] = turn[u] /\ used'[u] = used[u] /\ rows'[u] = rows[u]
<1> USE DEF Records
<1>1. /\ turn \in [Turn -> Request] /\ rows \in [Turn -> SUBSET Row]
      /\ used \in [Turn -> Nat] /\ IndInv
  BY RecordTyped DEF RecordInv
<1>2. turn'[u] = turn[u]
  BY <1>1, ServingMoves DEF Step, Moved
<1>3. CASE Guard(t) \/ Incr(t) \/ Expire(t) \/ Refuse(t) \/ GiveBack(t) \/ Brief(t)
  BY <1>2, <1>3 DEF Guard, Incr, Expire, Refuse, GiveBack, Brief
<1>4. CASE ReadHistory(t) \/ Deliver(t) \/ LeaveTools(t) \/ Emit(t) \/ Close(t)
  BY <1>2, <1>4 DEF ReadHistory, Deliver, LeaveTools, Emit, Close
<1>5. CASE SaveQuestion(t) \/ SimpleReply(t)
  BY <1>2, <1>5, SavedApart DEF SaveQuestion, SimpleReply
<1>6. CASE SimpleDone(t) \/ PushPartial(t)
  BY <1>2, <1>6, SavedApart DEF SimpleDone, PushPartial
<1>7. CASE DeleteQuestion(t)
  BY <1>1, <1>2, <1>7 DEF DeleteQuestion
<1>8. CASE Answer(t) \/ Fallback(t)
  BY <1>2, <1>8, SavedApart DEF Answer, Fallback
<1>9. CASE PushDone(t)
  BY <1>2, <1>9, SavedApart DEF PushDone
<1> QED
  BY <1>3, <1>4, <1>5, <1>6, <1>7, <1>8, <1>9 DEF Serving, Serve, Pumping

\* A step of a turn keeps its records, and those of the others.
LEMMA ServingRecords ==
    ASSUME RecordInv, NEW t \in Turn, Serving(t), Next
    PROVE  \A u \in Turn : TurnFits(u)'
<1>1. TurnFits(t)'
  BY GuardsRecord, GiveBackRecords, SaveQuestionRecords, ReadHistoryRecords, SimpleReplyRecords,
     SimpleDoneRecords, DeleteQuestionRecords, DeliverRecords, LeaveToolsRecords, CloseRecords,
     EmitRecords, AnswerRecords, FallbackRecords, PushDoneRecords, PushPartialRecords
     DEF Serving, Serve, Pumping
<1>2. faults' \in Nat /\ faults' >= faults
  BY FaultsGrow DEF RecordInv
<1>3. ASSUME NEW u \in Turn \ {t} PROVE TurnFits(u)'
  BY <1>2, <1>3, ServingApart, Untouched
<1> QED
  BY <1>1, <1>3

-----------------------------------------------------------------------------
(* What the tab is shown.                                                  *)

\* What a step of the server means for the tabs: a done frame (D) reaches the
\* tab of the stream while it is connected, and nothing else is shown.
Tells(t, D) ==
    /\ turn'[t].sent = (turn[t].sent \/ D)
    /\ D => turn[t].pc \in {"tools", "count"}
    /\ turn'[t].link \in {turn[t].link, "closed"}
    /\ turn[t].pc \in LastSteps => turn'[t].pc \in LastSteps
    /\ \A q \in Question :
          chat'[q].got = (chat[q].got \/ (D /\ t = Stream(q) /\ turn[t].link = "up"))

LEMMA TabTyped == ASSUME RecordInv, NEW q \in Question PROVE chat \in [Question -> Tab] /\ chat[q].got \in BOOLEAN
  BY DEF RecordInv, IndInv, TypeOK, Tab

\* A step that writes nothing to the response.
LEMMA QuietTells ==
    ASSUME RecordInv, NEW t \in Turn, UNCHANGED chat, turn'[t].sent = turn[t].sent,
           turn'[t].link \in {turn[t].link, "closed"},
           turn[t].pc \in LastSteps => turn'[t].pc \in LastSteps
    PROVE  Tells(t, FALSE)
<1>1. turn[t].sent \in BOOLEAN
  BY RecordTyped DEF Request
<1>2. \A q \in Question : chat'[q].got = chat[q].got /\ chat[q].got \in BOOLEAN
  BY TabTyped
<1> QED
  BY <1>1, <1>2 DEF Tells

LEMMA SeenGot ==
    ASSUME RecordInv, NEW t \in Followed, NEW e \in Event, chat' = Seen(t, e)
    PROVE  \A q \in Question :
              chat'[q].got = (chat[q].got \/ (e = "done" /\ t = Stream(q) /\ turn[t].link = "up"))
<1> SUFFICES ASSUME NEW q \in Question
             PROVE  chat'[q].got = (chat[q].got \/ (e = "done" /\ t = Stream(q) /\ turn[t].link = "up"))
  OBVIOUS
<1>0. chat \in [Question -> Tab] /\ chat[q].got \in BOOLEAN /\ chat[q] \in Tab
  BY TabTyped DEF RecordInv, IndInv, TypeOK
<1>1. t[1] \in Question /\ t[2] \in {"stream", "json"} /\ t = <<t[1], t[2]>>
  BY DEF Followed
<1>2. t = Stream(q) <=> Streamed(t) /\ t[1] = q
  BY <1>1 DEF Stream, Streamed
<1>3. CASE ~(Streamed(t) /\ turn[t].link = "up" /\ e = "done")
  BY <1>0, <1>2, <1>3 DEF Seen
<1>4. CASE Streamed(t) /\ turn[t].link = "up" /\ e = "done"
  <2>1. chat' = [chat EXCEPT ![t[1]].got = TRUE]
    BY <1>4 DEF Seen
  <2>2. chat'[q].got = IF t[1] = q THEN TRUE ELSE chat[q].got
    BY <1>0, <1>1, <2>1 DEF Tab
  <2> QED
    BY <1>0, <1>2, <1>4, <2>2
<1> QED
  BY <1>3, <1>4

\* Nothing of what the pump does reaches the response.
LEMMA PumpSends ==
    ASSUME RecordInv, NEW t \in Turn,
           Emit(t) \/ Answer(t) \/ Fallback(t) \/ PushDone(t) \/ PushPartial(t)
    PROVE  turn'[t].sent = turn[t].sent
<1> USE DEF Pump
<1> DEFINE a == turn[t]
<1>0. /\ turn \in [Turn -> Request] /\ a \in Request /\ a.queue \in TQ!Queue
      /\ a.pump \notin {"off", "over"}
  BY RecordTyped DEF Emit, Answer, Fallback, PushDone, PushPartial
<1>1. ~a.queue.ended /\ ~a.queue.fatal /\ Sound(a.queue)
  BY <1>0, Awaited
<1>2. ASSUME NEW e \in Event
      PROVE  /\ Push(t, e) \in Request /\ Push(t, e).sent = a.sent
             /\ Push(t, e).queue \in TQ!Queue /\ Sound(Push(t, e).queue)
             /\ ~Push(t, e).queue.ended /\ ~Push(t, e).queue.fatal
  BY <1>0, <1>2, PushFields DEF SameButQueue
<1>3. ASSUME NEW pump,
             \/ turn' = [turn EXCEPT ![t].pump = pump]
             \/ turn' = [turn EXCEPT ![t].pump = pump, ![t].emitted = 0]
      PROVE  turn'[t].sent = a.sent
  BY <1>3, PumpFields DEF SameButQueue
<1>4. CASE Emit(t)
  <2>1. PICK e \in {"activity", "delta"} :
            turn' = [turn EXCEPT ![t] =
                [Push(t, e) EXCEPT !.emitted = @ + 1, !.text = @ \/ e = "delta"]]
    BY <1>4 DEF Emit
  <2>2. Push(t, e) \in Request /\ Push(t, e).sent = a.sent
    BY <1>2 DEF Event
  <2> QED
    BY <1>0, <2>1, <2>2 DEF Request
<1>5. CASE Answer(t)
  <2> DEFINE s == [a EXCEPT !.emitted = 0]
  <2>1. s \in Request /\ s.queue = a.queue /\ s.sent = a.sent
    BY <1>0, CopilotAssumption DEF Request
  <2> HIDE DEF s
  <2>2. CASE Wind(t, s)
    BY <1>0, <1>1, <2>1, <2>2, WindFields DEF WoundUp, SameButQueue
  <2> QED
    BY <1>3, <1>5, <2>2 DEF Answer, s
<1>6. CASE Fallback(t)
  <2> DEFINE s == [a EXCEPT !.broken = TRUE]
  <2>1. s \in Request /\ s.queue = a.queue /\ s.sent = a.sent
    BY <1>0 DEF Request
  <2> HIDE DEF s
  <2>2. CASE Wind(t, s)
    BY <1>0, <1>1, <2>1, <2>2, WindFields DEF WoundUp, SameButQueue
  <2> QED
    BY <1>3, <1>6, <2>2 DEF Fallback, s
<1>7. CASE PushDone(t)
  <2>1. Wind(t, Push(t, "done")) /\ "done" \in Event
    BY <1>7 DEF PushDone, Event
  <2> QED
    BY <1>2, <2>1, WindFields DEF WoundUp, SameButQueue
<1>8. CASE PushPartial(t)
  <2> DEFINE s == Push(t, "partial")
  <2>1. turn'[t] = Finished(s)
    BY <1>0, <1>8 DEF PushPartial
  <2>2. "partial" \in Event
    BY DEF Event
  <2> QED
    BY <1>2, <2>1, <2>2, ClosedFields DEF SameButQueue
<1> QED
  BY <1>4, <1>5, <1>6, <1>7, <1>8

LEMMA ServingTells ==
    ASSUME RecordInv, NEW t \in Turn, Serving(t)
    PROVE  \E D \in BOOLEAN : Tells(t, D)
<1> USE DEF At
<1>0. /\ turn \in [Turn -> Request] /\ turn[t] \in Request /\ WriterFits(t, turn[t]) /\ IndInv
  BY RecordTyped DEF TurnFits, RecordInv
<1>1. ASSUME NEW pc, Go(t, pc), UNCHANGED chat, turn[t].pc \in LastSteps => pc \in LastSteps
      PROVE  Tells(t, FALSE)
  <2>1. turn'[t].pc = pc /\ turn'[t].sent = turn[t].sent /\ turn'[t].link = turn[t].link
    BY <1>0, <1>1 DEF Go, Request
  <2> QED
    BY <1>1, <2>1, QuietTells
<1>2. CASE Refuse(t) \/ GiveBack(t) \/ Brief(t)
  BY <1>1, <1>2 DEF Refuse, GiveBack, Brief, LastSteps
<1>11. CASE Guard(t)
  <2>1. /\ turn'[t].sent = turn[t].sent /\ turn'[t].link = turn[t].link /\ UNCHANGED chat
        /\ turn[t].pc \notin LastSteps
    BY <1>0, <1>11 DEF Guard, Go, Request, LastSteps
  <2> QED
    BY <2>1, QuietTells
<1>3. CASE SaveQuestion(t) \/ DeleteQuestion(t)
  BY <1>1, <1>3, LeftLate DEF SaveQuestion, DeleteQuestion, LastSteps
<1>4. CASE Incr(t) \/ Expire(t)
  <2>1. /\ turn'[t].sent = turn[t].sent /\ turn'[t].link = turn[t].link /\ UNCHANGED chat
        /\ turn[t].pc \notin LastSteps
    BY <1>0, <1>4 DEF Incr, Expire, Request, LastSteps
  <2> QED
    BY <2>1, QuietTells
<1>5. CASE ReadHistory(t) \/ SimpleReply(t)
  <2>1. /\ turn'[t].sent = turn[t].sent /\ turn'[t].link = turn[t].link /\ UNCHANGED chat
        /\ turn[t].pc \notin LastSteps
    BY <1>0, <1>5 DEF ReadHistory, SimpleReply, Go, Request, LastSteps
  <2> QED
    BY <2>1, QuietTells
<1>6. CASE LeaveTools(t) \/ Close(t)
  <2>1. /\ turn'[t].sent = turn[t].sent /\ turn'[t].link \in {turn[t].link, "closed"}
        /\ UNCHANGED chat
        /\ turn[t].pc \notin LastSteps
    BY <1>0, <1>6 DEF LeaveTools, Close, Request, LastSteps
  <2> QED
    BY <2>1, QuietTells
<1>7. CASE Emit(t) \/ Answer(t) \/ Fallback(t) \/ PushDone(t) \/ PushPartial(t)
  <2>1. SameButPump(turn[t], turn'[t]) /\ UNCHANGED chat
    BY <1>0, <1>7, PumpKeeps DEF Emit, Answer, Fallback, PushDone, PushPartial
  <2>2. turn'[t].sent = turn[t].sent
    BY <1>7, PumpSends
  <2> QED
    BY <2>1, <2>2, QuietTells DEF SameButPump
<1>8. ASSUME turn[t].pc \in {"tools", "count"} PROVE t \in Followed
  BY <1>0, <1>8 DEF WriterFits, Unasked, LastSteps, Turn
<1>9. CASE SimpleDone(t)
  <2>1. /\ turn[t].pc = "count" /\ turn'[t].sent = TRUE /\ turn'[t].link = turn[t].link
        /\ chat' = Seen(t, "done")
    BY <1>0, <1>9 DEF SimpleDone, Request
  <2>2. \A q \in Question :
            chat'[q].got = (chat[q].got \/ (TRUE /\ t = Stream(q) /\ turn[t].link = "up"))
    BY <1>8, <2>1, SeenGot DEF Event
  <2>3. turn'[t].sent = (turn[t].sent \/ TRUE)
    BY <2>1
  <2> QED
    BY <2>1, <2>2, <2>3 DEF Tells, LastSteps
<1>10. CASE Deliver(t)
  <2> DEFINE e == turn[t].queue.handed
             D == e = "done"
  <2>1. /\ turn[t].pc = "tools" /\ turn'[t].sent = (turn[t].sent \/ D)
        /\ turn'[t].link = turn[t].link /\ chat' = Seen(t, e) /\ e \in Event
    BY <1>0, <1>10 DEF Deliver, Request
  <2>2. \A q \in Question :
            chat'[q].got = (chat[q].got \/ (D /\ t = Stream(q) /\ turn[t].link = "up"))
    BY <1>8, <2>1, SeenGot
  <2> HIDE DEF D
  <2>3. Tells(t, D)
    BY <2>1, <2>2 DEF Tells, LastSteps
  <2> QED
    BY <2>3 DEF D
<1> QED
  BY <1>2, <1>3, <1>4, <1>5, <1>6, <1>7, <1>9, <1>10, <1>11 DEF Serving, Serve, Pumping

LEMMA ServingShown ==
    ASSUME RecordInv, NEW t \in Turn, Serving(t), NEW q \in Question
    PROVE  AnswerShown(q)'
<1>0. /\ IndInv /\ AnswerShown(q) /\ chat[q].got \in BOOLEAN
      /\ Stream(q) \in Turn /\ Json(q) \in Turn /\ Stream(q) # Json(q)
  BY TabTyped, RequestsApart DEF RecordInv
<1>1. PICK D \in BOOLEAN : Tells(t, D)
  BY ServingTells
<1>2. chat'[q].pc = chat[q].pc
  BY <1>0, ServingRest DEF RestFits
<1>3. \A u \in Turn \ {t} : turn'[u] = turn[u]
  BY ServingApart
<1>4. chat'[q].got = (chat[q].got \/ (D /\ t = Stream(q) /\ turn[t].link = "up"))
  BY <1>1 DEF Tells
<1>5. CASE t = Stream(q)
  <2>1. turn'[Json(q)] = turn[Json(q)]
    BY <1>0, <1>3, <1>5
  <2> QED
    BY <1>0, <1>1, <1>2, <1>4, <1>5, <2>1 DEF Tells, AnswerShown, LastSteps
<1>6. CASE t = Json(q)
  <2>1. turn'[Stream(q)] = turn[Stream(q)]
    BY <1>0, <1>3, <1>6
  <2>2. turn[Json(q)].pc = "off" => turn'[Json(q)].pc = "off"
    <3>1. turn \in [Turn -> Request] /\ Step(t)
      BY <1>0, RecordTyped, ServingMoves
    <3> QED
      BY <1>6, <3>1 DEF Step, Moved
  <2>3. turn[Json(q)].sent => turn'[Json(q)].sent
    BY <1>1, <1>6 DEF Tells
  <2> QED
    BY <1>0, <1>2, <1>4, <1>6, <2>1, <2>2, <2>3 DEF AnswerShown
<1>7. CASE t \notin {Stream(q), Json(q)}
  BY <1>0, <1>2, <1>3, <1>4, <1>7 DEF AnswerShown
<1> QED
  BY <1>5, <1>6, <1>7

-----------------------------------------------------------------------------
(* The tabs.                                                               *)

\* Opening a request or cutting a connection records nothing.
LEMMA TabsRecord ==
    ASSUME RecordInv, TabsMoved, UNCHANGED <<used, rows, faults>>
    PROVE  \A t \in Turn : TurnFits(t)'
<1> SUFFICES ASSUME NEW t \in Turn PROVE TurnFits(t)'
  OBVIOUS
<1> DEFINE a == turn[t]
           b == turn'[t]
<1>0. WriterFits(t, a) /\ RecordFits(a, used[t], rows[t], faults)
  BY RecordTyped DEF TurnFits
<1>1. TabMoved(t, a, b)
  BY DEF TabsMoved
<1>2. Cont(b) = Cont(a) /\ (Answered(b) <=> Answered(a))
  BY <1>1, SameAnswer DEF TabMoved
<1>3. b.pc = a.pc \/ (a.pc \in Unasked /\ b.pc \in Unasked)
  BY <1>1 DEF TabMoved, Unasked
<1> HIDE DEF a, b
<1>4. WriterFits(t, b)
  BY <1>0, <1>1, <1>2, <1>3 DEF WriterFits, TabMoved, Unasked, LastSteps
<1>5. RecordFits(b, used[t], rows[t], faults)
  BY <1>0, <1>1, <1>2, <1>3 DEF RecordFits, TabMoved, Unasked, LastSteps
<1> QED
  BY <1>4, <1>5 DEF TurnFits, b

LEMMA ShowGot ==
    ASSUME RecordInv, NEW q \in Question, NEW pc, Show(q, pc)
    PROVE  chat'[q].got = chat[q].got /\ chat'[q].pc = pc
  BY DEF Show, RecordInv, IndInv, TypeOK, Tab

\* A tab asks again once its stream is gone or has ended without a reply.
LEMMA TabsAskAgain ==
    ASSUME RecordInv, NEW q \in Question, Tabs(q)
    PROVE  /\ chat'[q].got = chat[q].got
           /\ chat'[q].pc = "answered" => chat[q].got \/ turn[Json(q)].sent
           /\ \/ turn'[Json(q)].pc = turn[Json(q)].pc
              \/ turn'[Stream(q)].link = "cut"
              \/ turn[Stream(q)].pc \in LastSteps /\ ~chat[q].got
<1>0. /\ turn \in [Turn -> Request] /\ Stream(q) \in Turn /\ Json(q) \in Turn
      /\ Stream(q) # Json(q)
  BY RecordTyped, RequestsApart DEF RecordInv, IndInv, TypeOK
<1>1. CASE Send(q)
  <2>1. turn'[Json(q)] = turn[Json(q)]
    BY <1>0, <1>1 DEF Send, Go
  <2> QED
    BY <1>1, <2>1, ShowGot DEF Send
<1>2. CASE Stop(q)
  <2>1. turn'[Json(q)] = turn[Json(q)]
    BY <1>0, <1>2 DEF Stop
  <2> QED
    BY <1>2, <2>1, ShowGot DEF Stop
<1>3. CASE Lose(q)
  <2>1. Resend(q) \in [Turn -> Request]
    BY <1>0 DEF Resend, Request
  <2>2. turn'[Stream(q)].link = "cut"
    BY <1>0, <1>3, <2>1 DEF Lose, Request
  <2> QED
    BY <1>3, <2>2, ShowGot DEF Lose
<1>4. CASE LoseJson(q)
  <2>1. turn'[Json(q)].pc = turn[Json(q)].pc
    BY <1>0, <1>4 DEF LoseJson, Request
  <2> QED
    BY <1>4, <2>1, ShowGot DEF LoseJson
<1>5. CASE StreamOver(q)
  BY <1>5, ShowGot DEF StreamOver, LastSteps
<1>6. CASE JsonOver(q)
  BY <1>6, ShowGot DEF JsonOver
<1> QED
  BY <1>1, <1>2, <1>3, <1>4, <1>5, <1>6 DEF Tabs, Tabbing

LEMMA TabsShown ==
    ASSUME RecordInv, NEW q \in Question, Tabs(q), NEW p \in Question
    PROVE  AnswerShown(p)'
<1>0. /\ IndInv /\ AnswerShown(p) /\ TabsMoved
      /\ Stream(p) \in Turn /\ Json(p) \in Turn
  BY TabsMove, RequestsApart DEF RecordInv
<1>1. CASE p # q
  <2>1. /\ chat'[p] = chat[p] /\ turn'[Stream(p)] = turn[Stream(p)]
        /\ turn'[Json(p)] = turn[Json(p)]
    BY <1>0, <1>1, TabsShow, TabsApart
  <2> QED
    BY <1>0, <2>1 DEF AnswerShown
<1>2. CASE p = q
  <2>1. TabMoved(Stream(q), turn[Stream(q)], turn'[Stream(q)])
        /\ TabMoved(Json(q), turn[Json(q)], turn'[Json(q)])
    BY <1>0, <1>2 DEF TabsMoved
  <2>2. /\ turn'[Stream(q)].sent = turn[Stream(q)].sent
        /\ turn'[Json(q)].sent = turn[Json(q)].sent
        /\ turn'[Stream(q)].link = "up" => turn[Stream(q)].link = "up"
        /\ turn[Stream(q)].pc \in LastSteps => turn'[Stream(q)].pc \in LastSteps
    BY <2>1 DEF TabMoved, LastSteps
  <2> QED
    BY <1>0, <1>2, <2>2, TabsAskAgain DEF AnswerShown
<1> QED
  BY <1>1, <1>2

LEMMA OtherShown ==
    ASSUME RecordInv, NEW o \in Other, SendOther(o), NEW q \in Question
    PROVE  AnswerShown(q)'
<1> DEFINE t == <<o, "brief">>
<1>1. Stream(q) # t /\ Json(q) # t
  BY DEF Stream, Json
<1>2. turn'[Stream(q)] = turn[Stream(q)] /\ turn'[Json(q)] = turn[Json(q)] /\ UNCHANGED chat
  BY <1>1, RequestsApart DEF RecordInv, IndInv, TypeOK, SendOther, Go
<1> QED
  BY <1>2 DEF RecordInv, AnswerShown

-----------------------------------------------------------------------------
(* The theorems.                                                           *)

LEMMA RecordsInit == Init => RecordInv
<1> SUFFICES ASSUME Init PROVE RecordInv
  OBVIOUS
<1>1. /\ NewRequest.pc = "off" /\ NewRequest.pump = "off" /\ ~NewRequest.sent
      /\ ~NewRequest.heard /\ ~NewRequest.broken /\ ~NewRequest.told
      /\ ~NewRequest.queue.fatal /\ NewRequest.link = "up"
      /\ Cont(NewRequest) = <<>>
  BY NewQueueSound DEF NewRequest, Cont, TQ!NewQueue
<1>2. ~Answered(NewRequest)
  BY <1>1, EmptyOrder DEF Answered
<1>3. \A t \in Turn : turn[t] = NewRequest /\ used[t] = 0 /\ rows[t] = {}
  BY DEF Init
<1>4. \A t \in Turn : WriterFits(t, NewRequest)
  BY <1>1, <1>2, EmptyOrder DEF WriterFits, Unasked
<1>5. RecordFits(NewRequest, 0, {}, faults)
  BY <1>1, <1>2 DEF RecordFits, Unasked, LastSteps
<1>6. \A q \in Question : AnswerShown(q)
  BY <1>1, <1>3, RequestsApart DEF Init, NewTab, AnswerShown
<1> QED
  BY <1>3, <1>4, <1>5, <1>6, InitInv DEF RecordInv, TurnFits

LEMMA RecordsKept ==
    ASSUME RecordInv, [Next]_vars
    PROVE  RecordInv'
<1>0. IndInv /\ IndInv'
  BY NextInv DEF RecordInv
<1>1. ASSUME NEW t \in Turn, Serve(t) \/ Pumping(t) \/ Emit(t) \/ Close(t), Next
      PROVE  RecordInv'
  <2>1. Serving(t)
    BY <1>1 DEF Serving
  <2> QED
    BY <1>0, <1>1, <2>1, ServingRecords, ServingShown DEF RecordInv
<1>2. ASSUME NEW q \in Question, Tabs(q)
      PROVE  RecordInv'
  <2>1. TabsMoved /\ UNCHANGED <<used, rows, faults>>
    BY <1>0, <1>2, TabsMove, TabsShow
  <2> QED
    BY <1>0, <1>2, <2>1, TabsRecord, TabsShown DEF RecordInv
<1>3. ASSUME NEW o \in Other, SendOther(o)
      PROVE  RecordInv'
  <2>1. TabsMoved /\ UNCHANGED <<used, rows, faults>>
    BY <1>0, <1>3, OtherMoves DEF SendOther, Records
  <2> QED
    BY <1>0, <1>3, <2>1, TabsRecord, OtherShown DEF RecordInv
<1>4. CASE SlotsExpire
  <2>1. UNCHANGED <<chat, turn, used, rows>> /\ faults' \in Nat /\ faults' >= faults
    BY <1>4, FaultsCount, RecordTyped DEF SlotsExpire, Records, RecordInv, IndInv, TypeOK
  <2>2. \A t \in Turn : TurnFits(t)'
    BY <2>1, Untouched
  <2> QED
    BY <1>0, <2>1, <2>2 DEF RecordInv, AnswerShown
<1>5. CASE UNCHANGED vars
  <2>1. UNCHANGED <<chat, turn, used, rows, faults>> /\ faults' \in Nat /\ faults' >= faults
    BY <1>5, RecordTyped DEF vars, RecordInv, IndInv, TypeOK
  <2>2. \A t \in Turn : TurnFits(t)'
    BY <2>1, Untouched
  <2> QED
    BY <1>0, <2>1, <2>2 DEF RecordInv, AnswerShown
<1> QED
  BY <1>1, <1>2, <1>3, <1>4, <1>5 DEF Next, Tabs

\* What a turn writes, keeps and is charged fits where its generator and its
\* pump are, in every state that is reached.
THEOREM RecordsInductive == Spec => []RecordInv
<1>1. Init => RecordInv
  BY RecordsInit
<1>2. RecordInv /\ [Next]_vars => RecordInv'
  BY RecordsKept
<1> QED
  BY <1>1, <1>2, PTL DEF Spec

\* After done a turn writes nothing more to its response but the partial event
\* that nothing is written for (copilot-stream.service.ts:324-390).
THEOREM DoneCorrect == Spec => []DoneIsLast
<1>1. RecordInv => DoneIsLast
  <2> SUFFICES ASSUME RecordInv, NEW t \in Turn
               PROVE  /\ DoneThenPartial(Cont(turn[t]))
                      /\ turn[t].sent => OnlyPartial(Cont(turn[t]))
    BY DEF DoneIsLast, Cont, DoneThenPartial, OnlyPartial
  <2> QED
    BY RecordTyped DEF TurnFits, WriterFits
<1> QED
  BY <1>1, RecordsInductive, PTL

\* Unless a call failed, a turn that sent a reply leaves it counted, if there is
\* a subscription to count it on, and its question and INSERT stand
\* (copilot-stream.service.ts:169-194, finalizeChat).
THEOREM SentCorrect == Spec => []SentIsRecorded
<1>1. RecordInv => SentIsRecorded
  <2> SUFFICES ASSUME RecordInv, NEW t \in Turn, turn[t].sent, faults = 0
               PROVE  /\ turn[t].free \/ used[t] >= 1
                      /\ "question" \in rows[t] /\ "reply" \in rows[t]
    BY DEF SentIsRecorded
  <2>1. Answered(turn[t])
    BY DEF Answered
  <2> QED
    BY <2>1, RecordTyped DEF TurnFits, RecordFits
<1> QED
  BY <1>1, RecordsInductive, PTL

\* A turn that is over wrote all it had to write, and its pump has stopped.
LEMMA OverWritten ==
    ASSUME RecordInv, NEW t \in Turn, turn[t].pc \in LastSteps
    PROVE  /\ Cont(turn[t]) = <<>> /\ (Answered(turn[t]) => turn[t].sent)
           /\ turn[t].pump \in {"off", "over"}
<1>1. WriterFits(t, turn[t]) /\ Fits(t, turn[t]) /\ turn[t] \in Request
  BY RecordTyped DEF TurnFits
<1>2. Cont(turn[t]) = <<>>
  BY <1>1 DEF WriterFits, LastSteps
<1> QED
  BY <1>1, <1>2, EmptyOrder DEF WriterFits, Fits, Answered, LastSteps

\* A turn that heard of no abort is charged for its reply at the most.
LEMMA UnabortedCharge ==
    ASSUME RecordInv, NEW t \in Turn, ~turn[t].heard
    PROVE  /\ "partial" \notin rows[t] /\ used[t] \in Nat
           /\ used[t] <= IF Answered(turn[t]) THEN 1 ELSE 0
<1>1. "partial" \notin rows[t] /\ used[t] \in Nat
  BY RecordTyped DEF RecordInv, IndInv, PartialHeard
<1>2. RecordFits(turn[t], used[t], rows[t], faults)
  BY RecordTyped DEF TurnFits
<1> QED
  BY <1>1, <1>2 DEF RecordFits

\* A question whose connections held is paid for once at the most, and exactly
\* once if it is answered, no call failed and neither request came without a
\* subscription (useCopilotChat.ts:179-233, copilot-quota-manager.ts:25-56).
THEOREM HeldCorrect == Spec => []HeldCountsOnce
<1>1. RecordInv => HeldCountsOnce
  <2> SUFFICES ASSUME RecordInv, NEW q \in Question,
                      turn[Stream(q)].link = "up", turn[Json(q)].link = "up"
               PROVE  /\ used[Stream(q)] + used[Json(q)] <= 1
                      /\ chat[q].pc = "answered" /\ faults = 0 =>
                            \/ turn[Stream(q)].free \/ turn[Json(q)].free
                            \/ used[Stream(q)] + used[Json(q)] = 1
    BY DEF HeldCountsOnce
  <2> DEFINE s == Stream(q)
             j == Json(q)
  <2>1. s \in Turn /\ j \in Turn /\ AnswerShown(q) /\ chat[q].got \in BOOLEAN
    BY RequestsApart, TabTyped DEF RecordInv
  <2>2. /\ Fits(s, turn[s]) /\ Fits(j, turn[j])
        /\ TurnFits(s) /\ TurnFits(j)
    BY <2>1, RecordTyped
  <2>3. ~turn[s].heard /\ ~turn[j].heard
    BY <2>2 DEF Fits
  <2>4. /\ used[s] \in Nat /\ used[s] <= (IF Answered(turn[s]) THEN 1 ELSE 0)
        /\ used[j] \in Nat /\ used[j] <= (IF Answered(turn[j]) THEN 1 ELSE 0)
    BY <2>1, <2>3, UnabortedCharge
  <2>5. ~Answered(turn[s]) \/ ~Answered(turn[j])
    <3> SUFFICES ASSUME Answered(turn[j]) PROVE ~Answered(turn[s])
      OBVIOUS
    <3>1. turn[j].pc # "off"
      BY <2>2, EmptyOrder DEF TurnFits, WriterFits, Answered, Fits, Late, LastSteps
    <3>2. turn[s].pc \in LastSteps /\ ~turn[s].sent
      BY <2>1, <3>1 DEF AnswerShown
    <3> QED
      BY <2>1, <3>2, OverWritten
  <2>6. ASSUME chat[q].pc = "answered", faults = 0, ~turn[s].free, ~turn[j].free
        PROVE  used[s] >= 1 \/ used[j] >= 1
    <3>1. turn[s].sent \/ turn[j].sent
      BY <2>1, <2>6 DEF AnswerShown
    <3> QED
      BY <2>2, <2>6, <3>1 DEF TurnFits, RecordFits, Answered
  <2> HIDE DEF s, j
  <2>7. /\ used[s] + used[j] <= 1
        /\ chat[q].pc = "answered" /\ faults = 0 =>
              turn[s].free \/ turn[j].free \/ used[s] + used[j] = 1
    BY <2>4, <2>5, <2>6
  <2> QED
    BY <2>7 DEF s, j
<1> QED
  BY <1>1, RecordsInductive, PTL

\* A turn that ends without a reply and was not cut off leaves no count and no
\* reply, and its question only after a failure more than the one that ended it
\* (copilot-stream.service.ts, the catch block of runTurn).
THEOREM FailureCorrect == Spec => []FailureLeavesNothing
<1>1. RecordInv => FailureLeavesNothing
  <2> SUFFICES ASSUME RecordInv, NEW t \in Turn, At(t, "over"), ~turn[t].sent, ~turn[t].signal
               PROVE  /\ used[t] = 0
                      /\ rows[t] \subseteq {"question"}
                      /\ "question" \in rows[t] => faults > IF turn[t].broken THEN 1 ELSE 0
    BY DEF FailureLeavesNothing
  <2>1. /\ WriterFits(t, turn[t]) /\ RecordFits(turn[t], used[t], rows[t], faults)
        /\ rows[t] \in SUBSET Row
    BY RecordTyped DEF TurnFits
  <2>2. turn[t].pc = "over" /\ turn[t].pc \in LastSteps
    BY DEF At, LastSteps
  <2>3. ~Answered(turn[t]) /\ turn[t].pump \in {"off", "over"}
    BY <2>2, OverWritten
  <2>4. ~turn[t].heard
    BY <2>1 DEF WriterFits
  <2>5. "partial" \notin rows[t] /\ used[t] = 0
    BY <2>3, <2>4, UnabortedCharge
  <2>6. "reply" \notin rows[t]
    BY <2>1, <2>2, <2>3 DEF RecordFits
  <2> QED
    BY <2>1, <2>2, <2>5, <2>6 DEF RecordFits, Row
<1> QED
  BY <1>1, RecordsInductive, PTL

\* Whatever is aborted, fails or is put again, nothing is charged for that left
\* no row behind (copilot-stream.service.ts:169-194, finalizeChat).
THEOREM PaidForKept == Spec => []CountsAreKept
<1>1. RecordInv => CountsAreKept
  <2> SUFFICES ASSUME RecordInv, NEW t \in Turn
               PROVE  used[t] <= Cardinality(rows[t] \ {"question"})
    BY DEF CountsAreKept
  <2> DEFINE kept == rows[t] \ {"question"}
  <2>1. RecordFits(turn[t], used[t], rows[t], faults) /\ rows[t] \in SUBSET Row /\ used[t] \in Nat
    BY RecordTyped DEF TurnFits
  <2>2. /\ used[t] <= (IF "reply" \in kept THEN 1 ELSE 0) + (IF "partial" \in kept THEN 1 ELSE 0)
        /\ kept \in SUBSET {"reply", "partial"}
    BY <2>1 DEF RecordFits, Row
  <2> HIDE DEF kept
  <2>3. \/ kept = {}
        \/ kept = {"reply"} \/ kept = {"partial"}
        \/ kept = {"reply"} \union {"partial"}
    BY <2>2
  <2>4. /\ Cardinality({}) = 0 /\ Cardinality({"reply"}) = 1 /\ Cardinality({"partial"}) = 1
        /\ IsFiniteSet({"reply"}) /\ "partial" \notin {"reply"}
    BY FS_EmptySet, FS_Singleton
  <2>5. Cardinality({"reply"} \union {"partial"}) = 2
    BY <2>4, FS_AddElement
  <2>6. used[t] <= Cardinality(kept)
    <3>1. CASE kept = {}
      BY <2>1, <2>2, <2>4, <3>1
    <3>2. CASE kept = {"reply"} \/ kept = {"partial"}
      <4>1. ~("reply" \in kept /\ "partial" \in kept)
        BY <3>2
      <4>2. used[t] <= 1
        BY <2>1, <2>2, <4>1
      <4>3. Cardinality(kept) = 1
        BY <2>4, <3>2
      <4> QED
        BY <4>2, <4>3
    <3>3. CASE kept = {"reply"} \union {"partial"}
      <4>1. used[t] <= 2
        BY <2>1, <2>2
      <4> QED
        BY <2>5, <3>3, <4>1
    <3> QED
      BY <2>3, <3>1, <3>2, <3>3
  <2> QED
    BY <2>6 DEF kept
<1> QED
  BY <1>1, RecordsInductive, PTL

=============================================================================
