-------------------------- MODULE CopilotTurnProofs --------------------------
(***************************************************************************)
(* Proofs about CopilotTurn.tla for any number of questions and streams,   *)
(* any limit, any number of events and failures.                           *)
(***************************************************************************)
EXTENDS CopilotTurn, SequenceTheorems, FiniteSetTheorems, TLAPS

USE CopilotAssumption DEF vars

Tellable == Event \union {TQ!End, TQ!Error}

-----------------------------------------------------------------------------
(* The operations of the queue.                                            *)

\* While the reader waits there is nothing to read; it is told of the end when
\* nothing is left.
Sound(q) ==
    /\ q.waiting => q.pending = <<>> /\ ~q.ended /\ q.handed = TQ!Nothing
    /\ q.fatal => q.ended
    /\ q.handed \in {TQ!End, TQ!Error} => q.pending = <<>> /\ q.ended
    /\ q.handed = TQ!End => ~q.fatal
    /\ q.handed = TQ!Error => q.fatal

LEMMA NewQueueSound ==
    /\ TQ!NewQueue \in TQ!Queue /\ Sound(TQ!NewQueue)
    /\ TQ!Contents(TQ!NewQueue) = <<>> /\ TQ!Outcome(TQ!NewQueue, FALSE) = "open"
  BY DEF TQ!NewQueue, TQ!Queue, Sound, TQ!Contents, TQ!Outcome, TQ!Nothing, TQ!End, TQ!Error, Event

LEMMA HandToFields ==
    ASSUME NEW q \in TQ!Queue, NEW v \in Event \union {TQ!Nothing, TQ!End, TQ!Error}
    PROVE  /\ TQ!HandTo(q, v) \in TQ!Queue
           /\ TQ!HandTo(q, v).handed = v /\ TQ!HandTo(q, v).waiting = FALSE
           /\ TQ!HandTo(q, v).pending = q.pending
           /\ TQ!HandTo(q, v).ended = q.ended /\ TQ!HandTo(q, v).fatal = q.fatal
  BY DEF TQ!Queue, TQ!HandTo

LEMMA AppendBehind ==
    ASSUME NEW T, NEW x \in T, NEW s \in Seq(T), NEW y \in T
    PROVE  Append(<<x>> \o s, y) = <<x>> \o Append(s, y)
<1> DEFINE a == <<x>>
           b == <<y>>
<1>1. a \in Seq(T) /\ b \in Seq(T) /\ a \o s \in Seq(T)
  OBVIOUS
<1>2. Append(s, y) = s \o b /\ Append(a \o s, y) = (a \o s) \o b
  BY <1>1, AppendIsConcat
<1> HIDE DEF a, b
<1>3. (a \o s) \o b = a \o (s \o b)
  BY <1>1, ConcatAssociative, SMTT(20)
<1> QED
  BY <1>2, <1>3 DEF a

\* An event that is pushed joins the end of what is to be read.
LEMMA PushedAppends ==
    ASSUME NEW q \in TQ!Queue, Sound(q), NEW e \in Event
    PROVE  /\ TQ!Pushed(q, e) \in TQ!Queue
           /\ TQ!Pushed(q, e).ended = q.ended /\ TQ!Pushed(q, e).fatal = q.fatal
           /\ TQ!Contents(TQ!Pushed(q, e)) = Append(TQ!Contents(q), e)
           /\ ~q.ended => Sound(TQ!Pushed(q, e))
<1> USE DEF TQ!Nothing, TQ!End, TQ!Error
<1>1. CASE q.waiting
  <2>1. TQ!Pushed(q, e) = TQ!HandTo(q, e)
    BY <1>1 DEF TQ!Pushed
  <2>2. q.pending = <<>> /\ ~q.ended /\ q.handed = TQ!Nothing /\ ~q.fatal
    BY <1>1 DEF Sound, TQ!Queue
  <2>3. TQ!Contents(q) = <<>>
    BY <2>2 DEF TQ!Contents, Event
  <2> DEFINE h == TQ!HandTo(q, e)
  <2>h. /\ h \in TQ!Queue /\ h.handed = e /\ h.waiting = FALSE /\ h.pending = <<>>
        /\ h.ended = q.ended /\ h.fatal = q.fatal
    BY <2>2, HandToFields
  <2> HIDE DEF h
  <2>4. TQ!Contents(h) = <<e>> \o <<>>
    BY <2>h DEF TQ!Contents
  <2>5. <<e>> \o <<>> = Append(<<>>, e)
    OBVIOUS
  <2>6. Sound(h)
    BY <2>2, <2>h DEF Sound, Event
  <2>7. TQ!Pushed(q, e) = h
    BY <2>1 DEF h
  <2> QED
    BY <2>2, <2>3, <2>4, <2>5, <2>6, <2>7, <2>h
<1>2. CASE ~q.waiting
  <2> DEFINE p == TQ!Pushed(q, e)
  <2>1. Append(q.pending, e) \in Seq(Event)
    BY DEF TQ!Queue
  <2>2. /\ p \in TQ!Queue /\ p.pending = Append(q.pending, e) /\ p.handed = q.handed
        /\ p.ended = q.ended /\ p.fatal = q.fatal /\ p.waiting = q.waiting
    BY <1>2, <2>1 DEF TQ!Pushed, TQ!Queue
  <2>3. TQ!Contents(p) = Append(TQ!Contents(q), e)
    <3>1. CASE q.handed \in Event
      <4>1. q.pending \in Seq(Event)
        BY DEF TQ!Queue
      <4>2. Append(<<q.handed>> \o q.pending, e) = <<q.handed>> \o Append(q.pending, e)
        BY <3>1, <4>1, AppendBehind
      <4> QED
        BY <3>1, <4>2, <2>2 DEF TQ!Contents
    <3>2. CASE q.handed \notin Event
      BY <3>2, <2>2 DEF TQ!Contents
    <3> QED
      BY <3>1, <3>2
  <2>4. ~q.ended => Sound(p)
    BY <1>2, <2>2 DEF Sound
  <2> QED
    BY <2>2, <2>3, <2>4
<1> QED
  BY <1>1, <1>2 DEF TQ!Queue

\* Closing a queue leaves what is to be read.
LEMMA ClosedKeeps ==
    ASSUME NEW q \in TQ!Queue, Sound(q), ~q.ended
    PROVE  /\ TQ!Ended(q) \in TQ!Queue /\ Sound(TQ!Ended(q))
           /\ TQ!Ended(q).ended /\ ~TQ!Ended(q).fatal
           /\ TQ!Contents(TQ!Ended(q)) = TQ!Contents(q)
           /\ TQ!Failed(q) \in TQ!Queue /\ Sound(TQ!Failed(q))
           /\ TQ!Failed(q).ended /\ TQ!Failed(q).fatal
           /\ TQ!Contents(TQ!Failed(q)) = TQ!Contents(q)
<1> USE DEF TQ!Nothing, TQ!End, TQ!Error
<1> DEFINE e == [q EXCEPT !.ended = TRUE]
           f == [q EXCEPT !.ended = TRUE, !.fatal = TRUE]
<1>1. /\ e \in TQ!Queue /\ e.ended = TRUE /\ e.fatal = q.fatal /\ e.pending = q.pending
      /\ e.handed = q.handed /\ e.waiting = q.waiting
      /\ f \in TQ!Queue /\ f.ended = TRUE /\ f.fatal = TRUE /\ f.pending = q.pending
      /\ f.handed = q.handed /\ f.waiting = q.waiting
      /\ q.fatal = FALSE
  BY DEF TQ!Queue, Sound
<1> HIDE DEF e, f
<1>2. CASE q.waiting
  <2>1. q.pending = <<>> /\ q.handed = TQ!Nothing
    BY <1>2 DEF Sound
  <2>2. TQ!Ended(q) = TQ!HandTo(e, TQ!End) /\ TQ!Failed(q) = TQ!HandTo(f, TQ!Error)
    BY <1>2 DEF TQ!Ended, TQ!Failed, e, f
  <2>3. TQ!Contents(q) = <<>>
    BY <2>1 DEF TQ!Contents, Event
  <2> DEFINE g == TQ!HandTo(e, TQ!End)
             h == TQ!HandTo(f, TQ!Error)
  <2>4. /\ g \in TQ!Queue /\ g.handed = TQ!End /\ g.waiting = FALSE /\ g.pending = <<>>
        /\ g.ended = TRUE /\ g.fatal = FALSE
    BY <1>1, <2>1 DEF TQ!HandTo, TQ!Queue
  <2>5. /\ h \in TQ!Queue /\ h.handed = TQ!Error /\ h.waiting = FALSE /\ h.pending = <<>>
        /\ h.ended = TRUE /\ h.fatal = TRUE
    BY <1>1, <2>1 DEF TQ!HandTo, TQ!Queue
  <2> HIDE DEF g, h
  <2>6. TQ!Contents(g) = <<>> /\ Sound(g)
    BY <2>4 DEF TQ!Contents, Event, Sound
  <2>7. TQ!Contents(h) = <<>> /\ Sound(h)
    BY <2>5 DEF TQ!Contents, Event, Sound
  <2>8. TQ!Ended(q) = g /\ TQ!Failed(q) = h
    BY <2>2 DEF g, h
  <2> QED
    BY <2>3, <2>4, <2>5, <2>6, <2>7, <2>8
<1>3. CASE ~q.waiting
  <2>1. TQ!Ended(q) = e /\ TQ!Failed(q) = f
    BY <1>3 DEF TQ!Ended, TQ!Failed, e, f
  <2> QED
    BY <1>1, <1>3, <2>1 DEF TQ!Contents, Sound
<1> QED
  BY <1>2, <1>3

\* A reader that has dealt with an event goes on with the next.
LEMMA PulledReads ==
    ASSUME NEW q \in TQ!Queue, Sound(q), q.handed \in Event
    PROVE  /\ TQ!Pulled(q) \in TQ!Queue /\ Sound(TQ!Pulled(q))
           /\ TQ!Pulled(q).ended = q.ended /\ TQ!Pulled(q).fatal = q.fatal
           /\ TQ!Contents(q) # <<>> /\ Head(TQ!Contents(q)) = q.handed
           /\ TQ!Contents(TQ!Pulled(q)) = Tail(TQ!Contents(q))
<1> USE DEF TQ!Nothing, TQ!End, TQ!Error
<1> DEFINE p == TQ!Pulled(q)
<1>1. q.pending \in Seq(Event) /\ <<q.handed>> \in Seq(Event)
  BY DEF TQ!Queue
<1>2. TQ!Contents(q) = <<q.handed>> \o q.pending
  BY DEF TQ!Contents
<1>3. /\ TQ!Contents(q) # <<>> /\ Head(TQ!Contents(q)) = q.handed
      /\ Tail(TQ!Contents(q)) = q.pending
  BY <1>1, <1>2
<1>4. CASE q.pending # <<>>
  <2>1. Head(q.pending) \in Event /\ Tail(q.pending) \in Seq(Event)
    BY <1>1, <1>4
  <2>2. /\ p \in TQ!Queue /\ p.pending = Tail(q.pending) /\ p.handed = Head(q.pending)
        /\ p.ended = q.ended /\ p.fatal = q.fatal /\ p.waiting = q.waiting
    BY <1>4, <2>1 DEF TQ!Pulled, TQ!Queue
  <2>3. TQ!Contents(p) = <<Head(q.pending)>> \o Tail(q.pending)
    BY <2>1, <2>2 DEF TQ!Contents
  <2>4. <<Head(q.pending)>> \o Tail(q.pending) = q.pending
    BY <1>1, <1>4
  <2>5. Sound(p)
    BY <1>4, <2>1, <2>2 DEF Sound, Event
  <2> QED
    BY <1>3, <2>2, <2>3, <2>4, <2>5
<1>5. CASE q.pending = <<>>
  <2>1. /\ p \in TQ!Queue /\ p.pending = <<>> /\ p.ended = q.ended /\ p.fatal = q.fatal
        /\ p.handed = (IF q.fatal THEN TQ!Error ELSE IF q.ended THEN TQ!End ELSE TQ!Nothing)
        /\ p.waiting => ~q.ended
    <3>1. q.waiting = FALSE
      BY DEF Sound, TQ!Queue, Event
    <3>2. CASE q.fatal
      BY <1>5, <3>1, <3>2 DEF TQ!Pulled, TQ!Queue
    <3>3. CASE ~q.fatal /\ q.ended
      BY <1>5, <3>1, <3>3 DEF TQ!Pulled, TQ!Queue
    <3>4. CASE ~q.fatal /\ ~q.ended
      BY <1>5, <3>1, <3>4 DEF TQ!Pulled, TQ!Queue
    <3> QED
      BY <3>2, <3>3, <3>4
  <2>2. TQ!Contents(p) = <<>>
    BY <2>1 DEF TQ!Contents, Event
  <2>3. Sound(p)
    BY <2>1 DEF Sound, TQ!Queue
  <2> QED
    BY <1>3, <1>5, <2>1, <2>2, <2>3
<1> QED
  BY <1>4, <1>5

-----------------------------------------------------------------------------
(* The inductive invariant.                                                *)

PC == {"off", "guard", "incr", "expire", "refused", "prepare", "history",
       "simple", "count", "tools", "delete", "close", "over"}
Late == {"tools", "delete", "close", "over"}

\* The pump starts with the queue's reader and closes the queue as it ends;
\* only a closed connection is heard of, and only a stream's is.
Fits(t, r) ==
    /\ Sound(r.queue)
    /\ r.queue.ended <=> r.pump = "over"
    /\ r.pump # "off" => r.pc \in Late
    /\ r.told => r.queue.ended /\ r.pc \in Late \ {"tools"}
    /\ r.heard => r.pump # "off" /\ r.link = "closed"
    /\ r.signal => r.link = "closed"
    /\ r.link = "closed" => t[2] = "stream"

\* A tab asks over JSON only when it has given its stream up, and a stream it
\* still reads is connected.
TabFits(q) ==
    /\ chat[q].pc = "idle" => turn[Stream(q)].pc = "off"
    /\ chat[q].pc \in {"idle", "stream"} =>
          turn[Json(q)].pc = "off" /\ turn[Stream(q)].link = "up"

PartialHeard == \A t \in Turn : "partial" \in rows[t] => turn[t].heard

IndInv ==
    /\ TypeOK
    /\ \A t \in Turn : Fits(t, turn[t])
    /\ \A q \in Question : TabFits(q)
    /\ PartialHeard

-----------------------------------------------------------------------------
(* A step of a turn replaces its request by one that fits, and is a step   *)
(* of its channel or leaves it alone.                                      *)

Cont(r) == TQ!Contents(r.queue)
Out(r) == TQ!Outcome(r.queue, r.told)

ChannelStep(a, b) ==
    \/ b.queue = a.queue /\ b.told = a.told
    \/ /\ Out(a) = "open" /\ Out(b) = "open"
       /\ \E e \in Event : Cont(b) = Append(Cont(a), e)
    \/ /\ Out(a) = "open" /\ Out(b) \in {"ended", "failed"}
       /\ \E last \in {<<>>} \union {<<e>> : e \in Event} : Cont(b) = Cont(a) \o last
    \/ /\ Cont(a) # <<>> /\ Cont(b) = Tail(Cont(a)) /\ Out(b) = Out(a)
    \/ /\ Cont(a) = <<>> /\ Cont(b) = Cont(a)
       /\ Out(a) \in {"ended", "failed"} /\ Out(b) = "told"

Moved(t, r) ==
    /\ r \in Request /\ Fits(t, r)
    /\ turn' = [turn EXCEPT ![t] = r]
    /\ turn[t].pc # "off" \/ r.pc = turn[t].pc
    /\ r.link = turn[t].link \/ turn[t].link = "cut"
    /\ ChannelStep(turn[t], r)

Step(t) == \E r \in Request : Moved(t, r)

LEMMA Expand ==
    ASSUME IndInv, NEW t \in Turn
    PROVE  turn[t] \in Request /\ Fits(t, turn[t]) /\ turn[t].queue \in TQ!Queue
  BY DEF IndInv, TypeOK, Request

\* A step that replaces the program counter and nothing else.
LEMMA GoMoves ==
    ASSUME IndInv, NEW t \in Turn, NEW pc \in PC, Go(t, pc), turn[t].pc # "off",
           turn[t].pump # "off" => pc \in Late,
           turn[t].told => pc \in Late \ {"tools"}
    PROVE  Step(t)
<1> DEFINE r == [turn[t] EXCEPT !.pc = pc]
<1>0. turn[t] \in Request /\ Fits(t, turn[t])
  BY Expand
<1>1. r \in Request
  BY <1>0 DEF Request, PC
<1>2. /\ r.pc = pc /\ r.queue = turn[t].queue /\ r.told = turn[t].told /\ r.pump = turn[t].pump
      /\ r.heard = turn[t].heard /\ r.signal = turn[t].signal /\ r.link = turn[t].link
  BY <1>0 DEF Request
<1>3. turn' = [turn EXCEPT ![t] = r]
  BY DEF Go
<1> HIDE DEF r
<1>4. Fits(t, r)
  BY <1>0, <1>2 DEF Fits
<1>5. ChannelStep(turn[t], r)
  BY <1>2 DEF ChannelStep
<1> QED
  BY <1>1, <1>2, <1>3, <1>4, <1>5 DEF Step, Moved

LEMMA LeftLate == \A t : Left(t) \in {"close", "over"}
  BY DEF Left

\* While the pump has not started nothing of the queue is told.
LEMMA EarlyTurn ==
    ASSUME IndInv, NEW t \in Turn, turn[t].pc \notin Late
    PROVE  turn[t].pump = "off" /\ ~turn[t].told /\ ~turn[t].heard
  BY Expand DEF Fits, Request

LEMMA GuardsMove ==
    ASSUME IndInv, NEW t \in Turn,
           Guard(t) \/ Incr(t) \/ Expire(t) \/ Refuse(t) \/ GiveBack(t) \/ Brief(t)
    PROVE  Step(t)
<1>1. CASE Guard(t)
  <2>1. CASE Go(t, "over")
    BY <1>1, <2>1, GoMoves, EarlyTurn DEF Guard, At, PC, Late
  <2>2. ASSUME NEW b \in BOOLEAN, NEW pc \in {"incr", "prepare"},
               turn' = [turn EXCEPT ![t].pc = pc, ![t].free = b]
        PROVE  Step(t)
    <3> DEFINE r == [turn[t] EXCEPT !.pc = pc, !.free = b]
    <3>0. turn[t] \in Request /\ Fits(t, turn[t])
      BY Expand
    <3>1. r \in Request
      BY <3>0 DEF Request
    <3>2. /\ r.queue = turn[t].queue /\ r.told = turn[t].told /\ r.pump = turn[t].pump
          /\ r.heard = turn[t].heard /\ r.signal = turn[t].signal /\ r.link = turn[t].link
      BY <3>0 DEF Request
    <3>3. turn' = [turn EXCEPT ![t] = r] /\ turn[t].pc = "guard"
      BY <1>1, <2>2 DEF Guard, At
    <3>4. turn[t].pump = "off" /\ ~turn[t].told /\ ~turn[t].heard
      BY <3>3, EarlyTurn DEF Late
    <3> HIDE DEF r
    <3>5. Fits(t, r)
      BY <3>0, <3>2, <3>4 DEF Fits
    <3> QED
      BY <3>1, <3>2, <3>3, <3>5 DEF Step, Moved, ChannelStep
  <2> QED
    BY <1>1, <2>1, <2>2 DEF Guard
<1>2. CASE Incr(t)
  <2> DEFINE r == [turn[t] EXCEPT !.pc = "expire", !.seen = slots + 1]
  <2>0. turn[t] \in Request /\ Fits(t, turn[t]) /\ slots + 1 \in Int
    BY Expand DEF IndInv, TypeOK
  <2>1. r \in Request
    BY <2>0 DEF Request
  <2>2. /\ r.queue = turn[t].queue /\ r.told = turn[t].told /\ r.pump = turn[t].pump
        /\ r.heard = turn[t].heard /\ r.signal = turn[t].signal /\ r.link = turn[t].link
    BY <2>0 DEF Request
  <2>3. turn' = [turn EXCEPT ![t] = r] /\ turn[t].pc = "incr"
    BY <1>2 DEF Incr, At
  <2>4. turn[t].pump = "off" /\ ~turn[t].told /\ ~turn[t].heard
    BY <2>3, EarlyTurn DEF Late
  <2> HIDE DEF r
  <2>5. Fits(t, r)
    BY <2>0, <2>2, <2>4 DEF Fits
  <2> QED
    BY <2>1, <2>2, <2>3, <2>5 DEF Step, Moved, ChannelStep
<1>3. CASE Expire(t)
  <2>1. PICK pc \in PC :
            turn' = [turn EXCEPT ![t] = [turn[t] EXCEPT !.pc = pc, !.seen = 0]]
    BY <1>3 DEF Expire, PC
  <2> DEFINE r == [turn[t] EXCEPT !.pc = pc, !.seen = 0]
  <2>0. turn[t] \in Request /\ Fits(t, turn[t])
    BY Expand
  <2>z. 0 \in Int
    OBVIOUS
  <2>2. r \in Request
    BY <2>0, <2>z DEF Request, PC
  <2>3. /\ r.queue = turn[t].queue /\ r.told = turn[t].told /\ r.pump = turn[t].pump
        /\ r.heard = turn[t].heard /\ r.signal = turn[t].signal /\ r.link = turn[t].link
    BY <2>0 DEF Request
  <2>4. turn[t].pc = "expire"
    BY <1>3 DEF Expire, At
  <2>5. turn[t].pump = "off" /\ ~turn[t].told /\ ~turn[t].heard
    BY <2>4, EarlyTurn DEF Late
  <2>6. turn' = [turn EXCEPT ![t] = r]
    BY <2>1
  <2> HIDE DEF r
  <2>7. Fits(t, r)
    BY <2>0, <2>3, <2>5 DEF Fits
  <2> QED
    BY <2>2, <2>3, <2>4, <2>6, <2>7 DEF Step, Moved, ChannelStep
<1>4. CASE Refuse(t) \/ GiveBack(t) \/ Brief(t)
  BY <1>4, GoMoves, EarlyTurn DEF Refuse, GiveBack, Brief, At, PC, Late
<1> QED
  BY <1>1, <1>2, <1>3, <1>4

LEMMA CloseMoves ==
    ASSUME IndInv, NEW t \in Turn, Close(t)
    PROVE  Step(t)
<1> DEFINE listening == turn[t].pc \in {"prepare", "history", "simple", "count", "tools"}
           running == turn[t].pump \in {"answer", "fallback", "count", "partial"}
           r == [turn[t] EXCEPT !.link = "closed", !.signal = @ \/ listening,
                                !.heard = @ \/ running]
<1>0. turn[t] \in Request /\ Fits(t, turn[t])
  BY Expand
<1>1. turn' = [turn EXCEPT ![t] = r] /\ turn[t].link = "cut" /\ t[2] = "stream"
  BY DEF Close
<1>2. running => turn[t].pump # "off"
  OBVIOUS
<1> HIDE DEF listening, running
<1>3. r \in Request
  BY <1>0 DEF Request
<1>4. /\ r.queue = turn[t].queue /\ r.told = turn[t].told /\ r.pump = turn[t].pump
      /\ r.pc = turn[t].pc /\ r.heard = (turn[t].heard \/ running) /\ r.link = "closed"
  BY <1>0 DEF Request
<1> HIDE DEF r
<1>5. Fits(t, r)
  BY <1>0, <1>1, <1>2, <1>4 DEF Fits
<1> QED
  BY <1>1, <1>3, <1>4, <1>5 DEF Step, Moved, ChannelStep

LEMMA TurnsMove ==
    ASSUME IndInv, NEW t \in Turn,
           \/ SaveQuestion(t) \/ ReadHistory(t) \/ SimpleReply(t) \/ SimpleDone(t)
           \/ DeleteQuestion(t)
    PROVE  Step(t)
<1> USE DEF At
<1>0. turn[t] \in Request /\ Fits(t, turn[t])
  BY Expand
<1>1. CASE SaveQuestion(t)
  BY <1>1, GoMoves, EarlyTurn, LeftLate DEF SaveQuestion, PC, Late
<1>2. CASE ReadHistory(t)
  <2>1. turn[t].pc = "history"
    BY <1>2 DEF ReadHistory
  <2>2. turn[t].pump = "off" /\ ~turn[t].told /\ ~turn[t].heard
    BY <2>1, EarlyTurn DEF Late
  <2>3. CASE Go(t, "simple") \/ Go(t, Left(t))
    BY <2>1, <2>2, <2>3, GoMoves, LeftLate DEF PC, Late
  <2> DEFINE r == [turn[t] EXCEPT !.pc = "tools", !.pump = "answer", !.heard = turn[t].signal]
  <2>4. CASE turn' = [turn EXCEPT ![t].pc = "tools", ![t].pump = "answer",
                                  ![t].heard = turn[t].signal]
    <3>1. turn[t].signal \in BOOLEAN
      BY <1>0 DEF Request
    <3>2. r \in Request
      BY <1>0, <3>1 DEF Request
    <3>3. turn' = [turn EXCEPT ![t] = r]
      BY <2>4
    <3>4. /\ r.queue = turn[t].queue /\ r.told = turn[t].told /\ r.pump = "answer"
          /\ r.pc = "tools" /\ r.heard = turn[t].signal /\ r.link = turn[t].link
          /\ r.signal = turn[t].signal
      BY <1>0 DEF Request
    <3> HIDE DEF r
    <3>5. Fits(t, r)
      BY <1>0, <2>2, <3>4 DEF Fits, Late
    <3> QED
      BY <2>1, <3>2, <3>3, <3>4, <3>5 DEF Step, Moved, ChannelStep
  <2> QED
    BY <1>2, <2>3, <2>4 DEF ReadHistory
<1>3. CASE SimpleReply(t)
  <2>1. turn[t].pc = "simple"
    BY <1>3 DEF SimpleReply
  <2>2. turn[t].pump = "off" /\ ~turn[t].told /\ ~turn[t].heard
    BY <2>1, EarlyTurn DEF Late
  <2>3. CASE Go(t, "count") \/ Go(t, Left(t))
    BY <2>1, <2>2, <2>3, GoMoves, LeftLate DEF PC, Late
  <2> DEFINE r == [turn[t] EXCEPT !.pc = "delete", !.broken = TRUE]
  <2>4. CASE turn' = [turn EXCEPT ![t].pc = "delete", ![t].broken = TRUE]
    <3>2. r \in Request
      BY <1>0 DEF Request
    <3>3. turn' = [turn EXCEPT ![t] = r]
      BY <2>4
    <3>4. /\ r.queue = turn[t].queue /\ r.told = turn[t].told /\ r.pump = turn[t].pump
          /\ r.heard = turn[t].heard /\ r.signal = turn[t].signal /\ r.link = turn[t].link
      BY <1>0 DEF Request
    <3> HIDE DEF r
    <3>5. Fits(t, r)
      BY <1>0, <2>2, <3>4 DEF Fits
    <3> QED
      BY <2>1, <3>2, <3>3, <3>4, <3>5 DEF Step, Moved, ChannelStep
  <2> QED
    BY <1>3, <2>3, <2>4 DEF SimpleReply
<1>4. CASE SimpleDone(t)
  <2> DEFINE r == [turn[t] EXCEPT !.pc = Left(t), !.sent = TRUE]
  <2>1. turn[t].pc = "count"
    BY <1>4 DEF SimpleDone
  <2>2. turn[t].pump = "off" /\ ~turn[t].told /\ ~turn[t].heard
    BY <2>1, EarlyTurn DEF Late
  <2>3. turn' = [turn EXCEPT ![t] = r]
    BY <1>4 DEF SimpleDone
  <2>4. r \in Request
    BY <1>0, LeftLate DEF Request
  <2>5. /\ r.queue = turn[t].queue /\ r.told = turn[t].told /\ r.pump = turn[t].pump
        /\ r.heard = turn[t].heard /\ r.signal = turn[t].signal /\ r.link = turn[t].link
    BY <1>0 DEF Request
  <2> HIDE DEF r
  <2>6. Fits(t, r)
    BY <1>0, <2>2, <2>5 DEF Fits
  <2> QED
    BY <2>1, <2>3, <2>4, <2>5, <2>6 DEF Step, Moved, ChannelStep
<1>5. CASE DeleteQuestion(t)
  BY <1>5, GoMoves, LeftLate DEF DeleteQuestion, PC, Late
<1> QED
  BY <1>1, <1>2, <1>3, <1>4, <1>5

\* The generator reads what it was handed, or hears of the end.
LEMMA ReaderMoves ==
    ASSUME IndInv, NEW t \in Turn, Deliver(t) \/ LeaveTools(t)
    PROVE  Step(t)
<1> USE DEF At
<1>0. turn[t] \in Request /\ Fits(t, turn[t]) /\ turn[t].queue \in TQ!Queue
  BY Expand
<1> DEFINE q == turn[t].queue
<1>1. CASE Deliver(t)
  <2> DEFINE p == TQ!Pulled(q)
             r == [turn[t] EXCEPT !.queue = p, !.sent = @ \/ q.handed = "done"]
  <2>1. turn' = [turn EXCEPT ![t] = r] /\ turn[t].pc = "tools" /\ q.handed \in Event
    BY <1>1 DEF Deliver
  <2>2. /\ p \in TQ!Queue /\ Sound(p) /\ p.ended = q.ended /\ p.fatal = q.fatal
        /\ TQ!Contents(q) # <<>> /\ TQ!Contents(p) = Tail(TQ!Contents(q))
    BY <1>0, <2>1, PulledReads DEF Fits
  <2> HIDE DEF p, q
  <2>3. r \in Request
    BY <1>0, <2>2 DEF Request
  <2>4. /\ r.queue = p /\ r.told = turn[t].told /\ r.pump = turn[t].pump /\ r.pc = "tools"
        /\ r.heard = turn[t].heard /\ r.signal = turn[t].signal /\ r.link = turn[t].link
    BY <1>0, <2>1 DEF Request
  <2> HIDE DEF r
  <2>5. Fits(t, r)
    BY <1>0, <2>1, <2>2, <2>4 DEF Fits, q
  <2>6. Cont(turn[t]) # <<>> /\ Cont(r) = Tail(Cont(turn[t])) /\ Out(r) = Out(turn[t])
    BY <2>2, <2>4 DEF Cont, Out, TQ!Outcome, q
  <2> QED
    BY <2>1, <2>3, <2>4, <2>5, <2>6 DEF Step, Moved, ChannelStep
<1>2. CASE LeaveTools(t)
  <2>1. PICK pc \in {"close", "over", "delete"} :
            turn' = [turn EXCEPT ![t] = [turn[t] EXCEPT !.pc = pc, !.told = TRUE]]
    BY <1>2, LeftLate DEF LeaveTools
  <2> DEFINE r == [turn[t] EXCEPT !.pc = pc, !.told = TRUE]
  <2>2. turn' = [turn EXCEPT ![t] = r]
    BY <2>1
  <2>3. turn[t].pc = "tools" /\ q.handed \in {TQ!End, TQ!Error}
    BY <1>2 DEF LeaveTools
  <2>4. q.pending = <<>> /\ q.ended
    BY <1>0, <2>3 DEF Fits, Sound
  <2>5. ~turn[t].told
    BY <1>0, <2>3 DEF Fits
  <2>6. r \in Request
    BY <1>0 DEF Request
  <2>7. /\ r.queue = q /\ r.told = TRUE /\ r.pump = turn[t].pump /\ r.pc = pc
        /\ r.heard = turn[t].heard /\ r.signal = turn[t].signal /\ r.link = turn[t].link
    BY <1>0 DEF Request
  <2> HIDE DEF r, q
  <2>8. Fits(t, r)
    BY <1>0, <2>4, <2>7 DEF Fits, Late, q
  <2>9. Cont(turn[t]) = <<>> /\ Cont(r) = Cont(turn[t])
    BY <2>3, <2>4, <2>7 DEF Cont, TQ!Contents, q, Event, TQ!End, TQ!Error
  <2>10. Out(turn[t]) \in {"ended", "failed"} /\ Out(r) = "told"
    BY <2>4, <2>5, <2>7 DEF Out, TQ!Outcome, q
  <2> QED
    BY <2>2, <2>3, <2>6, <2>7, <2>8, <2>9, <2>10 DEF Step, Moved, ChannelStep
<1> QED
  BY <1>1, <1>2

-----------------------------------------------------------------------------
(* The pump.                                                               *)

\* A running pump has neither closed its queue nor been told of its end.
LEMMA RunningPump ==
    ASSUME IndInv, NEW t \in Turn, turn[t].pump \notin {"off", "over"}
    PROVE  /\ Sound(turn[t].queue) /\ ~turn[t].queue.ended /\ ~turn[t].queue.fatal
           /\ ~turn[t].told /\ turn[t].pc \in Late /\ Out(turn[t]) = "open"
<1>1. turn[t] \in Request /\ Fits(t, turn[t]) /\ turn[t].queue \in TQ!Queue
  BY Expand
<1>2. /\ Sound(turn[t].queue) /\ ~turn[t].queue.ended /\ ~turn[t].told
      /\ turn[t].pc \in Late
  BY <1>1 DEF Fits
<1>3. ~turn[t].queue.fatal
  BY <1>2 DEF Sound
<1> QED
  BY <1>2, <1>3 DEF Out, TQ!Outcome

\* What the pump does to the request besides the queue and itself.
SameButPump(a, b) ==
    /\ b.pc = a.pc /\ b.link = a.link /\ b.signal = a.signal /\ b.heard = a.heard
    /\ b.told = a.told /\ b.seen = a.seen /\ b.free = a.free

LEMMA PumpMoves ==
    ASSUME IndInv, NEW t \in Turn, turn[t].pump \notin {"off", "over"},
           NEW r \in Request, turn' = [turn EXCEPT ![t] = r],
           SameButPump(turn[t], r), r.pump # "off", Sound(r.queue),
           r.queue.ended <=> r.pump = "over", ChannelStep(turn[t], r)
    PROVE  Step(t)
<1>1. turn[t] \in Request /\ Fits(t, turn[t])
  BY Expand
<1>2. turn[t].pc \in Late /\ ~turn[t].told
  BY RunningPump
<1>3. Fits(t, r)
  BY <1>1, <1>2 DEF Fits, SameButPump
<1> QED
  BY <1>2, <1>3 DEF Step, Moved, Late, SameButPump

LEMMA PumpOnly ==
    ASSUME IndInv, NEW t \in Turn, turn[t].pump \notin {"off", "over"},
           NEW pump \in {"answer", "fallback", "count", "partial"}, NEW n \in 0..MaxEvents,
           turn' = [turn EXCEPT ![t] = [turn[t] EXCEPT !.pump = pump, !.emitted = n]]
    PROVE  Step(t)
<1> DEFINE r == [turn[t] EXCEPT !.pump = pump, !.emitted = n]
<1>1. turn[t] \in Request
  BY Expand
<1>2. r \in Request
  BY <1>1 DEF Request
<1>3. /\ r.queue = turn[t].queue /\ r.told = turn[t].told /\ r.pump = pump
      /\ SameButPump(turn[t], r)
  BY <1>1 DEF Request, SameButPump
<1>4. turn' = [turn EXCEPT ![t] = r]
  OBVIOUS
<1> HIDE DEF r
<1>5. Sound(r.queue) /\ ~r.queue.ended
  BY <1>3, RunningPump
<1>6. ChannelStep(turn[t], r)
  BY <1>3 DEF ChannelStep
<1> QED
  BY <1>2, <1>3, <1>4, <1>5, <1>6, PumpMoves

\* What has been pushed before the queue is closed.
Last == {<<>>} \union {<<e>> : e \in Event}

\* A request that the pump has reached by pushing at most one event.
Reached(t, s) ==
    /\ s \in Request /\ SameButPump(turn[t], s)
    /\ s.queue \in TQ!Queue /\ Sound(s.queue) /\ ~s.queue.ended
    /\ \E last \in Last : Cont(s) = Cont(turn[t]) \o last

LEMMA PushReaches ==
    ASSUME IndInv, NEW t \in Turn, turn[t].pump \notin {"off", "over"}, NEW e \in Event
    PROVE  /\ Reached(t, Push(t, e))
           /\ Cont(Push(t, e)) = Append(Cont(turn[t]), e)
           /\ Push(t, e).text = turn[t].text /\ Push(t, e).pump = turn[t].pump
           /\ Push(t, e).emitted = turn[t].emitted
<1> DEFINE p == TQ!Pushed(turn[t].queue, e)
           s == Push(t, e)
<1>1. turn[t] \in Request /\ turn[t].queue \in TQ!Queue
  BY Expand
<1>2. Sound(turn[t].queue) /\ ~turn[t].queue.ended
  BY RunningPump
<1>3. /\ p \in TQ!Queue /\ Sound(p) /\ ~p.ended
      /\ TQ!Contents(p) = Append(TQ!Contents(turn[t].queue), e)
  BY <1>1, <1>2, PushedAppends
<1>4. s = [turn[t] EXCEPT !.queue = p]
  BY DEF Push
<1> HIDE DEF p, s
<1>5. s \in Request /\ SameButPump(turn[t], s) /\ s.queue = p
      /\ s.text = turn[t].text /\ s.pump = turn[t].pump /\ s.emitted = turn[t].emitted
  BY <1>1, <1>3, <1>4 DEF Request, SameButPump
<1>6. Cont(s) = Append(Cont(turn[t]), e)
  BY <1>3, <1>5 DEF Cont
<1>7. Cont(turn[t]) \in Seq(Event)
  <2>1. turn[t].queue.pending \in Seq(Event)
    BY <1>1 DEF TQ!Queue
  <2>2. CASE turn[t].queue.handed \in Event
    <3>1. <<turn[t].queue.handed>> \in Seq(Event)
      BY <2>2
    <3> QED
      BY <2>1, <2>2, <3>1 DEF Cont, TQ!Contents
  <2>3. CASE turn[t].queue.handed \notin Event
    BY <2>1, <2>3 DEF Cont, TQ!Contents
  <2> QED
    BY <2>2, <2>3
<1>8. Cont(s) = Cont(turn[t]) \o <<e>>
  BY <1>6, <1>7, AppendIsConcat
<1>9. <<e>> \in Last
  BY DEF Last
<1>10. Reached(t, s)
  BY <1>3, <1>5, <1>8, <1>9 DEF Reached
<1> QED
  BY <1>5, <1>6, <1>10 DEF s

\* The end of the pump, with an error or without.
LEMMA PumpCloses ==
    ASSUME IndInv, NEW t \in Turn, turn[t].pump \notin {"off", "over"},
           NEW s, Reached(t, s), turn' = [turn EXCEPT ![t] = Finished(s)]
    PROVE  Step(t)
<1> DEFINE q == IF s.broken THEN TQ!Failed(s.queue) ELSE TQ!Ended(s.queue)
           r == Finished(s)
<1>1. /\ s \in Request /\ SameButPump(turn[t], s) /\ s.queue \in TQ!Queue /\ Sound(s.queue)
      /\ ~s.queue.ended
  BY DEF Reached
<1>2. /\ q \in TQ!Queue /\ Sound(q) /\ q.ended /\ TQ!Contents(q) = TQ!Contents(s.queue)
  BY <1>1, ClosedKeeps
<1>a. r = [s EXCEPT !.pump = "over", !.text = FALSE, !.queue = q]
  BY DEF Finished
<1> HIDE DEF q
<1>3. r \in Request /\ r.pump = "over" /\ r.queue = q /\ SameButPump(turn[t], r)
  BY <1>1, <1>2, <1>a DEF Request, SameButPump
<1>4. turn' = [turn EXCEPT ![t] = r]
  OBVIOUS
<1> HIDE DEF r
<1>5. ~turn[t].told /\ Out(turn[t]) = "open"
  BY RunningPump
<1>6. Out(r) \in {"ended", "failed"}
  BY <1>2, <1>3, <1>5 DEF Out, TQ!Outcome, SameButPump
<1>7. Cont(r) = Cont(s)
  BY <1>2, <1>3 DEF Cont
<1>8. ChannelStep(turn[t], r)
  <2>1. PICK last \in Last : Cont(s) = Cont(turn[t]) \o last
    BY DEF Reached
  <2> QED
    BY <1>5, <1>6, <1>7, <2>1 DEF ChannelStep, Last
<1> QED
  BY <1>2, <1>3, <1>4, <1>8, PumpMoves

\* The finally block.
LEMMA WindMoves ==
    ASSUME IndInv, NEW t \in Turn, turn[t].pump \notin {"off", "over"},
           NEW s, Reached(t, s),
           \/ s.queue = turn[t].queue
           \/ \E e \in Event : Cont(s) = Append(Cont(turn[t]), e),
           Wind(t, s)
    PROVE  Step(t)
<1>1. CASE s.heard /\ s.text
  <2> DEFINE r == [s EXCEPT !.pump = "partial"]
  <2>1. turn' = [turn EXCEPT ![t] = r]
    BY <1>1 DEF Wind
  <2>2. /\ s \in Request /\ SameButPump(turn[t], s) /\ s.queue \in TQ!Queue /\ Sound(s.queue)
        /\ ~s.queue.ended /\ ~s.queue.fatal
    BY DEF Reached, Sound
  <2>3. r \in Request /\ r.pump = "partial" /\ r.queue = s.queue /\ SameButPump(turn[t], r)
    BY <2>2 DEF Request, SameButPump
  <2> HIDE DEF r
  <2>4. ~turn[t].told /\ Out(turn[t]) = "open"
    BY RunningPump
  <2>5. Out(r) = "open" /\ Cont(r) = Cont(s) /\ r.told = turn[t].told
    BY <2>2, <2>3, <2>4 DEF Out, Cont, TQ!Outcome, SameButPump
  <2>6. ChannelStep(turn[t], r)
    BY <2>3, <2>4, <2>5 DEF ChannelStep
  <2> QED
    BY <2>1, <2>2, <2>3, <2>6, PumpMoves
<1>2. CASE ~(s.heard /\ s.text)
  <2>1. turn' = [turn EXCEPT ![t] = Finished(s)]
    BY <1>2 DEF Wind
  <2> QED
    BY <2>1, PumpCloses
<1> QED
  BY <1>1, <1>2

LEMMA UnpushedReaches ==
    ASSUME IndInv, NEW t \in Turn, turn[t].pump \notin {"off", "over"},
           NEW s \in Request, s.queue = turn[t].queue, SameButPump(turn[t], s)
    PROVE  Reached(t, s)
<1>1. turn[t].queue \in TQ!Queue /\ Sound(turn[t].queue) /\ ~turn[t].queue.ended
  BY Expand, RunningPump
<1>2. TQ!Contents(turn[t].queue) \in Seq(Event)
  <2>1. turn[t].queue.pending \in Seq(Event)
    BY <1>1 DEF TQ!Queue
  <2>2. CASE turn[t].queue.handed \in Event
    <3>1. <<turn[t].queue.handed>> \in Seq(Event)
      BY <2>2
    <3> QED
      BY <2>1, <2>2, <3>1 DEF TQ!Contents
  <2>3. CASE turn[t].queue.handed \notin Event
    BY <2>1, <2>3 DEF TQ!Contents
  <2> QED
    BY <2>2, <2>3
<1>3. Cont(turn[t]) \o <<>> = Cont(turn[t]) /\ Cont(s) = Cont(turn[t])
  BY <1>2 DEF Cont
<1>4. <<>> \in Last
  BY DEF Last
<1> QED
  BY <1>1, <1>3, <1>4 DEF Reached

LEMMA PumpingMoves ==
    ASSUME IndInv, NEW t \in Turn,
           Emit(t) \/ Answer(t) \/ Fallback(t) \/ PushDone(t) \/ PushPartial(t)
    PROVE  Step(t)
<1> USE DEF Pump
<1>0. turn[t] \in Request /\ turn[t].pump \notin {"off", "over"}
  BY Expand DEF Emit, Answer, Fallback, PushDone, PushPartial
<1>1. CASE Emit(t)
  <2>1. PICK e \in {"activity", "delta"} :
            turn' = [turn EXCEPT ![t] =
                [Push(t, e) EXCEPT !.emitted = @ + 1, !.text = @ \/ e = "delta"]]
    BY <1>1 DEF Emit
  <2> DEFINE s == Push(t, e)
             r == [s EXCEPT !.emitted = @ + 1, !.text = @ \/ e = "delta"]
  <2>2. /\ Reached(t, s) /\ Cont(s) = Append(Cont(turn[t]), e)
        /\ s.pump = turn[t].pump /\ s.emitted = turn[t].emitted
    BY <1>0, PushReaches DEF Event
  <2>3. turn' = [turn EXCEPT ![t] = r]
    BY <2>1
  <2>4. s.emitted + 1 \in 0..MaxEvents
    BY <1>0, <1>1, <2>2 DEF Emit, Request
  <2>5. s \in Request /\ SameButPump(turn[t], s) /\ s.queue \in TQ!Queue /\ Sound(s.queue) /\ ~s.queue.ended
    BY <2>2 DEF Reached
  <2> HIDE DEF s
  <2>6. r \in Request
    BY <2>4, <2>5 DEF Request
  <2>7. r.queue = s.queue /\ r.pump = turn[t].pump /\ SameButPump(turn[t], r)
    BY <2>2, <2>5 DEF Request, SameButPump
  <2> HIDE DEF r
  <2>8. ~turn[t].told /\ Out(turn[t]) = "open"
    BY <1>0, RunningPump
  <2>9. ~s.queue.fatal
    BY <2>5 DEF Sound
  <2>10. Out(r) = "open" /\ Cont(r) = Cont(s)
    BY <2>5, <2>7, <2>8, <2>9 DEF Out, Cont, TQ!Outcome, SameButPump
  <2>11. ChannelStep(turn[t], r)
    BY <2>2, <2>8, <2>10 DEF ChannelStep, Event
  <2> QED
    BY <1>0, <2>3, <2>5, <2>6, <2>7, <2>11, PumpMoves
<1>2. CASE Answer(t)
  <2> DEFINE s == [turn[t] EXCEPT !.emitted = 0]
  <2>0. 0 \in 0..MaxEvents
    BY CopilotAssumption
  <2>1. CASE Wind(t, s)
    <3>1. s \in Request /\ s.queue = turn[t].queue /\ SameButPump(turn[t], s)
      BY <1>0, <2>0 DEF Request, SameButPump
    <3> HIDE DEF s
    <3>2. Reached(t, s)
      BY <1>0, <3>1, UnpushedReaches
    <3> QED
      BY <1>0, <2>1, <3>1, <3>2, WindMoves
  <2>2. CASE ~Wind(t, s)
    <3>1. PICK pump \in {"fallback", "count"} :
              turn' = [turn EXCEPT ![t] = [turn[t] EXCEPT !.pump = pump, !.emitted = 0]]
      BY <1>2, <2>2 DEF Answer
    <3> QED
      BY <1>0, <2>0, <3>1, PumpOnly
  <2> QED
    BY <2>1, <2>2
<1>3. CASE Fallback(t)
  <2> DEFINE s == [turn[t] EXCEPT !.broken = TRUE]
  <2>1. CASE Wind(t, s)
    <3>1. s \in Request /\ s.queue = turn[t].queue /\ SameButPump(turn[t], s)
      BY <1>0 DEF Request, SameButPump
    <3> HIDE DEF s
    <3>2. Reached(t, s)
      BY <1>0, <3>1, UnpushedReaches
    <3> QED
      BY <1>0, <2>1, <3>1, <3>2, WindMoves
  <2>2. CASE ~Wind(t, s)
    <3>1. turn' = [turn EXCEPT ![t] = [turn[t] EXCEPT !.pump = "count"]]
      BY <1>3, <2>2 DEF Fallback
    <3>2. turn[t].emitted \in 0..MaxEvents
      BY <1>0 DEF Request
    <3>3. [turn[t] EXCEPT !.pump = "count"]
            = [turn[t] EXCEPT !.pump = "count", !.emitted = turn[t].emitted]
      BY <1>0 DEF Request
    <3> QED
      BY <1>0, <3>1, <3>2, <3>3, PumpOnly
  <2> QED
    BY <2>1, <2>2
<1>4. CASE PushDone(t)
  <2>1. Reached(t, Push(t, "done")) /\ Cont(Push(t, "done")) = Append(Cont(turn[t]), "done")
    BY <1>0, PushReaches DEF Event
  <2>2. "done" \in Event /\ Wind(t, Push(t, "done"))
    BY <1>4 DEF PushDone, Event
  <2> QED
    BY <1>0, <2>1, <2>2, WindMoves
<1>5. CASE PushPartial(t)
  <2>1. Reached(t, Push(t, "partial"))
    BY <1>0, PushReaches DEF Event
  <2>2. turn' = [turn EXCEPT ![t] = Finished(Push(t, "partial"))]
    BY <1>5 DEF PushPartial
  <2> QED
    BY <1>0, <2>1, <2>2, PumpCloses
<1> QED
  BY <1>1, <1>2, <1>3, <1>4, <1>5

-----------------------------------------------------------------------------
(* The rest of the state.                                                  *)

Serving(t) == Serve(t) \/ Pumping(t) \/ Emit(t) \/ Close(t)

LEMMA ServingMoves ==
    ASSUME IndInv, NEW t \in Turn, Serving(t)
    PROVE  Step(t)
  BY GuardsMove, CloseMoves, TurnsMove, ReaderMoves, PumpingMoves DEF Serving, Serve, Pumping

LEMMA SeenTyped ==
    ASSUME TypeOK, NEW t \in Turn, NEW e
    PROVE  /\ Seen(t, e) \in [Question -> Tab]
           /\ \A q \in Question : Seen(t, e)[q].pc = chat[q].pc
<1>1. chat[t[1]] \in Tab => [chat[t[1]] EXCEPT !.got = TRUE] \in Tab
  BY DEF Tab
<1>2. CASE t[1] \in Question
  BY <1>1, <1>2 DEF Seen, TypeOK, Tab
<1>3. CASE t[1] \notin Question
  BY <1>3 DEF Seen, TypeOK
<1> QED
  BY <1>2, <1>3

\* What a step of a turn does to the tabs, the slots, the counts and faults.
RestFits ==
    /\ chat' \in [Question -> Tab] /\ \A q \in Question : chat'[q].pc = chat[q].pc
    /\ slots' \in Int /\ used' \in [Turn -> Nat] /\ faults' \in 0..MaxFaults

\* A row called partial is issued by a pump that has heard of the abort.
RowsFit(t) ==
    /\ rows' \in [Turn -> SUBSET Row]
    /\ \A u \in Turn : "partial" \in rows'[u] => "partial" \in rows[u] \/ (u = t /\ turn[t].heard)

LEMMA SameRowsFit ==
    ASSUME IndInv, NEW t \in Turn, UNCHANGED rows
    PROVE  RowsFit(t)
  BY DEF IndInv, TypeOK, RowsFit

LEMMA SavedRowsFit ==
    ASSUME IndInv, NEW t \in Turn, NEW row \in Row, Save(t, row),
           row = "partial" => turn[t].heard
    PROVE  RowsFit(t)
<1>0. rows \in [Turn -> SUBSET Row]
  BY DEF IndInv, TypeOK
<1>1. rows' \in [Turn -> SUBSET Row]
  BY <1>0 DEF Save
<1>2. ASSUME NEW u \in Turn, "partial" \in rows'[u]
      PROVE  "partial" \in rows[u] \/ (u = t /\ turn[t].heard)
  BY <1>0, <1>2 DEF Save
<1> QED
  BY <1>1, <1>2 DEF RowsFit

LEMMA WoundRowsFit ==
    ASSUME IndInv, NEW t \in Turn, NEW s, Wind(t, s), s.heard => turn[t].heard
    PROVE  RowsFit(t)
  BY SameRowsFit, SavedRowsFit DEF Wind, Row

LEMMA ServingRows ==
    ASSUME IndInv, NEW t \in Turn, Serving(t)
    PROVE  RowsFit(t)
<1> USE DEF Records
<1>0. rows \in [Turn -> SUBSET Row] /\ turn[t] \in Request
  BY DEF IndInv, TypeOK
<1>1. "question" \in Row /\ "reply" \in Row
  BY DEF Row
<1>2. CASE SaveQuestion(t) \/ SimpleReply(t)
  BY <1>1, <1>2, SameRowsFit, SavedRowsFit DEF SaveQuestion, SimpleReply
<1>3. CASE DeleteQuestion(t)
  <2>1. CASE rows' = [rows EXCEPT ![t] = @ \ {"question"}]
    <3>1. rows' \in [Turn -> SUBSET Row]
      BY <1>0, <2>1
    <3>2. \A u \in Turn : "partial" \in rows'[u] => "partial" \in rows[u]
      BY <1>0, <2>1
    <3> QED
      BY <3>1, <3>2 DEF RowsFit
  <2> QED
    BY <1>3, <2>1, SameRowsFit DEF DeleteQuestion
<1>4. CASE Answer(t)
  BY <1>1, <1>4, SameRowsFit, SavedRowsFit, WoundRowsFit DEF Answer
<1>5. CASE Fallback(t)
  <2>1. [turn[t] EXCEPT !.broken = TRUE].heard = turn[t].heard
    BY <1>0 DEF Request
  <2> QED
    BY <1>1, <1>5, <2>1, SavedRowsFit, WoundRowsFit DEF Fallback
<1>6. CASE PushDone(t)
  <2>1. Push(t, "done").heard = turn[t].heard
    BY <1>0 DEF Push, Request
  <2> QED
    BY <1>6, <2>1, WoundRowsFit DEF PushDone
<1>7. Guard(t) \/ Incr(t) \/ Expire(t) \/ Refuse(t) \/ GiveBack(t) \/ Brief(t) => UNCHANGED rows
  BY DEF Guard, Incr, Expire, Refuse, GiveBack, Brief
<1>8. ReadHistory(t) \/ SimpleDone(t) \/ Deliver(t) \/ LeaveTools(t) => UNCHANGED rows
  BY DEF ReadHistory, SimpleDone, Deliver, LeaveTools
<1>9. PushPartial(t) \/ Emit(t) \/ Close(t) => UNCHANGED rows
  BY DEF PushPartial, Emit, Close
<1> QED
  BY <1>2, <1>3, <1>4, <1>5, <1>6, <1>7, <1>8, <1>9, SameRowsFit DEF Serving, Serve, Pumping

LEMMA CountTyped ==
    ASSUME IndInv, NEW t \in Turn, Count(t)
    PROVE  used' \in [Turn -> Nat] /\ faults' \in 0..MaxFaults
  BY DEF IndInv, TypeOK, Count, Fails

LEMMA FailsTyped ==
    ASSUME IndInv, Fails
    PROVE  faults' \in 0..MaxFaults
  BY DEF IndInv, TypeOK, Fails

LEMMA ServingRest ==
    ASSUME IndInv, NEW t \in Turn, Serving(t)
    PROVE  RestFits
<1> USE DEF Records
<1>0. /\ TypeOK /\ chat \in [Question -> Tab] /\ slots \in Int
      /\ used \in [Turn -> Nat] /\ faults \in 0..MaxFaults
  BY DEF IndInv, TypeOK
<1>1. CASE Guard(t) \/ Incr(t) \/ Expire(t) \/ Refuse(t) \/ GiveBack(t)
  BY <1>0, <1>1, FailsTyped DEF Guard, Incr, Expire, Refuse, GiveBack, Decr, RestFits
<1>2. CASE Brief(t) \/ SaveQuestion(t) \/ ReadHistory(t) \/ SimpleReply(t) \/ DeleteQuestion(t)
  BY <1>0, <1>2, FailsTyped
     DEF Brief, SaveQuestion, ReadHistory, SimpleReply, DeleteQuestion, RestFits
<1>3. CASE SimpleDone(t)
  BY <1>0, <1>3, SeenTyped, CountTyped DEF SimpleDone, RestFits
<1>4. CASE Deliver(t) \/ LeaveTools(t)
  BY <1>0, <1>4, SeenTyped DEF Deliver, LeaveTools, RestFits
<1>5. CASE Emit(t) \/ Close(t)
  BY <1>0, <1>5 DEF Emit, Close, RestFits
<1>6. CASE Answer(t) \/ Fallback(t)
  BY <1>0, <1>6, FailsTyped DEF Answer, Fallback, RestFits
<1>7. CASE PushDone(t) \/ PushPartial(t)
  BY <1>0, <1>7, CountTyped DEF PushDone, PushPartial, RestFits
<1> QED
  BY <1>1, <1>2, <1>3, <1>4, <1>5, <1>6, <1>7 DEF Serving, Serve, Pumping

-----------------------------------------------------------------------------
(* The tabs.                                                               *)

\* A tab opens a request, or cuts a connection that nobody has heard close.
TabMoved(t, a, b) ==
    /\ b.queue = a.queue /\ b.told = a.told /\ b.pump = a.pump
    /\ b.heard = a.heard /\ b.signal = a.signal
    /\ b.seen = a.seen /\ b.sent = a.sent /\ b.broken = a.broken /\ b.free = a.free
    /\ b.pc = a.pc \/ (a.pc = "off" /\ (b.pc = "guard" \/ (b.pc = "incr" /\ Streamed(t))))
    /\ b.link = a.link \/ (a.link # "closed" /\ b.link = "cut")

TabsMoved ==
    /\ turn' \in [Turn -> Request]
    /\ \A t \in Turn : TabMoved(t, turn[t], turn'[t])

LEMMA TabMovedFits ==
    ASSUME NEW t, NEW a, NEW b, Fits(t, a), TabMoved(t, a, b)
    PROVE  Fits(t, b) /\ ChannelStep(a, b)
<1>1. ChannelStep(a, b)
  BY DEF TabMoved, ChannelStep
<1>2. /\ Sound(b.queue) /\ (b.queue.ended <=> b.pump = "over")
      /\ (b.told => b.queue.ended)
  BY DEF TabMoved, Fits
<1>3. (b.pump # "off" => b.pc \in Late) /\ (b.told => b.pc \in Late \ {"tools"})
  BY DEF TabMoved, Fits, Late
<1>4. /\ b.heard => b.pump # "off" /\ b.link = "closed"
      /\ b.signal => b.link = "closed"
      /\ b.link = "closed" => t[2] = "stream"
  BY DEF TabMoved, Fits
<1> QED
  BY <1>1, <1>2, <1>3, <1>4 DEF Fits

LEMMA RequestsApart ==
    ASSUME NEW q \in Question
    PROVE  /\ Stream(q) \in Turn /\ Json(q) \in Turn
           /\ \A p \in Question : Stream(q) # Json(p) /\ Json(q) # Stream(p)
           /\ \A p \in Question \ {q} : Stream(q) # Stream(p) /\ Json(q) # Json(p)
  BY DEF Stream, Json, Turn, Followed

LEMMA ShowTyped ==
    ASSUME IndInv, NEW q \in Question,
           NEW pc \in {"stream", "json", "answered", "stopped", "failed"},
           Show(q, pc)
    PROVE  /\ chat' \in [Question -> Tab] /\ chat'[q].pc = pc
           /\ \A p \in Question \ {q} : chat'[p] = chat[p]
<1> DEFINE tab == [chat[q] EXCEPT !.pc = pc]
<1>1. chat \in [Question -> Tab]
  BY DEF IndInv, TypeOK
<1>2. tab \in Tab /\ tab.pc = pc
  BY <1>1 DEF Tab
<1>3. chat' = [chat EXCEPT ![q] = tab]
  BY DEF Show
<1> HIDE DEF tab
<1> QED
  BY <1>1, <1>2, <1>3

Tabs(q) == Send(q) \/ Stop(q) \/ Lose(q) \/ LoseJson(q) \/ Tabbing(q)

LEMMA TabsShow ==
    ASSUME IndInv, NEW q \in Question, Tabs(q)
    PROVE  /\ chat' \in [Question -> Tab]
           /\ \A p \in Question \ {q} : chat'[p] = chat[p]
           /\ chat'[q].pc \notin {"idle", "stream"} \/ (Send(q) /\ chat'[q].pc = "stream")
           /\ UNCHANGED <<slots, used, rows, faults>>
<1> USE DEF Records
<1>2. CASE Send(q)
  BY <1>2, ShowTyped DEF Send
<1>3. CASE Stop(q)
  BY <1>3, ShowTyped DEF Stop
<1>4. CASE Lose(q) \/ LoseJson(q)
  BY <1>4, ShowTyped DEF Lose, LoseJson
<1>5. CASE StreamOver(q)
  BY <1>5, ShowTyped DEF StreamOver
<1>6. CASE JsonOver(q)
  BY <1>6, ShowTyped DEF JsonOver
<1> QED
  BY <1>2, <1>3, <1>4, <1>5, <1>6 DEF Tabs, Tabbing

\* Opening one request.
LEMMA OpensMoved ==
    ASSUME IndInv, NEW t \in Turn, turn[t].pc = "off",
           NEW pc \in {"guard", "incr"}, pc = "incr" => Streamed(t),
           turn' = [turn EXCEPT ![t].pc = pc]
    PROVE  TabsMoved
<1> DEFINE r == [turn[t] EXCEPT !.pc = pc]
<1>1. turn \in [Turn -> Request] /\ turn[t] \in Request
  BY DEF IndInv, TypeOK
<1>2. r \in Request
  BY <1>1 DEF Request, PC
<1>3. TabMoved(t, turn[t], r)
  BY <1>1 DEF TabMoved, Request
<1>4. turn' = [turn EXCEPT ![t] = r]
  OBVIOUS
<1> HIDE DEF r
<1> QED
  BY <1>1, <1>2, <1>3, <1>4 DEF TabsMoved, TabMoved

\* Cutting one connection.
LEMMA CutsMoved ==
    ASSUME IndInv, NEW t \in Turn, turn[t].link # "closed",
           turn' = [turn EXCEPT ![t].link = "cut"]
    PROVE  TabsMoved
<1> DEFINE r == [turn[t] EXCEPT !.link = "cut"]
<1>1. turn \in [Turn -> Request] /\ turn[t] \in Request
  BY DEF IndInv, TypeOK
<1>2. r \in Request
  BY <1>1 DEF Request
<1>3. TabMoved(t, turn[t], r)
  BY <1>1 DEF TabMoved, Request
<1>4. turn' = [turn EXCEPT ![t] = r]
  OBVIOUS
<1> HIDE DEF r
<1> QED
  BY <1>1, <1>2, <1>3, <1>4 DEF TabsMoved, TabMoved

LEMMA TabsMove ==
    ASSUME IndInv, NEW q \in Question, Tabs(q)
    PROVE  TabsMoved
<1>0. /\ turn \in [Turn -> Request] /\ Stream(q) \in Turn /\ Json(q) \in Turn
      /\ Stream(q) # Json(q) /\ TabFits(q)
  BY RequestsApart DEF IndInv, TypeOK
<1>2. CASE Send(q)
  BY <1>0, <1>2, OpensMoved DEF Send, Go, TabFits
<1>3. CASE Stop(q)
  BY <1>0, <1>3, CutsMoved DEF Stop, TabFits
<1>4. CASE LoseJson(q)
  <2>1. Fits(Json(q), turn[Json(q)])
    BY <1>0 DEF IndInv
  <2>2. turn[Json(q)].link # "closed"
    BY <2>1 DEF Fits, Json
  <2> QED
    BY <1>0, <1>4, <2>2, CutsMoved DEF LoseJson
<1>5. CASE UNCHANGED turn
  BY <1>0, <1>5 DEF TabsMoved, TabMoved
<1>6. CASE turn' = Resend(q) /\ chat[q].pc = "stream"
  BY <1>0, <1>6, OpensMoved DEF Resend, TabFits
<1>7. CASE Lose(q)
  <2> DEFINE a == [turn[Json(q)] EXCEPT !.pc = "guard"]
             b == [turn[Stream(q)] EXCEPT !.link = "cut"]
  <2>0. turn[Json(q)] \in Request /\ turn[Stream(q)] \in Request
    BY <1>0
  <2>1. turn[Json(q)].pc = "off" /\ turn[Stream(q)].link = "up"
    BY <1>0, <1>7 DEF Lose, TabFits
  <2>2. a \in Request /\ TabMoved(Json(q), turn[Json(q)], a)
    BY <2>0, <2>1 DEF Request, TabMoved, Late
  <2>3. b \in Request /\ TabMoved(Stream(q), turn[Stream(q)], b)
    BY <2>0, <2>1 DEF Request, TabMoved
  <2>4. Resend(q) = [turn EXCEPT ![Json(q)] = a]
    BY DEF Resend
  <2>5. turn' = [Resend(q) EXCEPT ![Stream(q)] = [Resend(q)[Stream(q)] EXCEPT !.link = "cut"]]
    BY <1>7 DEF Lose
  <2>6. Resend(q)[Stream(q)] = turn[Stream(q)]
    BY <1>0, <2>4
  <2>7. turn' = [[turn EXCEPT ![Json(q)] = a] EXCEPT ![Stream(q)] = b]
    BY <2>4, <2>5, <2>6
  <2> HIDE DEF a, b
  <2>8. turn' \in [Turn -> Request]
    BY <1>0, <2>2, <2>3, <2>7
  <2>9. /\ turn'[Json(q)] = a /\ turn'[Stream(q)] = b
        /\ \A t \in Turn \ {Json(q), Stream(q)} : turn'[t] = turn[t]
    BY <1>0, <2>7
  <2> QED
    BY <2>2, <2>3, <2>8, <2>9 DEF TabsMoved, TabMoved
<1> QED
  BY <1>2, <1>3, <1>4, <1>5, <1>6, <1>7 DEF Tabs, Tabbing, StreamOver, JsonOver

\* A tab's step leaves the requests of the others alone.
LEMMA TabsApart ==
    ASSUME IndInv, NEW q \in Question, Tabs(q), NEW p \in Question \ {q}
    PROVE  turn'[Stream(p)] = turn[Stream(p)] /\ turn'[Json(p)] = turn[Json(p)]
<1>1. /\ turn \in [Turn -> Request] /\ Stream(q) \in Turn /\ Json(q) \in Turn
      /\ Stream(p) \in Turn /\ Json(p) \in Turn
      /\ Stream(p) \notin {Stream(q), Json(q)} /\ Json(p) \notin {Stream(q), Json(q)}
  BY RequestsApart DEF IndInv, TypeOK
<1>2. Resend(q) \in [Turn -> Request] /\ \A t \in Turn \ {Json(q)} : Resend(q)[t] = turn[t]
  BY <1>1 DEF Resend, Request
<1>3. CASE Send(q) \/ Stop(q) \/ LoseJson(q)
  BY <1>1, <1>3 DEF Send, Go, Stop, LoseJson
<1>4. CASE Lose(q)
  BY <1>1, <1>2, <1>4 DEF Lose
<1>5. CASE Tabbing(q)
  BY <1>1, <1>2, <1>5 DEF Tabbing, StreamOver, JsonOver
<1> QED
  BY <1>3, <1>4, <1>5 DEF Tabs

LEMMA TabsKeep ==
    ASSUME IndInv, NEW q \in Question, Tabs(q)
    PROVE  IndInv'
<1>1. TabsMoved /\ UNCHANGED <<slots, used, rows, faults>> /\ chat' \in [Question -> Tab]
  BY TabsMove, TabsShow
<1>2. TypeOK'
  BY <1>1 DEF IndInv, TypeOK, TabsMoved
<1>3. \A t \in Turn : Fits(t, turn'[t])
  BY <1>1, TabMovedFits DEF IndInv, TabsMoved
<1>4. PartialHeard'
  BY <1>1 DEF IndInv, PartialHeard, TabsMoved, TabMoved
<1>5. ASSUME NEW p \in Question
      PROVE  TabFits(p)'
  <2>0. TabFits(p)
    BY DEF IndInv
  <2>1. CASE p # q
    BY <2>0, <2>1, TabsApart, TabsShow DEF TabFits
  <2>2. CASE p = q /\ chat'[q].pc \notin {"idle", "stream"}
    BY <2>2 DEF TabFits
  <2>3. CASE p = q /\ Send(q) /\ chat'[q].pc = "stream"
    <3>1. chat[q].pc = "idle" /\ turn' = [turn EXCEPT ![Stream(q)].pc = "guard"]
      BY <2>3 DEF Send, Go
    <3>2. /\ turn[Json(q)].pc = "off" /\ turn[Stream(q)].link = "up"
          /\ turn[Stream(q)] \in Request /\ turn \in [Turn -> Request]
          /\ Stream(q) \in Turn /\ Json(q) \in Turn /\ Stream(q) # Json(q)
      BY <2>0, <2>3, <3>1, RequestsApart DEF TabFits, IndInv, TypeOK
    <3>3. turn'[Json(q)] = turn[Json(q)] /\ turn'[Stream(q)].link = turn[Stream(q)].link
      BY <3>1, <3>2 DEF Request
    <3> QED
      BY <2>3, <3>2, <3>3 DEF TabFits
  <2> QED
    BY <2>1, <2>2, <2>3, TabsShow
<1> QED
  BY <1>2, <1>3, <1>4, <1>5 DEF IndInv

LEMMA OtherMoves ==
    ASSUME IndInv, NEW o \in Other, SendOther(o)
    PROVE  TabsMoved
<1>1. <<o, "brief">> \in Turn
  BY DEF Turn
<1>2. Streamed(<<o, "brief">>)
  BY DEF Streamed
<1> QED
  BY <1>1, <1>2, OpensMoved DEF SendOther, Go, At

LEMMA OtherKeeps ==
    ASSUME IndInv, NEW o \in Other, SendOther(o)
    PROVE  IndInv'
<1> DEFINE t == <<o, "brief">>
<1>1. TabsMoved /\ UNCHANGED <<chat, slots, used, rows, faults>>
  BY OtherMoves DEF SendOther, Records
<1>2. TypeOK'
  BY <1>1 DEF IndInv, TypeOK, TabsMoved
<1>3. \A u \in Turn : Fits(u, turn'[u])
  BY <1>1, TabMovedFits DEF IndInv, TabsMoved
<1>4. PartialHeard'
  BY <1>1 DEF IndInv, PartialHeard, TabsMoved, TabMoved
<1>5. ASSUME NEW q \in Question
      PROVE  TabFits(q)'
  <2>1. Stream(q) # t /\ Json(q) # t
    BY DEF Stream, Json
  <2>2. turn'[Stream(q)] = turn[Stream(q)] /\ turn'[Json(q)] = turn[Json(q)]
    BY <2>1, RequestsApart DEF IndInv, TypeOK, SendOther, Go
  <2> QED
    BY <1>1, <2>2 DEF IndInv, TabFits
<1> QED
  BY <1>2, <1>3, <1>4, <1>5 DEF IndInv

\* The pump leaves to the generator what is the generator's.
LEMMA PumpKeeps ==
    ASSUME IndInv, NEW t \in Turn,
           Emit(t) \/ Answer(t) \/ Fallback(t) \/ PushDone(t) \/ PushPartial(t)
    PROVE  SameButPump(turn[t], turn'[t])
<1> USE DEF Pump
<1>0. turn \in [Turn -> Request] /\ turn[t] \in Request /\ turn[t].pump \notin {"off", "over"}
  BY Expand DEF IndInv, TypeOK, Emit, Answer, Fallback, PushDone, PushPartial
<1>1. ASSUME NEW s \in Request, SameButPump(turn[t], s),
             turn' = [turn EXCEPT ![t] = Finished(s)]
      PROVE  SameButPump(turn[t], turn'[t])
  <2>1. SameButPump(turn[t], Finished(s))
    BY <1>1 DEF Request, SameButPump, Finished
  <2> QED
    BY <1>0, <1>1, <2>1
<1>2. ASSUME NEW s \in Request, NEW pump, SameButPump(turn[t], s),
             turn' = [turn EXCEPT ![t] = [s EXCEPT !.pump = pump]]
      PROVE  SameButPump(turn[t], turn'[t])
  BY <1>0, <1>2 DEF Request, SameButPump
<1>3. ASSUME NEW s \in Request, SameButPump(turn[t], s), Wind(t, s)
      PROVE  SameButPump(turn[t], turn'[t])
  BY <1>1, <1>2, <1>3 DEF Wind
<1>4. ASSUME NEW e \in Event
      PROVE  Push(t, e) \in Request /\ SameButPump(turn[t], Push(t, e))
  BY <1>0, <1>4, PushReaches DEF Reached
<1>5. CASE Emit(t)
  <2>1. PICK e \in {"activity", "delta"} :
            turn' = [turn EXCEPT ![t] =
                [Push(t, e) EXCEPT !.emitted = @ + 1, !.text = @ \/ e = "delta"]]
    BY <1>5 DEF Emit
  <2>2. Push(t, e) \in Request /\ SameButPump(turn[t], Push(t, e))
    BY <1>4 DEF Event
  <2> QED
    BY <1>0, <2>1, <2>2 DEF Request, SameButPump
<1>6. turn[t] \in Request /\ SameButPump(turn[t], turn[t])
  BY <1>0 DEF SameButPump
<1>7. ASSUME NEW pump, turn' = [turn EXCEPT ![t].pump = pump]
      PROVE  SameButPump(turn[t], turn'[t])
  BY <1>2, <1>6, <1>7
<1>8. CASE Answer(t)
  <2>0. 0 \in 0..MaxEvents
    BY CopilotAssumption
  <2>1. /\ [turn[t] EXCEPT !.emitted = 0] \in Request
        /\ SameButPump(turn[t], [turn[t] EXCEPT !.emitted = 0])
    BY <1>0, <2>0 DEF Request, SameButPump
  <2>2. ASSUME NEW pump, turn' = [turn EXCEPT ![t].pump = pump, ![t].emitted = 0]
        PROVE  SameButPump(turn[t], turn'[t])
    <3>1. turn' = [turn EXCEPT ![t] = [[turn[t] EXCEPT !.emitted = 0] EXCEPT !.pump = pump]]
      BY <2>2
    <3> QED
      BY <1>2, <2>1, <3>1
  <2> QED
    BY <1>3, <1>8, <2>1, <2>2 DEF Answer
<1>9. CASE Fallback(t)
  <2>1. /\ [turn[t] EXCEPT !.broken = TRUE] \in Request
        /\ SameButPump(turn[t], [turn[t] EXCEPT !.broken = TRUE])
    BY <1>0 DEF Request, SameButPump
  <2> QED
    BY <1>3, <1>7, <1>9, <2>1 DEF Fallback
<1>10. CASE PushDone(t)
  BY <1>3, <1>4, <1>10 DEF PushDone, Event
<1>11. CASE PushPartial(t)
  <2>1. Push(t, "partial") \in Request /\ SameButPump(turn[t], Push(t, "partial"))
    BY <1>4 DEF Event
  <2> QED
    BY <1>1, <1>11, <2>1 DEF PushPartial
<1> QED
  BY <1>5, <1>8, <1>9, <1>10, <1>11

\* No step of a turn forgets that an abort was heard.
LEMMA HeardStays ==
    ASSUME IndInv, NEW t \in Turn, Serving(t), turn[t].heard
    PROVE  turn'[t].heard
<1> USE DEF At
<1>0. /\ turn \in [Turn -> Request] /\ turn[t] \in Request
      /\ turn[t].pump # "off" /\ turn[t].pc \in Late
  BY DEF IndInv, TypeOK, Fits
<1>1. ~Guard(t) /\ ~Incr(t) /\ ~Expire(t) /\ ~Refuse(t) /\ ~Brief(t)
  BY <1>0 DEF Guard, Incr, Expire, Refuse, Brief, Late
<1>2. ~SaveQuestion(t) /\ ~ReadHistory(t) /\ ~SimpleReply(t) /\ ~SimpleDone(t)
  BY <1>0 DEF SaveQuestion, ReadHistory, SimpleReply, SimpleDone, Late
<1>3. CASE GiveBack(t) \/ DeleteQuestion(t)
  BY <1>0, <1>3 DEF GiveBack, DeleteQuestion, Go, Request
<1>4. CASE Deliver(t) \/ LeaveTools(t) \/ Close(t)
  BY <1>0, <1>4 DEF Deliver, LeaveTools, Close, Request
<1>5. CASE Emit(t) \/ Answer(t) \/ Fallback(t) \/ PushDone(t) \/ PushPartial(t)
  BY <1>5, PumpKeeps DEF SameButPump
<1> QED
  BY <1>1, <1>2, <1>3, <1>4, <1>5 DEF Serving, Serve, Pumping

LEMMA ServingKeeps ==
    ASSUME IndInv, NEW t \in Turn, Serving(t)
    PROVE  IndInv'
<1>0. turn \in [Turn -> Request] /\ rows \in [Turn -> SUBSET Row]
  BY DEF IndInv, TypeOK
<1>1. PICK r \in Request : Moved(t, r)
  BY ServingMoves DEF Step
<1>2. /\ turn' \in [Turn -> Request] /\ turn'[t] = r
      /\ \A u \in Turn \ {t} : turn'[u] = turn[u]
  BY <1>0, <1>1 DEF Moved
<1>3. RestFits /\ RowsFit(t)
  BY ServingRest, ServingRows
<1>4. TypeOK'
  BY <1>2, <1>3 DEF TypeOK, RestFits, RowsFit
<1>5. \A u \in Turn : Fits(u, turn'[u])
  BY <1>1, <1>2 DEF Moved, IndInv
<1>6. PartialHeard'
  BY <1>2, <1>3, HeardStays DEF PartialHeard, RowsFit, IndInv
<1>7. ASSUME NEW q \in Question
      PROVE  TabFits(q)'
  <2>1. chat'[q].pc = chat[q].pc /\ TabFits(q) /\ Stream(q) \in Turn /\ Json(q) \in Turn
    BY <1>3, RequestsApart DEF RestFits, IndInv
  <2>2. \A u \in Turn : turn[u].pc = "off" => turn'[u].pc = "off"
    BY <1>1, <1>2 DEF Moved
  <2>3. \A u \in Turn : turn[u].link = "up" => turn'[u].link = "up"
    BY <1>1, <1>2 DEF Moved
  <2> QED
    BY <2>1, <2>2, <2>3 DEF TabFits
<1> QED
  BY <1>4, <1>5, <1>6, <1>7 DEF IndInv

-----------------------------------------------------------------------------
(* The theorems.                                                           *)

LEMMA InitInv == Init => IndInv
<1> SUFFICES ASSUME Init PROVE IndInv
  OBVIOUS
<1>1. NewRequest \in Request
  BY NewQueueSound DEF NewRequest, Request
<1>2. NewTab \in Tab
  BY DEF NewTab, Tab
<1>3. \A t \in Turn : turn[t] = NewRequest
  BY DEF Init
<1>4. TypeOK
  BY <1>1, <1>2 DEF Init, TypeOK
<1>5. \A t : Fits(t, NewRequest)
  BY NewQueueSound DEF NewRequest, Fits, TQ!NewQueue
<1>6. \A q \in Question : TabFits(q)
  BY <1>3, RequestsApart DEF NewRequest, TabFits
<1>7. PartialHeard
  BY DEF Init, PartialHeard
<1> QED
  BY <1>3, <1>4, <1>5, <1>6, <1>7 DEF IndInv

LEMMA NextInv ==
    ASSUME IndInv, [Next]_vars
    PROVE  IndInv'
<1>1. ASSUME NEW t \in Turn, Serve(t) \/ Pumping(t) \/ Emit(t) \/ Close(t) PROVE IndInv'
  BY <1>1, ServingKeeps DEF Serving
<1>2. ASSUME NEW q \in Question, Send(q) \/ Stop(q) \/ Lose(q) \/ LoseJson(q) \/ Tabbing(q)
      PROVE  IndInv'
  BY <1>2, TabsKeep DEF Tabs
<1>3. ASSUME NEW o \in Other, SendOther(o) PROVE IndInv'
  BY <1>3, OtherKeeps
<1>4. CASE SlotsExpire
  <2>1. faults' \in 0..MaxFaults /\ slots' \in Int
    BY <1>4, FailsTyped DEF SlotsExpire
  <2>2. UNCHANGED <<chat, turn, used, rows>>
    BY <1>4 DEF SlotsExpire, Records
  <2> QED
    BY <2>1, <2>2 DEF IndInv, TypeOK, Fits, TabFits, PartialHeard
<1>5. CASE UNCHANGED vars
  BY <1>5 DEF IndInv, TypeOK, Fits, TabFits, PartialHeard, vars
<1> QED
  BY <1>1, <1>2, <1>3, <1>4, <1>5 DEF Next

\* The invariant the theorems below rest on holds of every behaviour.
THEOREM Inductive == Spec => []IndInv
<1>1. Init => IndInv
  BY InitInv
<1>2. IndInv /\ [Next]_vars => IndInv'
  BY NextInv
<1> QED
  BY <1>1, <1>2, PTL DEF Spec

\* Every variable stays in its type, whatever the callbacks, the close event
\* and the tabs do in between.
THEOREM TypeCorrect == Spec => []TypeOK
<1>1. IndInv => TypeOK
  BY DEF IndInv
<1> QED
  BY <1>1, Inductive, PTL

-----------------------------------------------------------------------------
(* The queues implement EventChannel.                                      *)

\* What the channels show of a state.
Channel == [t \in Followed |-> Cont(turn[t])]
Outcomes == [t \in Followed |-> Out(turn[t])]

LEMMA ChannelInit == Init => Channels!Init
<1> SUFFICES ASSUME Init PROVE Channels!Init
  OBVIOUS
<1>1. \A t \in Followed : turn[t] = NewRequest
  BY DEF Init, Turn
<1>2. Cont(NewRequest) = <<>> /\ Out(NewRequest) = "open"
  BY NewQueueSound DEF NewRequest, Cont, Out
<1>3. \A t \in Followed : Cont(turn[t]) = <<>> /\ Out(turn[t]) = "open"
  BY <1>1, <1>2
<1> QED
  BY <1>3 DEF Channels!Init, Cont, Out

\* One turn's step, seen in the channels.
LEMMA ChannelNext ==
    ASSUME NEW t \in Turn, ChannelStep(turn[t], turn'[t]),
           \A u \in Turn \ {t} : turn'[u] = turn[u]
    PROVE  \/ UNCHANGED <<Channel, Outcomes>>
           \/ Channels!Next
<1>0. Followed \subseteq Turn
  BY DEF Turn
<1> DEFINE a == turn[t]
           b == turn'[t]
<1>1. CASE t \notin Followed
  BY <1>0, <1>1 DEF Channel, Outcomes
<1>2. CASE t \in Followed /\ Cont(b) = Cont(a) /\ Out(b) = Out(a)
  <2>1. \A u \in Followed : Cont(turn'[u]) = Cont(turn[u]) /\ Out(turn'[u]) = Out(turn[u])
    BY <1>0, <1>2
  <2> QED
    BY <2>1 DEF Channel, Outcomes, Cont, Out
<1>3. CASE t \in Followed /\ ~(Cont(b) = Cont(a) /\ Out(b) = Out(a))
  <2>1. /\ Channel' = [u \in Followed |-> Cont(turn'[u])]
        /\ Outcomes' = [u \in Followed |-> Out(turn'[u])]
    BY DEF Channel, Outcomes, Cont, Out
  <2>2. \A u \in Followed \ {t} : turn'[u] = turn[u]
    BY <1>0
  <2>3. Channel' = [Channel EXCEPT ![t] = Cont(b)]
    BY <1>3, <2>1, <2>2 DEF Channel
  <2>4. Outcomes' = [Outcomes EXCEPT ![t] = Out(b)]
    BY <1>3, <2>1, <2>2 DEF Outcomes
  <2>5. Channel[t] = Cont(a) /\ Outcomes[t] = Out(a)
    BY <1>3 DEF Channel, Outcomes
  <2>6. ASSUME NEW e \in Event, Out(a) = "open", Out(b) = "open",
               Cont(b) = Append(Cont(a), e)
        PROVE  Channels!Send(t, e)
    BY <2>3, <2>4, <2>5, <2>6 DEF Channels!Send, Channel, Outcomes, Cont, Out
  <2>7. ASSUME Out(a) = "open", Out(b) \in {"ended", "failed"},
               NEW last \in {<<>>} \union {<<e>> : e \in Event}, Cont(b) = Cont(a) \o last
        PROVE  Channels!Close(t, Out(b))
    BY <2>3, <2>4, <2>5, <2>7 DEF Channels!Close, Channel, Outcomes, Cont, Out
  <2>8. ASSUME Cont(a) # <<>>, Cont(b) = Tail(Cont(a)), Out(b) = Out(a)
        PROVE  Channels!Receive(t)
    <3>1. Outcomes' = Outcomes
      BY <2>4, <2>5, <2>8 DEF Outcomes
    <3> QED
      BY <2>3, <2>5, <2>8, <3>1 DEF Channels!Receive, Channel, Outcomes, Cont, Out
  <2>9. ASSUME Cont(a) = <<>>, Cont(b) = Cont(a), Out(a) \in {"ended", "failed"},
               Out(b) = "told"
        PROVE  Channels!ReceiveOutcome(t)
    <3>1. Channel' = Channel
      BY <2>3, <2>5, <2>9 DEF Channel
    <3> QED
      BY <2>4, <2>5, <2>9, <3>1 DEF Channels!ReceiveOutcome, Channel, Outcomes, Cont, Out
  <2>10. ~(b.queue = a.queue /\ b.told = a.told)
    BY <1>3 DEF Cont, Out
  <2> QED
    BY <1>3, <2>6, <2>7, <2>8, <2>9, <2>10 DEF ChannelStep, Channels!Next
<1> QED
  BY <1>1, <1>2, <1>3

LEMMA NoChannel ==
    ASSUME \A t \in Turn : turn'[t].queue = turn[t].queue /\ turn'[t].told = turn[t].told
    PROVE  UNCHANGED <<Channel, Outcomes>>
<1>1. \A t \in Followed : t \in Turn
  BY DEF Turn
<1> QED
  BY <1>1 DEF Channel, Outcomes, Cont, Out

LEMMA ChannelSteps ==
    ASSUME IndInv, [Next]_vars
    PROVE  UNCHANGED <<Channel, Outcomes>> \/ Channels!Next
<1>1. ASSUME NEW t \in Turn, Serve(t) \/ Pumping(t) \/ Emit(t) \/ Close(t)
      PROVE  UNCHANGED <<Channel, Outcomes>> \/ Channels!Next
  <2>1. PICK r \in Request : Moved(t, r)
    BY <1>1, ServingMoves DEF Serving, Step
  <2>2. turn'[t] = r /\ \A u \in Turn \ {t} : turn'[u] = turn[u]
    BY <2>1 DEF Moved, IndInv, TypeOK
  <2>3. ChannelStep(turn[t], turn'[t])
    BY <2>1, <2>2 DEF Moved
  <2> QED
    BY <2>2, <2>3, ChannelNext
<1>2. ASSUME TabsMoved
      PROVE  UNCHANGED <<Channel, Outcomes>>
  BY <1>2, NoChannel DEF TabsMoved, TabMoved
<1>3. ASSUME NEW q \in Question, Send(q) \/ Stop(q) \/ Lose(q) \/ LoseJson(q) \/ Tabbing(q)
      PROVE  TabsMoved
  BY <1>3, TabsMove DEF Tabs
<1>4. ASSUME NEW o \in Other, SendOther(o)
      PROVE  TabsMoved
  BY <1>4, OtherMoves
<1>5. CASE SlotsExpire \/ UNCHANGED vars
  BY <1>5, NoChannel DEF SlotsExpire, vars
<1> QED
  BY <1>1, <1>2, <1>3, <1>4, <1>5 DEF Next

\* For every turn the queue between the callbacks and the response is a channel
\* that loses, repeats and reorders nothing, and tells of its end last
\* (copilot-stream.service.ts:53-93).
THEOREM ChannelsImplemented == Spec => QueuesAreChannels
<1>1. Init => Channels!Init
  BY ChannelInit
<1>2. IndInv /\ [Next]_vars =>
         [Channels!Next]_<<[t \in Followed |-> TQ!Contents(turn[t].queue)],
                           [t \in Followed |-> TQ!Outcome(turn[t].queue, turn[t].told)]>>
  BY ChannelSteps DEF Channel, Outcomes, Cont, Out
<1> QED
  BY <1>1, <1>2, Inductive, PTL DEF Spec, QueuesAreChannels, Channels!Spec

-----------------------------------------------------------------------------
(* The SSE slots.                                                          *)

\* After the comparison and until the slot is given back.
Inside == {"prepare", "history", "simple", "count", "tools", "delete", "close"}
Admits(r) == r.pc \in Inside \/ (r.pc = "expire" /\ r.seen <= Limit)
Admitted == {t \in Turn : Streamed(t) /\ Admits(turn[t])}

\* Only streams come to the slots.
SlotPc(t, r) == r.pc \in {"incr", "expire", "refused", "close"} => Streamed(t)

SlotInv ==
    /\ \A t \in Turn : SlotPc(t, turn[t])
    /\ IsFiniteSet(Holding)
    /\ SlotsAccounted
    /\ faults = 0 => Cardinality(Admitted) <= Limit

\* A step of the program counter that neither takes nor returns a slot.
SlotKept(t, a, b) ==
    /\ \/ b.pc = a.pc /\ b.seen = a.seen
       \/ a.pc \in {"off", "guard"} /\ b.pc \in {"off", "guard", "incr", "over"}
       \/ a.pc \in Inside /\ b.pc \in Inside
       \/ ~Streamed(t)
    /\ SlotPc(t, a) => SlotPc(t, b)

LEMMA LeftSlot ==
    ASSUME NEW t
    PROVE  /\ Streamed(t) => Left(t) = "close"
           /\ ~Streamed(t) => Left(t) = "over"
  BY DEF Left

LEMMA GoKept ==
    ASSUME IndInv, NEW t \in Turn, NEW pc, Go(t, pc),
           \/ turn[t].pc = "guard" /\ pc \in {"incr", "over"}
           \/ turn[t].pc \in Inside /\ pc \in Inside
           \/ ~Streamed(t),
           pc \in {"incr", "expire", "refused", "close"} => Streamed(t)
    PROVE  SlotKept(t, turn[t], turn'[t])
<1>1. turn'[t].pc = pc
  BY DEF IndInv, TypeOK, Request, Go
<1> QED
  BY <1>1 DEF SlotKept, SlotPc

LEMMA ServingSlots ==
    ASSUME IndInv, NEW t \in Turn, Serving(t)
    PROVE  \/ Incr(t) \/ Expire(t) \/ Refuse(t) \/ GiveBack(t)
           \/ SlotKept(t, turn[t], turn'[t]) /\ UNCHANGED slots
<1> USE DEF At, Records
<1>0. turn \in [Turn -> Request] /\ turn[t] \in Request
  BY DEF IndInv, TypeOK
<1>1. CASE Guard(t)
  <2>1. turn[t].pc = "guard" /\ UNCHANGED slots
    BY <1>1 DEF Guard
  <2>2. turn'[t].pc = "over" \/ turn'[t].pc = IF Streamed(t) THEN "incr" ELSE "prepare"
    BY <1>0, <1>1 DEF Guard, Go, Request
  <2> QED
    BY <2>1, <2>2 DEF SlotKept, SlotPc
<1>2. CASE Brief(t)
  BY <1>2, GoKept DEF Brief, Inside, Streamed
<1>3. CASE SaveQuestion(t) \/ DeleteQuestion(t)
  BY <1>3, GoKept, LeftSlot DEF SaveQuestion, DeleteQuestion, Inside
<1>4. CASE ReadHistory(t)
  <2>1. CASE turn' = [turn EXCEPT ![t].pc = "tools", ![t].pump = "answer",
                                  ![t].heard = turn[t].signal]
    <3>1. turn'[t].pc = "tools" /\ turn[t].pc = "history"
      BY <1>0, <1>4, <2>1 DEF ReadHistory, Request
    <3> QED
      BY <1>4, <3>1 DEF ReadHistory, SlotKept, SlotPc, Inside
  <2> QED
    BY <1>4, <2>1, GoKept, LeftSlot DEF ReadHistory, Inside
<1>5. CASE SimpleReply(t)
  <2>1. CASE turn' = [turn EXCEPT ![t].pc = "delete", ![t].broken = TRUE]
    <3>1. turn'[t].pc = "delete" /\ turn[t].pc = "simple"
      BY <1>0, <1>5, <2>1 DEF SimpleReply, Request
    <3> QED
      BY <1>5, <3>1 DEF SimpleReply, SlotKept, SlotPc, Inside
  <2> QED
    BY <1>5, <2>1, GoKept, LeftSlot DEF SimpleReply, Inside
<1>6. CASE SimpleDone(t)
  <2>1. turn'[t].pc = Left(t) /\ turn[t].pc = "count"
    BY <1>0, <1>6 DEF SimpleDone, Request
  <2> QED
    BY <1>6, <2>1, LeftSlot DEF SimpleDone, SlotKept, SlotPc, Inside
<1>7. CASE Deliver(t) \/ Close(t)
  <2>1. turn'[t].pc = turn[t].pc /\ turn'[t].seen = turn[t].seen
    BY <1>0, <1>7 DEF Deliver, Close, Request
  <2> QED
    BY <1>7, <2>1 DEF Deliver, Close, SlotKept, SlotPc
<1>8. CASE LeaveTools(t)
  <2>1. turn'[t].pc \in {Left(t), "delete"} /\ turn[t].pc = "tools"
    BY <1>0, <1>8 DEF LeaveTools, Request
  <2> QED
    BY <1>8, <2>1, LeftSlot DEF LeaveTools, SlotKept, SlotPc, Inside
<1>9. CASE Emit(t) \/ Answer(t) \/ Fallback(t) \/ PushDone(t) \/ PushPartial(t)
  <2>1. SameButPump(turn[t], turn'[t])
    BY <1>9, PumpKeeps
  <2>2. UNCHANGED slots
    BY <1>9 DEF Emit, Answer, Fallback, PushDone, PushPartial
  <2> QED
    BY <2>1, <2>2 DEF SameButPump, SlotKept, SlotPc
<1> QED
  BY <1>1, <1>2, <1>3, <1>4, <1>5, <1>6, <1>7, <1>8, <1>9 DEF Serving, Serve, Pumping

\* Failures are only added up.
LEMMA FaultsGrow ==
    ASSUME IndInv, Next
    PROVE  faults \in Nat /\ (UNCHANGED faults \/ faults' = faults + 1)
<1> USE DEF Fails
<1>0. faults \in Nat
  BY DEF IndInv, TypeOK
<1>1. ASSUME NEW t \in Turn,
             Guard(t) \/ Incr(t) \/ Expire(t) \/ Refuse(t) \/ GiveBack(t) \/ Brief(t)
      PROVE  UNCHANGED faults \/ faults' = faults + 1
  BY <1>1 DEF Guard, Incr, Expire, Refuse, GiveBack, Decr, Brief
<1>2. ASSUME NEW t \in Turn, SaveQuestion(t) \/ ReadHistory(t) \/ SimpleReply(t)
                             \/ SimpleDone(t) \/ DeleteQuestion(t)
      PROVE  UNCHANGED faults \/ faults' = faults + 1
  BY <1>2 DEF SaveQuestion, ReadHistory, SimpleReply, SimpleDone, DeleteQuestion, Count
<1>3. ASSUME NEW t \in Turn, Deliver(t) \/ LeaveTools(t) \/ Close(t) \/ Emit(t) \/ Answer(t)
      PROVE  UNCHANGED faults \/ faults' = faults + 1
  BY <1>3 DEF Deliver, LeaveTools, Close, Emit, Answer
<1>4. ASSUME NEW t \in Turn, Fallback(t) \/ PushDone(t) \/ PushPartial(t)
      PROVE  UNCHANGED faults \/ faults' = faults + 1
  BY <1>4 DEF Fallback, PushDone, PushPartial, Count
<1>5. ASSUME NEW q \in Question, Tabs(q)
      PROVE  UNCHANGED faults
  BY <1>5, TabsShow
<1>6. \A o \in Other : SendOther(o) => UNCHANGED faults
  BY DEF SendOther
<1>7. SlotsExpire => faults' = faults + 1
  BY DEF SlotsExpire
<1> QED
  BY <1>0, <1>1, <1>2, <1>3, <1>4, <1>5, <1>6, <1>7 DEF Next, Serve, Pumping, Tabs

\* A step that takes no slot and returns none.
LEMMA KeptSlots ==
    ASSUME IndInv, SlotInv, Next, UNCHANGED slots,
           \A t \in Turn : SlotKept(t, turn[t], turn'[t])
    PROVE  SlotInv'
<1>1. Holding' = Holding
  BY DEF Holding, SlotKept, Inside
<1>2. Admitted' = Admitted
  BY DEF Admitted, Admits, SlotKept, Inside
<1>3. \A t \in Turn : SlotPc(t, turn'[t])
  BY DEF SlotInv, SlotKept
<1>4. Cardinality(Holding) \in Nat /\ slots \in Int
  BY FS_CardinalityType DEF SlotInv, IndInv, TypeOK
<1>5. SlotsAccounted'
  BY <1>1, <1>4, FaultsGrow DEF SlotInv, SlotsAccounted
<1> QED
  BY <1>1, <1>2, <1>3, <1>5, FaultsGrow DEF SlotInv

\* A stream takes its slot; of those that saw no more than Limit with theirs
\* there are as many.
LEMMA TakenSlot ==
    ASSUME IndInv, SlotInv, Next, NEW t \in Turn, Incr(t)
    PROVE  SlotInv'
<1>0. turn \in [Turn -> Request] /\ turn[t] \in Request /\ slots \in Int
  BY DEF IndInv, TypeOK
<1>1. /\ turn[t].pc = "incr" /\ turn'[t].pc = "expire" /\ turn'[t].seen = slots + 1
      /\ \A u \in Turn \ {t} : turn'[u] = turn[u]
      /\ slots' = slots + 1 /\ UNCHANGED faults
  BY <1>0 DEF Incr, At, Request
<1>2. Streamed(t)
  BY <1>1 DEF SlotInv, SlotPc
<1>3. Holding' = Holding \union {t} /\ t \notin Holding
  BY <1>1, <1>2 DEF Holding
<1>4. IsFiniteSet(Holding') /\ Cardinality(Holding') = Cardinality(Holding) + 1
      /\ Cardinality(Holding) \in Nat
  BY <1>3, FS_AddElement, FS_CardinalityType DEF SlotInv
<1>5. SlotsAccounted'
  BY <1>0, <1>1, <1>4, FaultsGrow DEF SlotInv, SlotsAccounted
<1>6. \A u \in Turn : SlotPc(u, turn'[u])
  BY <1>1, <1>2 DEF SlotInv, SlotPc
<1>7. ASSUME faults = 0 PROVE Cardinality(Admitted') <= Limit
  <2>1. slots = Cardinality(Holding)
    BY <1>7 DEF SlotInv, SlotsAccounted
  <2>2. CASE slots + 1 <= Limit
    <3>1. Admitted' \in SUBSET Holding'
      BY <1>1, <1>2 DEF Admitted, Admits, Holding, Inside
    <3>2. Cardinality(Admitted') \in Nat /\ Cardinality(Admitted') <= Cardinality(Holding')
      BY <1>4, <3>1, FS_Subset, FS_CardinalityType
    <3> QED
      BY <1>4, <2>1, <2>2, <3>2
  <2>3. CASE ~(slots + 1 <= Limit)
    <3>1. Admitted' = Admitted
      BY <1>1, <2>3 DEF Admitted, Admits, Inside
    <3> QED
      BY <1>7, <3>1 DEF SlotInv
  <2> QED
    BY <2>2, <2>3
<1> QED
  BY <1>1, <1>4, <1>5, <1>6, <1>7 DEF SlotInv

\* A slot is given back, or lost with a failure.
LEMMA ReturnedSlot ==
    ASSUME IndInv, SlotInv, Next, NEW t \in Turn, t \in Holding,
           turn' = [turn EXCEPT ![t] = turn'[t]], turn'[t].pc = "over",
           \/ slots' = slots - 1
           \/ slots' = slots /\ faults' = faults + 1
    PROVE  SlotInv'
<1>0. turn \in [Turn -> Request] /\ slots \in Int
  BY DEF IndInv, TypeOK
<1>1. \A u \in Turn \ {t} : turn'[u] = turn[u]
  BY <1>0
<1>2. Holding' = Holding \ {t}
  BY <1>1 DEF Holding
<1>3. IsFiniteSet(Holding') /\ Cardinality(Holding') = Cardinality(Holding) - 1
      /\ Cardinality(Holding) \in Nat
  BY <1>2, FS_RemoveElement, FS_CardinalityType DEF SlotInv
<1>4. SlotsAccounted'
  BY <1>0, <1>3, FaultsGrow DEF SlotInv, SlotsAccounted
<1>5. \A u \in Turn : SlotPc(u, turn'[u])
  BY <1>1 DEF SlotInv, SlotPc
<1>6. Admitted' \in SUBSET Admitted /\ Admitted \in SUBSET Holding
  BY <1>1 DEF Admitted, Admits, Holding, Inside
<1>7. /\ Cardinality(Admitted') \in Nat /\ Cardinality(Admitted) \in Nat
      /\ Cardinality(Admitted') <= Cardinality(Admitted)
  BY <1>6, FS_Subset, FS_CardinalityType DEF SlotInv
<1>8. faults' = 0 => Cardinality(Admitted') <= Limit
  BY <1>7, FaultsGrow DEF SlotInv
<1> QED
  BY <1>3, <1>4, <1>5, <1>8 DEF SlotInv

\* The comparison changes nothing but the program counter.
LEMMA ComparedSlot ==
    ASSUME IndInv, SlotInv, Next, NEW t \in Turn, Expire(t)
    PROVE  SlotInv'
<1>0. turn \in [Turn -> Request] /\ turn[t] \in Request
  BY DEF IndInv, TypeOK
<1>1. turn[t].pc = "expire" /\ Streamed(t) /\ UNCHANGED slots
  BY DEF Expire, At, SlotInv, SlotPc
<1>2. CASE turn' = [turn EXCEPT ![t].pc = "over", ![t].seen = 0] /\ Fails
  <2>1. turn'[t].pc = "over" /\ turn' = [turn EXCEPT ![t] = turn'[t]]
    BY <1>0, <1>2 DEF Request
  <2> QED
    BY <1>1, <1>2, <2>1, ReturnedSlot DEF Holding, Fails
<1>3. CASE /\ turn' = [turn EXCEPT ![t].pc = IF turn[t].seen > Limit THEN "refused" ELSE "prepare",
                                   ![t].seen = 0]
           /\ UNCHANGED faults
  <2>1. /\ turn'[t].pc = (IF turn[t].seen > Limit THEN "refused" ELSE "prepare")
        /\ \A u \in Turn \ {t} : turn'[u] = turn[u]
    BY <1>0, <1>3 DEF Request
  <2>2. Holding' = Holding
    BY <1>1, <2>1 DEF Holding
  <2>3. turn[t].seen \in Int
    BY <1>0 DEF Request
  <2>4. Admitted' = Admitted
    BY <1>1, <2>1, <2>3 DEF Admitted, Admits, Inside
  <2>5. \A u \in Turn : SlotPc(u, turn'[u])
    BY <1>1, <2>1 DEF SlotInv, SlotPc
  <2> QED
    BY <1>1, <1>3, <2>2, <2>4, <2>5 DEF SlotInv, SlotsAccounted
<1> QED
  BY <1>2, <1>3 DEF Expire

LEMMA SlotsKept ==
    ASSUME IndInv, SlotInv, [Next]_vars
    PROVE  SlotInv'
<1>0. turn \in [Turn -> Request] /\ faults \in Nat
  BY DEF IndInv, TypeOK
<1>1. ASSUME NEW t \in Turn, Serve(t) \/ Pumping(t) \/ Emit(t) \/ Close(t), Next
      PROVE  SlotInv'
  <2>0. Serving(t)
    BY <1>1 DEF Serving
  <2>1. CASE Incr(t) \/ Expire(t)
    BY <1>1, <2>1, TakenSlot, ComparedSlot
  <2>2. CASE Refuse(t) \/ GiveBack(t)
    <3>1. /\ turn[t].pc \in {"refused", "close"} /\ turn'[t].pc = "over"
          /\ turn' = [turn EXCEPT ![t] = turn'[t]]
      BY <1>0, <2>2 DEF Refuse, GiveBack, At, Go, Request
    <3>a. slots' = slots - 1 \/ (slots' = slots /\ faults' = faults + 1)
      BY <2>2 DEF Refuse, GiveBack, Decr, Fails
    <3>2. t \in Holding
      BY <3>1 DEF Holding, SlotInv, SlotPc
    <3> QED
      BY <1>1, <3>1, <3>2, <3>a, ReturnedSlot
  <2>3. CASE SlotKept(t, turn[t], turn'[t]) /\ UNCHANGED slots
    <3>1. PICK r \in Request : Moved(t, r)
      BY <2>0, ServingMoves DEF Step
    <3>2. \A u \in Turn \ {t} : turn'[u] = turn[u]
      BY <1>0, <3>1 DEF Moved
    <3>3. \A u \in Turn : SlotKept(u, turn[u], turn'[u])
      BY <2>3, <3>2 DEF SlotKept
    <3> QED
      BY <1>1, <2>3, <3>3, KeptSlots
  <2> QED
    BY <2>0, <2>1, <2>2, <2>3, ServingSlots
<1>2. ASSUME TabsMoved, UNCHANGED slots, Next
      PROVE  SlotInv'
  <2>1. \A t \in Turn : SlotKept(t, turn[t], turn'[t])
    BY <1>2 DEF TabsMoved, TabMoved, SlotKept, SlotPc
  <2> QED
    BY <1>2, <2>1, KeptSlots
<1>3. ASSUME NEW q \in Question, Tabs(q)
      PROVE  TabsMoved /\ UNCHANGED slots
  BY <1>3, TabsMove, TabsShow
<1>4. ASSUME NEW o \in Other, SendOther(o)
      PROVE  TabsMoved /\ UNCHANGED slots
  BY <1>4, OtherMoves DEF SendOther
<1>6. CASE SlotsExpire
  <2>1. UNCHANGED turn /\ slots' = 0 /\ faults' = faults + 1
    BY <1>6 DEF SlotsExpire, Fails
  <2>2. Holding' = Holding /\ Cardinality(Holding) \in Nat
    BY <2>1, FS_CardinalityType DEF Holding, SlotInv
  <2>3. SlotsAccounted'
    BY <1>0, <2>1, <2>2 DEF SlotsAccounted
  <2> QED
    BY <1>0, <2>1, <2>2, <2>3 DEF SlotInv, SlotPc
<1>5. CASE UNCHANGED vars
  BY <1>5 DEF SlotInv, SlotPc, SlotsAccounted, Holding, Admitted, Admits
<1> QED
  BY <1>1, <1>2, <1>3, <1>4, <1>5, <1>6 DEF Next, Tabs

LEMMA SlotsInit == Init => SlotInv
<1> SUFFICES ASSUME Init PROVE SlotInv
  OBVIOUS
<1>1. \A t \in Turn : turn[t].pc = "off"
  BY DEF Init, NewRequest
<1>2. Holding = {} /\ Admitted = {}
  BY <1>1 DEF Holding, Admitted, Admits, Inside
<1>3. \A t \in Turn : SlotPc(t, turn[t])
  BY <1>1 DEF SlotPc
<1> QED
  BY <1>2, <1>3, FS_EmptySet DEF Init, SlotInv, SlotsAccounted

LEMMA SlotsInductive == Spec => []SlotInv
<1>1. Init => SlotInv
  BY SlotsInit
<1>2. IndInv /\ SlotInv /\ [Next]_vars => SlotInv'
  BY SlotsKept
<1> QED
  BY <1>1, <1>2, Inductive, PTL DEF Spec

\* The Redis counter never shows a connection that is not there but for those a
\* failure left, and shows each of them while none failed or expired
\* (copilot.controller.ts, streamChat).
THEOREM SlotsCorrect == Spec => []SlotsAccounted
<1>1. SlotInv => SlotsAccounted
  BY DEF SlotInv
<1> QED
  BY <1>1, SlotsInductive, PTL

\* INCR, EXPIRE and the comparison are three steps, and yet no more than Limit
\* streams are served at once while the counter is sound.
THEOREM LimitHolds == Spec => []StreamsLimited
<1>1. IndInv /\ SlotInv => StreamsLimited
  <2> SUFFICES ASSUME IndInv, SlotInv, faults = 0 PROVE Cardinality(Served) <= Limit
    BY DEF StreamsLimited
  <2>1. Admitted \in SUBSET Holding /\ IsFiniteSet(Holding)
    BY DEF Admitted, Admits, Holding, Inside, SlotInv
  <2>2. Served \in SUBSET Admitted
    <3>1. \A t \in Turn : turn[t].pc \in PC
      BY DEF IndInv, TypeOK, Request, PC
    <3> QED
      BY <3>1 DEF Served, Holding, Admitted, Admits, Inside, PC
  <2>3. IsFiniteSet(Admitted)
    BY <2>1, FS_Subset
  <2>4. Cardinality(Served) <= Cardinality(Admitted)
    BY <2>2, <2>3, FS_Subset
  <2>5. Cardinality(Served) \in Nat /\ Cardinality(Admitted) \in Nat
    BY <2>2, <2>3, FS_Subset, FS_CardinalityType
  <2> QED
    BY <2>4, <2>5 DEF SlotInv
<1> QED
  BY <1>1, Inductive, SlotsInductive, PTL

=============================================================================
