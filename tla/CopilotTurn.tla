----------------------------- MODULE CopilotTurn -----------------------------
(***************************************************************************)
(* Questions put to the copilot: the chat panel that streams an answer and *)
(* asks again over JSON when the stream is lost, the SSE slots of the      *)
(* user, and the turns on the server with the queue between the model's    *)
(* callbacks and the response.                                             *)
(*                                                                         *)
(* The three actors of a streamed turn run on one event loop but yield to  *)
(* each other at every await: the generator that writes the response       *)
(* (`pc'), the closure that awaits the model and persists (`pump'), and    *)
(* the close event of the connection.  The text of questions and replies,  *)
(* tool results, titles and token usage are left out.                      *)
(***************************************************************************)
EXTENDS Integers, Sequences, FiniteSets

CONSTANTS
    Question,   \* messages the user sends, each from a tab of its own
    Other,      \* streams of other tabs, followed only where they take slots
    Limit,      \* SSE connections a user may have open: 3 in the code
    MaxEvents,  \* bound: tool calls and pieces of text of one turn
    MaxFaults   \* bound: calls that fail, and expiries of the Redis counter

ASSUME CopilotAssumption == Limit \in Nat /\ MaxEvents \in Nat /\ MaxFaults \in Nat

Event == {"activity", "delta", "done", "partial"}
TQ == INSTANCE TurnQueue
Followed == Question \X {"stream", "json"}
Turn == Followed \union (Other \X {"brief"})
Streamed(t) == t[2] # "json"

VARIABLES
    chat,       \* [Question -> how far its tab is]
    turn,       \* [Turn -> the request on the server]
    slots,      \* Redis key copilot:sse:active:<user>
    used,       \* [Turn -> times it incremented copilotUsedThisCycle]
    rows,       \* [Turn -> its rows of copilot_messages]
    faults

vars == <<chat, turn, slots, used, rows, faults>>

Row == {"question", "reply", "partial"}

\* got: a done frame came.  What the tab shows is left out.
Tab == [pc : {"idle", "stream", "json", "answered", "stopped", "failed"},
        got : BOOLEAN]
NewTab == [pc |-> "idle", got |-> FALSE]

\* link: the connection; free: the guard found no subscription to count the
\* turn on; signal: the AbortController; seen: what INCR returned, until it is
\* compared; heard: onAbort has run; broken: an exception came out of the model
\* call; text: accumulatedContent is not blank; emitted counts the events of the
\* callbacks while the model answers; sent: done reached the response; told: the
\* reader knows of the queue's end.
Request ==
    [pc : {"off", "guard", "incr", "expire", "refused", "prepare", "history",
           "simple", "count", "tools", "delete", "close", "over"},
     link : {"up", "cut", "closed"}, free : BOOLEAN, signal : BOOLEAN, seen : Int,
     pump : {"off", "answer", "fallback", "count", "partial", "over"},
     heard : BOOLEAN, broken : BOOLEAN, text : BOOLEAN, emitted : 0..MaxEvents,
     sent : BOOLEAN, told : BOOLEAN, queue : TQ!Queue]
NewRequest ==
    [pc |-> "off", link |-> "up", free |-> FALSE, signal |-> FALSE, seen |-> 0, pump |-> "off",
     heard |-> FALSE, broken |-> FALSE, text |-> FALSE, emitted |-> 0,
     sent |-> FALSE, told |-> FALSE, queue |-> TQ!NewQueue]

TypeOK ==
    /\ chat \in [Question -> Tab] /\ turn \in [Turn -> Request]
    /\ slots \in Int /\ used \in [Turn -> Nat]
    /\ rows \in [Turn -> SUBSET Row]
    /\ faults \in 0..MaxFaults

Init ==
    /\ chat = [q \in Question |-> NewTab] /\ turn = [t \in Turn |-> NewRequest]
    /\ slots = 0 /\ used = [t \in Turn |-> 0]
    /\ rows = [t \in Turn |-> {}]
    /\ faults = 0

Fails == faults < MaxFaults /\ faults' = faults + 1
At(t, pc) == turn[t].pc = pc
Pump(t, pc) == turn[t].pump = pc
Go(t, pc) == turn' = [turn EXCEPT ![t].pc = pc]

-----------------------------------------------------------------------------
(* CopilotController.streamChat, and the guards before it                  *)

Records == <<used, rows>>

\* CopilotQuotaGuard, the plan guard and the throttlers let it through or not.
\* PlanGuard reads its own copy of the plan, so that it may pass a tenant whose
\* subscription CopilotQuotaGuard no longer finds: that turn passes too, with
\* nothing to count it on.
Guard(t) ==
    /\ At(t, "guard")
    /\ \/ \E b \in BOOLEAN :
             turn' = [turn EXCEPT ![t].pc = IF Streamed(t) THEN "incr" ELSE "prepare",
                                  ![t].free = b]
       \/ Go(t, "over")
    /\ UNCHANGED <<chat, slots, Records, faults>>

Incr(t) ==
    /\ At(t, "incr")
    /\ slots' = slots + 1
    /\ turn' = [turn EXCEPT ![t].pc = "expire", ![t].seen = slots + 1]
    /\ UNCHANGED <<chat, Records, faults>>

\* Mutant: the limit is compared with the number of the others.
ExpireLenient(t) ==
    /\ At(t, "expire")
    /\ turn' = [turn EXCEPT ![t].pc = IF turn[t].seen > Limit + 1 THEN "refused" ELSE "prepare",
                            ![t].seen = 0]
    /\ UNCHANGED <<chat, slots, Records, faults>>

\* EXPIRE; with more than Limit connections the request gives its slot back.
\* The slot is taken outside the try block: if Redis fails here it stays taken.
Expire(t) ==
    /\ At(t, "expire")
    /\ \/ /\ turn' = [turn EXCEPT ![t].pc = IF turn[t].seen > Limit THEN "refused" ELSE "prepare",
                                  ![t].seen = 0]
          /\ UNCHANGED faults
       \/ turn' = [turn EXCEPT ![t].pc = "over", ![t].seen = 0] /\ Fails
    /\ UNCHANGED <<chat, slots, Records>>

\* Mutant: a refused request keeps its slot.
RefuseAndKeep(t) ==
    /\ At(t, "refused")
    /\ Go(t, "over")
    /\ UNCHANGED <<chat, slots, Records, faults>>

\* DECR; if Redis fails here the slot stays taken.
Decr ==
    \/ slots' = slots - 1 /\ UNCHANGED faults
    \/ Fails /\ UNCHANGED slots

Refuse(t) ==
    /\ At(t, "refused")
    /\ Decr
    /\ Go(t, "over")
    /\ UNCHANGED <<chat, Records>>

\* The finally block, once the response is ended.
GiveBack(t) ==
    /\ At(t, "close")
    /\ Decr
    /\ Go(t, "over")
    /\ UNCHANGED <<chat, Records>>

\* No stream opened for 120 seconds, whether or not one is still running.
SlotsExpire ==
    /\ slots # 0 /\ slots' = 0
    /\ Fails
    /\ UNCHANGED <<chat, turn, Records>>

\* req.on('close'): streamChat listens from the moment it starts, the pump
\* while it runs.  An event that comes earlier or later is not heard.
Close(t) ==
    LET listening == turn[t].pc \in {"prepare", "history", "simple", "count", "tools"}
        running == turn[t].pump \in {"answer", "fallback", "count", "partial"}
    IN  /\ turn[t].link = "cut" /\ t[2] = "stream"
        /\ turn[t].pc \notin {"close", "over"}
        /\ turn' = [turn EXCEPT ![t].link = "closed",
                                ![t].signal = @ \/ listening,
                                ![t].heard = @ \/ running]
        /\ UNCHANGED <<chat, slots, Records, faults>>

-----------------------------------------------------------------------------
(* CopilotConversationSetupService.prepare and runTurn                     *)

\* finalizeChat awaits the counter and not the INSERT, whose failure nobody
\* sees: a reply or partial row here is an INSERT that was issued.
Save(t, row) == rows' = [rows EXCEPT ![t] = @ \union {row}]

\* The turn is over: streamChat ends the response, chat returns or throws.
Left(t) == IF Streamed(t) THEN "close" ELSE "over"

\* The turn of another tab, from its slot to the end of its response.
Brief(t) ==
    /\ At(t, "prepare") /\ t[2] = "brief"
    /\ Go(t, "close")
    /\ UNCHANGED <<chat, slots, Records, faults>>

\* findOrCreate and the financial context, then the question.
SaveQuestion(t) ==
    /\ At(t, "prepare") /\ t[2] # "brief"
    /\ \/ Go(t, "history") /\ Save(t, "question") /\ UNCHANGED faults
       \/ Go(t, Left(t)) /\ Fails /\ UNCHANGED rows
    /\ UNCHANGED <<chat, slots, used>>

\* The last await of prepare, which runTurn calls outside its try block: a
\* failure leaves the question behind.  With function calling the generator
\* goes on to create the runner, the pump and the queue in the same step.
ReadHistory(t) ==
    /\ At(t, "history")
    /\ \/ Go(t, "simple") /\ UNCHANGED faults
       \/ /\ turn' = [turn EXCEPT ![t].pc = "tools", ![t].pump = "answer",
                                  ![t].heard = turn[t].signal]
          /\ UNCHANGED faults
       \/ Go(t, Left(t)) /\ Fails
    /\ UNCHANGED <<chat, slots, Records>>

\* Mutant: the counter is taken for what is left.
CountDown(t) == used' = [used EXCEPT ![t] = @ - 1] /\ UNCHANGED faults

\* incrementAndNotify, which does nothing without a subscription and swallows
\* what PostgreSQL refuses.
Count(t) ==
    \/ turn[t].free /\ UNCHANGED <<used, faults>>
    \/ ~turn[t].free /\ used' = [used EXCEPT ![t] = @ + 1] /\ UNCHANGED faults
    \/ ~turn[t].free /\ Fails /\ UNCHANGED used

\* No function calling, or no adapter: chatCopilot, which turns a failure of
\* every provider into an apology.  An exception is for the catch block.
SimpleReply(t) ==
    /\ At(t, "simple")
    /\ \/ turn[t].signal /\ Go(t, Left(t)) /\ UNCHANGED <<rows, faults>>
       \/ ~turn[t].signal /\ Go(t, "count") /\ Save(t, "reply") /\ UNCHANGED faults
       \/ /\ turn' = [turn EXCEPT ![t].pc = "delete", ![t].broken = TRUE]
          /\ Fails /\ UNCHANGED rows
    /\ UNCHANGED <<chat, slots, used>>

\* What the tab does with a frame that reaches it.
Seen(t, e) ==
    IF Streamed(t) /\ turn[t].link = "up" /\ e = "done"
    THEN [chat EXCEPT ![t[1]].got = TRUE]
    ELSE chat

SimpleDone(t) ==
    /\ At(t, "count")
    /\ Count(t)
    /\ turn' = [turn EXCEPT ![t].pc = Left(t), ![t].sent = TRUE]
    /\ chat' = Seen(t, "done")
    /\ UNCHANGED <<slots, rows>>

\* Mutant: the error is rethrown before the question is deleted.
Rethrow(t) ==
    /\ At(t, "delete")
    /\ Go(t, Left(t))
    /\ UNCHANGED <<chat, slots, Records, faults>>

\* The catch block of runTurn; deleteMessage swallows its own failure.
DeleteQuestion(t) ==
    /\ At(t, "delete")
    /\ Go(t, Left(t))
    /\ \/ rows' = [rows EXCEPT ![t] = @ \ {"question"}] /\ UNCHANGED faults
       \/ Fails /\ UNCHANGED rows
    /\ UNCHANGED <<chat, slots, used>>

\* The generator resumes with what next() gave it, writes the frame and calls
\* next() again; nothing is written for a partial event.
Deliver(t) ==
    LET e == turn[t].queue.handed
    IN  /\ At(t, "tools") /\ e \in Event
        /\ turn' = [turn EXCEPT ![t].queue = TQ!Pulled(@),
                                ![t].sent = @ \/ e = "done"]
        /\ chat' = Seen(t, e)
        /\ UNCHANGED <<slots, Records, faults>>

LeaveTools(t) ==
    LET e == turn[t].queue.handed
    IN  /\ At(t, "tools") /\ e \in {TQ!End, TQ!Error}
        /\ turn' = [turn EXCEPT ![t].pc = IF e = TQ!End THEN Left(t) ELSE "delete",
                                ![t].told = TRUE]
        /\ UNCHANGED <<chat, slots, Records, faults>>

-----------------------------------------------------------------------------
(* The pump of runWithTools                                                *)

Push(t, e) == [turn[t] EXCEPT !.queue = TQ!Pushed(@, e)]

\* The callbacks of the runner.  Text stops once the runner is aborted, the
\* tool calls of the answer just read are announced all the same.
Emit(t) ==
    /\ Pump(t, "answer") /\ turn[t].emitted < MaxEvents
    /\ \E e \in {"activity", "delta"} :
          /\ e = "delta" => ~turn[t].heard
          /\ turn' = [turn EXCEPT ![t] =
                [Push(t, e) EXCEPT !.emitted = @ + 1, !.text = @ \/ e = "delta"]]
    /\ UNCHANGED <<chat, slots, Records, faults>>

\* The queue is told how the pump ended; what it has said is forgotten with it.
Finished(state) ==
    [state EXCEPT !.pump = "over", !.text = FALSE,
                  !.queue = IF state.broken THEN TQ!Failed(@) ELSE TQ!Ended(@)]

\* Mutant: what an aborted turn has said is counted and not kept.
WindUnsaved(t, state) ==
    /\ turn' = [turn EXCEPT ![t] = IF state.heard /\ state.text
                                  THEN [state EXCEPT !.pump = "partial"]
                                  ELSE Finished(state)]
    /\ UNCHANGED rows

\* The finally block: keep what an aborted turn has said, or close the queue.
Wind(t, state) ==
    IF state.heard /\ state.text
    THEN /\ turn' = [turn EXCEPT ![t] = [state EXCEPT !.pump = "partial"]]
         /\ Save(t, "partial")
    ELSE /\ turn' = [turn EXCEPT ![t] = Finished(state)]
         /\ UNCHANGED rows

\* Mutant: done is pushed when the reply is saved, and again when it is counted.
AnswerFirst(t) ==
    /\ Pump(t, "answer") /\ ~turn[t].heard
    /\ turn' = [turn EXCEPT ![t] = [Push(t, "done") EXCEPT !.pump = "count"]]
    /\ Save(t, "reply")
    /\ UNCHANGED <<chat, slots, used, faults>>

\* finalContent settles.  An abort is looked for here and nowhere later.
Answer(t) ==
    /\ Pump(t, "answer")
    /\ \/ turn[t].heard /\ Wind(t, [turn[t] EXCEPT !.emitted = 0])
       \/ /\ ~turn[t].heard
          /\ turn' = [turn EXCEPT ![t].pump = "count", ![t].emitted = 0]
          /\ Save(t, "reply")
       \/ /\ ~turn[t].heard
          /\ turn' = [turn EXCEPT ![t].pump = "fallback", ![t].emitted = 0]
          /\ UNCHANGED rows
    /\ UNCHANGED <<chat, slots, used, faults>>

\* Mutant: the answer of the fallback is counted and not kept.
FallbackUnkept(t) ==
    /\ Pump(t, "fallback")
    /\ turn' = [turn EXCEPT ![t].pump = "count"]
    /\ UNCHANGED <<chat, slots, used, rows, faults>>

Fallback(t) ==
    /\ Pump(t, "fallback")
    /\ \/ /\ turn' = [turn EXCEPT ![t].pump = "count"]
          /\ Save(t, "reply")
          /\ UNCHANGED faults
       \/ /\ Wind(t, [turn[t] EXCEPT !.broken = TRUE])
          /\ Fails
    /\ UNCHANGED <<chat, slots, used>>

\* persistAndDone returns: done is pushed, then the finally block runs.
PushDone(t) ==
    /\ Pump(t, "count")
    /\ Count(t)
    /\ Wind(t, Push(t, "done"))
    /\ UNCHANGED <<chat, slots>>

\* persistPartial returns: the finally block goes on.
PushPartial(t) ==
    /\ Pump(t, "partial")
    /\ Count(t)
    /\ turn' = [turn EXCEPT ![t] = Finished(Push(t, "partial"))]
    /\ UNCHANGED <<chat, slots, rows>>

-----------------------------------------------------------------------------
(* useCopilotChat                                                          *)

Stream(q) == <<q, "stream">>
Json(q) == <<q, "json">>
Show(q, pc) == chat' = [chat EXCEPT ![q].pc = pc]
Resend(q) == [turn EXCEPT ![Json(q)].pc = "guard"]

Send(q) ==
    /\ chat[q].pc = "idle"
    /\ Show(q, "stream")
    /\ Go(Stream(q), "guard")
    /\ UNCHANGED <<slots, Records, faults>>

\* A stream of another tab that the guards let through.
SendOther(o) ==
    /\ At(<<o, "brief">>, "off")
    /\ Go(<<o, "brief">>, "incr")
    /\ UNCHANGED <<chat, slots, Records, faults>>

\* handleStop, or leaving the conversation: what has come is kept.
Stop(q) ==
    /\ chat[q].pc = "stream"
    /\ Show(q, "stopped")
    /\ turn' = [turn EXCEPT ![Stream(q)].link = "cut"]
    /\ UNCHANGED <<slots, Records, faults>>

\* The network drops the stream: the question is put again.
Lose(q) ==
    /\ chat[q].pc = "stream"
    /\ Show(q, "json")
    /\ turn' = [Resend(q) EXCEPT ![Stream(q)].link = "cut"]
    /\ UNCHANGED <<slots, Records, faults>>

\* Mutant: every stream that ends is taken for a lost one.
StreamOverLost(q) ==
    /\ chat[q].pc = "stream" /\ turn[Stream(q)].pc \in {"close", "over"}
    /\ Show(q, "json")
    /\ turn' = Resend(q)
    /\ UNCHANGED <<slots, Records, faults>>

\* The server ended the response, or answered 4xx or 5xx.
StreamOver(q) ==
    /\ chat[q].pc = "stream" /\ turn[Stream(q)].pc \in {"close", "over"}
    /\ IF chat[q].got
       THEN Show(q, "answered") /\ UNCHANGED turn
       ELSE Show(q, "json") /\ turn' = Resend(q)
    /\ UNCHANGED <<slots, Records, faults>>

JsonOver(q) ==
    /\ chat[q].pc = "json" /\ At(Json(q), "over")
    /\ IF turn[Json(q)].sent THEN Show(q, "answered")
       ELSE Show(q, "failed")
    /\ UNCHANGED <<turn, slots, Records, faults>>

\* The network drops the JSON request, which the server does not notice.
LoseJson(q) ==
    /\ chat[q].pc = "json"
    /\ Show(q, "failed")
    /\ turn' = [turn EXCEPT ![Json(q)].link = "cut"]
    /\ UNCHANGED <<slots, Records, faults>>

-----------------------------------------------------------------------------
Serve(t) ==
    \/ Guard(t) \/ Incr(t) \/ Expire(t) \/ Refuse(t) \/ GiveBack(t)
    \/ Brief(t) \/ SaveQuestion(t) \/ ReadHistory(t)
    \/ SimpleReply(t) \/ SimpleDone(t) \/ DeleteQuestion(t)
    \/ Deliver(t) \/ LeaveTools(t)
Pumping(t) == Answer(t) \/ Fallback(t) \/ PushDone(t) \/ PushPartial(t)
Tabbing(q) == StreamOver(q) \/ JsonOver(q)

Next ==
    \/ \E t \in Turn : Serve(t) \/ Pumping(t) \/ Emit(t) \/ Close(t)
    \/ \E q \in Question : Send(q) \/ Stop(q) \/ Lose(q) \/ LoseJson(q) \/ Tabbing(q)
    \/ \E o \in Other : SendOther(o)
    \/ SlotsExpire

Spec == Init /\ [][Next]_vars

\* As long as a handler, a pump or a tab can go on, one of them does: the
\* process runs, the model's adapters answer or time out, and the tab reads its
\* responses.  Nobody has to send, stop or lose anything.
Fairness ==
    WF_vars(\/ \E t \in Turn : Serve(t) \/ Pumping(t)
            \/ \E q \in Question : Tabbing(q))
LiveSpec == Spec /\ Fairness

-----------------------------------------------------------------------------
\* Every queue promises what the abstract channel does: nothing that a
\* callback pushes is lost, repeated or overtaken, although the reader may wait
\* before or come after, and the end is told once all is read
\* (copilot-stream.service.ts:53-93).
Channels == INSTANCE EventChannel
    WITH Turn <- Followed,
         channel <- [t \in Followed |-> TQ!Contents(turn[t].queue)],
         outcome <- [t \in Followed |-> TQ!Outcome(turn[t].queue, turn[t].told)]
QueuesAreChannels == Channels!Spec

\* After `done' a turn writes nothing more to its response: at most the
\* partial event follows, whatever the callbacks, the close event and the
\* fallback do in between (copilot-stream.service.ts:324-390).
DoneIsLast ==
    \A t \in Turn :
        LET left == TQ!Contents(turn[t].queue)
        IN  /\ \A i, j \in DOMAIN left : left[i] = "done" /\ i < j => left[j] = "partial"
            /\ turn[t].sent => \A i \in DOMAIN left : left[i] = "partial"

\* Unless a call failed, a turn that sent a reply leaves its question stored,
\* the INSERT of its reply issued and, under a subscription, a count, however
\* the abort, the fallback and the queue fell (copilot-stream.service.ts:219-295).
\* It speaks of the end of the turn: whether the count comes before or after the
\* done frame is not its matter.
SentIsRecorded ==
    \A t \in Turn : At(t, "over") /\ turn[t].sent /\ faults = 0 =>
        /\ turn[t].free \/ used[t] >= 1
        /\ "question" \in rows[t] /\ "reply" \in rows[t]

\* A question whose connections held is paid for once at the most, and
\* exactly once if it is answered, no call failed and neither request was let
\* through without a subscription, however its stream ended and whether or not
\* it was put again over JSON (useCopilotChat, copilot-quota-manager.ts:25-56).
HeldCountsOnce ==
    \A q \in Question :
        turn[Stream(q)].link = "up" /\ turn[Json(q)].link = "up" =>
            /\ used[Stream(q)] + used[Json(q)] <= 1
            /\ chat[q].pc = "answered" /\ faults = 0 =>
                  \/ turn[Stream(q)].free \/ turn[Json(q)].free
                  \/ used[Stream(q)] + used[Json(q)] = 1

\* A turn is charged for no more than the texts it kept, also when it is cut
\* off while its answer is being counted, which keeps and charges what was said
\* on top of the reply (copilot-stream.service.ts:367, 383-385).
CountsAreKept == \A t \in Turn : used[t] <= Cardinality(rows[t] \ {"question"})

\* A turn that ends without a reply and was not cut off leaves nothing: no
\* count, no reply, and no question unless reading the history failed, or
\* deleting the question did too.
FailureLeavesNothing ==
    \A t \in Turn : At(t, "over") /\ ~turn[t].sent /\ ~turn[t].signal =>
        /\ used[t] = 0
        /\ rows[t] \subseteq {"question"}
        /\ "question" \in rows[t] => faults > IF turn[t].broken THEN 1 ELSE 0

\* The Redis counter never shows a connection that is not there, but for those
\* a failed EXPIRE or DECR left, and without failures or expiry it shows each of
\* them.
Holding == {t \in Turn : Streamed(t) /\ turn[t].pc \notin {"off", "guard", "incr", "over"}}
SlotsAccounted ==
    /\ slots <= Cardinality(Holding) + faults
    /\ faults = 0 => slots = Cardinality(Holding)

\* While the counter is sound no more than Limit streams are served at once,
\* although INCR and the comparison are steps apart.
Served == {t \in Holding : turn[t].pc \notin {"expire", "refused"}}
StreamsLimited == faults = 0 => Cardinality(Served) <= Limit

\* Every question comes to an end the user sees, and every request to its own,
\* giving back its slot, cut off or not.
EverythingEnds ==
    <>[](/\ \A q \in Question : chat[q].pc \notin {"stream", "json"}
         /\ \A t \in Turn : turn[t].pc \in {"off", "over"})

\* What copilot-history-spec.md:863 promises: an aborted turn is not counted.
\* The code counts the text it keeps like a reply
\* (copilot-stream.service.ts:384, finalizeChat:193).
AbortIsFree ==
    \A t \in Turn :
        turn[t].heard /\ "reply" \notin rows[t] => used[t] = 0
=============================================================================
