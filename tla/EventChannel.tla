----------------------------- MODULE EventChannel -----------------------------
(***************************************************************************)
(* What the queues between the model's callbacks and the generators of the *)
(* turns promise: every event once, in the order it was pushed, and then   *)
(* how the turn ended.                                                     *)
(***************************************************************************)
EXTENDS Sequences

CONSTANTS Turn, Event

VARIABLES
    channel,        \* [Turn -> what was pushed and not yet received]
    outcome         \* [Turn -> "open", then "ended" or "failed", then "told"]

Init ==
    /\ channel = [t \in Turn |-> <<>>]
    /\ outcome = [t \in Turn |-> "open"]

Send(t, e) ==
    /\ outcome[t] = "open" /\ UNCHANGED outcome
    /\ channel' = [channel EXCEPT ![t] = Append(@, e)]

\* A last event may go out in the step that closes the channel.
Close(t, how) ==
    /\ outcome[t] = "open"
    /\ outcome' = [outcome EXCEPT ![t] = how]
    /\ \E last \in {<<>>} \union {<<e>> : e \in Event} :
          channel' = [channel EXCEPT ![t] = @ \o last]

Receive(t) ==
    /\ channel[t] # <<>>
    /\ channel' = [channel EXCEPT ![t] = Tail(@)]
    /\ UNCHANGED outcome

\* The reader hears of the end only when nothing is left to read.
ReceiveOutcome(t) ==
    /\ channel[t] = <<>>
    /\ outcome[t] \in {"ended", "failed"}
    /\ outcome' = [outcome EXCEPT ![t] = "told"]
    /\ UNCHANGED channel

Next ==
    \E t \in Turn :
        \/ Receive(t) \/ ReceiveOutcome(t)
        \/ \E e \in Event : Send(t, e)
        \/ \E how \in {"ended", "failed"} : Close(t, how)

Spec == Init /\ [][Next]_<<channel, outcome>>
=============================================================================
