------------------------------ MODULE TurnQueue ------------------------------
(***************************************************************************)
(* TurnEventQueue: the single-slot pull queue of a copilot turn.  The      *)
(* callbacks push; the generator awaits next().  A reader that waits is    *)
(* handed the event at once, and one that comes late finds it pending.     *)
(*                                                                         *)
(* A queue is a record; `handed' is the promise next() returned, once it   *)
(* is settled and until the reader resumes.                                *)
(***************************************************************************)
EXTENDS Naturals, Sequences

CONSTANT Event          \* the events of one turn

Nothing == "nothing"    \* no settled promise
End == "end"            \* { done: true }
Error == "error"        \* a rejection

Queue == [pending : Seq(Event), waiting : BOOLEAN, ended : BOOLEAN, fatal : BOOLEAN,
          handed : Event \union {Nothing, End, Error}]

\* The generator calls next() in the step that creates the queue.
NewQueue == [pending |-> <<>>, waiting |-> TRUE, ended |-> FALSE, fatal |-> FALSE,
             handed |-> Nothing]

HandTo(q, v) == [q EXCEPT !.waiting = FALSE, !.handed = v]

\* Mutant: the one slot is written again before it is read.
PushedOver(q, e) == HandTo(q, e)

Pushed(q, e) ==
    IF q.waiting THEN HandTo(q, e) ELSE [q EXCEPT !.pending = Append(@, e)]

\* Mutant: the end does not wake the reader.
EndedQuietly(q) == [q EXCEPT !.ended = TRUE]

Ended(q) ==
    LET closed == [q EXCEPT !.ended = TRUE]
    IN  IF q.waiting THEN HandTo(closed, End) ELSE closed

Failed(q) ==
    LET closed == [q EXCEPT !.ended = TRUE, !.fatal = TRUE]
    IN  IF q.waiting THEN HandTo(closed, Error) ELSE closed

\* next(), called by a reader that has dealt with what it was handed.
Pulled(q) ==
    CASE q.pending # <<>> ->
            [q EXCEPT !.pending = Tail(@), !.handed = Head(q.pending)]
      [] q.pending = <<>> /\ q.fatal -> [q EXCEPT !.handed = Error]
      [] q.pending = <<>> /\ ~q.fatal /\ q.ended -> [q EXCEPT !.handed = End]
      [] OTHER -> [q EXCEPT !.handed = Nothing, !.waiting = TRUE]

-----------------------------------------------------------------------------
(* The queue as an EventChannel: what is pushed and not yet dealt with,    *)
(* and how the turn ended.                                                 *)
Contents(q) == IF q.handed \in Event THEN <<q.handed>> \o q.pending ELSE q.pending
Outcome(q, told) ==
    CASE told -> "told"
      [] ~told /\ q.fatal -> "failed"
      [] ~told /\ ~q.fatal /\ q.ended -> "ended"
      [] OTHER -> "open"
=============================================================================
