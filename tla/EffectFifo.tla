----------------------------- MODULE EffectFifo -----------------------------
(***************************************************************************)
(* What LedController promises of the effects it is given: a queue of at   *)
(* most QUEUE_LIMIT effects, played one at a time in the order they were   *)
(* accepted, each of them disposed of once it has finished; an effect that *)
(* finds the queue full is refused.                                        *)
(***************************************************************************)
EXTENDS Naturals, Sequences

CONSTANTS
  EFFECTS,        \* the effects that are ever created
  ENDLESS,        \* those whose update() never returns true
  QUEUE_LIMIT,    \* 10
  NONE            \* nullptr

VARIABLES queue, playing, refused, finished

fifoVars == <<queue, playing, refused, finished>>

Known == {queue[n] : n \in DOMAIN queue} \cup refused \cup finished \cup {playing}

Init ==
  /\ queue = <<>>
  /\ playing = NONE
  /\ refused = {}
  /\ finished = {}

Accept(e) ==
  /\ e \notin Known
  /\ Len(queue) < QUEUE_LIMIT
  /\ queue' = Append(queue, e)
  /\ UNCHANGED <<playing, refused, finished>>

Refuse(e) ==
  /\ e \notin Known
  /\ Len(queue) >= QUEUE_LIMIT
  /\ refused' = refused \cup {e}
  /\ UNCHANGED <<queue, playing, finished>>

Play ==
  /\ playing = NONE
  /\ queue # <<>>
  /\ playing' = Head(queue)
  /\ queue' = Tail(queue)
  /\ UNCHANGED <<refused, finished>>

Finish ==
  /\ playing \in EFFECTS \ ENDLESS
  /\ finished' = finished \cup {playing}
  /\ playing' = NONE
  /\ UNCHANGED <<queue, refused>>

Next == Play \/ Finish \/ \E e \in EFFECTS : Accept(e) \/ Refuse(e)

\* What never happens, and with fairness what happens in the end.
Safety == Init /\ [][Next]_fifoVars
Spec == Safety /\ WF_fifoVars(Play) /\ WF_fifoVars(Finish)
=============================================================================
