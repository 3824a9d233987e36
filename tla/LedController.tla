--------------------------- MODULE LedController ---------------------------
(***************************************************************************)
(* The effect queue of src/LedController.cpp.  Threads that add effects    *)
(* (the key loop of main(), the web socket thread through                  *)
(* EffectDispatcher::dispatch) share a std::queue with the queuePuller     *)
(* thread, and no lock guards it: every access to the queue's two ends and *)
(* to its slots is a step of its own.                                      *)
(*                                                                         *)
(* slot, first and last are the deque below the queue: elements first ..   *)
(* last - 1 are in it, push writes slot[last] and then last, pop advances  *)
(* first.  A step is atomic and steps of a thread are seen in its program  *)
(* order, as on the x86 hosts the server is built for.                     *)
(***************************************************************************)
EXTENDS Integers, Sequences, FiniteSets

CONSTANTS
  EFFECTS, ENDLESS, QUEUE_LIMIT, NONE,    \* as in EffectFifo
  PRODUCERS,                              \* the threads that add effects
  GARBAGE                                 \* what a slot never written holds

ASSUME ControllerAssumption ==
  /\ IsFiniteSet(EFFECTS)
  /\ ENDLESS \subseteq EFFECTS
  /\ QUEUE_LIMIT \in Nat \ {0}
  /\ {NONE, GARBAGE} \cap EFFECTS = {}
  /\ NONE # GARBAGE

VARIABLES
  adder,          \* where each producer is in addEffect
  held,           \* the effect each producer is adding
  end,            \* the end of the queue each producer has read
  configured,     \* effects with setNumLeds and setOutputArr done
  refused,        \* effects that found the queue full; nobody deletes them
  slot, first, last,
  puller,         \* where queuePuller is
  currentEffect,
  isFinished,     \* what update() returned
  deleted

adderVars == <<adder, held, end>>
queueVars == <<slot, first, last>>
pullerVars == <<puller, currentEffect, isFinished, deleted>>
vars == <<adderVars, configured, refused, queueVars, pullerVars>>

\* Every effect is added once, so no slot beyond these is ever written; the
\* model stops following a puller that has run past them.
Slot == 0 .. Cardinality(EFFECTS)

Init ==
  /\ adder = [p \in PRODUCERS |-> "idle"]
  /\ held = [p \in PRODUCERS |-> NONE]
  /\ end = [p \in PRODUCERS |-> 0]
  /\ configured = {}
  /\ refused = {}
  /\ slot = [n \in Slot |-> GARBAGE]
  /\ first = 0
  /\ last = 0
  /\ puller = "play"
  /\ currentEffect = NONE
  /\ isFinished = FALSE
  /\ deleted = {}

-----------------------------------------------------------------------------
(* addEffect, on the thread of producer p.                                 *)

Goto(p, label) == adder' = [adder EXCEPT ![p] = label]

\* `new StaticColor' and its like: nobody else knows the effect yet.
Create(p, e) ==
  /\ adder[p] = "idle"
  /\ e \notin configured
  /\ \A other \in PRODUCERS : held[other] # e
  /\ held' = [held EXCEPT ![p] = e]
  /\ Goto(p, "configure")
  /\ UNCHANGED <<end, configured, refused, queueVars, pullerVars>>

Configure(p) ==
  /\ adder[p] = "configure"
  /\ configured' = configured \cup {held[p]}
  /\ Goto(p, "size")
  /\ UNCHANGED <<held, end, refused, queueVars, pullerVars>>

\* Mutant: one effect too many.
HasRoom_OneMore == last - first \in 0 .. QUEUE_LIMIT

\* size() is unsigned: ends that have crossed make it a huge number.
HasRoom == last - first \in 0 .. QUEUE_LIMIT - 1

CheckRoom(p) ==
  /\ adder[p] = "size"
  /\ HasRoom
  /\ Goto(p, "push")
  /\ UNCHANGED <<held, end, configured, refused, queueVars, pullerVars>>

\* The effect is dropped, not deleted.
Refuse(p) ==
  /\ adder[p] = "size"
  /\ ~HasRoom
  /\ refused' = refused \cup {held[p]}
  /\ held' = [held EXCEPT ![p] = NONE]
  /\ Goto(p, "idle")
  /\ UNCHANGED <<end, configured, queueVars, pullerVars>>

\* push: the element is written where the queue ends,
WriteSlot(p) ==
  /\ adder[p] = "push"
  /\ end' = [end EXCEPT ![p] = last]
  /\ slot' = [slot EXCEPT ![last] = held[p]]
  /\ Goto(p, "publish")
  /\ UNCHANGED <<held, configured, refused, first, last, pullerVars>>

\* and the end that was read then is moved on by one.
Publish(p) ==
  /\ adder[p] = "publish"
  /\ last' = end[p] + 1
  /\ end' = [end EXCEPT ![p] = 0]
  /\ held' = [held EXCEPT ![p] = NONE]
  /\ Goto(p, "idle")
  /\ UNCHANGED <<configured, refused, slot, first, pullerVars>>

-----------------------------------------------------------------------------
(* queuePuller: one pass of its loop, every 16 ms.                         *)

\* Mutant: update() never says that it has finished.
Finishes_Never(e) == FALSE

\* What update() returns.
Finishes(e) == e \notin ENDLESS

\* currentEffect->update() computes a frame; sendData sends it.
Update ==
  /\ puller = "play"
  /\ currentEffect # NONE
  /\ isFinished' = Finishes(currentEffect)
  /\ puller' = "sent"
  /\ UNCHANGED <<adderVars, configured, refused, queueVars, currentEffect, deleted>>

NothingToPlay ==
  /\ puller = "play"
  /\ currentEffect = NONE
  /\ puller' = "pull"
  /\ UNCHANGED <<adderVars, configured, refused, queueVars, currentEffect, isFinished, deleted>>

\* Mutant: the deleted effect stays current.
Dispose_Dangling ==
  /\ deleted' = IF isFinished THEN deleted \cup {currentEffect} ELSE deleted
  /\ UNCHANGED currentEffect

\* Mutant: every effect is deleted after its first frame.
Dispose_Always == deleted' = deleted \cup {currentEffect} /\ currentEffect' = NONE

\* A finished effect is deleted and forgotten.
Dispose ==
  IF isFinished THEN deleted' = deleted \cup {currentEffect} /\ currentEffect' = NONE
                ELSE UNCHANGED <<deleted, currentEffect>>

AfterSend ==
  /\ puller = "sent"
  /\ Dispose
  /\ isFinished' = FALSE
  /\ puller' = "pull"
  /\ UNCHANGED <<adderVars, configured, refused, queueVars>>

\* Nothing queued, or an effect that goes on: sleep until the next pass.
NothingToPull ==
  /\ puller = "pull"
  /\ first = last \/ currentEffect # NONE
  /\ puller' = "play"
  /\ UNCHANGED <<adderVars, configured, refused, queueVars, currentEffect, isFinished, deleted>>

\* Mutant: back() instead of front().
Front_Back == slot[last - 1]

Front == slot[first]

\* empty() compares the two ends; nothing says that first is the lower one.
TakeFront ==
  /\ puller = "pull"
  /\ first # last
  /\ first \in Slot
  /\ currentEffect = NONE
  /\ currentEffect' = Front
  /\ puller' = "pop"
  /\ UNCHANGED <<adderVars, configured, refused, queueVars, isFinished, deleted>>

\* Mutant: two elements are popped.
AfterPop_Two == first + 2

AfterPop == first + 1

Pop ==
  /\ puller = "pop"
  /\ first' = AfterPop
  /\ puller' = "play"
  /\ UNCHANGED <<adderVars, configured, refused, slot, last, currentEffect, isFinished, deleted>>

-----------------------------------------------------------------------------
Add(p) ==
  \/ Configure(p)
  \/ CheckRoom(p)
  \/ Refuse(p)
  \/ WriteSlot(p)
  \/ Publish(p)

Pull ==
  \/ Update
  \/ NothingToPlay
  \/ AfterSend
  \/ NothingToPull
  \/ TakeFront
  \/ Pop

Next ==
  \/ \E p \in PRODUCERS : Add(p) \/ \E e \in EFFECTS : Create(p, e)
  \/ Pull

\* The threads run on; nothing makes a user or a client ask for an effect.
Spec ==
  /\ Init
  /\ [][Next]_vars
  /\ WF_vars(Pull)
  /\ \A p \in PRODUCERS : WF_vars(Add(p))

-----------------------------------------------------------------------------
Waiting == {slot[n] : n \in first .. last - 1}
BeingAdded == {held[p] : p \in PRODUCERS} \ {NONE}
Playing == IF puller = "pop" THEN NONE ELSE currentEffect

\* The type of every variable.
TypeOK ==
  /\ adder \in [PRODUCERS -> {"idle", "configure", "size", "push", "publish"}]
  /\ held \in [PRODUCERS -> EFFECTS \cup {NONE}]
  /\ end \in [PRODUCERS -> Slot]
  /\ configured \subseteq EFFECTS
  /\ refused \subseteq EFFECTS
  /\ slot \in [Slot -> EFFECTS \cup {GARBAGE}]
  /\ first \in Slot
  /\ last \in Slot
  /\ puller \in {"play", "sent", "pull", "pop"}
  /\ currentEffect \in EFFECTS \cup {NONE, GARBAGE}
  /\ isFinished \in BOOLEAN
  /\ deleted \subseteq EFFECTS

\* What queuePuller calls update() on, and deletes, is an effect that was handed
\* over complete and has not been deleted: never an element that was not
\* written, or not configured, and never one it has already freed.
PlaysLiveEffects ==
  currentEffect # NONE => currentEffect \in configured \ deleted

\* Every effect that was created is in one place: with the thread that adds it,
\* refused, in one slot of the queue, being played, or deleted.
OneOwner ==
  /\ configured \subseteq BeingAdded \cup refused \cup Waiting \cup deleted \cup {Playing}
  /\ Cardinality(Waiting) = last - first
  /\ Waiting \cap (refused \cup deleted \cup {Playing}) = {}
  /\ refused \cap (deleted \cup {Playing}) = {}

\* The queue keeps to its limit although the size was read before the push.
LimitKept == last - first <= QUEUE_LIMIT

\* The queue is a bounded FIFO: effects are played one at a time, in the order
\* in which they were accepted, and refused only when QUEUE_LIMIT are waiting.
Fifo == INSTANCE EffectFifo WITH
          queue <- [n \in 1 .. last - first |-> slot[first + n - 1]],
          playing <- Playing,
          finished <- deleted
BoundedFifo == Fifo!Spec

\* An effect in the queue is played to its end and deleted, unless the queue is
\* held up by one that never ends, which then plays for ever.
EveryEffectEnds ==
  \A e \in EFFECTS :
    e \in Waiting ~> (e \in deleted \/ [](currentEffect \in ENDLESS))
=============================================================================
