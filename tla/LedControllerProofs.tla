------------------------ MODULE LedControllerProofs ------------------------
(***************************************************************************)
(* What holds of the effect queue when a single thread adds effects, for   *)
(* every number of effects and every limit.  With two such threads it does *)
(* not hold: that is what the run of two producers shows.                  *)
(***************************************************************************)
EXTENDS LedController, FunctionTheorems, FiniteSetTheorems, SequenceTheorems, TLAPS

\* main() adds effects while no web socket client does, or the other way round.
OneProducer == \A p, q \in PRODUCERS : p = q

\* The effects that entered the queue before the n-th one.
Before(n) == {slot[k] : k \in 0 .. n - 1}

\* What the thread that adds an effect may rely on at each of its steps: the
\* size it has read can only have become smaller since, and the end of the
\* queue that it has read is still the end.
AddingInv ==
  \A p \in PRODUCERS :
    /\ adder[p] = "idle" => held[p] = NONE
    /\ adder[p] = "configure" => held[p] \in EFFECTS \ configured
    /\ adder[p] \in {"size", "push", "publish"} =>
         held[p] \in configured \ (refused \cup Before(last))
    /\ adder[p] \in {"push", "publish"} => last - first < QUEUE_LIMIT
    /\ adder[p] = "publish" => end[p] = last /\ slot[last] = held[p]

\* The slots hold what was handed over, each effect once.
SlotsInv ==
  /\ first <= last
  /\ last - first <= QUEUE_LIMIT
  /\ \A m, n \in 0 .. last - 1 : slot[m] = slot[n] => m = n
  /\ Before(last) \subseteq configured \ refused
  /\ refused \subseteq configured
  /\ configured \subseteq refused \cup Before(last) \cup {held[p] : p \in PRODUCERS}

\* The effect that plays has just left the queue, or is about to; all those
\* before it have been deleted.
Played == IF currentEffect = NONE \/ puller = "pop" THEN first ELSE first - 1

PlayingInv ==
  /\ puller = "pop" => first < last /\ currentEffect = slot[first]
  /\ puller # "pop" /\ currentEffect # NONE => first > 0 /\ currentEffect = slot[first - 1]
  /\ puller \in {"sent", "pop"} => currentEffect # NONE
  /\ isFinished <=> puller = "sent" /\ Finishes(currentEffect)
  /\ deleted = Before(Played)

QueueInv == TypeOK /\ AddingInv /\ SlotsInv /\ PlayingInv

-----------------------------------------------------------------------------
\* There is a slot for an effect that is handed over, and one after it: it is
\* not among those that entered the queue before it.
LEMMA SlotLeft ==
  ASSUME TypeOK, SlotsInv, NEW e \in EFFECTS, e \notin Before(last)
  PROVE  last + 1 \in Slot
<1> DEFINE entered == [n \in 0 .. last |-> IF n = last THEN e ELSE slot[n]]
<1>1. last \in Nat /\ Cardinality(EFFECTS) \in Nat
  BY ControllerAssumption, FS_CardinalityType DEF TypeOK, Slot
<1>2. \A n \in 0 .. last - 1 : slot[n] \in EFFECTS /\ slot[n] # e
  BY DEF SlotsInv, TypeOK, Before
<1>3. entered \in Injection(0 .. last, EFFECTS)
  BY <1>1, <1>2 DEF SlotsInv, Injection, IsInjective
<1>4. Cardinality(0 .. last) <= Cardinality(EFFECTS)
  BY <1>3, ControllerAssumption, FS_Injection
<1>5. Cardinality(0 .. last) = last + 1
  BY <1>1, FS_Interval
<1> QED
  BY <1>1, <1>4, <1>5 DEF Slot

LEMMA InitInv == Init => QueueInv
<1> SUFFICES ASSUME Init
             PROVE  QueueInv
  OBVIOUS
<1>1. Cardinality(EFFECTS) \in Nat
  BY ControllerAssumption, FS_CardinalityType
<1>2. TypeOK
  <2>1. 0 \in Slot
    BY <1>1 DEF Slot
  <2> QED
    BY <2>1 DEF Init, TypeOK
<1>3. \A n : n \notin 0 .. 0 - 1
  OBVIOUS
<1> QED
  BY <1>2, <1>3, ControllerAssumption
  DEF Init, QueueInv, AddingInv, SlotsInv, PlayingInv, Before, Played

-----------------------------------------------------------------------------
(* The thread that adds effects.                                           *)

LEMMA CreateInv ==
  ASSUME QueueInv, OneProducer, NEW p \in PRODUCERS, NEW e \in EFFECTS, Create(p, e)
  PROVE  QueueInv'
<1> USE DEF QueueInv, Create, Goto, queueVars, pullerVars
<1>1. TypeOK'
  BY DEF TypeOK
<1>2. AddingInv'
  BY DEF TypeOK, AddingInv, OneProducer
<1>3. SlotsInv'
  <2>1. held = [q \in PRODUCERS |-> NONE] /\ NONE \notin configured
    BY ControllerAssumption DEF TypeOK, AddingInv, OneProducer
  <2>2. configured \subseteq refused \cup Before(last)
    BY <2>1 DEF SlotsInv
  <2> QED
    BY <2>2 DEF SlotsInv, Before
<1>4. PlayingInv'
  BY DEF PlayingInv, Before, Played
<1> QED
  BY <1>1, <1>2, <1>3, <1>4

\* A thread that adds effects is alone: it holds what anybody holds.
LEMMA Alone ==
  ASSUME TypeOK, OneProducer, NEW p \in PRODUCERS
  PROVE  /\ {held[q] : q \in PRODUCERS} = {held[p]}
         /\ \A q \in PRODUCERS : q = p
BY DEF TypeOK, OneProducer

LEMMA ConfigureInv ==
  ASSUME QueueInv, OneProducer, NEW p \in PRODUCERS, Configure(p)
  PROVE  QueueInv'
<1> USE DEF QueueInv, Configure, Goto, queueVars, pullerVars
<1>1. held[p] \in EFFECTS \ configured
  BY DEF AddingInv
<1>2. TypeOK'
  BY <1>1 DEF TypeOK
<1>3. held[p] \notin refused \cup Before(last)
  BY <1>1 DEF SlotsInv
<1>4. AddingInv'
  BY <1>3, Alone DEF TypeOK, AddingInv, Before
<1>5. SlotsInv'
  BY <1>1, <1>3, Alone DEF TypeOK, SlotsInv, Before
<1>6. PlayingInv'
  BY DEF PlayingInv, Before, Played
<1> QED
  BY <1>2, <1>4, <1>5, <1>6

LEMMA CheckRoomInv ==
  ASSUME QueueInv, OneProducer, NEW p \in PRODUCERS, CheckRoom(p)
  PROVE  QueueInv'
<1> USE DEF QueueInv, CheckRoom, Goto, queueVars, pullerVars
<1>1. TypeOK'
  BY DEF TypeOK
<1>2. last - first < QUEUE_LIMIT
  BY ControllerAssumption DEF HasRoom
<1>3. AddingInv'
  BY <1>2, Alone DEF TypeOK, AddingInv, Before
<1>4. SlotsInv'
  BY DEF SlotsInv, Before
<1>5. PlayingInv'
  BY DEF PlayingInv, Before, Played
<1> QED
  BY <1>1, <1>3, <1>4, <1>5

LEMMA RefuseInv ==
  ASSUME QueueInv, OneProducer, NEW p \in PRODUCERS, Refuse(p)
  PROVE  QueueInv'
<1> USE DEF QueueInv, Refuse, Goto, queueVars, pullerVars
<1>1. held[p] \in configured \ Before(last)
  BY DEF AddingInv
<1>2. TypeOK'
  BY <1>1 DEF TypeOK
<1>3. AddingInv'
  BY Alone DEF TypeOK, AddingInv
<1>4. SlotsInv'
  BY <1>1, Alone DEF SlotsInv, Before
<1>5. PlayingInv'
  BY DEF PlayingInv, Before, Played
<1> QED
  BY <1>2, <1>3, <1>4, <1>5

\* Writing behind the end of the queue changes nothing before it.
LEMMA BeforeUntouched ==
  ASSUME TypeOK, NEW e, slot' = [slot EXCEPT ![last] = e]
  PROVE  /\ \A k \in 0 .. last - 1 : slot'[k] = slot[k]
         /\ \A n \in 0 .. last : {slot'[k] : k \in 0 .. n - 1} = Before(n)
<1>1. last \in Nat /\ Cardinality(EFFECTS) \in Nat
  BY ControllerAssumption, FS_CardinalityType DEF TypeOK, Slot
<1>2. \A k \in 0 .. last - 1 : slot'[k] = slot[k]
  BY <1>1 DEF TypeOK, Slot
<1> QED
  BY <1>1, <1>2 DEF Before

LEMMA WriteSlotInv ==
  ASSUME QueueInv, OneProducer, NEW p \in PRODUCERS, WriteSlot(p)
  PROVE  QueueInv'
<1> USE DEF QueueInv, WriteSlot, Goto, pullerVars
<1>1. held[p] \in configured \ (refused \cup Before(last)) /\ last - first < QUEUE_LIMIT
  BY DEF AddingInv
<1>2. TypeOK'
  BY <1>1 DEF TypeOK
<1>3. /\ \A k \in 0 .. last - 1 : slot'[k] = slot[k]
      /\ \A n \in 0 .. last : Before(n)' = Before(n)
  BY BeforeUntouched DEF Before
<1>4. first \in 0 .. last /\ last \in Nat
  BY ControllerAssumption, FS_CardinalityType DEF TypeOK, Slot, SlotsInv
<1>5. Before(last)' = Before(last)
  BY <1>3, <1>4
<1>6. AddingInv'
  BY <1>1, <1>5, Alone DEF TypeOK, AddingInv
<1>7. SlotsInv'
  BY <1>3, <1>5 DEF SlotsInv
<1>8. PlayingInv'
  <2>1. Played \in 0 .. last /\ Played' = Played
    BY <1>4 DEF PlayingInv, Played
  <2>2. Before(Played)' = Before(Played)
    BY <1>3, <2>1
  <2> QED
    BY <1>3, <1>4, <2>2 DEF PlayingInv
<1> QED
  BY <1>2, <1>6, <1>7, <1>8

LEMMA PublishInv ==
  ASSUME QueueInv, OneProducer, NEW p \in PRODUCERS, Publish(p)
  PROVE  QueueInv'
<1> USE DEF QueueInv, Publish, Goto, pullerVars
<1> DEFINE e == held[p]
<1>1. /\ e \in configured \ (refused \cup Before(last))
      /\ last - first < QUEUE_LIMIT
      /\ end[p] = last
      /\ slot[last] = e
  BY DEF AddingInv
<1>2. last' = last + 1 /\ last \in Nat /\ first \in 0 .. last
  BY <1>1, ControllerAssumption, FS_CardinalityType DEF TypeOK, Slot, SlotsInv
<1>3. last' \in Slot
  BY <1>1, <1>2, SlotLeft DEF TypeOK
<1>4. 0 \in Slot
  BY ControllerAssumption, FS_CardinalityType DEF Slot
<1>5. TypeOK'
  BY <1>3, <1>4 DEF TypeOK
<1>6. Before(last)' = Before(last) \cup {e}
  <2>1. 0 .. last' - 1 = (0 .. last - 1) \cup {last}
    BY <1>2
  <2>2. Before(last)' = {slot[k] : k \in 0 .. last' - 1}
    BY DEF Before
  <2> QED
    BY <1>1, <2>1, <2>2 DEF Before
<1>7. AddingInv'
  BY Alone DEF TypeOK, AddingInv
<1>8. SlotsInv'
  <2>1. \A m, n \in 0 .. last' - 1 : slot'[m] = slot'[n] => m = n
    BY <1>1, <1>2 DEF SlotsInv, Before
  <2>2. last' - first' <= QUEUE_LIMIT /\ first' <= last'
    BY <1>1, <1>2, ControllerAssumption
  <2> QED
    BY <1>1, <1>6, <2>1, <2>2, Alone DEF SlotsInv
<1>9. PlayingInv'
  <2>1. Played' = Played /\ Before(Played)' = Before(Played)
    BY DEF Played, Before
  <2> QED
    BY <1>2, <2>1 DEF PlayingInv
<1> QED
  BY <1>5, <1>7, <1>8, <1>9

-----------------------------------------------------------------------------
(* queuePuller.                                                            *)

\* The ends of the queue are natural numbers, and the effect that plays, if
\* any, is not among those deleted, but was handed over complete.
LEMMA Ends ==
  ASSUME QueueInv
  PROVE  /\ first \in Nat /\ last \in Nat
         /\ Played \in 0 .. first
         /\ first <= last
         /\ puller \in {"play", "sent", "pull", "pop"}
BY ControllerAssumption, FS_CardinalityType
DEF QueueInv, TypeOK, Slot, SlotsInv, PlayingInv, Played

LEMMA CurrentIsLive ==
  ASSUME QueueInv, currentEffect # NONE
  PROVE  /\ currentEffect = slot[Played]
         /\ Played < last
         /\ currentEffect \in configured \ deleted
<1>1. currentEffect = slot[Played] /\ Played < last /\ Played \in Nat /\ last \in Nat
  BY Ends DEF QueueInv, PlayingInv, Played
<1>2. slot[Played] \in Before(last)
  BY <1>1 DEF Before
<1>3. slot[Played] \notin Before(Played)
  BY <1>1 DEF QueueInv, SlotsInv, Before
<1> QED
  BY <1>1, <1>2, <1>3 DEF QueueInv, SlotsInv, PlayingInv

\* The queue's ends and its adder take no notice of what the puller does.
LEMMA PullerLocal ==
  ASSUME QueueInv, UNCHANGED <<adderVars, configured, refused, queueVars>>
  PROVE  /\ AddingInv' /\ SlotsInv'
         /\ \A n : Before(n)' = Before(n)
BY DEF QueueInv, AddingInv, SlotsInv, Before, adderVars, queueVars

LEMMA PlayInv ==
  ASSUME QueueInv, Update \/ NothingToPlay \/ NothingToPull
  PROVE  QueueInv'
<1> USE DEF Update, NothingToPlay, NothingToPull, adderVars, queueVars
<1>1. AddingInv' /\ SlotsInv' /\ \A n : Before(n)' = Before(n)
  BY PullerLocal
<1>2. TypeOK'
  BY DEF QueueInv, TypeOK, Finishes
<1>3. /\ puller # "pop" /\ puller' # "pop"
      /\ UNCHANGED <<currentEffect, first, slot, deleted>>
  OBVIOUS
<1>4. Before(Played)' = Before(Played)
  BY <1>3 DEF Before, Played
<1>5. /\ puller' \in {"sent", "pop"} => currentEffect' # NONE
      /\ isFinished' <=> puller' = "sent" /\ Finishes(currentEffect)'
  <2>1. CASE Update
    BY <2>1, Zenon DEF Finishes
  <2>2. CASE NothingToPlay \/ NothingToPull
    BY <2>2 DEF QueueInv, PlayingInv
  <2> QED
    BY <2>1, <2>2
<1>6. PlayingInv'
  BY <1>3, <1>4, <1>5 DEF QueueInv, PlayingInv
<1> QED
  BY <1>1, <1>2, <1>6 DEF QueueInv

LEMMA AfterSendInv ==
  ASSUME QueueInv, AfterSend
  PROVE  QueueInv'
<1> USE DEF AfterSend, adderVars, queueVars
<1>1. AddingInv' /\ SlotsInv' /\ \A n : Before(n)' = Before(n)
  BY PullerLocal
<1>2. /\ currentEffect \in configured \ deleted
      /\ currentEffect = slot[first - 1]
      /\ currentEffect # NONE
      /\ first - 1 \in Nat
      /\ Played = first - 1
  BY Ends, CurrentIsLive DEF QueueInv, PlayingInv, Played
<1>3. TypeOK'
  BY <1>2 DEF QueueInv, TypeOK, Dispose
<1>4. CASE isFinished
  <2>1. currentEffect' = NONE /\ deleted' = deleted \cup {currentEffect}
    BY <1>4 DEF Dispose
  <2>2. Before(first) = Before(first - 1) \cup {slot[first - 1]}
    <3>1. 0 .. first - 1 = (0 .. (first - 1) - 1) \cup {first - 1}
      BY <1>2, Ends
    <3> QED
      BY <3>1 DEF Before
  <2>3. deleted' = Before(Played)'
    BY <1>1, <1>2, <2>1, <2>2 DEF QueueInv, PlayingInv, Played, Before
  <2> QED
    BY <1>1, <1>3, <2>1, <2>3 DEF QueueInv, PlayingInv
<1>5. CASE ~isFinished
  <2>1. UNCHANGED <<currentEffect, deleted>>
    BY <1>5 DEF Dispose
  <2>2. Played' = Played
    BY <2>1 DEF Played
  <2> QED
    BY <1>1, <1>2, <1>3, <2>1, <2>2 DEF QueueInv, PlayingInv, Before
<1> QED
  BY <1>4, <1>5

LEMMA TakeFrontInv ==
  ASSUME QueueInv, TakeFront
  PROVE  QueueInv'
<1> USE DEF TakeFront, adderVars, queueVars
<1>1. AddingInv' /\ SlotsInv' /\ \A n : Before(n)' = Before(n)
  BY PullerLocal
<1>2. first < last /\ currentEffect' = slot[first]
  BY Ends DEF Front
<1>3. slot[first] \in configured
  BY <1>2, Ends DEF QueueInv, SlotsInv, Before
<1>4. TypeOK'
  BY <1>2, <1>3 DEF QueueInv, TypeOK
<1>5. currentEffect' # NONE
  BY <1>2, <1>3, ControllerAssumption DEF QueueInv, TypeOK
<1>6. PlayingInv'
  BY <1>1, <1>2, <1>5 DEF QueueInv, PlayingInv, Played, Before
<1> QED
  BY <1>1, <1>4, <1>6 DEF QueueInv

\* The limit holds on: an effect that leaves makes room.
LEMMA PopInv ==
  ASSUME QueueInv, Pop
  PROVE  QueueInv'
<1> USE DEF Pop, adderVars
<1>1. first' = first + 1 /\ first < last
  BY DEF QueueInv, PlayingInv, AfterPop
<1>2. TypeOK'
  <2>1. first + 1 \in Slot
    BY <1>1, Ends, ControllerAssumption, FS_CardinalityType DEF QueueInv, TypeOK, Slot
  <2> QED
    BY <1>1, <2>1 DEF QueueInv, TypeOK
<1>4. AddingInv'
  BY <1>1, Ends, ControllerAssumption DEF QueueInv, AddingInv, Before
<1>5. SlotsInv'
  BY <1>1, Ends, ControllerAssumption DEF QueueInv, SlotsInv, Before
<1>6. PlayingInv'
  <2>1. Played' = Played /\ first' - 1 = first
    BY <1>1, Ends DEF QueueInv, PlayingInv, Played
  <2>2. Before(Played)' = Before(Played)
    BY <2>1 DEF Before
  <2> QED
    BY <1>1, <2>1, <2>2, Ends DEF QueueInv, PlayingInv
<1> QED
  BY <1>2, <1>4, <1>5, <1>6 DEF QueueInv

LEMMA QueueNextInv ==
  ASSUME QueueInv, OneProducer, [Next]_vars
  PROVE  QueueInv'
<1>1. CASE \E p \in PRODUCERS : Add(p) \/ \E e \in EFFECTS : Create(p, e)
  BY <1>1, CreateInv, ConfigureInv, CheckRoomInv, RefuseInv, WriteSlotInv, PublishInv DEF Add
<1>2. CASE Pull
  BY <1>2, PlayInv, AfterSendInv, TakeFrontInv, PopInv DEF Pull
<1>3. CASE UNCHANGED vars
  BY <1>3
  DEF QueueInv, TypeOK, AddingInv, SlotsInv, PlayingInv, Before, Played, vars, adderVars,
      queueVars, pullerVars
<1> QED
  BY <1>1, <1>2, <1>3 DEF Next

\* The inductive invariant, as long as one thread at a time adds effects.
THEOREM QueueInvariant == ASSUME OneProducer PROVE Spec => []QueueInv
<1>1. QueueInv /\ [Next]_vars => QueueInv'
  BY QueueNextInv
<1> QED
  BY <1>1, InitInv, PTL DEF Spec

-----------------------------------------------------------------------------
\* Every variable of the queue has its type: no slot outside the queue's memory
\* is ever written or read.
THEOREM QueueTypeCorrect == ASSUME OneProducer PROVE Spec => []TypeOK
<1>1. QueueInv => TypeOK
  BY DEF QueueInv
<1> QED
  BY <1>1, QueueInvariant, PTL

\* queuePuller calls update() on, and deletes, only effects that were handed
\* over complete and that it has not deleted (LedController.cpp:45-76).
THEOREM EffectsAlive == ASSUME OneProducer PROVE Spec => []PlaysLiveEffects
<1>1. QueueInv => PlaysLiveEffects
  BY CurrentIsLive DEF PlaysLiveEffects
<1> QED
  BY <1>1, QueueInvariant, PTL

\* The size that addEffect reads is never out of date in the wrong direction
\* (LedController.cpp:83-84): the queue keeps to its limit.
THEOREM LimitHolds == ASSUME OneProducer PROVE Spec => []LimitKept
<1>1. QueueInv => LimitKept
  BY DEF QueueInv, SlotsInv, LimitKept
<1> QED
  BY <1>1, QueueInvariant, PTL

\* The effects that wait, and those that have left the queue.
LEMMA WaitingAndGone ==
  ASSUME QueueInv
  PROVE  /\ Before(last) = Before(first) \cup Waiting
         /\ Waiting \cap Before(first) = {}
         /\ Before(first) = deleted \cup ({Playing} \ {NONE})
         /\ Playing \notin deleted
<1>1. first \in Nat /\ last \in Nat /\ first <= last /\ Played \in 0 .. first
  BY Ends
<1>2. 0 .. last - 1 = (0 .. first - 1) \cup (first .. last - 1)
  BY <1>1
<1>3. Before(last) = Before(first) \cup Waiting
  BY <1>2 DEF Before, Waiting
<1>4. Waiting \cap Before(first) = {}
  BY <1>1 DEF QueueInv, SlotsInv, Before, Waiting
<1>5. deleted \subseteq EFFECTS /\ NONE \notin deleted
  BY ControllerAssumption DEF QueueInv, TypeOK
<1>6. Before(first) = deleted \cup ({Playing} \ {NONE}) /\ Playing \notin deleted
  <2>1. CASE Playing = NONE
    BY <1>5, <2>1 DEF QueueInv, PlayingInv, Playing, Played
  <2>2. CASE Playing # NONE
    <3>1. /\ Played = first - 1
          /\ first > 0
          /\ currentEffect = Playing
          /\ Playing = slot[first - 1]
      BY <2>2 DEF QueueInv, PlayingInv, Playing, Played
    <3>2. 0 .. first - 1 = (0 .. (first - 1) - 1) \cup {first - 1}
      BY <1>1, <3>1
    <3>3. Before(first) = deleted \cup {Playing}
      BY <3>1, <3>2 DEF QueueInv, PlayingInv, Before
    <3> QED
      BY <2>2, <3>1, <3>3, CurrentIsLive
  <2> QED
    BY <2>1, <2>2
<1> QED
  BY <1>3, <1>4, <1>6

LEMMA WaitingCardinality ==
  ASSUME QueueInv
  PROVE  Cardinality(Waiting) = last - first
<1> DEFINE waits == [n \in first .. last - 1 |-> slot[n]]
<1>1. first \in Nat /\ last \in Nat /\ first <= last
  BY Ends
<1>2. waits \in Bijection(first .. last - 1, Waiting)
  BY <1>1 DEF QueueInv, SlotsInv, Waiting, Bijection, Injection, Surjection, IsInjective
<1>3. IsFiniteSet(first .. last - 1) /\ Cardinality(first .. last - 1) = last - first
  <2> DEFINE top == last - 1
  <2>1. top \in Int
    BY <1>1
  <2> HIDE DEF top
  <2>2. /\ IsFiniteSet(first .. top)
        /\ Cardinality(first .. top) = IF first > top THEN 0 ELSE top - first + 1
    BY <1>1, <2>1, FS_Interval
  <2> QED
    BY <1>1, <2>2 DEF top
<1> HIDE DEF waits
<1>4. ExistsBijection(first .. last - 1, Waiting)
  BY <1>2 DEF ExistsBijection
<1> QED
  BY <1>3, <1>4, FS_Bijection

\* An effect is always in exactly one place: nothing but the thread that adds
\* it, the queue, the player, or the list of the deleted ever holds it.
THEOREM EffectsOwnedOnce == ASSUME OneProducer PROVE Spec => []OneOwner
<1>1. QueueInv => OneOwner
  <2> SUFFICES ASSUME QueueInv
               PROVE  OneOwner
    OBVIOUS
  <2>1. configured \subseteq EFFECTS /\ NONE \notin EFFECTS
    BY ControllerAssumption DEF QueueInv, TypeOK
  <2>2. configured \subseteq BeingAdded \cup refused \cup Before(last)
    BY <2>1 DEF QueueInv, SlotsInv, BeingAdded
  <2>3. Before(last) \subseteq Waiting \cup deleted \cup {Playing}
    BY WaitingAndGone
  <2>4. Waiting \cap (refused \cup deleted \cup {Playing}) = {}
    BY <2>1, WaitingAndGone DEF QueueInv, SlotsInv
  <2>5. refused \cap (deleted \cup {Playing}) = {}
    BY <2>1, WaitingAndGone DEF QueueInv, SlotsInv
  <2> QED
    BY <2>2, <2>3, <2>4, <2>5, WaitingCardinality DEF OneOwner
<1> QED
  BY <1>1, QueueInvariant, PTL

-----------------------------------------------------------------------------
(* The queue implements the bounded FIFO: Publish accepts an effect, Refuse *)
(* refuses it, Pop plays it, AfterSend finishes it; all else is a stutter.  *)

WaitingSeq == [n \in 1 .. last - first |-> slot[first + n - 1]]

LEMMA WaitingSeqType ==
  ASSUME QueueInv
  PROVE  /\ WaitingSeq \in Seq(EFFECTS)
         /\ Len(WaitingSeq) = last - first
         /\ {WaitingSeq[n] : n \in DOMAIN WaitingSeq} = Waiting
<1>1. first \in Nat /\ last \in Nat /\ first <= last /\ last - first \in Nat
  BY Ends
<1>2. \A n \in 1 .. last - first : slot[first + n - 1] \in EFFECTS
  BY <1>1 DEF QueueInv, TypeOK, SlotsInv, Before
<1>3. \A k \in first .. last - 1 : k = first + (k - first + 1) - 1
                               /\ k - first + 1 \in 1 .. last - first
  BY <1>1
<1>4. \A n \in 1 .. last - first : first + n - 1 \in first .. last - 1
  BY <1>1
<1>5. {WaitingSeq[n] : n \in DOMAIN WaitingSeq} = Waiting
  BY <1>3, <1>4 DEF WaitingSeq, Waiting
<1>6. WaitingSeq \in Seq(EFFECTS)
  BY <1>1, <1>2 DEF WaitingSeq
<1>7. Len(WaitingSeq) = last - first
  BY <1>1, <1>2 DEF WaitingSeq
<1> QED
  BY <1>5, <1>6, <1>7

\* What the FIFO knows of an effect that is being added: nothing.
LEMMA HeldUnknown ==
  ASSUME QueueInv, NEW p \in PRODUCERS, adder[p] \in {"size", "push", "publish"}
  PROVE  held[p] \in EFFECTS /\ held[p] \notin Fifo!Known
<1>1. held[p] \in configured \ (refused \cup Before(last)) /\ held[p] \in EFFECTS
  BY DEF QueueInv, TypeOK, AddingInv
<1>2. held[p] # NONE
  BY <1>1, ControllerAssumption
<1>3. held[p] \notin Waiting \cup deleted \cup {Playing}
  BY <1>1, <1>2, WaitingAndGone
<1> QED
  BY <1>1, <1>3, WaitingSeqType DEF Fifo!Known, WaitingSeq

LEMMA PublishAccepts ==
  ASSUME QueueInv, NEW p \in PRODUCERS, Publish(p)
  PROVE  \E e \in EFFECTS : Fifo!Accept(e)
<1>1. /\ last' = last + 1
      /\ slot[last] = held[p]
      /\ last - first < QUEUE_LIMIT
      /\ first' = first /\ slot' = slot
      /\ held[p] \in EFFECTS
  BY HeldUnknown DEF QueueInv, AddingInv, Publish
<1>2. first \in Nat /\ last \in Nat /\ first <= last
  BY Ends
<1>3. WaitingSeq' = Append(WaitingSeq, held[p])
  <2>1. /\ WaitingSeq' = [n \in 1 .. last - first + 1 |-> slot[first + n - 1]]
        /\ last - first + 1 \in Nat
    BY <1>1, <1>2 DEF WaitingSeq
  <2>2. \A n \in 1 .. last - first + 1 :
          WaitingSeq'[n] = IF n = last - first + 1 THEN held[p] ELSE WaitingSeq[n]
    BY <1>1, <1>2 DEF WaitingSeq
  <2>3. \A n \in 1 .. last - first + 1 : slot[first + n - 1] \in EFFECTS
    BY <1>1, <1>2, <2>1, <2>2, WaitingSeqType, ElementOfSeq
  <2>4. WaitingSeq' \in Seq(EFFECTS) /\ Len(WaitingSeq') = last - first + 1
    BY <2>1, <2>3
  <2> DEFINE longer == Append(WaitingSeq, held[p])
  <2>5. /\ longer \in Seq(EFFECTS)
        /\ Len(longer) = last - first + 1
        /\ \A n \in 1 .. last - first + 1 :
             longer[n] = IF n = last - first + 1 THEN held[p] ELSE WaitingSeq[n]
    BY <1>1, <1>2, WaitingSeqType
  <2> HIDE DEF longer
  <2>6. longer = WaitingSeq'
    BY <2>2, <2>4, <2>5, SeqEqual
  <2> QED
    BY <2>6 DEF longer
<1>4. UNCHANGED <<Playing, refused, deleted>>
  BY DEF Publish, pullerVars, Playing
<1>5. held[p] \notin Fifo!Known
  BY HeldUnknown DEF Publish
<1> QED
  BY <1>1, <1>3, <1>4, <1>5, WaitingSeqType DEF Fifo!Accept, WaitingSeq

LEMMA RefuseRefuses ==
  ASSUME QueueInv, NEW p \in PRODUCERS, Refuse(p)
  PROVE  \E e \in EFFECTS : Fifo!Refuse(e)
<1>1. last - first >= QUEUE_LIMIT
  BY Ends, ControllerAssumption DEF Refuse, HasRoom
<1>2. UNCHANGED <<WaitingSeq, Playing, deleted>>
  BY DEF Refuse, queueVars, pullerVars, WaitingSeq, Playing
<1>3. held[p] \in EFFECTS \ Fifo!Known /\ refused' = refused \cup {held[p]}
  BY HeldUnknown DEF Refuse
<1> QED
  BY <1>1, <1>2, <1>3, WaitingSeqType DEF Fifo!Refuse, WaitingSeq

LEMMA PopPlays ==
  ASSUME QueueInv, Pop
  PROVE  Fifo!Play
<1>1. /\ first' = first + 1
      /\ first < last
      /\ last' = last /\ slot' = slot
      /\ currentEffect = slot[first]
      /\ Playing = NONE /\ Playing' = slot[first]
  BY DEF QueueInv, PlayingInv, Pop, AfterPop, Playing
<1>2. first \in Nat /\ last \in Nat
  BY Ends
<1>3. WaitingSeq \in Seq(EFFECTS) /\ Len(WaitingSeq) = last - first
  BY WaitingSeqType
<1>4. WaitingSeq # <<>> /\ Head(WaitingSeq) = slot[first]
  <2>1. WaitingSeq # <<>> /\ Head(WaitingSeq) = WaitingSeq[1]
    BY <1>1, <1>2, <1>3
  <2>2. WaitingSeq[1] = slot[first]
    BY <1>1, <1>2 DEF WaitingSeq
  <2> QED
    BY <2>1, <2>2
<1>5. WaitingSeq' = Tail(WaitingSeq)
  <2>1. /\ WaitingSeq' = [n \in 1 .. last - first - 1 |-> slot[first + 1 + n - 1]]
        /\ last - first - 1 \in Nat
    BY <1>1, <1>2 DEF WaitingSeq
  <2>2. \A n \in 1 .. last - first - 1 : WaitingSeq'[n] = WaitingSeq[n + 1]
    BY <1>1, <1>2, <2>1 DEF WaitingSeq
  <2>3. /\ Tail(WaitingSeq) \in Seq(EFFECTS)
        /\ Len(Tail(WaitingSeq)) = last - first - 1
        /\ \A n \in 1 .. last - first - 1 : Tail(WaitingSeq)[n] = WaitingSeq[n + 1]
    BY <1>2, <1>3, <1>4, HeadTailProperties
  <2>4. \A n \in 1 .. last - first - 1 : slot[first + 1 + n - 1] \in EFFECTS
    <3>1. \A n \in 1 .. last - first - 1 : n + 1 \in 1 .. Len(WaitingSeq)
      BY <1>2, <1>3
    <3>2. \A n \in 1 .. last - first - 1 : WaitingSeq[n + 1] \in EFFECTS
      BY <1>3, <3>1, ElementOfSeq
    <3> QED
      BY <2>1, <2>2, <3>2
  <2>5. WaitingSeq' \in Seq(EFFECTS) /\ Len(WaitingSeq') = last - first - 1
    BY <2>1, <2>4
  <2> QED
    BY <2>2, <2>3, <2>5, SeqEqual
<1>6. UNCHANGED <<refused, deleted>>
  BY DEF Pop
<1> QED
  BY <1>1, <1>4, <1>5, <1>6 DEF Fifo!Play, WaitingSeq

LEMMA AfterSendFinishes ==
  ASSUME QueueInv, AfterSend, isFinished
  PROVE  Fifo!Finish
<1>1. Playing = currentEffect /\ Playing' = NONE /\ deleted' = deleted \cup {Playing}
  BY DEF AfterSend, Dispose, Playing
<1>2. currentEffect \in EFFECTS \ ENDLESS
  BY CurrentIsLive DEF QueueInv, TypeOK, PlayingInv, Finishes
<1>3. UNCHANGED <<WaitingSeq, refused>>
  BY DEF AfterSend, queueVars, WaitingSeq
<1> QED
  BY <1>1, <1>2, <1>3 DEF Fifo!Finish, WaitingSeq

\* The steps in between change nothing that the FIFO knows of.
LEMMA OtherStutters ==
  ASSUME QueueInv,
         \/ \E p \in PRODUCERS : \/ Configure(p) \/ CheckRoom(p) \/ WriteSlot(p)
                                \/ \E e \in EFFECTS : Create(p, e)
         \/ Update \/ NothingToPlay \/ NothingToPull \/ TakeFront
         \/ AfterSend /\ ~isFinished
         \/ UNCHANGED vars
  PROVE  UNCHANGED <<WaitingSeq, Playing, refused, deleted>>
<1>1. CASE \E p \in PRODUCERS : WriteSlot(p)
  <2>1. PICK p \in PRODUCERS : WriteSlot(p)
    BY <1>1
  <2>2. \A k \in 0 .. last - 1 : slot'[k] = slot[k]
    BY <2>1, BeforeUntouched DEF QueueInv, WriteSlot
  <2>3. first' = first /\ last' = last /\ first \in Nat /\ last \in Nat
    BY <2>1, Ends DEF WriteSlot
  <2>4. \A n \in 1 .. last - first : slot'[first + n - 1] = slot[first + n - 1]
    BY <2>2, <2>3
  <2>5. WaitingSeq' = WaitingSeq
    BY <2>3, <2>4 DEF WaitingSeq
  <2> QED
    BY <2>1, <2>5 DEF WriteSlot, pullerVars, Playing
<1>2. CASE ~ \E p \in PRODUCERS : WriteSlot(p)
  BY <1>2
  DEF Configure, CheckRoom, Create, Update, NothingToPlay, NothingToPull, TakeFront, AfterSend,
      Dispose, vars, adderVars, queueVars, pullerVars, WaitingSeq, Playing, QueueInv, PlayingInv
<1> QED
  BY <1>1, <1>2

\* Without its fairness, BoundedFifo: as long as one thread at a time adds
\* effects, they are played one at a time in the order in which they were
\* accepted, and refused only when QUEUE_LIMIT are waiting.
THEOREM QueueIsFifo == ASSUME OneProducer PROVE Spec => Fifo!Safety
<1>1. Init => Fifo!Init
  BY DEF Init, Fifo!Init, Playing
<1>2. QueueInv /\ [Next]_vars => [Fifo!Next]_(Fifo!fifoVars)
  <2> SUFFICES ASSUME QueueInv, [Next]_vars
               PROVE  Fifo!Next \/ UNCHANGED Fifo!fifoVars
    OBVIOUS
  <2>1. CASE \E p \in PRODUCERS : Publish(p)
    BY <2>1, PublishAccepts DEF Fifo!Next
  <2>2. CASE \E p \in PRODUCERS : Refuse(p)
    BY <2>2, RefuseRefuses DEF Fifo!Next
  <2>3. CASE Pop
    BY <2>3, PopPlays DEF Fifo!Next
  <2>4. CASE AfterSend /\ isFinished
    BY <2>4, AfterSendFinishes DEF Fifo!Next
  <2>5. CASE ~ (\E p \in PRODUCERS : Publish(p) \/ Refuse(p)) /\ ~Pop
             /\ ~(AfterSend /\ isFinished)
    <3>1. UNCHANGED <<WaitingSeq, Playing, refused, deleted>>
      BY <2>5, OtherStutters DEF Next, Add, Pull
    <3> QED
      BY <3>1 DEF Fifo!fifoVars, WaitingSeq
  <2> QED
    BY <2>1, <2>2, <2>3, <2>4, <2>5
<1> QED
  BY <1>1, <1>2, QueueInvariant, PTL DEF Spec, Fifo!Safety
=============================================================================
