---------------------------- MODULE AmbientLight ----------------------------
(***************************************************************************)
(* The screen-capturing effect of src/Effects/AmbientLight.cpp.  Each such  *)
(* effect has three threads on it: its own worker, on which the desktop     *)
(* portal asks the user and the capture is set up; PipeWire's thread, which *)
(* delivers pictures; and queuePuller, which calls update() once the effect *)
(* is the current one.  No lock is common to them.                          *)
(*                                                                         *)
(* The effect queue is that of module LedController, in steps of a whole    *)
(* call: what matters here is when an effect becomes the current one.       *)
(***************************************************************************)
EXTENDS ScreenZones, Sequences, FiniteSets

CONSTANTS
  LIGHTS,            \* the effects that key 6 creates
  QUEUE_LIMIT,       \* 10
  NONE,
  WHEEL,             \* another effect, which never ends either
  PICTURES           \* the sizes and formats of pictures

ASSUME LightAssumption ==
  /\ IsFiniteSet(LIGHTS)
  /\ QUEUE_LIMIT \in Nat
  /\ {NONE, WHEEL} \cap LIGHTS = {}
  /\ NONE # WHEEL
  /\ NONE \notin PICTURES
  /\ \A picture \in PICTURES : picture.format \in Offered

VARIABLES
  adding,            \* the effect main() has created and not yet added
  effectsQueue,
  currentEffect,
  worker,            \* where the worker of each effect is
  locked,            \* effects that hold the lock of their PipeWire loop
  update,            \* how far update() of each effect has come
  format,            \* the picture negotiated with PipeWire, or NONE
  painter,           \* the effect whose colours the strip shows, or NONE
  crashed            \* a null pointer has been used

queueVars == <<adding, effectsQueue, currentEffect>>
captureVars == <<worker, locked, format>>
vars == <<queueVars, captureVars, update, painter, crashed>>

Init ==
  /\ adding = NONE
  /\ effectsQueue = <<>>
  /\ currentEffect \in {NONE, WHEEL}
  /\ worker = [a \in LIGHTS |-> "none"]
  /\ locked = {}
  /\ update = [a \in LIGHTS |-> "not called"]
  /\ format = [a \in LIGHTS |-> NONE]
  /\ painter = NONE
  /\ crashed = FALSE

-----------------------------------------------------------------------------
(* main() and queuePuller.                                                 *)

\* The constructor starts the worker.
Construct(a) ==
  /\ ~crashed
  /\ adding = NONE
  /\ worker[a] = "none"
  /\ adding' = a
  /\ worker' = [worker EXCEPT ![a] = "start"]
  /\ UNCHANGED <<effectsQueue, currentEffect, locked, format, update, painter, crashed>>

\* Mutant: the limit is taken for the largest size before a push.
HasRoom_OneMore == Len(effectsQueue) <= QUEUE_LIMIT

HasRoom == Len(effectsQueue) < QUEUE_LIMIT

\* Nothing is done about an effect for which there is no room.
AddEffect ==
  /\ ~crashed
  /\ adding # NONE
  /\ adding' = NONE
  /\ effectsQueue' = IF HasRoom THEN Append(effectsQueue, adding) ELSE effectsQueue
  /\ UNCHANGED <<currentEffect, captureVars, update, painter, crashed>>

PullEffect ==
  /\ ~crashed
  /\ currentEffect = NONE
  /\ effectsQueue # <<>>
  /\ currentEffect' = Head(effectsQueue)
  /\ effectsQueue' = Tail(effectsQueue)
  /\ UNCHANGED <<adding, captureVars, update, painter, crashed>>

\* The first update() of an effect sets its leds, then their ids, then the
\* flag; update() never ends the effect.
Update(a) ==
  /\ ~crashed
  /\ currentEffect = a
  /\ update[a] # "initialized"
  /\ update' = [update EXCEPT ![a] =
                  CASE @ = "not called" -> "leds"
                    [] @ = "leds" -> "ids"
                    [] @ = "ids" -> "initialized"]
  /\ UNCHANGED <<queueVars, captureVars, painter, crashed>>

-----------------------------------------------------------------------------
(* The worker, and the portal's callbacks on it.                           *)

WorkerGoes(a, from, to) ==
  /\ ~crashed
  /\ worker[a] = from
  /\ worker' = [worker EXCEPT ![a] = to]

WorkerThread(a) ==
  /\ WorkerGoes(a, "start", "creating")
  /\ UNCHANGED <<queueVars, locked, format, update, painter, crashed>>

\* An error ends the worker's loop, and with it the worker.
OnScreencastCreated(a) ==
  /\ WorkerGoes(a, "creating", "asking") \/ WorkerGoes(a, "creating", "ended")
  /\ UNCHANGED <<queueVars, locked, format, update, painter, crashed>>

\* The user may refuse, or share nothing: then the worker's loop runs on.
OnScreencastStart(a) ==
  /\ \/ WorkerGoes(a, "asking", "starting PipeWire")
     \/ WorkerGoes(a, "asking", "looping")
     \/ WorkerGoes(a, "asking", "ended")
  /\ UNCHANGED <<queueVars, locked, format, update, painter, crashed>>

\* start_pipewire: without a core it returns with the lock held.
LockLoop(a) ==
  /\ WorkerGoes(a, "starting PipeWire", "connecting")
  /\ locked' = locked \cup {a}
  /\ UNCHANGED <<queueVars, format, update, painter, crashed>>

ConnectCore(a) ==
  /\ WorkerGoes(a, "connecting", "connected") \/ WorkerGoes(a, "connecting", "looping")
  /\ UNCHANGED <<queueVars, locked, format, update, painter, crashed>>

\* Mutant: the lock is kept.
Unlocked_Not(a) == locked

Unlocked(a) == locked \ {a}

UnlockLoop(a) ==
  /\ WorkerGoes(a, "connected", "unlocked")
  /\ locked' = Unlocked(a)
  /\ UNCHANGED <<queueVars, format, update, painter, crashed>>

StartLoop(a) ==
  /\ WorkerGoes(a, "unlocked", "streaming")
  /\ UNCHANGED <<queueVars, locked, format, update, painter, crashed>>

-----------------------------------------------------------------------------
(* PipeWire's thread of the effect, which holds the lock in its callbacks. *)

Callback(a) == ~crashed /\ worker[a] = "streaming" /\ a \notin locked

OnParamChanged(a, picture) ==
  /\ Callback(a)
  /\ format' = [format EXCEPT ![a] = picture]
  /\ UNCHANGED <<queueVars, worker, locked, update, painter, crashed>>

\* The test at the beginning of on_process.
Paints(a, mapped) == mapped \/ update[a] = "initialized"

\* Mutant: update() is not needed to have leds.
HasLeds_Always(a) == TRUE

HasLeds(a) == update[a] # "not called"

\* A picture whose data may be mapped or not: both the picture and the leds are
\* used without a further test.
OnProcess(a, mapped) ==
  /\ Callback(a)
  /\ format[a] # NONE
  /\ Paints(a, mapped)
  /\ IF mapped /\ HasLeds(a)
       THEN painter' = a /\ UNCHANGED crashed
       ELSE crashed' = TRUE /\ UNCHANGED painter
  /\ UNCHANGED <<queueVars, captureVars, update>>

-----------------------------------------------------------------------------
WorkerStep(a) ==
  \/ WorkerThread(a)
  \/ OnScreencastCreated(a)
  \/ OnScreencastStart(a)
  \/ LockLoop(a)
  \/ ConnectCore(a)
  \/ UnlockLoop(a)
  \/ StartLoop(a)

Next ==
  \/ AddEffect
  \/ PullEffect
  \/ \E a \in LIGHTS :
       \/ Construct(a)
       \/ Update(a)
       \/ WorkerStep(a)
       \/ \E picture \in PICTURES : OnParamChanged(a, picture)
       \/ \E mapped \in BOOLEAN : OnProcess(a, mapped)

\* The program's threads run on, and PipeWire delivers pictures; whether the
\* user presses the key or answers the portal is theirs to decide.
Spec ==
  /\ Init
  /\ [][Next]_vars
  /\ WF_vars(AddEffect)
  /\ WF_vars(PullEffect)
  /\ \A a \in LIGHTS :
       /\ WF_vars(Update(a))
       /\ WF_vars(LockLoop(a) \/ ConnectCore(a) \/ UnlockLoop(a) \/ StartLoop(a))
       /\ WF_vars(\E picture \in PICTURES : OnParamChanged(a, picture))
       /\ WF_vars(OnProcess(a, TRUE))

-----------------------------------------------------------------------------
\* The type of every variable; the queue keeps to its limit.
TypeOK ==
  /\ adding \in LIGHTS \cup {NONE}
  /\ effectsQueue \in Seq(LIGHTS)
  /\ Len(effectsQueue) <= QUEUE_LIMIT
  /\ currentEffect \in LIGHTS \cup {NONE, WHEEL}
  /\ worker \in [LIGHTS -> {"none", "start", "creating", "asking", "looping", "ended",
                            "starting PipeWire", "connecting", "connected", "unlocked",
                            "streaming"}]
  /\ locked \subseteq LIGHTS
  /\ update \in [LIGHTS -> {"not called", "leds", "ids", "initialized"}]
  /\ format \in [LIGHTS -> PICTURES \cup {NONE}]
  /\ painter \in LIGHTS \cup {NONE}
  /\ crashed \in BOOLEAN

\* Whatever size and format are negotiated, on_process reads inside the picture,
\* takes no colour for another, and divides by the number of pixels it has added
\* up (see ZonesSound).
ReadsInsidePicture == \A a \in LIGHTS : format[a] # NONE => ZonesSound(format[a])

\* The LEDs follow the edge of the picture without a jump (see ZonesFollow).
StripFollowsEdge == \A a \in LIGHTS : format[a] # NONE => ZonesFollow(format[a])

\* The colours on the strip come from the effect that is the current one: one
\* that waits in the queue, or found it full, captures pictures all the same,
\* but never writes into the LEDs of the one that plays.
OnlyCurrentPaints == [][painter' # painter => painter' = currentEffect]_vars

\* An effect whose capture runs and which is the current one gets its colours
\* onto the strip, unless the program ends.
CurrentPaints ==
  \A a \in LIGHTS :
    worker[a] = "streaming" /\ currentEffect = a ~> painter = a \/ crashed
=============================================================================
