-------------------------------- MODULE Strip --------------------------------
(***************************************************************************)
(* One colour of one LED, all the way from the key or the client that asks  *)
(* for an effect to the light: the queue, the effect that computes pixels   *)
(* and the screen capture that writes into them, the frames that sendData   *)
(* copies them into, and the fade of module Fade at the other end.          *)
(*                                                                         *)
(* The queue and the line appear as what they promise: the bounded queue of *)
(* module EffectFifo, which LedController implements, and the channel of    *)
(* module FrameChannel, which SerialProtocol implements.  The LEDs and      *)
(* their colours do not influence each other.  A frame is copied while a    *)
(* capture may be writing: each LED's part of it is what that LED held when *)
(* the copy came by, so a torn frame is torn between LEDs, not within one.  *)
(***************************************************************************)
EXTENDS Fade, EffectColours, Sequences

CONSTANTS
  NUM_LEDS,        \* 62
  LED, PART,       \* the LED that is followed, and which of its three colours
  STATICS,         \* the colours that are asked for
  WHEEL, AMBIENT,  \* the effects that never end
  NONE,            \* nullptr
  QUEUE_LIMIT,     \* 10
  MAX_REQUESTS     \* bound on effects, speeds and pictures

ASSUME StripAssumption ==
  /\ NUM_LEDS \in Nat
  /\ LED \in 0 .. NUM_LEDS - 1
  /\ PART \in 1 .. 3
  /\ 0 \in COLOURS
  /\ STATICS \subseteq COLOURS
  /\ {WHEEL, AMBIENT, NONE} \cap COLOURS = {}
  /\ WHEEL # AMBIENT /\ NONE \notin {WHEEL, AMBIENT}
  /\ \A hue \in {NAN} \cup 0 .. CIRCLE : WheelColour(hue)[PART] \subseteq COLOURS
  /\ QUEUE_LIMIT \in Nat \ {0}
  /\ MAX_REQUESTS \in Nat

VARIABLES
  requests,        \* how many requests there have been
  effectsQueue, currentEffect,
  latest,          \* the latest effect that the queue has taken
  hue,             \* _hue of the current ColorWheel
  pixel,           \* the colour in pPixels
  offered, calling \* the frame of the latest sendData, and whether that goes on

queueVars == <<requests, effectsQueue, currentEffect, latest>>
frameVars == <<hue, pixel, offered, calling>>
stripVars == <<vars, queueVars, frameVars>>

Channel == INSTANCE FrameChannel WITH Frames <- COLOURS, Dark <- 0, showing <- newState

StripInit ==
  /\ Init
  /\ requests = 0
  /\ effectsQueue = <<>>
  /\ currentEffect = NONE
  /\ latest = 0
  /\ hue = 0
  /\ pixel = 0
  /\ offered = 0
  /\ calling = FALSE

Request == requests < MAX_REQUESTS /\ requests' = requests + 1

\* A StaticColor of colour e, or one of the two others.
AddEffect(e) ==
  /\ Request
  /\ IF Len(effectsQueue) < QUEUE_LIMIT
       THEN effectsQueue' = Append(effectsQueue, e) /\ latest' = e
       ELSE UNCHANGED <<effectsQueue, latest>>
  /\ UNCHANGED <<vars, frameVars, currentEffect>>

\* The constructor of ColorWheel leaves _hue as it finds it.
PullEffect ==
  /\ currentEffect = NONE
  /\ effectsQueue # <<>>
  /\ currentEffect' = Head(effectsQueue)
  /\ effectsQueue' = Tail(effectsQueue)
  /\ hue' \in IF Head(effectsQueue) = WHEEL THEN START_HUES ELSE {hue}
  /\ UNCHANGED <<vars, requests, latest, pixel, offered, calling>>

\* Mutant: the pixels are copied before update() has changed them.
Copied_Early == pixel

Copied == pixel'

\* update(), and sendData as far as it copies the pixels.
SendFrame ==
  /\ currentEffect # NONE
  /\ CASE currentEffect = WHEEL -> pixel' \in WheelColour(HueAfter(hue, LED + 1))[PART]
       [] currentEffect = AMBIENT -> UNCHANGED pixel
       [] OTHER -> pixel' = currentEffect
  /\ Channel!Offer(Copied)
  /\ hue' = IF currentEffect = WHEEL THEN HueAfter(hue, NUM_LEDS) ELSE hue
  /\ UNCHANGED <<currentState, lerpSpeed, queueVars>>

\* The frame reaches the sketch.
ShowFrame ==
  /\ calling
  /\ ProcessFrame(offered)
  /\ Channel!Show
  /\ UNCHANGED <<queueVars, hue, pixel>>

\* Mutant: the first update() of a capture ends it.
Finished_Ambient == currentEffect # WHEEL

\* What update() has returned.
Finished == currentEffect \notin {WHEEL, AMBIENT}

\* sendData returns, and an effect that has finished is deleted.
AfterSend ==
  /\ Channel!Return
  /\ currentEffect' = IF Finished THEN NONE ELSE currentEffect
  /\ UNCHANGED <<currentState, lerpSpeed, requests, effectsQueue, latest, hue, pixel>>

\* on_process of the capture that plays, at any moment.
PaintPicture(colour) ==
  /\ currentEffect = AMBIENT
  /\ Request
  /\ pixel' = colour
  /\ UNCHANGED <<vars, effectsQueue, currentEffect, latest, hue, offered, calling>>

\* A speed key, pressed while no frame is under way: what comes of one that is
\* pressed meanwhile is a question about the line (module SerialProtocol).
PressSpeedKey(value) ==
  /\ ~calling
  /\ Request
  /\ ApplySetting(value)
  /\ UNCHANGED <<effectsQueue, currentEffect, latest, frameVars>>

Refresh == UpdateLeds /\ UNCHANGED <<queueVars, frameVars>>

StripNext ==
  \/ \E e \in STATICS \cup {WHEEL, AMBIENT} : AddEffect(e)
  \/ PullEffect
  \/ SendFrame
  \/ ShowFrame
  \/ AfterSend
  \/ \E colour \in STATICS : PaintPicture(colour)
  \/ \E value \in SPEEDS : PressSpeedKey(value)
  \/ Refresh

\* queuePuller runs on, the line keeps its promise, and so does loop().
StripSpec ==
  /\ StripInit
  /\ [][StripNext]_stripVars
  /\ WF_stripVars(PullEffect)
  /\ WF_stripVars(SendFrame)
  /\ WF_stripVars(ShowFrame)
  /\ WF_stripVars(AfterSend)
  /\ WF_stripVars(Refresh)

-----------------------------------------------------------------------------
\* The type of every variable on the way to the fade.  Whatever the memory held
\* where a ColorWheel was put, after one pass its hue is in the circle, or it is
\* not a number and stays so.
StripTypeOK ==
  /\ requests \in 0 .. MAX_REQUESTS
  /\ effectsQueue \in Seq(STATICS \cup {WHEEL, AMBIENT})
  /\ Len(effectsQueue) <= QUEUE_LIMIT
  /\ currentEffect \in STATICS \cup {WHEEL, AMBIENT, NONE}
  /\ hue \in START_HUES \cup 0 .. CIRCLE
  /\ calling /\ currentEffect = WHEEL => InCircle(hue)
  /\ pixel \in COLOURS
  /\ offered \in COLOURS
  /\ calling \in BOOLEAN

\* In a frame of the wheel an LED and the next one differ no more than their hues
\* do, across every border between the parts of the circle and where it closes,
\* whatever the hue started from and however the floats are rounded.
WheelSmooth ==
  [][currentEffect = WHEEL /\ ~calling /\ calling' /\ LED + 1 < NUM_LEDS =>
       \A next \in WheelColour(HueAfter(hue, LED + 2))[PART] :
         Abs(next - pixel') <= WheelSlack]_stripVars

\* When nothing plays and nothing waits, the strip shows what was asked for last,
\* of all the effects there was room for.
LatestWins == currentEffect = NONE /\ effectsQueue = <<>> => newState = latest

\* In the end the strip shows what was asked for last: a static colour once the
\* effects before it have been played, or the latest picture of a capture, also if
\* the last frame was copied while that picture was being painted; unless an
\* effect that never ends is in the way.
Wanted == IF currentEffect = AMBIENT THEN pixel ELSE latest
StripFollows == <>[](newState = Wanted) \/ <>[](currentEffect = WHEEL)
=============================================================================
