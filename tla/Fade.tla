-------------------------------- MODULE Fade --------------------------------
(***************************************************************************)
(* updateLeds() of arduino/arduino.ino, which every 16 ms moves each colour *)
(* of each LED a part of the way to the colour of the latest frame.  The    *)
(* colours do not influence each other, so one of them is modelled.         *)
(*                                                                         *)
(* lerpSpeed is a float: 0.1 at first, a byte divided by 255 later.  It is  *)
(* counted in units of 1/510, as in module Firmware.                        *)
(***************************************************************************)
EXTENDS Integers

CONSTANTS
  COLOURS,         \* the values that frames carry
  SPEEDS           \* the speeds that settings carry

ASSUME FadeAssumption ==
  /\ COLOURS \subseteq 0 .. 255
  /\ SPEEDS \subseteq 1 .. 255

VARIABLES
  currentState,    \* what the LED shows
  newState,        \* what the latest frame says
  lerpSpeed

vars == <<currentState, newState, lerpSpeed>>

ONE == 510

\* FastLED.clear(), and the sketch's globals.
Init ==
  /\ currentState = 0
  /\ newState = 0
  /\ lerpSpeed = 51

\* a + (b - a) * lerpSpeed, in the units of lerpSpeed.
Exact(a, b) == ONE * a + (b - a) * lerpSpeed

\* Mutant: the sum is rounded up.
Lerp_Ceiling(a, b) == {(Exact(a, b) + ONE) \div ONE}

\* Mutant: the difference is cut off, not the sum.
Lerp_CutsDifference(a, b) ==
  IF b >= a THEN {a + ((b - a) * lerpSpeed) \div ONE}
            ELSE {a - ((a - b) * lerpSpeed) \div ONE}

\* (uint8_t)lerp(a, b) cuts off the fraction.  When there is none, a multiply
\* and add in one float operation may come out just below the whole number.
Lerp(a, b) ==
  LET value == Exact(a, b) \div ONE
  IN  IF a # b /\ lerpSpeed # ONE /\ Exact(a, b) % ONE = 0
        THEN {value - 1, value}
        ELSE {value}

UpdateLeds ==
  /\ currentState' \in Lerp(currentState, newState)
  /\ UNCHANGED <<newState, lerpSpeed>>

\* processFrame and applySetting.
ProcessFrame(colour) ==
  /\ newState' = colour
  /\ UNCHANGED <<currentState, lerpSpeed>>

ApplySetting(speed) ==
  /\ lerpSpeed' = 2 * speed
  /\ UNCHANGED <<currentState, newState>>

Next ==
  \/ UpdateLeds
  \/ \E colour \in COLOURS : ProcessFrame(colour)
  \/ \E speed \in SPEEDS : ApplySetting(speed)

\* loop() calls updateLeds for ever.
Spec == Init /\ [][Next]_vars /\ WF_vars(UpdateLeds)

-----------------------------------------------------------------------------
\* The type of every variable: what the LED shows fits in a byte.
TypeOK ==
  /\ currentState \in 0 .. 255
  /\ newState \in 0 .. 255
  /\ lerpSpeed \in 1 .. ONE

Between(a, x, b) == (a <= x /\ x <= b) \/ (b <= x /\ x <= a)

\* A step of the fade never leads past the colour it fades to, nor away from
\* it, nor out of a byte.
NoOvershoot ==
  [][Between(currentState, currentState', newState)]_currentState

\* What a fade may leave: nothing when it goes down, and when it goes up less
\* than the difference of which lerpSpeed still makes a whole step.
Settled ==
  /\ currentState <= newState
  /\ (newState - currentState) * lerpSpeed <= ONE

\* Unless frames and settings change it for ever, the fade comes that near, and
\* stays.
FadeSettles == []<><<<<newState, lerpSpeed>>' # <<newState, lerpSpeed>>>>_vars \/ <>[]Settled
=============================================================================
