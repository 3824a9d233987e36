---------------------------- MODULE EffectColours ----------------------------
(***************************************************************************)
(* The colours of the rainbow effect: the hue that ColorWheel::update moves *)
(* on from LED to LED (include/Effects/ColorWheel.h), and Pixel::HSVtoRGB   *)
(* with the casts of sendData, which make bytes of its floats.              *)
(*                                                                         *)
(* Hues are counted in units as fine as one likes: with 2^149 of them in a  *)
(* degree every float is a whole number of units, the speed 0.05 of key 5   *)
(* as well as any hue.  The float that a sum of the two is rounded to is a  *)
(* parameter; the rounding of a colour leaves a choice of bytes.            *)
(***************************************************************************)
EXTENDS Integers

CONSTANTS
  DEGREE,          \* the units in a degree
  WHEEL_SPEED,     \* _speed: how far the hue moves per LED, in units
  START_HUES,      \* what may be where a new ColorWheel has its _hue
  Float(_),        \* the float that a number of units is rounded to
  ROUNDING,        \* how far that float may be off, within the circle
  NAN              \* the hue that is not a number

CIRCLE == 360 * DEGREE
SIXTH == 60 * DEGREE

ASSUME ColoursAssumption ==
  /\ DEGREE \in Nat \ {0}
  /\ WHEEL_SPEED \in 1 .. CIRCLE
  /\ NAN \notin Int
  /\ START_HUES \subseteq Int \cup {NAN}
  /\ ROUNDING \in Nat
  /\ \A hue \in START_HUES \ {NAN} : Float(hue + WHEEL_SPEED) \in Int
  /\ \A hue \in 0 .. CIRCLE :
       LET sum == hue + WHEEL_SPEED
       IN  Float(sum) \in (sum - ROUNDING) .. (sum + ROUNDING)

Abs(n) == IF n < 0 THEN -n ELSE n

\* Mutant: fmod(H / 60, 1), so X rises in every part of the circle.
Shares_Sawtooth(H) ==
  LET X == H % SIXTH
  IN  CASE H \in 0 .. SIXTH - 1             -> <<SIXTH, X, 0>>
        [] H \in SIXTH .. 2 * SIXTH - 1     -> <<X, SIXTH, 0>>
        [] H \in 2 * SIXTH .. 3 * SIXTH - 1 -> <<0, SIXTH, X>>
        [] H \in 3 * SIXTH .. 4 * SIXTH - 1 -> <<0, X, SIXTH>>
        [] H \in 4 * SIXTH .. 5 * SIXTH - 1 -> <<X, 0, SIXTH>>
        [] OTHER                            -> <<SIXTH, 0, X>>

\* r, g and b, where C is SIXTH.
Shares(H) ==
  LET X == SIXTH - Abs((H % (2 * SIXTH)) - SIXTH)
  IN  CASE H \in 0 .. SIXTH - 1             -> <<SIXTH, X, 0>>
        [] H \in SIXTH .. 2 * SIXTH - 1     -> <<X, SIXTH, 0>>
        [] H \in 2 * SIXTH .. 3 * SIXTH - 1 -> <<0, SIXTH, X>>
        [] H \in 3 * SIXTH .. 4 * SIXTH - 1 -> <<0, X, SIXTH>>
        [] H \in 4 * SIXTH .. 5 * SIXTH - 1 -> <<X, 0, SIXTH>>
        [] OTHER                            -> <<SIXTH, 0, X>>

\* (share * C + m) * 255, where BYTE stands for 1.
BYTE == 2000 * SIXTH
Value(share, S, V) == 51 * (S * V * share + SIXTH * (100 * V - S * V))

\* What sendData's cast may make of it.  It cuts off the fraction, and the float
\* is off by less than 1/5000.  Above 127 the cast to char is undefined in C++; the
\* code that compilers make of it keeps the low byte, which is the value itself.
FLOAT_ERROR == 24 * DEGREE
ColourBytes(share, S, V) ==
  {(Value(share, S, V) + e) \div BYTE : e \in {-FLOAT_ERROR, 0, FLOAT_ERROR}}

\* What the colours of a pixel may be after HSVtoRGB, if it was old before.  No
\* comparison with NAN holds, so it passes the test of the range and every
\* sector's but the last; X is NAN too, of which the cast makes 0 on an x86 host.
HSVtoRGB(H, S, V, old) ==
  CASE H = NAN -> <<ColourBytes(SIXTH, S, V), ColourBytes(0, S, V), {0}>>
    [] H # NAN /\ (H < 0 \/ H > CIRCLE) -> [k \in 1 .. 3 |-> {old[k]}]
    [] OTHER -> [k \in 1 .. 3 |-> ColourBytes(Shares(H)[k], S, V)]

\* Mutant: a hue below the circle stays there.
Wrapped_NoLowerBound == [hue \in Int |-> IF hue > CIRCLE THEN 0 ELSE hue]

\* A hue brought back into the circle.
Wrapped ==
  [hue \in Int |-> IF hue > CIRCLE THEN 0 ELSE IF hue < 0 THEN CIRCLE ELSE hue]

\* _hue += _speed.  What is not a number stays so, and no comparison with it holds.
NextHue ==
  [hue \in Int \cup {NAN} |-> IF hue = NAN THEN NAN ELSE Wrapped[Float(hue + WHEEL_SPEED)]]

\* The hue after a pass over n LEDs.
HueAfter(hue, n) ==
  LET after[k \in 0 .. n] == IF k = 0 THEN hue ELSE NextHue[after[k - 1]] IN after[n]

InCircle(hue) == hue = NAN \/ hue \in 0 .. CIRCLE

\* The wheel's colour at a hue in the circle.
WheelColour(hue) == HSVtoRGB(hue, 90, 90, <<0, 0, 0>>)

\* How much it may change from one LED to the next: C * 255 is just below 207, over
\* 60 degrees, and a byte is cut off.
WheelSlack == (207 * (WHEEL_SPEED + ROUNDING)) \div SIXTH + 1
=============================================================================
