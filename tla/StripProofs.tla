----------------------------- MODULE StripProofs -----------------------------
(***************************************************************************)
(* What holds of module Fade for all colours and speeds, and of module      *)
(* Strip, which extends it, for every strip, every set of colours, every    *)
(* speed of the wheel and every length of the queue.                        *)
(*                                                                         *)
(* The wheel needs an induction over the LEDs of a pass.  The induction     *)
(* theorems of the library take operators, which the provers cannot put in; *)
(* those about well-founded orderings take sets.  So a set of numbers has a *)
(* least element (Least), because the order of the numbers is well-founded, *)
(* and induction over a set of numbers (SetInduction) follows from that.    *)
(***************************************************************************)
EXTENDS Strip, WellFoundedInduction, SequenceTheorems, TLAPS

-----------------------------------------------------------------------------
(* The fade of one LED, module Fade.  TypeOK is inductive as it stands:     *)
(* what a step adds to the colour is a share of the difference, so the new  *)
(* colour lies between the two old ones (LerpBetween), both of which are    *)
(* bytes.  The same lemma gives the action property.  The product of        *)
(* difference and speed is bounded once (ShareBounds); the rest is linear.  *)

\* A share of a difference is no more than the difference, and not nothing.
LEMMA ShareBounds ==
  ASSUME NEW d \in Nat, NEW s \in 1 .. 510
  PROVE  /\ d * s \in Nat
         /\ d * s <= 510 * d
         /\ d <= d * s
         /\ d # 0 /\ s # 510 => d * s < 510 * d
<1>1. \E r \in Nat : 510 = s + r /\ (s # 510 => r # 0)
  <2>1. 510 - s \in Nat /\ 510 = s + (510 - s)
    OBVIOUS
  <2> QED
    BY <2>1
<1>2. PICK r \in Nat : 510 = s + r /\ (s # 510 => r # 0)
  BY <1>1
<1>3. 510 * d = d * s + d * r
  BY <1>2
<1>4. d * s \in Nat /\ d * r \in Nat
  OBVIOUS
<1>5. d <= d * s
  BY SMT
<1>6. d # 0 /\ s # 510 => d * r # 0
  BY <1>2, SMT
<1> QED
  BY <1>3, <1>4, <1>5, <1>6

\* The division of the cast, for every dividend.
LEMMA DivisionBounds ==
  ASSUME NEW x \in Int
  PROVE  /\ x \div 510 \in Int
         /\ 510 * (x \div 510) <= x
         /\ x < 510 * (x \div 510) + 510
         /\ x % 510 = 0 => x = 510 * (x \div 510)
OBVIOUS

\* What the fade shows next lies between what it shows and what it fades to.
LEMMA LerpBetween ==
  ASSUME lerpSpeed \in 1 .. ONE,
         NEW a \in Nat, NEW b \in Nat, NEW value \in Lerp(a, b)
  PROVE  value \in Int /\ Between(a, value, b)
<1> DEFINE x == Exact(a, b)
           q == x \div 510
<1>1. CASE a <= b
  <2> DEFINE p == (b - a) * lerpSpeed
  <2>1. b - a \in Nat
    BY <1>1
  <2>2. /\ p \in Nat
        /\ p <= 510 * (b - a)
        /\ b - a <= p
    BY <2>1, ShareBounds DEF ONE
  <2>3. x = 510 * a + p
    BY DEF Exact, ONE
  <2> HIDE DEF p, x
  <2>4. x \in Int
    BY <2>2, <2>3
  <2>5. /\ q \in Int
        /\ 510 * q <= x
        /\ x < 510 * q + 510
        /\ x % 510 = 0 => x = 510 * q
    BY <2>4, DivisionBounds
  <2>6. \/ value = q
        \/ value = q - 1 /\ a # b /\ x % 510 = 0
    BY DEF Lerp, ONE, x
  <2> HIDE DEF q
  <2>7. a <= q /\ q <= b
    BY <2>2, <2>3, <2>5
  <2>8. a # b /\ x % 510 = 0 => a <= q - 1
    BY <1>1, <2>2, <2>3, <2>5
  <2> QED
    BY <2>5, <2>6, <2>7, <2>8 DEF Between
<1>2. CASE b < a
  <2> DEFINE p == (a - b) * lerpSpeed
  <2>1. a - b \in Nat
    BY <1>2
  <2>2. /\ p \in Nat
        /\ p <= 510 * (a - b)
        /\ a - b <= p
        /\ lerpSpeed # 510 => p < 510 * (a - b)
    BY <1>2, <2>1, ShareBounds DEF ONE
  <2>3. x = 510 * a - p
    BY DEF Exact, ONE
  <2> HIDE DEF p, x
  <2>4. x \in Int
    BY <2>2, <2>3
  <2>5. /\ q \in Int
        /\ 510 * q <= x
        /\ x < 510 * q + 510
        /\ x % 510 = 0 => x = 510 * q
    BY <2>4, DivisionBounds
  <2>6. \/ value = q
        \/ value = q - 1 /\ lerpSpeed # 510 /\ x % 510 = 0
    BY DEF Lerp, ONE, x
  <2> HIDE DEF q
  <2>7. b <= q /\ q <= a
    BY <1>2, <2>2, <2>3, <2>5
  <2>8. lerpSpeed # 510 /\ x % 510 = 0 => b <= q - 1
    BY <2>2, <2>3, <2>5
  <2> QED
    BY <2>5, <2>6, <2>7, <2>8 DEF Between
<1> QED
  BY <1>1, <1>2

LEMMA InitType == Init => TypeOK
BY FadeAssumption DEF Init, TypeOK, ONE

\* One step, with what it means for the colour shown.
LEMMA StepBetween ==
  TypeOK /\ UpdateLeds => Between(currentState, currentState', newState)
<1> SUFFICES ASSUME TypeOK, UpdateLeds
             PROVE  Between(currentState, currentState', newState)
  OBVIOUS
<1> QED
  BY LerpBetween DEF TypeOK, UpdateLeds

LEMMA NextType == TypeOK /\ [Next]_vars => TypeOK'
<1> SUFFICES ASSUME TypeOK, [Next]_vars
             PROVE  TypeOK'
  OBVIOUS
<1>1. CASE UpdateLeds
  <2>1. currentState' \in Int
    BY <1>1, LerpBetween DEF TypeOK, UpdateLeds
  <2>2. currentState' \in 0 .. 255
    BY <1>1, <2>1, StepBetween DEF TypeOK, Between
  <2> QED
    BY <1>1, <2>2 DEF TypeOK, UpdateLeds
<1>2. ASSUME NEW colour \in COLOURS, ProcessFrame(colour)
      PROVE  TypeOK'
  BY <1>2, FadeAssumption DEF TypeOK, ProcessFrame
<1>3. ASSUME NEW speed \in SPEEDS, ApplySetting(speed)
      PROVE  TypeOK'
  BY <1>3, FadeAssumption DEF TypeOK, ApplySetting, ONE
<1>4. CASE UNCHANGED vars
  BY <1>4 DEF TypeOK, vars
<1> QED
  BY <1>1, <1>2, <1>3, <1>4 DEF Next

\* What an LED shows is a byte, for all colours and speeds (updateLeds).
THEOREM FadeTypeCorrect == Spec => []TypeOK
BY InitType, NextType, PTL DEF Spec

\* No step of the fade overshoots or turns back, for all colours and speeds,
\* whichever way the floats round.
THEOREM FadeNeverOvershoots == Spec => NoOvershoot
<1>1. TypeOK /\ [Next]_vars => [Between(currentState, currentState', newState)]_currentState
  BY StepBetween DEF Next, ProcessFrame, ApplySetting, vars
<1>2. Spec => [][Between(currentState, currentState', newState)]_currentState
  BY <1>1, FadeTypeCorrect, PTL DEF Spec
<1> QED
  BY <1>2 DEF NoOvershoot

-----------------------------------------------------------------------------
(* Induction.                                                               *)

\* A set of numbers that is not empty has a least element.
LEMMA Least ==
  ASSUME NEW T \in SUBSET Nat, T # {}
  PROVE  \E m \in T : \A k \in T : ~(k < m)
<1> DEFINE less == {pair \in Nat \X Nat : pair[1] < pair[2]}
<1>1. IsWellFoundedOn(less, Nat)
  BY NatLessThanWellFounded, Zenon DEF OpToRel
<1>2. \A k, m \in Nat : k < m => <<k, m>> \in less
  OBVIOUS
<1> HIDE DEF less
<1>3. PICK m \in T : \A k \in T : ~(<<k, m>> \in less)
  BY <1>1, WFMin
<1>4. \A k \in T : ~(k < m)
  <2> SUFFICES ASSUME NEW k \in T, k < m
               PROVE  FALSE
    OBVIOUS
  <2>1. k \in Nat /\ m \in Nat
    OBVIOUS
  <2> QED
    BY <1>2, <1>3, <2>1
<1> QED
  BY <1>4

\* What holds of 0, and of n + 1 when it holds of n, holds of every number.
LEMMA SetInduction ==
  ASSUME NEW S, 0 \in S, \A n \in Nat : n \in S => n + 1 \in S
  PROVE  Nat \subseteq S
<1> DEFINE T == Nat \ S
<1> SUFFICES ASSUME NEW n \in T
             PROVE  FALSE
  OBVIOUS
<1>1. T \in SUBSET Nat /\ T # {}
  OBVIOUS
<1> HIDE DEF T
<1>2. PICK m \in T : \A k \in T : ~(k < m)
  BY <1>1, Least
<1> USE DEF T
<1>3. m # 0 /\ m \in Nat
  BY <1>2
<1>4. m - 1 \in Nat /\ m - 1 < m /\ (m - 1) + 1 = m
  BY <1>3
<1>5. m - 1 \in S
  BY <1>2, <1>4
<1> QED
  BY <1>2, <1>4, <1>5

-----------------------------------------------------------------------------
(* The hues of a pass over the LEDs.                                        *)

\* The circle and its sixths, and the step of the wheel.
LEMMA Units ==
  /\ DEGREE \in Nat \ {0}
  /\ SIXTH \in Nat \ {0} /\ SIXTH = 60 * DEGREE
  /\ CIRCLE \in Nat \ {0} /\ CIRCLE = 6 * SIXTH
  /\ WHEEL_SPEED \in Nat \ {0} /\ WHEEL_SPEED <= CIRCLE
  /\ ROUNDING \in Nat
  /\ NAN \notin Int
BY ColoursAssumption DEF SIXTH, CIRCLE

\* What a hue may be, before a pass or in it.
Hue(h) == h \in START_HUES \cup {NAN} \cup 0 .. CIRCLE

\* One LED moves a hue into the circle, wherever it was, unless it is not a number.
LEMMA NextHueInCircle ==
  ASSUME NEW h, Hue(h)
  PROVE  IF h = NAN THEN NextHue[h] = NAN ELSE NextHue[h] \in 0 .. CIRCLE
<1>1. h \in Int \cup {NAN}
  BY ColoursAssumption, Units DEF Hue
<1>2. CASE h = NAN
  BY <1>2 DEF NextHue
<1>3. CASE h # NAN
  <2> DEFINE sum == Float(h + WHEEL_SPEED)
  <2>1. sum \in Int
    <3>1. CASE h \in START_HUES
      BY <1>3, <3>1, ColoursAssumption
    <3>2. CASE h \in 0 .. CIRCLE
      <4>1. sum \in (h + WHEEL_SPEED - ROUNDING) .. (h + WHEEL_SPEED + ROUNDING)
        BY <3>2, ColoursAssumption
      <4> QED
        BY <4>1
    <3> QED
      BY <1>3, <3>1, <3>2 DEF Hue
  <2>2. NextHue[h] = Wrapped[sum]
    BY <1>1, <1>3 DEF NextHue
  <2> HIDE DEF sum
  <2>3. Wrapped[sum] \in 0 .. CIRCLE
    BY <2>1, Units DEF Wrapped
  <2> QED
    BY <1>3, <2>2, <2>3
<1> QED
  BY <1>2, <1>3

\* f holds the hues of a pass over n LEDs that starts at hue.
Passes(start, n, f) ==
  f = [k \in 0 .. n |-> IF k = 0 THEN start ELSE NextHue[f[k - 1]]]

\* The hues of a pass, LED by LED.
LEMMA PassSteps ==
  ASSUME NEW start, NEW n \in Nat, NEW f, Passes(start, n, f)
  PROVE  /\ f[0] = start
         /\ \A k \in Nat : k + 1 <= n => f[k + 1] = NextHue[f[k]]
<1>1. \A k \in 0 .. n : f[k] = IF k = 0 THEN start ELSE NextHue[f[k - 1]]
  BY DEF Passes
<1>2. f[0] = start
  BY <1>1
<1>3. ASSUME NEW k \in Nat, k + 1 <= n
      PROVE  f[k + 1] = NextHue[f[k]]
  <2>1. k + 1 \in 0 .. n /\ k + 1 # 0 /\ (k + 1) - 1 = k
    BY <1>3
  <2> QED
    BY <1>1, <2>1
<1> QED
  BY <1>2, <1>3

\* The hues of a pass exist, however many LEDs there are.
LEMMA PassExists ==
  ASSUME NEW start
  PROVE  \A n \in Nat : \E f : Passes(start, n, f)
<1> DEFINE S == {n \in Nat : \E f : Passes(start, n, f)}
<1>1. 0 \in S
  <2>1. Passes(start, 0, [k \in 0 .. 0 |-> start])
    BY DEF Passes
  <2> QED
    BY <2>1
<1>2. ASSUME NEW n \in S PROVE n + 1 \in S
  <2>1. PICK f : Passes(start, n, f)
    OBVIOUS
  <2> DEFINE g == [k \in 0 .. n + 1 |-> IF k = n + 1 THEN NextHue[f[n]] ELSE f[k]]
  <2>2. ASSUME NEW k \in 0 .. n + 1
        PROVE  g[k] = IF k = 0 THEN start ELSE NextHue[g[k - 1]]
    <3>1. \A j \in 0 .. n : f[j] = IF j = 0 THEN start ELSE NextHue[f[j - 1]]
      BY <2>1 DEF Passes
    <3>2. CASE k = n + 1
      BY <3>2
    <3>3. CASE k \in 0 .. n
      BY <3>1, <3>3
    <3> QED
      BY <3>2, <3>3
  <2>3. Passes(start, n + 1, g)
    BY <2>2 DEF Passes
  <2> QED
    BY <2>3
<1>3. Nat \subseteq S
  <2> HIDE DEF S
  <2>1. \A n \in Nat : n \in S => n + 1 \in S
    BY <1>2
  <2> QED
    BY <1>1, <2>1, SetInduction
<1> QED
  BY <1>3

\* So the recursion in HueAfter defines what it seems to.
LEMMA HueAfterPasses ==
  ASSUME NEW start, NEW n \in Nat
  PROVE  \E f : Passes(start, n, f) /\ HueAfter(start, n) = f[n]
<1> DEFINE f == CHOOSE f : Passes(start, n, f)
<1>1. Passes(start, n, f)
  BY PassExists
<1>2. HueAfter(start, n) = f[n]
  BY DEF HueAfter, Passes
<1> QED
  BY <1>1, <1>2

\* A pass over one LED more ends one hue further.
LEMMA HueAfterStep ==
  ASSUME NEW start, NEW n \in Nat
  PROVE  HueAfter(start, n + 1) = NextHue[HueAfter(start, n)]
<1>1. PICK f : Passes(start, n, f) /\ HueAfter(start, n) = f[n]
  BY HueAfterPasses
<1>2. PICK g : Passes(start, n + 1, g) /\ HueAfter(start, n + 1) = g[n + 1]
  BY HueAfterPasses
<1> DEFINE S == {k \in Nat : k <= n => f[k] = g[k]}
<1>3. 0 \in S
  <2>1. f[0] = start
    BY <1>1, PassSteps
  <2>2. g[0] = start
    BY <1>2, PassSteps
  <2> QED
    BY <2>1, <2>2
<1>4. ASSUME NEW k \in Nat, k \in S
      PROVE  k + 1 \in S
  <2> SUFFICES ASSUME k + 1 <= n
               PROVE  f[k + 1] = g[k + 1]
    OBVIOUS
  <2>1. f[k] = g[k]
    BY <1>4
  <2>2. f[k + 1] = NextHue[f[k]]
    BY <1>1, PassSteps
  <2>3. g[k + 1] = NextHue[g[k]]
    <3>1. k + 1 <= n + 1
      OBVIOUS
    <3> QED
      BY <1>2, <3>1, PassSteps
  <2> QED
    BY <2>1, <2>2, <2>3
<1>5. Nat \subseteq S
  <2> HIDE DEF S
  <2> QED
    BY <1>3, <1>4, SetInduction
<1>6. f[n] = g[n]
  BY <1>5
<1>7. g[n + 1] = NextHue[g[n]]
  <2>1. n + 1 <= n + 1
    OBVIOUS
  <2> QED
    BY <1>2, <2>1, PassSteps
<1> QED
  BY <1>1, <1>2, <1>6, <1>7

\* A pass over at least one LED ends in the circle, wherever it started; not being
\* a number is neither lost nor gained.
LEMMA HueAfterInCircle ==
  ASSUME NEW start, Hue(start), NEW n \in Nat \ {0}
  PROVE  IF start = NAN THEN HueAfter(start, n) = NAN ELSE HueAfter(start, n) \in 0 .. CIRCLE
<1> DEFINE Alike(h) == Hue(h) /\ (h = NAN <=> start = NAN)
           S == {k \in Nat : Alike(HueAfter(start, k))}
<1>1. 0 \in S
  <2>1. PICK f : Passes(start, 0, f) /\ HueAfter(start, 0) = f[0]
    BY HueAfterPasses
  <2>2. HueAfter(start, 0) = start
    BY <2>1, PassSteps
  <2> QED
    BY <2>2
<1>2. ASSUME NEW k \in Nat, k \in S
      PROVE  k + 1 \in S
  <2>1. Alike(NextHue[HueAfter(start, k)])
    <3>1. NAN \notin 0 .. CIRCLE
      BY Units
    <3> QED
      BY <1>2, <3>1, NextHueInCircle DEF Hue
  <2> QED
    BY <2>1, HueAfterStep
<1>3. Nat \subseteq S
  <2> HIDE DEF S
  <2> QED
    BY <1>1, <1>2, SetInduction
<1>4. n - 1 \in Nat /\ (n - 1) + 1 = n
  OBVIOUS
<1>5. Alike(HueAfter(start, n - 1))
  BY <1>3, <1>4
<1>6. HueAfter(start, n) = NextHue[HueAfter(start, n - 1)]
  BY <1>4, HueAfterStep
<1> QED
  BY <1>5, <1>6, NextHueInCircle

-----------------------------------------------------------------------------
(* The colours of the wheel.                                                *)

\* The quotient and the remainder, for divisors that are not numerals.
LEMMA Division ==
  ASSUME NEW x \in Int, NEW d \in Nat \ {0}
  PROVE  /\ x \div d \in Int
         /\ d * (x \div d) \in Int
         /\ x % d = x - d * (x \div d)
         /\ d * (x \div d) <= x
         /\ x < d * (x \div d) + d
OBVIOUS

\* n where it is between 0 and SIXTH, and the nearer of the two where it is not.
Clamp(n) == IF n < 0 THEN 0 ELSE IF n > SIXTH THEN SIXTH ELSE n

\* The remainder in Shares, in each third of the circle.
LEMMA Thirds ==
  ASSUME NEW H \in 0 .. CIRCLE
  PROVE  H % (2 * SIXTH) = IF H < 2 * SIXTH THEN H
                           ELSE IF H < 4 * SIXTH THEN H - 2 * SIXTH
                           ELSE IF H < CIRCLE THEN H - 4 * SIXTH ELSE 0
<1>1. PICK c \in Nat \ {0} : c = SIXTH /\ CIRCLE = 6 * c
  BY Units
<1>2. PICK q \in Int : /\ H % (2 * c) = H - (2 * c) * q
                       /\ (2 * c) * q <= H /\ H < (2 * c) * q + 2 * c
  <2>1. 2 * c \in Nat \ {0} /\ H \in Int
    BY <1>1
  <2> QED
    BY <2>1, Division
<1>3. H <= 6 * c /\ 0 <= H
  BY <1>1
<1>4. q \in 0 .. 3
  <2>1. ASSUME q < 0
        PROVE  FALSE
    <3>1. PICK p \in Nat : q = -1 - p
      <4>1. -1 - q \in Nat /\ q = -1 - (-1 - q)
        BY <2>1
      <4> QED
        BY <4>1
    <3>2. (2 * c) * q = -(2 * c) - (2 * c) * p /\ (2 * c) * p >= 0
      BY <3>1
    <3> QED
      BY <1>2, <1>3, <3>2
  <2>2. ASSUME q > 3
        PROVE  FALSE
    <3>1. PICK p \in Nat : q = 4 + p
      <4>1. q - 4 \in Nat /\ q = 4 + (q - 4)
        BY <2>2
      <4> QED
        BY <4>1
    <3>2. (2 * c) * q = 8 * c + (2 * c) * p /\ (2 * c) * p >= 0
      BY <3>1
    <3> QED
      BY <1>2, <1>3, <3>2
  <2> QED
    BY <2>1, <2>2
<1>5. CASE q = 0
  BY <1>1, <1>2, <1>3, <1>5
<1>6. CASE q = 1
  BY <1>1, <1>2, <1>3, <1>6
<1>7. CASE q = 2
  BY <1>1, <1>2, <1>3, <1>7
<1>8. CASE q = 3
  BY <1>1, <1>2, <1>3, <1>8
<1> QED
  BY <1>4, <1>5, <1>6, <1>7, <1>8

\* Three ramps, each up over a sixth of the circle and down over another.
Ramps(H) == <<Clamp(Abs(H - 3 * SIXTH) - SIXTH),
              Clamp(2 * SIXTH - Abs(H - 2 * SIXTH)),
              Clamp(2 * SIXTH - Abs(H - 4 * SIXTH))>>

\* The six parts of the circle are those ramps.
LEMMA SharesAreRamps ==
  ASSUME NEW H \in 0 .. CIRCLE
  PROVE  Shares(H) = Ramps(H)
<1> DEFINE r == H % (2 * SIXTH)
           X == SIXTH - Abs(r - SIXTH)
<1>1. r = IF H < 2 * SIXTH THEN H
          ELSE IF H < 4 * SIXTH THEN H - 2 * SIXTH
          ELSE IF H < CIRCLE THEN H - 4 * SIXTH ELSE 0
  BY Thirds
<1>2. SIXTH \in Nat \ {0} /\ CIRCLE = 6 * SIXTH /\ H \in Int /\ 0 <= H /\ H <= 6 * SIXTH
  BY Units
<1>3. r \in Int
  BY <1>1, <1>2
<1> HIDE DEF r
<1>4. CASE H < SIXTH
  <2>1. Shares(H) = <<SIXTH, X, 0>>
    BY <1>2, <1>4 DEF Shares, r
  <2> QED
    BY <1>1, <1>2, <1>4, <2>1 DEF Ramps, Clamp, Abs
<1>5. CASE SIXTH <= H /\ H < 2 * SIXTH
  <2>1. Shares(H) = <<X, SIXTH, 0>>
    BY <1>2, <1>5 DEF Shares, r
  <2> QED
    BY <1>1, <1>2, <1>5, <2>1 DEF Ramps, Clamp, Abs
<1>6. CASE 2 * SIXTH <= H /\ H < 3 * SIXTH
  <2>1. Shares(H) = <<0, SIXTH, X>>
    BY <1>2, <1>6 DEF Shares, r
  <2> QED
    BY <1>1, <1>2, <1>6, <2>1 DEF Ramps, Clamp, Abs
<1>7. CASE 3 * SIXTH <= H /\ H < 4 * SIXTH
  <2>1. Shares(H) = <<0, X, SIXTH>>
    BY <1>2, <1>7 DEF Shares, r
  <2> QED
    BY <1>1, <1>2, <1>7, <2>1 DEF Ramps, Clamp, Abs
<1>8. CASE 4 * SIXTH <= H /\ H < 5 * SIXTH
  <2>1. Shares(H) = <<X, 0, SIXTH>>
    BY <1>2, <1>8 DEF Shares, r
  <2> QED
    BY <1>1, <1>2, <1>8, <2>1 DEF Ramps, Clamp, Abs
<1>9. CASE 5 * SIXTH <= H
  <2>1. Shares(H) = <<SIXTH, 0, X>>
    BY <1>2, <1>9 DEF Shares, r
  <2> QED
    BY <1>1, <1>2, <1>9, <2>1 DEF Ramps, Clamp, Abs
<1> QED
  BY <1>2, <1>4, <1>5, <1>6, <1>7, <1>8, <1>9

\* A ramp does not rise faster than the hue.
LEMMA RampSlope ==
  ASSUME NEW g \in 0 .. CIRCLE, NEW h \in 0 .. CIRCLE, NEW k \in 1 .. 3
  PROVE  /\ Shares(g)[k] \in 0 .. SIXTH
         /\ Shares(h)[k] \in 0 .. SIXTH
         /\ Abs(Shares(h)[k] - Shares(g)[k]) <= Abs(h - g)
<1>1. /\ Shares(g)[k] = Ramps(g)[k]
      /\ Shares(h)[k] = Ramps(h)[k]
  BY SharesAreRamps
<1>2. SIXTH \in Nat \ {0} /\ g \in Int /\ h \in Int
  BY Units
<1>3. CASE k = 1
  BY <1>1, <1>2, <1>3 DEF Ramps, Clamp, Abs
<1>4. CASE k = 2
  BY <1>1, <1>2, <1>4 DEF Ramps, Clamp, Abs
<1>5. CASE k = 3
  BY <1>1, <1>2, <1>5 DEF Ramps, Clamp, Abs
<1> QED
  BY <1>3, <1>4, <1>5

\* How far the hue may move from one LED to the next.
Step == WHEEL_SPEED + ROUNDING

\* What the slack is enough for: the difference of two colours whose hues are a step
\* apart, and the error of both.
LEMMA SlackIsEnough ==
  /\ WheelSlack \in Nat \ {0}
  /\ 413100 * Step + 48 * DEGREE <= 120000 * (DEGREE * WheelSlack)
<1> DEFINE q == (207 * Step) \div SIXTH
<1>1. Step \in Nat /\ DEGREE \in Nat \ {0} /\ SIXTH = 60 * DEGREE
  BY Units DEF Step
<1>2. WheelSlack = q + 1
  BY DEF WheelSlack, Step
<1>3. /\ q \in Int
      /\ (60 * DEGREE) * q <= 207 * Step
      /\ 207 * Step < (60 * DEGREE) * q + 60 * DEGREE
  <2>1. PICK x \in Int : x = 207 * Step
    BY <1>1
  <2>2. SIXTH \in Nat \ {0}
    BY <1>1
  <2>3. /\ x \div SIXTH \in Int
        /\ SIXTH * (x \div SIXTH) <= x
        /\ x < SIXTH * (x \div SIXTH) + SIXTH
    BY <2>2, Division, Zenon
  <2>4. q = x \div SIXTH
    BY <2>1
  <2> QED
    BY <1>1, <2>1, <2>3, <2>4
<1> HIDE DEF q
<1>4. q \in Nat
  <2>1. ASSUME q < 0
        PROVE  FALSE
    <3>1. -1 - q \in Nat /\ q = -1 - (-1 - q)
      BY <1>3, <2>1
    <3>2. PICK p \in Nat : q = -1 - p
      BY <3>1
    <3>3. (60 * DEGREE) * q = -(60 * DEGREE) - (60 * DEGREE) * p /\ (60 * DEGREE) * p >= 0
      BY <1>1, <3>2
    <3> QED
      BY <1>1, <1>3, <3>3
  <2> QED
    BY <1>3, <2>1
<1>5. PICK m \in Nat : m = DEGREE * q
  BY <1>1, <1>4
<1>6. (60 * DEGREE) * q = 60 * m /\ DEGREE * WheelSlack = m + DEGREE
  BY <1>1, <1>2, <1>4, <1>5
<1>7. 413100 * Step + 48 * DEGREE <= 120000 * (m + DEGREE)
  BY <1>1, <1>3, <1>5, <1>6
<1> QED
  BY <1>2, <1>4, <1>6, <1>7

\* The wheel's bytes of a share.
WheelBytes(share) == ColourBytes(share, 90, 90)

\* One of them, and the error that made it.
LEMMA WheelByteError ==
  ASSUME NEW s \in 0 .. SIXTH, NEW a \in WheelBytes(s)
  PROVE  \E e \in Int :
           /\ -(24 * DEGREE) <= e /\ e <= 24 * DEGREE
           /\ a \in Int
           /\ 120000 * (DEGREE * a) <= 413100 * s + 2754000 * DEGREE + e
           /\ 413100 * s + 2754000 * DEGREE + e < 120000 * (DEGREE * a) + 120000 * DEGREE
<1>1. DEGREE \in Nat \ {0} /\ SIXTH = 60 * DEGREE /\ s \in Nat
  BY Units
<1>2. PICK e \in {-FLOAT_ERROR, 0, FLOAT_ERROR} : a = (Value(s, 90, 90) + e) \div BYTE
  BY DEF WheelBytes, ColourBytes
<1>3. e \in Int /\ -(24 * DEGREE) <= e /\ e <= 24 * DEGREE
  BY <1>1 DEF FLOAT_ERROR
<1>4. Value(s, 90, 90) = 413100 * s + 2754000 * DEGREE
  BY <1>1 DEF Value
<1>5. BYTE = 120000 * DEGREE /\ BYTE \in Nat \ {0}
  BY <1>1 DEF BYTE
<1> DEFINE x == 413100 * s + 2754000 * DEGREE + e
<1>6. x \in Int
  BY <1>1, <1>3
<1>7. a = x \div BYTE
  BY <1>2, <1>4
<1> HIDE DEF x
<1>8. a \in Int /\ BYTE * a <= x /\ x < BYTE * a + BYTE
  <2>1. x \div BYTE \in Int /\ BYTE * (x \div BYTE) <= x /\ x < BYTE * (x \div BYTE) + BYTE
    <3>1. BYTE \in Nat \ {0}
      BY <1>5
    <3> QED
      BY <1>6, <3>1, Division, Zenon
  <2> QED
    BY <1>7, <2>1, Zenon
<1>9. BYTE * a = 120000 * (DEGREE * a)
  BY <1>1, <1>5, <1>8
<1> QED
  BY <1>3, <1>5, <1>8, <1>9 DEF x

\* What the wheel makes of two shares that are not more than a step apart.
LEMMA ByteSlope ==
  ASSUME NEW s \in 0 .. SIXTH, NEW t \in 0 .. SIXTH, t <= s + Step,
         NEW a \in WheelBytes(s), NEW b \in WheelBytes(t)
  PROVE  a \in Int /\ b \in Int /\ b - a <= WheelSlack
<1>1. PICK e \in Int :
           /\ -(24 * DEGREE) <= e /\ e <= 24 * DEGREE
           /\ a \in Int
           /\ 120000 * (DEGREE * a) <= 413100 * s + 2754000 * DEGREE + e
           /\ 413100 * s + 2754000 * DEGREE + e < 120000 * (DEGREE * a) + 120000 * DEGREE
  BY WheelByteError
<1>2. PICK f \in Int :
           /\ -(24 * DEGREE) <= f /\ f <= 24 * DEGREE
           /\ b \in Int
           /\ 120000 * (DEGREE * b) <= 413100 * t + 2754000 * DEGREE + f
           /\ 413100 * t + 2754000 * DEGREE + f < 120000 * (DEGREE * b) + 120000 * DEGREE
  BY WheelByteError
<1>3. /\ DEGREE \in Nat \ {0} /\ Step \in Nat /\ s \in Int /\ t \in Int
      /\ WheelSlack \in Nat
      /\ 413100 * Step + 48 * DEGREE <= 120000 * (DEGREE * WheelSlack)
  BY Units, SlackIsEnough DEF Step
<1>4. b - a <= WheelSlack
  <2> SUFFICES ASSUME b - a > WheelSlack
               PROVE  FALSE
    BY <1>1, <1>2, <1>3
  <2>1. b - a - WheelSlack - 1 \in Nat /\ b = a + WheelSlack + 1 + (b - a - WheelSlack - 1)
    BY <1>1, <1>2, <1>3
  <2>2. PICK p \in Nat : b = a + WheelSlack + 1 + p
    BY <2>1
  <2>3. /\ DEGREE * b = DEGREE * a + DEGREE * WheelSlack + DEGREE + DEGREE * p
        /\ DEGREE * p >= 0
    BY <1>1, <1>3, <2>2
  <2>4. DEGREE * a \in Int /\ DEGREE * b \in Int /\ DEGREE * WheelSlack \in Int /\ DEGREE * p \in Int
    BY <1>1, <1>2, <1>3
  <2> QED
    BY <1>1, <1>2, <1>3, <2>3, <2>4
<1> QED
  BY <1>1, <1>2, <1>4

\* Nor do the wheel's bytes rise faster than the slack allows.
LEMMA WheelSlope ==
  ASSUME NEW g \in 0 .. CIRCLE, NEW h \in 0 .. CIRCLE, Abs(h - g) <= Step, NEW k \in 1 .. 3,
         NEW a \in WheelBytes(Shares(g)[k]), NEW b \in WheelBytes(Shares(h)[k])
  PROVE  Abs(b - a) <= WheelSlack
<1>1. PICK s \in 0 .. SIXTH, t \in 0 .. SIXTH :
        s = Shares(g)[k] /\ t = Shares(h)[k] /\ Abs(t - s) <= Abs(h - g)
  BY RampSlope
<1>2. SIXTH \in Nat /\ CIRCLE \in Nat /\ Step \in Nat /\ WheelSlack \in Nat
  BY Units, SlackIsEnough DEF Step
<1>3. t <= s + Step /\ s <= t + Step
  BY <1>1, <1>2 DEF Abs
<1>4. a \in Int /\ b \in Int /\ b - a <= WheelSlack
  BY <1>1, <1>3, ByteSlope
<1>5. a - b <= WheelSlack
  BY <1>1, <1>3, ByteSlope
<1> QED
  BY <1>2, <1>4, <1>5 DEF Abs

\* Where the next LED's hue is past an end of the circle it has the colours of a hue
\* that is no more than a step away.
LEMMA CircleCloses ==
  ASSUME NEW h \in 0 .. CIRCLE
  PROVE  \E to \in 0 .. CIRCLE : Shares(NextHue[h]) = Shares(to) /\ Abs(to - h) <= Step
<1> DEFINE sum == Float(h + WHEEL_SPEED)
<1>1. /\ CIRCLE \in Nat /\ WHEEL_SPEED \in Nat /\ ROUNDING \in Nat
      /\ h \in Int /\ h # NAN
  BY Units
<1>2. sum \in (h + WHEEL_SPEED - ROUNDING) .. (h + WHEEL_SPEED + ROUNDING)
  BY ColoursAssumption
<1>3. NextHue[h] = Wrapped[sum]
  BY <1>1 DEF NextHue
<1> HIDE DEF sum
<1>4. sum \in Int /\ sum - h <= Step /\ -ROUNDING <= sum - h
  BY <1>1, <1>2 DEF Step
<1>5. Wrapped[sum] = IF sum > CIRCLE THEN 0 ELSE IF sum < 0 THEN CIRCLE ELSE sum
  BY <1>4 DEF Wrapped
<1>6. Shares(0) = Shares(CIRCLE)
  <2>1. Ramps(0) = Ramps(CIRCLE)
    BY Units DEF Ramps, Clamp, Abs
  <2>2. 0 \in 0 .. CIRCLE /\ CIRCLE \in 0 .. CIRCLE
    BY <1>1
  <2> QED
    BY <2>1, <2>2, SharesAreRamps
<1>7. CASE sum > CIRCLE
  <2>1. CIRCLE \in 0 .. CIRCLE /\ Abs(CIRCLE - h) <= Step
    BY <1>1, <1>4, <1>7 DEF Abs, Step
  <2> QED
    BY <1>3, <1>5, <1>6, <1>7, <2>1
<1>8. CASE sum < 0
  <2>1. 0 \in 0 .. CIRCLE /\ Abs(0 - h) <= Step
    BY <1>1, <1>4, <1>8 DEF Abs, Step
  <2>2. Wrapped[sum] = CIRCLE
    BY <1>1, <1>4, <1>5, <1>8
  <2> QED
    BY <1>3, <1>6, <2>1, <2>2
<1>9. CASE sum \in 0 .. CIRCLE
  <2>1. Wrapped[sum] = sum
    BY <1>1, <1>5, <1>9
  <2>2. Abs(sum - h) <= Step
    BY <1>1, <1>4 DEF Abs, Step
  <2> QED
    BY <1>3, <1>9, <2>1, <2>2
<1> QED
  BY <1>1, <1>4, <1>7, <1>8, <1>9

\* One LED further the colour has not changed by more than the slack, at no hue in
\* the circle, at no speed.
LEMMA SmoothInCircle ==
  ASSUME NEW h, InCircle(h), NEW k \in 1 .. 3,
         NEW a \in WheelColour(h)[k], NEW b \in WheelColour(NextHue[h])[k]
  PROVE  Abs(b - a) <= WheelSlack
<1>1. NAN \notin Int /\ CIRCLE \in Nat /\ Step \in Nat /\ WheelSlack \in Nat /\ SIXTH \in Nat
  BY Units, SlackIsEnough DEF Step
<1>2. CASE h = NAN
  <2>1. WheelColour(h) = <<WheelBytes(SIXTH), WheelBytes(0), {0}>>
    BY <1>2 DEF WheelColour, HSVtoRGB, WheelBytes
  <2>2. WheelColour(NextHue[h]) = WheelColour(h)
    BY <1>2, NextHueInCircle DEF Hue
  <2>3. CASE k = 3
    <3>1. a = 0 /\ b = 0
      BY <2>1, <2>2, <2>3
    <3> QED
      BY <1>1, <3>1 DEF Abs
  <2>4. CASE k # 3
    <3>1. PICK s \in 0 .. SIXTH : a \in WheelBytes(s) /\ b \in WheelBytes(s)
      <4>1. SIXTH \in 0 .. SIXTH /\ 0 \in 0 .. SIXTH
        BY <1>1
      <4>2. CASE k = 1
        BY <2>1, <2>2, <4>1, <4>2
      <4>3. CASE k = 2
        BY <2>1, <2>2, <4>1, <4>3
      <4> QED
        BY <2>4, <4>2, <4>3
    <3>2. s <= s + Step
      BY <1>1, <3>1
    <3>3. a \in Int /\ b \in Int /\ b - a <= WheelSlack /\ a - b <= WheelSlack
      BY <3>1, <3>2, ByteSlope
    <3> QED
      BY <1>1, <3>3 DEF Abs
  <2> QED
    BY <2>3, <2>4
<1>3. CASE h \in 0 .. CIRCLE
  <2>1. PICK to \in 0 .. CIRCLE :
          Shares(NextHue[h]) = Shares(to) /\ Abs(to - h) <= Step
    BY <1>3, CircleCloses
  <2>2. PICK g \in 0 .. CIRCLE : g = NextHue[h]
    BY <1>1, <1>3, NextHueInCircle DEF Hue
  <2>3. \A x \in 0 .. CIRCLE : WheelColour(x)[k] = WheelBytes(Shares(x)[k])
    BY <1>1 DEF WheelColour, HSVtoRGB, WheelBytes
  <2>4. a \in WheelBytes(Shares(h)[k]) /\ b \in WheelBytes(Shares(to)[k])
    <3>1. WheelColour(g)[k] = WheelBytes(Shares(g)[k])
      BY <2>3
    <3>2. WheelColour(h)[k] = WheelBytes(Shares(h)[k])
      BY <1>3, <2>3
    <3> QED
      BY <2>1, <2>2, <3>1, <3>2
  <2> QED
    BY <1>3, <2>1, <2>4, WheelSlope
<1> QED
  BY <1>2, <1>3 DEF InCircle

-----------------------------------------------------------------------------
(* The inductive invariant.                                                 *)

\* A frame under way is of the effect that plays: a static colour's is its colour.
CallsInv ==
  /\ calling => currentEffect # NONE
  /\ calling /\ currentEffect \notin {WHEEL, AMBIENT} => offered = currentEffect

\* The latest effect is the last of those that wait, or else the one that plays.
LatestInv ==
  /\ effectsQueue # <<>> => latest = effectsQueue[Len(effectsQueue)]
  /\ effectsQueue = <<>> /\ currentEffect # NONE => latest = currentEffect

StripInv == TypeOK /\ StripTypeOK /\ CallsInv /\ LatestInv /\ LatestWins

\* The invariant holds when the program starts.
LEMMA StripInitInv == StripInit => StripInv
<1> SUFFICES ASSUME StripInit
             PROVE  StripInv
  OBVIOUS
<1>1. TypeOK
  BY InitType DEF StripInit
<1>2. StripTypeOK
  <2>1. <<>> \in Seq(STATICS \cup {WHEEL, AMBIENT}) /\ Len(<<>>) = 0
    OBVIOUS
  <2>2. 0 \in 0 .. MAX_REQUESTS /\ 0 <= QUEUE_LIMIT /\ 0 \in COLOURS /\ 0 \in 0 .. CIRCLE
    BY StripAssumption, Units
  <2>3. /\ requests = 0 /\ effectsQueue = <<>> /\ currentEffect = NONE
        /\ hue = 0 /\ pixel = 0 /\ offered = 0 /\ calling = FALSE
    BY DEF StripInit
  <2> QED
    BY <2>1, <2>2, <2>3 DEF StripTypeOK
<1>3. CallsInv /\ LatestInv /\ LatestWins
  BY DEF StripInit, Init, CallsInv, LatestInv, LatestWins
<1> QED
  BY <1>1, <1>2, <1>3 DEF StripInv

\* Of the fade a step of the strip changes what a step of the fade may, or nothing.
LEMMA StripStepIsFadeStep ==
  StripInv /\ [StripNext]_stripVars => [Next]_vars
<1> SUFFICES ASSUME StripInv, [StripNext]_stripVars
             PROVE  [Next]_vars
  OBVIOUS
<1>1. CASE ShowFrame
  <2>1. ProcessFrame(offered) /\ offered \in COLOURS
    BY <1>1 DEF ShowFrame, StripInv, StripTypeOK
  <2> QED
    BY <2>1 DEF Next
<1>2. ASSUME NEW value \in SPEEDS, PressSpeedKey(value)
      PROVE  [Next]_vars
  BY <1>2 DEF PressSpeedKey, Next
<1>3. CASE Refresh
  BY <1>3 DEF Refresh, Next
<1>4. CASE SendFrame
  BY <1>4 DEF SendFrame, Channel!Offer, vars
<1>5. CASE AfterSend
  BY <1>5 DEF AfterSend, Channel!Return, vars
<1>6. ASSUME NEW e \in STATICS \cup {WHEEL, AMBIENT}, AddEffect(e)
      PROVE  [Next]_vars
  BY <1>6 DEF AddEffect
<1>7. CASE PullEffect
  BY <1>7 DEF PullEffect
<1>8. ASSUME NEW colour \in STATICS, PaintPicture(colour)
      PROVE  [Next]_vars
  BY <1>8 DEF PaintPicture
<1>9. CASE UNCHANGED stripVars
  BY <1>9 DEF stripVars
<1> QED
  BY <1>1, <1>2, <1>3, <1>4, <1>5, <1>6, <1>7, <1>8, <1>9 DEF StripNext

\* An effect for which there is room becomes the last one and the latest; one for
\* which there is none changes neither.
LEMMA AddEffectInv ==
  ASSUME StripInv, NEW e \in STATICS \cup {WHEEL, AMBIENT}, AddEffect(e)
  PROVE  StripTypeOK' /\ CallsInv' /\ LatestInv' /\ LatestWins'
<1> USE DEF StripInv
<1>1. requests' \in 0 .. MAX_REQUESTS
  BY StripAssumption DEF AddEffect, Request, StripTypeOK
<1>2. CASE Len(effectsQueue) < QUEUE_LIMIT
  <2> DEFINE q == Append(effectsQueue, e)
  <2>1. effectsQueue' = q /\ latest' = e
    BY <1>2 DEF AddEffect
  <2>2. /\ q \in Seq(STATICS \cup {WHEEL, AMBIENT})
        /\ Len(q) = Len(effectsQueue) + 1
        /\ q[Len(q)] = e
    BY AppendProperties DEF StripTypeOK
  <2>3. Len(q) <= QUEUE_LIMIT /\ q # <<>>
    <3>1. Len(effectsQueue) \in Nat /\ QUEUE_LIMIT \in Nat
      BY StripAssumption, LenProperties DEF StripTypeOK
    <3>2. Len(q) <= QUEUE_LIMIT
      BY <1>2, <2>2, <3>1
    <3>3. Len(q) # 0 /\ Len(<<>>) = 0
      BY <2>2, <3>1
    <3> QED
      BY <3>2, <3>3
  <2> HIDE DEF q
  <2>4. StripTypeOK'
    BY <1>1, <2>1, <2>2, <2>3
    DEF AddEffect, StripTypeOK, vars, frameVars, InCircle
  <2>5. CallsInv' /\ LatestInv' /\ LatestWins'
    BY <2>1, <2>2, <2>3 DEF AddEffect, CallsInv, LatestInv, LatestWins, vars, frameVars
  <2> QED
    BY <2>4, <2>5
<1>3. CASE ~(Len(effectsQueue) < QUEUE_LIMIT)
  <2>1. UNCHANGED <<vars, frameVars, currentEffect, effectsQueue, latest>>
    BY <1>3 DEF AddEffect
  <2> QED
    BY <1>1, <2>1
    DEF StripTypeOK, CallsInv, LatestInv, LatestWins, vars, frameVars, InCircle
<1> QED
  BY <1>2, <1>3


\* The first effect leaves the queue.  If nothing waits behind it, it is the latest.
LEMMA PullEffectInv ==
  ASSUME StripInv, PullEffect
  PROVE  StripTypeOK' /\ CallsInv' /\ LatestInv' /\ LatestWins'
<1> USE DEF StripInv
<1> DEFINE E == STATICS \cup {WHEEL, AMBIENT}
           h == Head(effectsQueue)
           q == Tail(effectsQueue)
<1>1. /\ currentEffect = NONE /\ effectsQueue # <<>>
      /\ currentEffect' = h /\ effectsQueue' = q
      /\ UNCHANGED <<requests, latest, pixel, offered, calling>>
  BY DEF PullEffect
<1>2. ~calling
  BY <1>1 DEF CallsInv
<1>3. effectsQueue \in Seq(E) /\ Len(effectsQueue) \in Nat
  BY LenProperties DEF StripTypeOK
<1>4. h \in E /\ q \in Seq(E) /\ Len(q) = Len(effectsQueue) - 1
      /\ \A i \in 1 .. Len(q) : q[i] = effectsQueue[i + 1]
  BY <1>1, <1>3, HeadTailProperties
<1>5. Len(q) \in Nat /\ Len(q) <= QUEUE_LIMIT
  <2>1. Len(q) \in Nat
    BY <1>4, LenProperties
  <2>2. Len(effectsQueue) <= QUEUE_LIMIT /\ QUEUE_LIMIT \in Nat
    BY StripAssumption DEF StripTypeOK
  <2> HIDE DEF q
  <2> QED
    BY <1>3, <1>4, <2>1, <2>2
<1>6. hue' \in START_HUES \cup 0 .. CIRCLE
  BY DEF PullEffect, StripTypeOK
<1>7. q # <<>> => q[Len(q)] = effectsQueue[Len(effectsQueue)]
  <2>1. q # <<>> => Len(q) # 0
    BY <1>4, EmptySeq
  <2>2. Len(q) # 0 => q[Len(q)] = effectsQueue[Len(q) + 1] /\ Len(q) + 1 = Len(effectsQueue)
    BY <1>3, <1>4, <1>5
  <2> QED
    BY <2>1, <2>2
<1>8. q = <<>> => h = effectsQueue[Len(effectsQueue)]
  <2>1. ASSUME q = <<>>
        PROVE  Len(effectsQueue) = 1
    <3> HIDE DEF q
    <3>1. Len(q) = 0
      <4>1. Len(<<>>) = 0
        OBVIOUS
      <4> QED
        BY <2>1, <4>1
    <3> QED
      BY <1>3, <1>4, <3>1
  <2>2. h = effectsQueue[1]
    OBVIOUS
  <2> QED
    BY <2>1, <2>2
<1>9. h # NONE
  BY <1>4, StripAssumption
<1> HIDE DEF h, q
<1>10. StripTypeOK'
  BY <1>1, <1>2, <1>4, <1>5, <1>6 DEF StripTypeOK
<1>11. CallsInv' /\ LatestInv' /\ LatestWins'
  BY <1>1, <1>2, <1>7, <1>8, <1>9 DEF CallsInv, LatestInv, LatestWins
<1> QED
  BY <1>10, <1>11

\* update() and the copy: the pass over the LEDs brings the hue into the circle.
LEMMA SendFrameInv ==
  ASSUME StripInv, SendFrame
  PROVE  StripTypeOK' /\ CallsInv' /\ LatestInv' /\ LatestWins'
<1> USE DEF StripInv
<1>1. /\ currentEffect # NONE /\ calling' = TRUE /\ offered' = pixel'
      /\ UNCHANGED <<requests, effectsQueue, currentEffect, latest>>
  BY DEF SendFrame, Channel!Offer, Copied, queueVars
<1>2. CASE currentEffect = WHEEL
  <2>1. /\ pixel' \in WheelColour(HueAfter(hue, LED + 1))[PART]
        /\ hue' = HueAfter(hue, NUM_LEDS)
    BY <1>2, StripAssumption DEF SendFrame
  <2>2. Hue(hue) /\ LED + 1 \in Nat \ {0} /\ NUM_LEDS \in Nat \ {0}
    <3>1. NUM_LEDS \in Nat /\ LED \in 0 .. NUM_LEDS - 1
      BY StripAssumption
    <3>2. LED + 1 \in Nat \ {0} /\ NUM_LEDS \in Nat \ {0}
      BY <3>1
    <3> QED
      BY <3>2 DEF StripTypeOK, Hue
  <2>3. InCircle(HueAfter(hue, LED + 1)) /\ InCircle(hue')
    <3>1. \A n \in Nat \ {0} : InCircle(HueAfter(hue, n))
      BY <2>2, HueAfterInCircle DEF InCircle
    <3> QED
      BY <2>1, <2>2, <3>1
  <2>4. pixel' \in COLOURS
    <3>1. HueAfter(hue, LED + 1) \in {NAN} \cup 0 .. CIRCLE
      BY <2>3 DEF InCircle
    <3>2. \A h \in {NAN} \cup 0 .. CIRCLE : WheelColour(h)[PART] \subseteq COLOURS
      BY StripAssumption
    <3> QED
      BY <2>1, <3>1, <3>2
  <2>5. hue' \in START_HUES \cup 0 .. CIRCLE
    <3>1. CASE hue = NAN
      <4>1. hue' = hue
        BY <2>1, <2>2, <3>1, HueAfterInCircle
      <4> QED
        BY <4>1 DEF StripTypeOK
    <3>2. CASE hue # NAN
      BY <2>1, <2>2, <3>2, HueAfterInCircle
    <3> QED
      BY <3>1, <3>2
  <2> QED
    BY <1>1, <1>2, <2>3, <2>4, <2>5 DEF StripTypeOK, CallsInv, LatestInv, LatestWins
<1>3. CASE currentEffect = AMBIENT
  <2>1. UNCHANGED <<pixel, hue>> /\ currentEffect # WHEEL
    BY <1>3, StripAssumption DEF SendFrame
  <2> QED
    BY <1>1, <1>3, <2>1 DEF StripTypeOK, CallsInv, LatestInv, LatestWins
<1>4. CASE currentEffect \notin {WHEEL, AMBIENT}
  <2>1. pixel' = currentEffect /\ UNCHANGED hue
    BY <1>4 DEF SendFrame
  <2>2. currentEffect \in COLOURS
    BY <1>1, <1>4, StripAssumption DEF StripTypeOK
  <2> QED
    BY <1>1, <1>4, <2>1, <2>2 DEF StripTypeOK, CallsInv, LatestInv, LatestWins
<1> QED
  BY <1>2, <1>3, <1>4

\* sendData returns when the strip shows its frame, and a static colour's frame is
\* its colour: if nothing waits, that was asked for last.
LEMMA AfterSendInv ==
  ASSUME StripInv, AfterSend
  PROVE  StripTypeOK' /\ CallsInv' /\ LatestInv' /\ LatestWins'
<1> USE DEF StripInv
<1>1. /\ calling /\ newState = offered /\ calling' = FALSE
      /\ UNCHANGED <<newState, offered, requests, effectsQueue, latest, hue, pixel>>
  BY DEF AfterSend, Channel!Return
<1>2. CASE currentEffect \notin {WHEEL, AMBIENT}
  <2>1. currentEffect' = NONE
    BY <1>2 DEF AfterSend, Finished
  <2>2. newState = currentEffect /\ currentEffect # NONE
    BY <1>1, <1>2 DEF CallsInv
  <2> QED
    BY <1>1, <2>1, <2>2 DEF StripTypeOK, CallsInv, LatestInv, LatestWins
<1>3. CASE currentEffect \in {WHEEL, AMBIENT}
  <2>1. currentEffect' = currentEffect /\ currentEffect # NONE
    BY <1>3, StripAssumption DEF AfterSend, Finished
  <2> QED
    BY <1>1, <1>3, <2>1 DEF StripTypeOK, CallsInv, LatestInv, LatestWins
<1> QED
  BY <1>2, <1>3

\* Every step keeps the invariant.
LEMMA StripNextInv == StripInv /\ [StripNext]_stripVars => StripInv'
<1> SUFFICES ASSUME StripInv, [StripNext]_stripVars
             PROVE  StripInv'
  OBVIOUS
<1> USE DEF StripInv
<1>1. TypeOK'
  BY StripStepIsFadeStep, NextType
<1>2. ASSUME NEW e \in STATICS \cup {WHEEL, AMBIENT}, AddEffect(e)
      PROVE  StripInv'
  BY <1>1, <1>2, AddEffectInv
<1>3. CASE PullEffect
  BY <1>1, <1>3, PullEffectInv
<1>4. CASE SendFrame
  BY <1>1, <1>4, SendFrameInv
<1>5. CASE ShowFrame
  <2>1. UNCHANGED <<queueVars, frameVars>> /\ calling
    BY <1>5 DEF ShowFrame, Channel!Show, frameVars
  <2> QED
    BY <1>1, <2>1 DEF StripTypeOK, CallsInv, LatestInv, LatestWins, queueVars, frameVars
<1>6. CASE AfterSend
  BY <1>1, <1>6, AfterSendInv
<1>7. ASSUME NEW colour \in STATICS, PaintPicture(colour)
      PROVE  StripInv'
  <2>1. /\ currentEffect = AMBIENT /\ pixel' = colour /\ colour \in COLOURS
        /\ UNCHANGED <<vars, effectsQueue, currentEffect, latest, hue, offered, calling>>
    BY <1>7, StripAssumption DEF PaintPicture
  <2>2. requests' \in 0 .. MAX_REQUESTS
    BY <1>7, StripAssumption DEF PaintPicture, Request, StripTypeOK
  <2> QED
    BY <1>1, <2>1, <2>2
    DEF StripTypeOK, CallsInv, LatestInv, LatestWins, vars, InCircle
<1>8. ASSUME NEW value \in SPEEDS, PressSpeedKey(value)
      PROVE  StripInv'
  <2>1. UNCHANGED <<newState, effectsQueue, currentEffect, latest, frameVars>>
    BY <1>8 DEF PressSpeedKey, ApplySetting
  <2>2. requests' \in 0 .. MAX_REQUESTS
    BY <1>8, StripAssumption DEF PressSpeedKey, Request, StripTypeOK
  <2> QED
    BY <1>1, <2>1, <2>2
    DEF StripTypeOK, CallsInv, LatestInv, LatestWins, frameVars, InCircle
<1>9. CASE Refresh
  <2>1. UNCHANGED <<newState, queueVars, frameVars>>
    BY <1>9 DEF Refresh, UpdateLeds
  <2> QED
    BY <1>1, <2>1
    DEF StripTypeOK, CallsInv, LatestInv, LatestWins, queueVars, frameVars, InCircle
<1>10. CASE UNCHANGED stripVars
  BY <1>1, <1>10
  DEF StripTypeOK, CallsInv, LatestInv, LatestWins, stripVars, vars, queueVars, frameVars, InCircle
<1> QED
  BY <1>2, <1>3, <1>4, <1>5, <1>6, <1>7, <1>8, <1>9, <1>10 DEF StripNext

-----------------------------------------------------------------------------
\* The strip's inductive invariant holds, for every queue, wheel and set of colours.
THEOREM StripInvariant == StripSpec => []StripInv
BY StripInitInv, StripNextInv, PTL DEF StripSpec

\* Everything on the way from the queue to the fade has its type; in particular one
\* pass of ColorWheel::update brings any number that _hue was left with into the
\* circle, by induction over the LEDs.
THEOREM StripTypeCorrect == StripSpec => []StripTypeOK
<1>1. StripInv => StripTypeOK
  BY DEF StripInv
<1> QED
  BY <1>1, StripInvariant, PTL

\* What queuePuller and sendData make of the queue is what the strip ends up with:
\* when all effects have been played it shows the one that was added last.
THEOREM LatestEffectWins == StripSpec => []LatestWins
<1>1. StripInv => LatestWins
  BY DEF StripInv
<1> QED
  BY <1>1, StripInvariant, PTL

\* A frame of the wheel has no seam: at no speed of ColorWheel, however its hues are
\* rounded, does HSVtoRGB give an LED and the next one colours that differ by more
\* than their hues do.
THEOREM WheelHasNoSeam == StripSpec => WheelSmooth
<1> DEFINE Smooth ==
      currentEffect = WHEEL /\ ~calling /\ calling' /\ LED + 1 < NUM_LEDS =>
        \A next \in WheelColour(HueAfter(hue, LED + 2))[PART] :
          Abs(next - pixel') <= WheelSlack
<1>1. StripInv /\ [StripNext]_stripVars => [Smooth]_stripVars
  <2> SUFFICES ASSUME StripInv, StripNext,
                      currentEffect = WHEEL, ~calling, calling',
                      NEW next \in WheelColour(HueAfter(hue, LED + 2))[PART]
               PROVE  Abs(next - pixel') <= WheelSlack
    OBVIOUS
  <2>1. SendFrame
    BY DEF StripNext, AddEffect, PullEffect, ShowFrame, Channel!Show, AfterSend, Channel!Return,
           PaintPicture, PressSpeedKey, Refresh, frameVars
  <2>2. pixel' \in WheelColour(HueAfter(hue, LED + 1))[PART]
    BY <2>1, StripAssumption DEF SendFrame
  <2>3. LED + 1 \in Nat \ {0} /\ PART \in 1 .. 3
    BY StripAssumption
  <2>4. InCircle(HueAfter(hue, LED + 1))
    BY <2>3, HueAfterInCircle DEF InCircle, Hue, StripInv, StripTypeOK
  <2>5. HueAfter(hue, LED + 2) = NextHue[HueAfter(hue, LED + 1)]
    <3>1. LED + 1 \in Nat /\ (LED + 1) + 1 = LED + 2
      BY <2>3, StripAssumption
    <3> QED
      BY <3>1, HueAfterStep
  <2> QED
    BY <2>2, <2>3, <2>4, <2>5, SmoothInCircle
<1>2. StripSpec => [][Smooth]_stripVars
  BY <1>1, StripInvariant, PTL DEF StripSpec
<1> QED
  BY <1>2 DEF WheelSmooth

\* Driven by the server, too, updateLeds never overshoots nor turns back.
THEOREM StripNeverOvershoots == StripSpec => NoOvershoot
<1>1. StripInv /\ [StripNext]_stripVars
        => [Between(currentState, currentState', newState)]_currentState
  <2> SUFFICES ASSUME StripInv, [StripNext]_stripVars
               PROVE  [Between(currentState, currentState', newState)]_currentState
    OBVIOUS
  <2>1. [Next]_vars /\ TypeOK
    BY StripStepIsFadeStep DEF StripInv
  <2> QED
    BY <2>1, StepBetween DEF Next, ProcessFrame, ApplySetting, vars
<1>2. StripSpec => [][Between(currentState, currentState', newState)]_currentState
  BY <1>1, StripInvariant, PTL DEF StripSpec
<1> QED
  BY <1>2 DEF NoOvershoot
=============================================================================
