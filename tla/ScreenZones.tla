---------------------------- MODULE ScreenZones ----------------------------
(***************************************************************************)
(* Which part of the captured picture each LED of the strip shows: the      *)
(* three loops of on_process in src/Effects/AmbientLight.cpp, and the       *)
(* arithmetic of getColorFromArea, down to the bytes it reads.  The strip   *)
(* goes round the screen: up its right edge, along the top to the left,     *)
(* down the left edge.                                                      *)
(***************************************************************************)
EXTENDS Integers, Sequences

CONSTANTS
  TOP_LEDS,        \* 34
  LEFT_LEDS,       \* 14
  RIGHT_LEDS,      \* 14
  PADDING          \* 100: how deep the zones reach into the picture

ASSUME ZonesAssumption ==
  /\ {TOP_LEDS, LEFT_LEDS, RIGHT_LEDS} \subseteq 1 .. 255
  /\ PADDING \in Nat /\ PADDING >= 2 /\ PADDING < 65536

StripLeds == 0 .. RIGHT_LEDS + TOP_LEDS + LEFT_LEDS - 1

\* Of the five formats that start_pipewire builds it offers the first three.
Offered == {"BGRA", "RGBA", "BGRx"}

\* What these formats are: the order of a pixel's bytes in memory.
MemoryOrder(form) ==
  CASE form = "BGRA" -> <<"blue", "green", "red", "alpha">>
    [] form = "RGBA" -> <<"red", "green", "blue", "alpha">>
    [] form = "BGRx" -> <<"blue", "green", "red", "nothing">>

\* bpp and the three offsets, as on_param_changed sets them.
Layout(form) ==
  IF form \in {"BGRA", "BGRx"}
    THEN [bpp |-> 4, red |-> 2, green |-> 1, blue |-> 0]
    ELSE [bpp |-> 4, red |-> 0, green |-> 1, blue |-> 2]

\* stride, and the place of a pixel's first byte.
Stride(picture) == picture.width * Layout(picture.format).bpp
ByteOffset(picture, x, y) == y * Stride(picture) + x * Layout(picture.format).bpp

\* The parameters of getColorFromArea are int16_t.
Int16(n) == IF n % 65536 < 32768 THEN n % 65536 ELSE (n % 65536) - 65536

\* A picture is a record of its width, height and format, a zone one of the
\* columns x1 .. x2 - 1 and the rows y1 .. y2 - 1.
Zone(x1, x2, y1, y2) ==
  [x1 |-> Int16(x1), x2 |-> Int16(x2), y1 |-> Int16(y1), y2 |-> Int16(y2)]

\* The sides of the zones, as on_param_changed computes them.
TopBlock(picture) == picture.width \div TOP_LEDS
LeftBlock(picture) == picture.height \div LEFT_LEDS
RightBlock(picture) == picture.height \div RIGHT_LEDS

RightZone(picture, i) ==
  Zone(picture.width - PADDING, picture.width - 1,
       i * RightBlock(picture), i * RightBlock(picture) + RightBlock(picture))

TopZone(picture, i) ==
  Zone(i * TopBlock(picture), i * TopBlock(picture) + TopBlock(picture) - 1, 1, PADDING)

LeftZone(picture, i) ==
  Zone(1, PADDING, i * LeftBlock(picture), i * LeftBlock(picture) + LeftBlock(picture) - 1)

\* Mutant: the top edge is walked from left to right.
ZoneOf_TopForward(picture, led) ==
  IF led < RIGHT_LEDS THEN RightZone(picture, RIGHT_LEDS - 1 - led)
  ELSE IF led < RIGHT_LEDS + TOP_LEDS THEN TopZone(picture, led - RIGHT_LEDS)
  ELSE LeftZone(picture, led - RIGHT_LEDS - TOP_LEDS)

\* The zone that the loops give to the LED with this id.
ZoneOf(picture, led) ==
  IF led < RIGHT_LEDS THEN RightZone(picture, RIGHT_LEDS - 1 - led)
  ELSE IF led < RIGHT_LEDS + TOP_LEDS
    THEN TopZone(picture, TOP_LEDS - 1 - (led - RIGHT_LEDS))
  ELSE LeftZone(picture, led - RIGHT_LEDS - TOP_LEDS)

\* The pixels that getColorFromArea adds up, as a number.
Summed(zone) == (zone.x2 - zone.x1) * (zone.y2 - zone.y1)

\* Mutant: the number of pixels is kept in a byte.
PixelCount_Byte(zone) == Summed(zone) % 256

\* What it divides by is a uint16_t.
PixelCount(zone) == Summed(zone) % 65536

-----------------------------------------------------------------------------
\* What is taken for a colour is that colour, and the last byte that is read for
\* a zone is a byte of the picture, all of which an int can count.
INT_MAX == 2147483647
ColourBytes == {"red", "green", "blue"}
BytesSound(picture, zone) ==
  \A colour \in ColourBytes :
    LET offset == Layout(picture.format)[colour]
        lastByte == ByteOffset(picture, zone.x2 - 1, zone.y2 - 1) + offset
    IN  /\ MemoryOrder(picture.format)[offset + 1] = colour
        /\ lastByte < Stride(picture) * picture.height
        /\ Stride(picture) * picture.height <= INT_MAX

\* Every zone lies in the picture and is not empty, and its mean is taken over
\* as many pixels as have been added up: the number neither wraps around nor
\* is zero.
ZonesSound(picture) ==
  \A led \in StripLeds :
    LET zone == ZoneOf(picture, led)
    IN  /\ 0 <= zone.x1 /\ zone.x1 < zone.x2 /\ zone.x2 <= picture.width
        /\ 0 <= zone.y1 /\ zone.y1 < zone.y2 /\ zone.y2 <= picture.height
        /\ PixelCount(zone) = Summed(zone)
        /\ BytesSound(picture, zone)

\* Two zones share a pixel, or would if each were one pixel larger.
Touch(a, b) ==
  /\ a.x1 <= b.x2 + 1 /\ b.x1 <= a.x2 + 1
  /\ a.y1 <= b.y2 + 1 /\ b.y1 <= a.y2 + 1

\* LEDs next to each other on the strip show zones next to each other.
ZonesFollow(picture) ==
  \A led \in StripLeds \ {0} : Touch(ZoneOf(picture, led - 1), ZoneOf(picture, led))
=============================================================================
