------------------------- MODULE AmbientLightProofs -------------------------
(***************************************************************************)
(* What holds of the screen capture for every number of effects, every      *)
(* strip, and every picture whose sides, zones and bytes fit in the types   *)
(* that the code counts them with (ZonesFit).                               *)
(*                                                                         *)
(* The arithmetic comes first: the bounds of a block (the pixels of an edge *)
(* divided among its LEDs), the zones made of them, the bytes of a zone.    *)
(***************************************************************************)
EXTENDS AmbientLight, SequenceTheorems, TLAPS

\* A picture of which each zone has at least one pixel and at most as many as
\* pixelCount, a uint16_t, can count; whose sides are int16_t, and whose bytes an
\* int can count.
ZonesFit(picture) ==
  /\ picture.width \in Nat /\ picture.width <= 32767
  /\ picture.height \in Nat /\ picture.height <= 32767
  /\ Stride(picture) * picture.height <= INT_MAX
  /\ PADDING <= picture.width /\ PADDING <= picture.height
  /\ 2 * TOP_LEDS <= picture.width
  /\ 2 * LEFT_LEDS <= picture.height /\ RIGHT_LEDS <= picture.height
  /\ (PADDING - 1) * RightBlock(picture) < 65536
  /\ (PADDING - 1) * (TopBlock(picture) - 1) < 65536
  /\ (PADDING - 1) * (LeftBlock(picture) - 1) < 65536

\* What the portal may share.
PicturesFit == \A picture \in PICTURES : ZonesFit(picture)

Short == {n \in Int : -32768 <= n /\ n <= 32767}

-----------------------------------------------------------------------------
\* The share of n LEDs in an edge: n of them fit, and less than n pixels are left.
LEMMA BlockBounds ==
  ASSUME NEW edge \in Nat, NEW n \in Nat \ {0}
  PROVE  /\ edge \div n \in Nat
         /\ n * (edge \div n) <= edge
         /\ edge < n * (edge \div n) + n
OBVIOUS

\* The i-th of n blocks ends before the n-th does.
LEMMA BlockWithin ==
  ASSUME NEW n \in Nat, NEW i \in 0 .. n - 1, NEW b \in Nat
  PROVE  i * b \in Nat /\ i * b + b <= n * b
<1>1. PICK r \in Nat : n = i + 1 + r
  <2>1. n - 1 - i \in Nat /\ n = i + 1 + (n - 1 - i)
    OBVIOUS
  <2> QED
    BY <2>1
<1>2. n * b = i * b + b + r * b
  BY <1>1
<1>3. r * b \in Nat /\ i * b \in Nat
  OBVIOUS
<1> QED
  BY <1>2, <1>3

\* An edge at least m * n long has blocks of at least m, for m = 1 and 2.
LEMMA BlockAtLeast ==
  ASSUME NEW edge \in Nat, NEW n \in Nat \ {0}
  PROVE  /\ n <= edge => edge \div n >= 1
         /\ 2 * n <= edge => edge \div n >= 2
<1> DEFINE b == edge \div n
<1>1. /\ b \in Nat
      /\ edge < n * b + n
  BY BlockBounds
<1> HIDE DEF b
<1>2. b = 0 => n * b = 0
  OBVIOUS
<1>3. b = 1 => n * b = n
  OBVIOUS
<1>4. /\ n <= edge => b # 0
      /\ 2 * n <= edge => b # 0 /\ b # 1
  BY <1>1, <1>2, <1>3
<1>5. /\ n <= edge => b >= 1
      /\ 2 * n <= edge => b >= 2
  BY <1>1, <1>4
<1> QED
  BY <1>5 DEF b

\* The last byte of a pixel inside the picture is a byte of the picture.
LEMMA LastByteInside ==
  ASSUME NEW w \in Nat, NEW h \in Nat, NEW x \in 0 .. w - 1, NEW y \in 0 .. h - 1,
         NEW offset \in 0 .. 2
  PROVE  y * (w * 4) + x * 4 + offset < (w * 4) * h
<1> DEFINE s == w * 4
<1>1. s \in Nat /\ x * 4 + offset < s
  OBVIOUS
<1> HIDE DEF s
<1>2. y * s + s <= h * s
  BY <1>1, BlockWithin
<1>3. h * s = s * h /\ y * s \in Nat /\ h * s \in Nat
  BY <1>1
<1>4. x * 4 \in Nat /\ offset \in Nat
  OBVIOUS
<1>5. y * s + x * 4 + offset < s * h
  BY <1>1, <1>2, <1>3, <1>4
<1> QED
  BY <1>5 DEF s

-----------------------------------------------------------------------------
\* The sizes of the strip, spelled out.
LEMMA StripSizes ==
  /\ TOP_LEDS \in Nat \ {0}
  /\ LEFT_LEDS \in Nat \ {0}
  /\ RIGHT_LEDS \in Nat \ {0}
  /\ PADDING \in Nat /\ PADDING >= 2
<1>1. \A n \in 1 .. 255 : n \in Nat \ {0}
  OBVIOUS
<1>2. TOP_LEDS \in 1 .. 255 /\ LEFT_LEDS \in 1 .. 255 /\ RIGHT_LEDS \in 1 .. 255
  <2>1. {TOP_LEDS, LEFT_LEDS, RIGHT_LEDS} \subseteq 1 .. 255
    BY ZonesAssumption
  <2> QED
    BY <2>1, Zenon
<1>3. PADDING \in Nat /\ PADDING >= 2
  BY ZonesAssumption
<1>4. TOP_LEDS \in Nat \ {0} /\ LEFT_LEDS \in Nat \ {0} /\ RIGHT_LEDS \in Nat \ {0}
  BY <1>1, <1>2, Zenon
<1> QED
  BY <1>3, <1>4, Zenon

\* What ZonesSound says of one zone.
ZoneSound(picture, zone) ==
  /\ 0 <= zone.x1 /\ zone.x1 < zone.x2 /\ zone.x2 <= picture.width
  /\ 0 <= zone.y1 /\ zone.y1 < zone.y2 /\ zone.y2 <= picture.height
  /\ PixelCount(zone) = Summed(zone)
  /\ BytesSound(picture, zone)

\* What fits in 16 bits is passed on as it is.
LEMMA ShortPassed == \A n \in Short : Int16(n) = n
BY DEF Short, Int16

LEMMA ZoneSides ==
  ASSUME NEW x1 \in Short, NEW x2 \in Short, NEW y1 \in Short, NEW y2 \in Short
  PROVE  Zone(x1, x2, y1, y2) = [x1 |-> x1, x2 |-> x2, y1 |-> y1, y2 |-> y2]
BY ShortPassed DEF Zone

\* A zone inside the picture is sound if the number of its pixels fits in 16 bits.
LEMMA InsideIsSound ==
  ASSUME NEW picture, picture.format \in Offered,
         picture.width \in Nat, picture.width <= 32767,
         picture.height \in Nat, picture.height <= 32767,
         Stride(picture) * picture.height <= INT_MAX,
         NEW x1 \in Nat, NEW x2 \in Nat, NEW y1 \in Nat, NEW y2 \in Nat,
         x1 < x2, x2 <= picture.width, y1 < y2, y2 <= picture.height,
         (x2 - x1) * (y2 - y1) < 65536
  PROVE  ZoneSound(picture, Zone(x1, x2, y1, y2))
<1> DEFINE zone == Zone(x1, x2, y1, y2)
           w == picture.width
           h == picture.height
<1>1. zone.x1 = x1 /\ zone.x2 = x2 /\ zone.y1 = y1 /\ zone.y2 = y2
  <2>1. x1 \in Short /\ x2 \in Short /\ y1 \in Short /\ y2 \in Short
    BY DEF Short
  <2>2. zone = [x1 |-> x1, x2 |-> x2, y1 |-> y1, y2 |-> y2]
    BY <2>1, ZoneSides
  <2> QED
    BY <2>2
<1>2. PixelCount(zone) = Summed(zone)
  <2>1. Summed(zone) = (x2 - x1) * (y2 - y1)
    BY <1>1 DEF Summed
  <2>2. PICK c \in Nat, d \in Nat : c = x2 - x1 /\ d = y2 - y1
    OBVIOUS
  <2>3. c * d \in Nat /\ c * d < 65536
    BY <2>2
  <2> QED
    BY <2>1, <2>2, <2>3 DEF PixelCount
<1>3. BytesSound(picture, zone)
  <2> SUFFICES ASSUME NEW colour \in ColourBytes
               PROVE  LET offset == Layout(picture.format)[colour]
                          last == ByteOffset(picture, zone.x2 - 1, zone.y2 - 1) + offset
                      IN  /\ MemoryOrder(picture.format)[offset + 1] = colour
                          /\ last < Stride(picture) * picture.height
                          /\ Stride(picture) * picture.height <= INT_MAX
    BY DEF BytesSound
  <2> DEFINE offset == Layout(picture.format)[colour]
  <2>1. /\ Layout(picture.format).bpp = 4
        /\ offset \in 0 .. 2
        /\ MemoryOrder(picture.format)[offset + 1] = colour
    BY DEF Layout, MemoryOrder, Offered, ColourBytes
  <2> HIDE DEF offset
  <2>2. ByteOffset(picture, zone.x2 - 1, zone.y2 - 1) = (y2 - 1) * (w * 4) + (x2 - 1) * 4
    BY <1>1, <2>1 DEF ByteOffset, Stride
  <2>3. Stride(picture) = w * 4
    BY <2>1 DEF Stride
  <2>4. x2 - 1 \in 0 .. w - 1 /\ y2 - 1 \in 0 .. h - 1
    OBVIOUS
  <2>5. (y2 - 1) * (w * 4) + (x2 - 1) * 4 + offset < (w * 4) * h
    BY <2>1, <2>4, LastByteInside
  <2> QED
    BY <2>1, <2>2, <2>3, <2>5 DEF offset
<1>4. /\ 0 <= zone.x1 /\ zone.x1 < zone.x2 /\ zone.x2 <= picture.width
      /\ 0 <= zone.y1 /\ zone.y1 < zone.y2 /\ zone.y2 <= picture.height
  BY <1>1
<1> QED
  BY <1>2, <1>3, <1>4 DEF ZoneSound

\* The zones of the right edge, one block of rows for each LED.
LEMMA RightZoneSound ==
  ASSUME NEW picture, picture.format \in Offered, ZonesFit(picture),
         NEW i \in 0 .. RIGHT_LEDS - 1
  PROVE  ZoneSound(picture, RightZone(picture, i))
<1> DEFINE b == RightBlock(picture)
           w == picture.width
           h == picture.height
<1>1. /\ RIGHT_LEDS \in Nat \ {0} /\ PADDING \in Nat /\ PADDING >= 2
      /\ w \in Nat /\ h \in Nat /\ w <= 32767 /\ h <= 32767
      /\ Stride(picture) * h <= INT_MAX
  BY StripSizes DEF ZonesFit
<1>2. b \in Nat /\ RIGHT_LEDS * b <= h /\ b >= 1
  <2>1. b = h \div RIGHT_LEDS /\ RIGHT_LEDS <= h
    BY DEF RightBlock, ZonesFit
  <2> HIDE DEF b
  <2> QED
    BY <1>1, <2>1, BlockBounds, BlockAtLeast
<1>3. i * b \in Nat /\ i * b + b <= RIGHT_LEDS * b
  BY <1>1, <1>2, BlockWithin
<1>4. (PADDING - 1) * b < 65536 /\ PADDING <= w
  BY DEF ZonesFit
<1> HIDE DEF b
<1>5. PICK x1 \in Nat, x2 \in Nat, y1 \in Nat, y2 \in Nat :
        x1 = w - PADDING /\ x2 = w - 1 /\ y1 = i * b /\ y2 = i * b + b
  <2>1. w - PADDING \in Nat /\ w - 1 \in Nat
    BY <1>1, <1>4
  <2>2. i * b + b \in Nat
    BY <1>2, <1>3
  <2> QED
    BY <1>3, <2>1, <2>2
<1>6. RightZone(picture, i) = Zone(x1, x2, y1, y2)
  BY <1>5 DEF RightZone, b
<1>7. x1 < x2 /\ x2 <= w /\ y1 < y2 /\ y2 <= h /\ (x2 - x1) * (y2 - y1) < 65536
  <2>1. RIGHT_LEDS * b \in Nat
    BY <1>1, <1>2
  <2>2. y2 <= h
    BY <1>1, <1>2, <1>3, <1>5, <2>1
  <2>3. x2 - x1 = PADDING - 1 /\ y2 - y1 = b
    BY <1>1, <1>2, <1>3, <1>5
  <2>4. x1 < x2 /\ x2 <= w /\ y1 < y2
    BY <1>1, <1>2, <1>3, <1>5
  <2> QED
    BY <1>4, <2>2, <2>3, <2>4
<1> HIDE DEF w, h
<1>8. picture.width = w /\ picture.height = h
  BY DEF w, h
<1> QED
  BY <1>1, <1>6, <1>7, <1>8, InsideIsSound

\* The zones of the top edge leave out the last column of each block.
LEMMA TopZoneSound ==
  ASSUME NEW picture, picture.format \in Offered, ZonesFit(picture),
         NEW i \in 0 .. TOP_LEDS - 1
  PROVE  ZoneSound(picture, TopZone(picture, i))
<1> DEFINE b == TopBlock(picture)
           w == picture.width
           h == picture.height
<1>1. /\ TOP_LEDS \in Nat \ {0} /\ PADDING \in Nat /\ PADDING >= 2
      /\ w \in Nat /\ h \in Nat /\ w <= 32767 /\ h <= 32767
      /\ Stride(picture) * h <= INT_MAX
  BY StripSizes DEF ZonesFit
<1>2. b \in Nat /\ TOP_LEDS * b <= w /\ b >= 2
  <2>1. b = w \div TOP_LEDS /\ 2 * TOP_LEDS <= w
    BY DEF TopBlock, ZonesFit
  <2> HIDE DEF b
  <2> QED
    BY <1>1, <2>1, BlockBounds, BlockAtLeast
<1>3. i * b \in Nat /\ i * b + b <= TOP_LEDS * b
  BY <1>1, <1>2, BlockWithin
<1>4. (PADDING - 1) * (b - 1) < 65536 /\ PADDING <= h
  BY DEF ZonesFit
<1> HIDE DEF b
<1>5. PICK x1 \in Nat, x2 \in Nat : x1 = i * b /\ x2 = i * b + b - 1
  <2>1. i * b + b - 1 \in Nat
    BY <1>2, <1>3
  <2> QED
    BY <1>3, <2>1
<1>6. TopZone(picture, i) = Zone(x1, x2, 1, PADDING)
  BY <1>5 DEF TopZone, b
<1>7. x1 < x2 /\ x2 <= w /\ 1 < PADDING /\ PADDING <= h /\ (x2 - x1) * (PADDING - 1) < 65536
  <2>1. TOP_LEDS * b \in Nat
    BY <1>1, <1>2
  <2>2. x2 <= w
    BY <1>1, <1>2, <1>3, <1>5, <2>1
  <2>3. x2 - x1 = b - 1
    BY <1>1, <1>2, <1>3, <1>5
  <2>4. x1 < x2
    BY <1>1, <1>2, <1>3, <1>5
  <2>5. (b - 1) * (PADDING - 1) = (PADDING - 1) * (b - 1)
    BY <1>1, <1>2
  <2> QED
    BY <1>1, <1>4, <2>2, <2>3, <2>4, <2>5
<1> HIDE DEF w, h
<1>8. picture.width = w /\ picture.height = h
  BY DEF w, h
<1> QED
  BY <1>1, <1>6, <1>7, <1>8, InsideIsSound

\* The zones of the left edge leave out the last row of each block.
LEMMA LeftZoneSound ==
  ASSUME NEW picture, picture.format \in Offered, ZonesFit(picture),
         NEW i \in 0 .. LEFT_LEDS - 1
  PROVE  ZoneSound(picture, LeftZone(picture, i))
<1> DEFINE b == LeftBlock(picture)
           w == picture.width
           h == picture.height
<1>1. /\ LEFT_LEDS \in Nat \ {0} /\ PADDING \in Nat /\ PADDING >= 2
      /\ w \in Nat /\ h \in Nat /\ w <= 32767 /\ h <= 32767
      /\ Stride(picture) * h <= INT_MAX
  BY StripSizes DEF ZonesFit
<1>2. b \in Nat /\ LEFT_LEDS * b <= h /\ b >= 2
  <2>1. b = h \div LEFT_LEDS /\ 2 * LEFT_LEDS <= h
    BY DEF LeftBlock, ZonesFit
  <2> HIDE DEF b
  <2> QED
    BY <1>1, <2>1, BlockBounds, BlockAtLeast
<1>3. i * b \in Nat /\ i * b + b <= LEFT_LEDS * b
  BY <1>1, <1>2, BlockWithin
<1>4. (PADDING - 1) * (b - 1) < 65536 /\ PADDING <= w
  BY DEF ZonesFit
<1> HIDE DEF b
<1>5. PICK y1 \in Nat, y2 \in Nat : y1 = i * b /\ y2 = i * b + b - 1
  <2>1. i * b + b - 1 \in Nat
    BY <1>2, <1>3
  <2> QED
    BY <1>3, <2>1
<1>6. LeftZone(picture, i) = Zone(1, PADDING, y1, y2)
  BY <1>5 DEF LeftZone, b
<1>7. 1 < PADDING /\ PADDING <= w /\ y1 < y2 /\ y2 <= h /\ (PADDING - 1) * (y2 - y1) < 65536
  <2>1. LEFT_LEDS * b \in Nat
    BY <1>1, <1>2
  <2>2. y2 <= h
    BY <1>1, <1>2, <1>3, <1>5, <2>1
  <2>3. y2 - y1 = b - 1
    BY <1>1, <1>2, <1>3, <1>5
  <2>4. y1 < y2
    BY <1>1, <1>2, <1>3, <1>5
  <2> QED
    BY <1>1, <1>4, <2>2, <2>3, <2>4
<1> HIDE DEF w, h
<1>8. picture.width = w /\ picture.height = h
  BY DEF w, h
<1> QED
  BY <1>1, <1>6, <1>7, <1>8, InsideIsSound


\* All zones of a picture that fits.
LEMMA PictureSound ==
  ASSUME NEW picture, picture.format \in Offered, ZonesFit(picture)
  PROVE  ZonesSound(picture)
<1> SUFFICES ASSUME NEW led \in StripLeds
             PROVE  ZoneSound(picture, ZoneOf(picture, led))
  BY DEF ZonesSound, ZoneSound
<1>1. RIGHT_LEDS \in Nat /\ TOP_LEDS \in Nat /\ LEFT_LEDS \in Nat
  BY StripSizes
<1>2. led \in 0 .. RIGHT_LEDS + TOP_LEDS + LEFT_LEDS - 1
  BY DEF StripLeds
<1>3. CASE led < RIGHT_LEDS
  <2>1. RIGHT_LEDS - 1 - led \in 0 .. RIGHT_LEDS - 1
    BY <1>1, <1>2, <1>3
  <2> QED
    BY <1>3, <2>1, RightZoneSound DEF ZoneOf
<1>4. CASE ~(led < RIGHT_LEDS) /\ led < RIGHT_LEDS + TOP_LEDS
  <2>1. TOP_LEDS - 1 - (led - RIGHT_LEDS) \in 0 .. TOP_LEDS - 1
    BY <1>1, <1>2, <1>4
  <2> QED
    BY <1>4, <2>1, TopZoneSound DEF ZoneOf
<1>5. CASE ~(led < RIGHT_LEDS) /\ ~(led < RIGHT_LEDS + TOP_LEDS)
  <2>1. led - RIGHT_LEDS - TOP_LEDS \in 0 .. LEFT_LEDS - 1
    BY <1>1, <1>2, <1>5
  <2> QED
    BY <1>5, <2>1, LeftZoneSound DEF ZoneOf
<1> QED
  BY <1>3, <1>4, <1>5

-----------------------------------------------------------------------------
(* ZonesFit asks for no more than it must.                                  *)

\* What is not 16 bits wide but less than 17 is passed on with the other sign.
LEMMA Wrapped ==
  /\ \A n \in Int : -65536 < n /\ n < -32768 => Int16(n) = n + 65536
  /\ \A n \in Int : 32768 <= n /\ n < 65536 => Int16(n) = n - 65536
BY DEF Int16

\* A number that 16 bits can count, and do, is less than 65536.
LEMMA CountedWhole ==
  ASSUME NEW zone, Summed(zone) \in Nat, PixelCount(zone) = Summed(zone)
  PROVE  Summed(zone) < 65536
<1> DEFINE n == Summed(zone)
<1>1. n \in Nat /\ n % 65536 = n
  BY DEF PixelCount
<1> HIDE DEF n
<1>2. n < 65536
  BY <1>1
<1> QED
  BY <1>2 DEF n

\* What n LEDs share is not more than there is.
LEMMA ShareOfEdge ==
  ASSUME NEW edge \in Nat, NEW n \in Nat \ {0}
  PROVE  edge \div n \in Nat /\ edge \div n <= edge /\ n * (edge \div n) <= edge
<1> DEFINE b == edge \div n
<1>1. b \in Nat /\ n * b <= edge
  BY BlockBounds
<1> HIDE DEF b
<1>2. PICK m \in Nat : n = m + 1
  <2>1. n - 1 \in Nat /\ n = (n - 1) + 1
    OBVIOUS
  <2> QED
    BY <2>1
<1>3. n * b = m * b + b /\ m * b \in Nat
  BY <1>1, <1>2
<1>4. b <= edge
  BY <1>1, <1>3
<1> QED
  BY <1>1, <1>4 DEF b

\* n blocks of at least 1 or 2 are at least n or 2 * n long.
LEMMA AtLeastBlock ==
  ASSUME NEW edge \in Nat, NEW n \in Nat \ {0}, NEW b \in Nat, n * b <= edge
  PROVE  (b >= 1 => n <= edge) /\ (b >= 2 => 2 * n <= edge)
<1>1. ASSUME b >= 1 PROVE n <= edge
  <2>1. PICK r \in Nat : b = r + 1
    <3>1. b - 1 \in Nat /\ b = (b - 1) + 1
      BY <1>1
    <3> QED
      BY <3>1
  <2>2. n * b = n * r + n /\ n * r \in Nat
    BY <2>1
  <2> QED
    BY <2>2
<1>2. ASSUME b >= 2 PROVE 2 * n <= edge
  <2>1. PICK r \in Nat : b = r + 2
    <3>1. b - 2 \in Nat /\ b = (b - 2) + 2
      BY <1>2
    <3> QED
      BY <3>1
  <2>2. n * b = n * r + 2 * n /\ n * r \in Nat
    BY <2>1
  <2> QED
    BY <2>2
<1> QED
  BY <1>1, <1>2

\* The uppermost zone of the right edge has a row, and PADDING is not too wide.
LEMMA RightZoneNeeds ==
  ASSUME NEW picture, NEW w \in Nat, w <= 32767, picture.width = w,
         RightBlock(picture) \in Nat, RightBlock(picture) <= 32767,
         ZoneSound(picture, RightZone(picture, 0))
  PROVE  /\ PADDING <= w /\ RightBlock(picture) >= 1
         /\ (PADDING - 1) * RightBlock(picture) < 65536
<1> DEFINE b == RightBlock(picture)
           zone == RightZone(picture, 0)
<1>1. PADDING \in Nat /\ PADDING >= 2 /\ PADDING < 65536
  BY ZonesAssumption
<1>2. b \in Nat /\ b <= 32767
  OBVIOUS
<1>3. zone = Zone(w - PADDING, w - 1, 0, b)
  <2>1. 0 * b = 0 /\ 0 + b = b
    OBVIOUS
  <2> QED
    BY <2>1 DEF RightZone
<1> HIDE DEF b
<1>4. /\ zone.x1 = Int16(w - PADDING) /\ zone.x2 = Int16(w - 1)
      /\ zone.y1 = Int16(0) /\ zone.y2 = Int16(b)
  BY <1>3 DEF Zone
<1>5. Int16(0) = 0 /\ Int16(b) = b /\ Int16(w - 1) = w - 1
  BY <1>2, ShortPassed DEF Short
<1>6. /\ 0 <= zone.x1 /\ zone.x1 < zone.x2
      /\ zone.y1 < zone.y2
      /\ PixelCount(zone) = Summed(zone)
  BY DEF ZoneSound
<1> HIDE DEF zone
<1>7. PADDING <= w
  <2> SUFFICES ASSUME PADDING > w
               PROVE  FALSE
    BY <1>1
  <2>1. CASE w - PADDING < -32768
    <3>1. w - PADDING \in Int /\ -65536 < w - PADDING
      BY <1>1
    <3>2. Int16(w - PADDING) = (w - PADDING) + 65536
      BY <2>1, <3>1, Wrapped
    <3> QED
      BY <1>1, <1>4, <1>5, <1>6, <3>2
  <2>2. CASE ~(w - PADDING < -32768)
    <3>1. w - PADDING \in Short
      BY <1>1, <2>2 DEF Short
    <3>2. Int16(w - PADDING) = w - PADDING
      BY <3>1, ShortPassed
    <3> QED
      BY <1>1, <1>4, <1>6, <3>2
  <2> QED
    BY <2>1, <2>2
<1>8. b >= 1
  BY <1>2, <1>4, <1>5, <1>6
<1>9. Summed(zone) = (PADDING - 1) * b
  <2>1. Int16(w - PADDING) = w - PADDING
    <3>1. w - PADDING \in Short
      BY <1>1, <1>7 DEF Short
    <3> QED
      BY <3>1, ShortPassed
  <2>2. zone.x2 - zone.x1 = PADDING - 1 /\ zone.y2 - zone.y1 = b
    BY <1>1, <1>2, <1>4, <1>5, <2>1
  <2> QED
    BY <2>2 DEF Summed
<1>10. (PADDING - 1) * b < 65536
  <2>1. (PADDING - 1) * b \in Nat
    BY <1>1, <1>2
  <2> QED
    BY <1>6, <1>9, <2>1, CountedWhole
<1> QED
  BY <1>7, <1>8, <1>10 DEF b

\* A zone of the top edge has a column, and PADDING is not too deep.
LEMMA TopZoneNeeds ==
  ASSUME NEW picture, NEW h \in Nat, h <= 32767, picture.height = h,
         TopBlock(picture) \in Nat, TopBlock(picture) <= 32767,
         ZoneSound(picture, TopZone(picture, 0))
  PROVE  /\ PADDING <= h /\ TopBlock(picture) >= 2
         /\ (PADDING - 1) * (TopBlock(picture) - 1) < 65536
<1> DEFINE b == TopBlock(picture)
           zone == TopZone(picture, 0)
<1>1. PADDING \in Nat /\ PADDING >= 2 /\ PADDING < 65536
  BY ZonesAssumption
<1>2. b \in Nat /\ b <= 32767
  OBVIOUS
<1>3. zone = Zone(0, b - 1, 1, PADDING)
  <2>1. 0 * b = 0 /\ 0 + b - 1 = b - 1
    OBVIOUS
  <2> QED
    BY <2>1 DEF TopZone
<1> HIDE DEF b
<1>4. /\ zone.x1 = Int16(0) /\ zone.x2 = Int16(b - 1)
      /\ zone.y1 = Int16(1) /\ zone.y2 = Int16(PADDING)
  BY <1>3 DEF Zone
<1>5. Int16(0) = 0 /\ Int16(1) = 1 /\ Int16(b - 1) = b - 1
  BY <1>2, ShortPassed DEF Short
<1>6. /\ zone.x1 < zone.x2
      /\ zone.y1 < zone.y2 /\ zone.y2 <= h
      /\ PixelCount(zone) = Summed(zone)
  BY DEF ZoneSound
<1> HIDE DEF zone
<1>7. Int16(PADDING) = PADDING
  <2>1. CASE PADDING >= 32768
    <3>1. Int16(PADDING) = PADDING - 65536
      BY <1>1, <2>1, Wrapped
    <3> QED
      BY <1>1, <1>4, <1>5, <1>6, <3>1
  <2>2. CASE PADDING < 32768
    BY <1>1, <2>2, ShortPassed DEF Short
  <2> QED
    BY <1>1, <2>1, <2>2
<1>8. PADDING <= h /\ b >= 2
  BY <1>1, <1>2, <1>4, <1>5, <1>6, <1>7
<1>9. Summed(zone) = (PADDING - 1) * (b - 1)
  <2>1. zone.x2 - zone.x1 = b - 1 /\ zone.y2 - zone.y1 = PADDING - 1
    BY <1>1, <1>2, <1>4, <1>5, <1>7
  <2>2. PICK c \in Nat, d \in Nat : c = b - 1 /\ d = PADDING - 1
    BY <1>1, <1>8, <1>2
  <2>3. c * d = d * c
    OBVIOUS
  <2> QED
    BY <2>1, <2>2, <2>3 DEF Summed
<1>10. (PADDING - 1) * (b - 1) < 65536
  <2>1. (PADDING - 1) * (b - 1) \in Nat
    BY <1>1, <1>2, <1>8
  <2> QED
    BY <1>6, <1>9, <2>1, CountedWhole
<1> QED
  BY <1>8, <1>10 DEF b

\* A zone of the left edge has a row.
LEMMA LeftZoneNeeds ==
  ASSUME NEW picture, LeftBlock(picture) \in Nat, LeftBlock(picture) <= 32767,
         PADDING <= 32767, ZoneSound(picture, LeftZone(picture, 0))
  PROVE  /\ LeftBlock(picture) >= 2
         /\ (PADDING - 1) * (LeftBlock(picture) - 1) < 65536
<1> DEFINE b == LeftBlock(picture)
           zone == LeftZone(picture, 0)
<1>1. PADDING \in Nat /\ PADDING >= 2 /\ PADDING <= 32767
  BY ZonesAssumption
<1>2. b \in Nat /\ b <= 32767
  OBVIOUS
<1>3. zone = Zone(1, PADDING, 0, b - 1)
  <2>1. 0 * b = 0 /\ 0 + b - 1 = b - 1
    OBVIOUS
  <2> QED
    BY <2>1 DEF LeftZone
<1> HIDE DEF b
<1>4. /\ zone.x1 = Int16(1) /\ zone.x2 = Int16(PADDING)
      /\ zone.y1 = Int16(0) /\ zone.y2 = Int16(b - 1)
  BY <1>3 DEF Zone
<1>5. Int16(0) = 0 /\ Int16(1) = 1 /\ Int16(b - 1) = b - 1 /\ Int16(PADDING) = PADDING
  BY <1>1, <1>2, ShortPassed DEF Short
<1>6. zone.y1 < zone.y2 /\ PixelCount(zone) = Summed(zone)
  BY DEF ZoneSound
<1> HIDE DEF zone
<1>7. b >= 2
  BY <1>2, <1>4, <1>5, <1>6
<1>8. Summed(zone) = (PADDING - 1) * (b - 1)
  <2>1. zone.x2 - zone.x1 = PADDING - 1 /\ zone.y2 - zone.y1 = b - 1
    BY <1>1, <1>2, <1>4, <1>5
  <2> QED
    BY <2>1 DEF Summed
<1>9. (PADDING - 1) * (b - 1) < 65536
  <2>1. (PADDING - 1) * (b - 1) \in Nat
    BY <1>1, <1>2, <1>7
  <2> QED
    BY <1>6, <1>8, <2>1, CountedWhole
<1> QED
  BY <1>7, <1>9 DEF b

\* The zones of a picture with sides of 16 bits are sound only if it fits: no
\* weaker condition than ZonesFit keeps on_process inside such a picture and its
\* counter of pixels from wrapping around.
THEOREM FitIsExact ==
  ASSUME NEW picture, picture.format \in Offered,
         picture.width \in Nat, picture.width <= 32767,
         picture.height \in Nat, picture.height <= 32767
  PROVE  ZonesSound(picture) <=> ZonesFit(picture)
<1>1. ZonesFit(picture) => ZonesSound(picture)
  BY PictureSound
<1>2. ASSUME ZonesSound(picture)
      PROVE  ZonesFit(picture)
  <2> DEFINE w == picture.width
             h == picture.height
             r == RightBlock(picture)
             t == TopBlock(picture)
             l == LeftBlock(picture)
  <2>1. /\ RIGHT_LEDS \in Nat \ {0} /\ TOP_LEDS \in Nat \ {0} /\ LEFT_LEDS \in Nat \ {0}
        /\ PADDING \in Nat /\ PADDING >= 2
    BY StripSizes
  <2>2. \A led \in StripLeds : ZoneSound(picture, ZoneOf(picture, led))
    BY <1>2 DEF ZonesSound, ZoneSound
  <2>3. ZoneSound(picture, RightZone(picture, 0))
    <3>1. RIGHT_LEDS - 1 \in StripLeds
      BY <2>1 DEF StripLeds
    <3>2. ZoneOf(picture, RIGHT_LEDS - 1) = RightZone(picture, 0)
      BY <2>1 DEF ZoneOf
    <3> QED
      BY <2>2, <3>1, <3>2
  <2>4. ZoneSound(picture, TopZone(picture, 0))
    <3>1. RIGHT_LEDS + TOP_LEDS - 1 \in StripLeds
      BY <2>1 DEF StripLeds
    <3>2. ZoneOf(picture, RIGHT_LEDS + TOP_LEDS - 1) = TopZone(picture, 0)
      BY <2>1 DEF ZoneOf
    <3> QED
      BY <2>2, <3>1, <3>2
  <2>5. ZoneSound(picture, LeftZone(picture, 0))
    <3>1. RIGHT_LEDS + TOP_LEDS \in StripLeds
      BY <2>1 DEF StripLeds
    <3>2. ZoneOf(picture, RIGHT_LEDS + TOP_LEDS) = LeftZone(picture, 0)
      BY <2>1 DEF ZoneOf
    <3> QED
      BY <2>2, <3>1, <3>2
  <2>6. w \in Nat /\ w <= 32767 /\ h \in Nat /\ h <= 32767
    OBVIOUS
  <2>7. r = h \div RIGHT_LEDS /\ t = w \div TOP_LEDS /\ l = h \div LEFT_LEDS
    BY DEF RightBlock, TopBlock, LeftBlock
  <2> HIDE DEF w, h, r, t, l
  <2>8. r \in Nat /\ r <= h /\ RIGHT_LEDS * r <= h
    <3>1. h \in Nat /\ RIGHT_LEDS \in Nat \ {0} /\ r = h \div RIGHT_LEDS
      BY <2>1, <2>6, <2>7
    <3> QED
      BY <3>1, ShareOfEdge
  <2>9. t \in Nat /\ t <= w /\ TOP_LEDS * t <= w
    <3>1. w \in Nat /\ TOP_LEDS \in Nat \ {0} /\ t = w \div TOP_LEDS
      BY <2>1, <2>6, <2>7
    <3> QED
      BY <3>1, ShareOfEdge
  <2>10. l \in Nat /\ l <= h /\ LEFT_LEDS * l <= h
    <3>1. h \in Nat /\ LEFT_LEDS \in Nat \ {0} /\ l = h \div LEFT_LEDS
      BY <2>1, <2>6, <2>7
    <3> QED
      BY <3>1, ShareOfEdge
  <2>11. PADDING <= w /\ r >= 1 /\ (PADDING - 1) * r < 65536
    <3>1. r <= 32767
      BY <2>6, <2>8
    <3> QED
      BY <2>3, <2>6, <2>8, <3>1, RightZoneNeeds DEF r, w
  <2>12. PADDING <= h /\ t >= 2 /\ (PADDING - 1) * (t - 1) < 65536
    <3>1. t <= 32767
      BY <2>6, <2>9
    <3> QED
      BY <2>4, <2>6, <2>9, <3>1, TopZoneNeeds DEF t, h
  <2>13. l >= 2 /\ (PADDING - 1) * (l - 1) < 65536
    <3>1. l <= 32767 /\ PADDING <= 32767
      BY <2>1, <2>6, <2>10, <2>12
    <3> QED
      BY <2>5, <2>10, <3>1, LeftZoneNeeds DEF l
  <2>14. RIGHT_LEDS <= h
    BY <2>1, <2>6, <2>8, <2>11, AtLeastBlock
  <2>15. 2 * TOP_LEDS <= w
    BY <2>1, <2>6, <2>9, <2>12, AtLeastBlock
  <2>16. 2 * LEFT_LEDS <= h
    BY <2>1, <2>6, <2>10, <2>13, AtLeastBlock
  <2>17. Stride(picture) * picture.height <= INT_MAX
    <3>1. BytesSound(picture, RightZone(picture, 0))
      BY <2>3 DEF ZoneSound
    <3>2. "red" \in ColourBytes
      BY DEF ColourBytes
    <3> QED
      BY <3>1, <3>2 DEF BytesSound
  <2> QED
    BY <2>6, <2>11, <2>12, <2>13, <2>14, <2>15, <2>16, <2>17 DEF ZonesFit, w, h, r, t, l
<1> QED
  BY <1>1, <1>2

-----------------------------------------------------------------------------
\* Along an edge the next block begins where the one before it ends.
LEMMA NextBlock ==
  ASSUME NEW i \in Nat, NEW b \in Nat
  PROVE  (i + 1) * b = i * b + b /\ i * b \in Nat
OBVIOUS

\* From LED to LED up the right edge of the screen.
LEMMA RightFollows ==
  ASSUME NEW picture, ZonesFit(picture), NEW i \in Nat, i + 1 < RIGHT_LEDS
  PROVE  Touch(RightZone(picture, i + 1), RightZone(picture, i))
<1> DEFINE b == RightBlock(picture)
           w == picture.width
           h == picture.height
<1>1. /\ w \in Nat /\ w <= 32767 /\ PADDING <= w
      /\ h \in Nat /\ h <= 32767 /\ PADDING <= h
      /\ PADDING \in Nat /\ PADDING >= 2 /\ RIGHT_LEDS \in Nat \ {0}
      /\ b = h \div RIGHT_LEDS
  BY StripSizes DEF RightBlock, ZonesFit
<1> HIDE DEF b, w, h
<1>2. b \in Nat /\ RIGHT_LEDS * b <= h
  BY <1>1, BlockBounds
<1>3. PICK y \in Nat : y = i * b /\ (i + 1) * b = y + b /\ y + b + b <= 32767
  <2>1. (i + 1) * b + b <= RIGHT_LEDS * b /\ RIGHT_LEDS * b \in Nat
    <3>1. i + 1 \in 0 .. RIGHT_LEDS - 1
      BY <1>1
    <3> QED
      BY <1>1, <1>2, <3>1, BlockWithin
  <2>2. (i + 1) * b = i * b + b /\ i * b \in Nat
    BY <1>2, NextBlock
  <2> QED
    BY <1>1, <1>2, <2>1, <2>2
<1>4. /\ RightZone(picture, i) = Zone(w - PADDING, w - 1, y, y + b)
      /\ RightZone(picture, i + 1) = Zone(w - PADDING, w - 1, y + b, y + b + b)
  BY <1>3 DEF RightZone, b, w
<1>5. /\ w - PADDING \in Short /\ w - 1 \in Short /\ y \in Short
      /\ y + b \in Short /\ y + b + b \in Short
  BY <1>1, <1>2, <1>3 DEF Short
<1>6. /\ Zone(w - PADDING, w - 1, y, y + b) = 
           [x1 |-> w - PADDING, x2 |-> w - 1, y1 |-> y, y2 |-> y + b]
      /\ Zone(w - PADDING, w - 1, y + b, y + b + b) = 
           [x1 |-> w - PADDING, x2 |-> w - 1, y1 |-> y + b, y2 |-> y + b + b]
  BY <1>5, ShortPassed DEF Zone
<1>7. Touch(Zone(w - PADDING, w - 1, y + b, y + b + b), Zone(w - PADDING, w - 1, y, y + b))
  BY <1>1, <1>2, <1>3, <1>6 DEF Touch
<1> QED
  BY <1>4, <1>7

\* From LED to LED along the top edge, to the left.
LEMMA TopFollows ==
  ASSUME NEW picture, ZonesFit(picture), NEW i \in Nat, i + 1 < TOP_LEDS
  PROVE  Touch(TopZone(picture, i + 1), TopZone(picture, i))
<1> DEFINE b == TopBlock(picture)
           w == picture.width
           h == picture.height
<1>1. /\ w \in Nat /\ w <= 32767 /\ PADDING <= w
      /\ h \in Nat /\ h <= 32767 /\ PADDING <= h
      /\ PADDING \in Nat /\ PADDING >= 2 /\ TOP_LEDS \in Nat \ {0}
      /\ b = w \div TOP_LEDS
  BY StripSizes DEF TopBlock, ZonesFit
<1> HIDE DEF b, w, h
<1>2. b \in Nat /\ TOP_LEDS * b <= w
  BY <1>1, BlockBounds
<1>3. PICK x \in Nat : x = i * b /\ (i + 1) * b = x + b /\ x + b + b <= 32767
  <2>1. (i + 1) * b + b <= TOP_LEDS * b /\ TOP_LEDS * b \in Nat
    <3>1. i + 1 \in 0 .. TOP_LEDS - 1
      BY <1>1
    <3> QED
      BY <1>1, <1>2, <3>1, BlockWithin
  <2>2. (i + 1) * b = i * b + b /\ i * b \in Nat
    BY <1>2, NextBlock
  <2> QED
    BY <1>1, <1>2, <2>1, <2>2
<1>4. /\ TopZone(picture, i) = Zone(x, x + b - 1, 1, PADDING)
      /\ TopZone(picture, i + 1) = Zone(x + b, x + b + b - 1, 1, PADDING)
  BY <1>3 DEF TopZone, b, w
<1>5. /\ x \in Short /\ x + b - 1 \in Short /\ 1 \in Short
      /\ PADDING \in Short /\ x + b \in Short /\ x + b + b - 1 \in Short
  BY <1>1, <1>2, <1>3 DEF Short
<1>6. /\ Zone(x, x + b - 1, 1, PADDING) = 
           [x1 |-> x, x2 |-> x + b - 1, y1 |-> 1, y2 |-> PADDING]
      /\ Zone(x + b, x + b + b - 1, 1, PADDING) = 
           [x1 |-> x + b, x2 |-> x + b + b - 1, y1 |-> 1, y2 |-> PADDING]
  BY <1>5, ShortPassed DEF Zone
<1>7. Touch(Zone(x + b, x + b + b - 1, 1, PADDING), Zone(x, x + b - 1, 1, PADDING))
  BY <1>1, <1>2, <1>3, <1>6 DEF Touch
<1> QED
  BY <1>4, <1>7

\* From LED to LED down the left edge.
LEMMA LeftFollows ==
  ASSUME NEW picture, ZonesFit(picture), NEW i \in Nat, i + 1 < LEFT_LEDS
  PROVE  Touch(LeftZone(picture, i), LeftZone(picture, i + 1))
<1> DEFINE b == LeftBlock(picture)
           w == picture.width
           h == picture.height
<1>1. /\ w \in Nat /\ w <= 32767 /\ PADDING <= w
      /\ h \in Nat /\ h <= 32767 /\ PADDING <= h
      /\ PADDING \in Nat /\ PADDING >= 2 /\ LEFT_LEDS \in Nat \ {0}
      /\ b = h \div LEFT_LEDS
  BY StripSizes DEF LeftBlock, ZonesFit
<1> HIDE DEF b, w, h
<1>2. b \in Nat /\ LEFT_LEDS * b <= h
  BY <1>1, BlockBounds
<1>3. PICK y \in Nat : y = i * b /\ (i + 1) * b = y + b /\ y + b + b <= 32767
  <2>1. (i + 1) * b + b <= LEFT_LEDS * b /\ LEFT_LEDS * b \in Nat
    <3>1. i + 1 \in 0 .. LEFT_LEDS - 1
      BY <1>1
    <3> QED
      BY <1>1, <1>2, <3>1, BlockWithin
  <2>2. (i + 1) * b = i * b + b /\ i * b \in Nat
    BY <1>2, NextBlock
  <2> QED
    BY <1>1, <1>2, <2>1, <2>2
<1>4. /\ LeftZone(picture, i) = Zone(1, PADDING, y, y + b - 1)
      /\ LeftZone(picture, i + 1) = Zone(1, PADDING, y + b, y + b + b - 1)
  BY <1>3 DEF LeftZone, b, w
<1>5. /\ 1 \in Short /\ PADDING \in Short /\ y \in Short
      /\ y + b - 1 \in Short /\ y + b \in Short /\ y + b + b - 1 \in Short
  BY <1>1, <1>2, <1>3 DEF Short
<1>6. /\ Zone(1, PADDING, y, y + b - 1) = 
           [x1 |-> 1, x2 |-> PADDING, y1 |-> y, y2 |-> y + b - 1]
      /\ Zone(1, PADDING, y + b, y + b + b - 1) = 
           [x1 |-> 1, x2 |-> PADDING, y1 |-> y + b, y2 |-> y + b + b - 1]
  BY <1>5, ShortPassed DEF Zone
<1>7. Touch(Zone(1, PADDING, y, y + b - 1), Zone(1, PADDING, y + b, y + b + b - 1))
  BY <1>1, <1>2, <1>3, <1>6 DEF Touch
<1> QED
  BY <1>4, <1>7

\* The block of an edge that an int16_t can hold is such a number too, and not 0.
LEMMA BlockSmall ==
  ASSUME NEW edge \in Nat, edge <= 32767, NEW n \in Nat \ {0}, n <= edge,
         NEW b, b = edge \div n
  PROVE  b \in Nat /\ 1 <= b /\ b <= 32767
<1>1. b \in Nat /\ n * b <= edge /\ b >= 1
  BY BlockBounds, BlockAtLeast
<1>2. 0 * b + b <= n * b /\ 0 * b \in Nat
  <2>1. 0 \in 0 .. n - 1
    OBVIOUS
  <2> QED
    BY <1>1, <2>1, BlockWithin
<1>3. n * b \in Nat
  BY <1>1
<1> QED
  BY <1>1, <1>2, <1>3

LEMMA BlocksSmall ==
  ASSUME NEW picture, ZonesFit(picture)
  PROVE  /\ TopBlock(picture) \in Nat /\ 1 <= TopBlock(picture) /\ TopBlock(picture) <= 32767
         /\ LeftBlock(picture) \in Nat /\ 1 <= LeftBlock(picture) /\ LeftBlock(picture) <= 32767
         /\ RightBlock(picture) \in Nat /\ 1 <= RightBlock(picture) /\ RightBlock(picture) <= 32767
<1>1. PICK w \in Nat, h \in Nat :
        /\ w = picture.width /\ h = picture.height /\ w <= 32767 /\ h <= 32767
        /\ 2 * TOP_LEDS <= w /\ 2 * LEFT_LEDS <= h /\ RIGHT_LEDS <= h
  BY DEF ZonesFit
<1>2. /\ TopBlock(picture) = w \div TOP_LEDS
      /\ LeftBlock(picture) = h \div LEFT_LEDS
      /\ RightBlock(picture) = h \div RIGHT_LEDS
  BY <1>1 DEF TopBlock, LeftBlock, RightBlock
<1>3. TOP_LEDS <= w /\ LEFT_LEDS <= h
  BY <1>1, StripSizes
<1> QED
  BY <1>1, <1>2, <1>3, StripSizes, BlockSmall

\* The division of the top edge leaves fewer pixels over at its right end than
\* the zones of the right edge are wide.
CornerReached == TOP_LEDS <= PADDING + 1

\* The upper right corner, between the first two loops of on_process.
LEMMA RightCorner ==
  ASSUME NEW picture, ZonesFit(picture), CornerReached
  PROVE  Touch(RightZone(picture, 0), TopZone(picture, TOP_LEDS - 1))
<1> DEFINE b == TopBlock(picture)
           c == RightBlock(picture)
           w == picture.width
<1>1. /\ w \in Nat /\ w <= 32767 /\ PADDING <= w
      /\ PADDING \in Nat /\ PADDING >= 2
      /\ TOP_LEDS \in Nat \ {0} /\ TOP_LEDS <= PADDING + 1
      /\ c \in Nat /\ c <= 32767
  <2>1. c \in Nat /\ c <= 32767
    BY BlocksSmall
  <2> QED
    BY <2>1, StripSizes DEF ZonesFit, CornerReached
<1> HIDE DEF c, w
<1>2. b \in Nat /\ TOP_LEDS * b <= w /\ w < TOP_LEDS * b + TOP_LEDS
  <2>1. b = w \div TOP_LEDS
    BY DEF TopBlock, w
  <2> HIDE DEF b
  <2> QED
    BY <1>1, <2>1, BlockBounds
<1> HIDE DEF b
<1>3. PICK x \in Nat : x = (TOP_LEDS - 1) * b /\ TOP_LEDS * b = x + b
  <2>1. TOP_LEDS - 1 \in Nat /\ (TOP_LEDS - 1) + 1 = TOP_LEDS
    BY <1>1
  <2> QED
    BY <1>2, <2>1, NextBlock
<1>4. /\ RightZone(picture, 0) = Zone(w - PADDING, w - 1, 0, c)
      /\ TopZone(picture, TOP_LEDS - 1) = Zone(x, x + b - 1, 1, PADDING)
  <2>1. 0 * c = 0 /\ 0 + c = c
    BY <1>1
  <2>2. RightZone(picture, 0) = Zone(w - PADDING, w - 1, 0 * c, 0 * c + c)
    BY DEF RightZone, c, w
  <2> QED
    BY <1>3, <2>1, <2>2 DEF TopZone, b
<1>5. /\ w - PADDING \in Short /\ w - 1 \in Short /\ 0 \in Short /\ c \in Short
      /\ x \in Short /\ x + b - 1 \in Short /\ 1 \in Short /\ PADDING \in Short
  BY <1>1, <1>2, <1>3 DEF Short
<1>6. /\ Zone(w - PADDING, w - 1, 0, c) = [x1 |-> w - PADDING, x2 |-> w - 1, y1 |-> 0, y2 |-> c]
      /\ Zone(x, x + b - 1, 1, PADDING) = [x1 |-> x, x2 |-> x + b - 1, y1 |-> 1, y2 |-> PADDING]
  BY <1>5, ShortPassed DEF Zone
<1>7. Touch(Zone(w - PADDING, w - 1, 0, c), Zone(x, x + b - 1, 1, PADDING))
  BY <1>1, <1>2, <1>3, <1>6 DEF Touch
<1> QED
  BY <1>4, <1>7

\* The upper left corner, between the last two loops.
LEMMA LeftCorner ==
  ASSUME NEW picture, ZonesFit(picture)
  PROVE  Touch(TopZone(picture, 0), LeftZone(picture, 0))
<1> DEFINE b == TopBlock(picture)
           c == LeftBlock(picture)
<1>1. /\ b \in Nat /\ c \in Nat /\ b <= 32767 /\ c <= 32767 /\ b >= 1 /\ c >= 1
      /\ PADDING \in Nat /\ PADDING >= 2 /\ PADDING <= 32767
  <2>1. b \in Nat /\ c \in Nat /\ b <= 32767 /\ c <= 32767 /\ b >= 1 /\ c >= 1
    BY BlocksSmall
  <2>2. PADDING <= 32767 /\ PADDING \in Nat /\ PADDING >= 2
    BY StripSizes DEF ZonesFit
  <2> QED
    BY <2>1, <2>2
<1> HIDE DEF b, c
<1>2. /\ TopZone(picture, 0) = Zone(0, b - 1, 1, PADDING)
      /\ LeftZone(picture, 0) = Zone(1, PADDING, 0, c - 1)
  <2>1. 0 * b = 0 /\ 0 * c = 0 /\ 0 + b - 1 = b - 1 /\ 0 + c - 1 = c - 1
    BY <1>1
  <2>2. /\ TopZone(picture, 0) = Zone(0 * b, 0 * b + b - 1, 1, PADDING)
        /\ LeftZone(picture, 0) = Zone(1, PADDING, 0 * c, 0 * c + c - 1)
    BY DEF TopZone, LeftZone, b, c
  <2> QED
    BY <2>1, <2>2
<1>3. 0 \in Short /\ 1 \in Short /\ PADDING \in Short /\ b - 1 \in Short /\ c - 1 \in Short
  BY <1>1 DEF Short
<1>4. /\ Zone(0, b - 1, 1, PADDING) = [x1 |-> 0, x2 |-> b - 1, y1 |-> 1, y2 |-> PADDING]
      /\ Zone(1, PADDING, 0, c - 1) = [x1 |-> 1, x2 |-> PADDING, y1 |-> 0, y2 |-> c - 1]
  BY <1>3, ShortPassed DEF Zone
<1>5. Touch(Zone(0, b - 1, 1, PADDING), Zone(1, PADDING, 0, c - 1))
  BY <1>1, <1>4 DEF Touch
<1> QED
  BY <1>2, <1>5

\* Neighbours on the strip are neighbours on the screen, of a picture that fits.
LEMMA PictureFollows ==
  ASSUME NEW picture, ZonesFit(picture), CornerReached
  PROVE  ZonesFollow(picture)
<1> SUFFICES ASSUME NEW led \in StripLeds \ {0}
             PROVE  Touch(ZoneOf(picture, led - 1), ZoneOf(picture, led))
  BY DEF ZonesFollow
<1> DEFINE before == led - 1
           T == RIGHT_LEDS + TOP_LEDS
<1>1. RIGHT_LEDS \in Nat \ {0} /\ TOP_LEDS \in Nat \ {0} /\ LEFT_LEDS \in Nat
  BY StripSizes
<1>2. led \in 1 .. T + LEFT_LEDS - 1
  BY <1>1 DEF StripLeds
<1>3. CASE led < RIGHT_LEDS
  <2>1. PICK i \in Nat : i = RIGHT_LEDS - 1 - led /\ i + 1 < RIGHT_LEDS
    BY <1>1, <1>2, <1>3
  <2>2. RIGHT_LEDS - 1 - before = i + 1 /\ before < RIGHT_LEDS
    BY <1>1, <1>2, <1>3, <2>1
  <2>3. ZoneOf(picture, led) = RightZone(picture, i)
    BY <1>3, <2>1 DEF ZoneOf
  <2>4. ZoneOf(picture, before) = RightZone(picture, i + 1)
    BY <2>2 DEF ZoneOf
  <2> QED
    BY <2>1, <2>3, <2>4, RightFollows
<1>4. CASE led = RIGHT_LEDS
  <2>1. /\ before < RIGHT_LEDS /\ RIGHT_LEDS - 1 - before = 0
        /\ ~(led < RIGHT_LEDS) /\ led < T /\ TOP_LEDS - 1 - (led - RIGHT_LEDS) = TOP_LEDS - 1
    BY <1>1, <1>4
  <2>2. ZoneOf(picture, before) = RightZone(picture, 0)
    BY <2>1 DEF ZoneOf
  <2>3. ZoneOf(picture, led) = TopZone(picture, TOP_LEDS - 1)
    BY <2>1 DEF ZoneOf
  <2> QED
    BY <2>2, <2>3, RightCorner
<1>5. CASE led > RIGHT_LEDS /\ led < T
  <2>1. PICK i \in Nat : i = TOP_LEDS - 1 - (led - RIGHT_LEDS) /\ i + 1 < TOP_LEDS
    BY <1>1, <1>2, <1>5
  <2>2. /\ ~(led < RIGHT_LEDS) /\ led < T
        /\ ~(before < RIGHT_LEDS) /\ before < T
        /\ TOP_LEDS - 1 - (before - RIGHT_LEDS) = i + 1
    BY <1>1, <1>2, <1>5, <2>1
  <2>3. ZoneOf(picture, led) = TopZone(picture, i)
    BY <2>1, <2>2 DEF ZoneOf
  <2>4. ZoneOf(picture, before) = TopZone(picture, i + 1)
    BY <2>2 DEF ZoneOf
  <2> QED
    BY <2>1, <2>3, <2>4, TopFollows
<1>6. CASE led = T
  <2>1. /\ ~(before < RIGHT_LEDS) /\ before < T /\ TOP_LEDS - 1 - (before - RIGHT_LEDS) = 0
        /\ ~(led < RIGHT_LEDS) /\ ~(led < T) /\ led - RIGHT_LEDS - TOP_LEDS = 0
    BY <1>1, <1>6
  <2>2. ZoneOf(picture, before) = TopZone(picture, 0)
    BY <2>1 DEF ZoneOf
  <2>3. ZoneOf(picture, led) = LeftZone(picture, 0)
    BY <2>1 DEF ZoneOf
  <2> QED
    BY <2>2, <2>3, LeftCorner
<1>7. CASE led > T
  <2>1. PICK i \in Nat : i = before - RIGHT_LEDS - TOP_LEDS /\ i + 1 < LEFT_LEDS
    BY <1>1, <1>2, <1>7
  <2>2. /\ ~(led < RIGHT_LEDS) /\ ~(led < T) /\ led - RIGHT_LEDS - TOP_LEDS = i + 1
        /\ ~(before < RIGHT_LEDS) /\ ~(before < T)
    BY <1>1, <1>2, <1>7, <2>1
  <2>3. ZoneOf(picture, before) = LeftZone(picture, i)
    BY <2>1, <2>2 DEF ZoneOf
  <2>4. ZoneOf(picture, led) = LeftZone(picture, i + 1)
    BY <2>2 DEF ZoneOf
  <2> QED
    BY <2>1, <2>3, <2>4, LeftFollows
<1> QED
  BY <1>1, <1>2, <1>3, <1>4, <1>5, <1>6, <1>7

\* The bytes of the largest picture of the next lemma.
LEMMA BytesFit ==
  ASSUME NEW w \in Nat, w <= 22541, NEW h \in Nat, h <= 9267
  PROVE  (w * 4) * h <= 2147483647
<1>1. PICK s \in Nat, r \in Nat : s = w * 4 /\ s + r = 90164
  <2>1. w * 4 \in Nat /\ 90164 - w * 4 \in Nat /\ w * 4 + (90164 - w * 4) = 90164
    OBVIOUS
  <2> QED
    BY <2>1
<1>2. (s + r) * h = s * h + r * h /\ s * h \in Nat /\ r * h \in Nat
  OBVIOUS
<1>3. 90164 * h <= 2147483647
  OBVIOUS
<1>4. s * h <= 90164 * h
  BY <1>1, <1>2
<1>5. s * h <= 2147483647
  BY <1>2, <1>3, <1>4
<1> QED
  BY <1>1, <1>5

\* What the sizes of stdafx.h come to: every picture from 100 x 100 to
\* 22541 x 9267, in every format that is offered.
LEMMA ScreensFit ==
  ASSUME TOP_LEDS = 34, LEFT_LEDS = 14, RIGHT_LEDS = 14, PADDING = 100,
         NEW w \in Nat, 100 <= w, w <= 22541, NEW h \in Nat, 100 <= h, h <= 9267,
         NEW form \in Offered
  PROVE  ZonesFit([width |-> w, height |-> h, format |-> form]) /\ CornerReached
<1> DEFINE picture == [width |-> w, height |-> h, format |-> form]
<1>1. PICK c \in Nat : c = w \div 34 /\ 34 * c <= w
  <2>1. w \div 34 \in Nat /\ 34 * (w \div 34) <= w
    BY BlockBounds
  <2> QED
    BY <2>1
<1>2. PICK d \in Nat : d = h \div 14 /\ 14 * d <= h
  <2>1. h \div 14 \in Nat /\ 14 * (h \div 14) <= h
    BY BlockBounds
  <2> QED
    BY <2>1
<1>3. TopBlock(picture) = c /\ LeftBlock(picture) = d /\ RightBlock(picture) = d
  BY <1>1, <1>2 DEF TopBlock, LeftBlock, RightBlock
<1>4. 99 * (c - 1) < 65536 /\ 99 * (d - 1) < 65536 /\ 99 * d < 65536
  <2>1. c <= 662
    BY <1>1
  <2>2. d <= 661
    BY <1>2
  <2> QED
    BY <2>1, <2>2
<1>5. PADDING - 1 = 99
  OBVIOUS
<1>6. picture.width = w /\ picture.height = h
  OBVIOUS
<1> HIDE DEF picture
<1>7. /\ w \in Nat /\ h \in Nat
      /\ PADDING <= w /\ PADDING <= h
      /\ 2 * TOP_LEDS <= w /\ 2 * LEFT_LEDS <= h /\ RIGHT_LEDS <= h
      /\ TOP_LEDS <= PADDING + 1
  OBVIOUS
<1>8. w <= 32767 /\ h <= 32767
  OBVIOUS
<1>9. Stride(picture) * h <= INT_MAX
  <2>1. Stride(picture) = w * 4
    BY DEF Stride, Layout, Offered, picture
  <2>2. (w * 4) * h <= 2147483647
    BY BytesFit
  <2> QED
    BY <2>1, <2>2 DEF INT_MAX
<1>10. ZonesFit(picture)
  BY <1>3, <1>4, <1>5, <1>6, <1>7, <1>8, <1>9 DEF ZonesFit
<1> QED
  BY <1>7, <1>10 DEF CornerReached, picture

-----------------------------------------------------------------------------
\* update() has been called of no effect but the one that plays, which plays
\* for ever: currentEffect is never taken back from it.
StartedPlays == \A a \in LIGHTS : update[a] # "not called" => currentEffect = a

LightInv == TypeOK /\ StartedPlays

LEMMA LightInit == Init => LightInv
<1> SUFFICES ASSUME Init
             PROVE  LightInv
  OBVIOUS
<1>1. QUEUE_LIMIT \in Nat
  BY LightAssumption
<1>2. <<>> \in Seq(LIGHTS) /\ Len(<<>>) = 0
  OBVIOUS
<1>3. /\ effectsQueue \in Seq(LIGHTS)
      /\ Len(effectsQueue) <= QUEUE_LIMIT
  <2>1. effectsQueue = <<>>
    BY DEF Init
  <2> QED
    BY <1>1, <1>2, <2>1
<1>4. TypeOK
  BY <1>3 DEF Init, TypeOK
<1> QED
  BY <1>4 DEF LightInv, StartedPlays, Init

\* Each of main(), queuePuller, the workers and PipeWire keeps the types.
LEMMA LightTypes ==
  ASSUME TypeOK, [Next]_vars
  PROVE  TypeOK'
<1>1. CASE AddEffect
  <2>1. adding \in LIGHTS /\ effectsQueue \in Seq(LIGHTS)
    BY <1>1 DEF TypeOK, AddEffect
  <2>2. Append(effectsQueue, adding) \in Seq(LIGHTS)
        /\ Len(Append(effectsQueue, adding)) = Len(effectsQueue) + 1
        /\ Len(effectsQueue) \in Nat
    BY <2>1
  <2>3. Len(effectsQueue) <= QUEUE_LIMIT /\ QUEUE_LIMIT \in Nat
    BY LightAssumption DEF TypeOK
  <2>4. effectsQueue' = IF Len(effectsQueue) < QUEUE_LIMIT
                          THEN Append(effectsQueue, adding) ELSE effectsQueue
    BY <1>1 DEF AddEffect, HasRoom
  <2>5. effectsQueue' \in Seq(LIGHTS) /\ Len(effectsQueue') <= QUEUE_LIMIT
    <3>1. CASE Len(effectsQueue) < QUEUE_LIMIT
      <4>1. Len(effectsQueue) + 1 <= QUEUE_LIMIT
        BY <2>2, <2>3, <3>1
      <4> QED
        BY <2>2, <2>4, <3>1, <4>1
    <3>2. CASE ~(Len(effectsQueue) < QUEUE_LIMIT)
      BY <2>1, <2>3, <2>4, <3>2
    <3> QED
      BY <3>1, <3>2
  <2> QED
    BY <1>1, <2>5 DEF AddEffect, TypeOK, captureVars
<1>2. CASE PullEffect
  <2>1. /\ effectsQueue \in Seq(LIGHTS) /\ effectsQueue # <<>>
        /\ Len(effectsQueue) <= QUEUE_LIMIT /\ QUEUE_LIMIT \in Nat
    BY <1>2, LightAssumption DEF TypeOK, PullEffect
  <2>2. /\ Head(effectsQueue) \in LIGHTS
        /\ Tail(effectsQueue) \in Seq(LIGHTS)
        /\ Len(Tail(effectsQueue)) = Len(effectsQueue) - 1
        /\ Len(effectsQueue) \in Nat
    BY <2>1, HeadTailProperties, LenProperties
  <2>3. effectsQueue' = Tail(effectsQueue) /\ currentEffect' = Head(effectsQueue)
    BY <1>2 DEF PullEffect
  <2>4. Len(Tail(effectsQueue)) <= QUEUE_LIMIT
    BY <2>1, <2>2
  <2> QED
    BY <1>2, <2>2, <2>3, <2>4 DEF PullEffect, TypeOK, captureVars
<1>3. ASSUME NEW a \in LIGHTS, Construct(a)
      PROVE  TypeOK'
  BY <1>3 DEF Construct, TypeOK
<1>4. ASSUME NEW a \in LIGHTS, Update(a)
      PROVE  TypeOK'
  BY <1>4 DEF Update, TypeOK, queueVars, captureVars
<1>5. ASSUME NEW a \in LIGHTS, WorkerStep(a)
      PROVE  TypeOK'
  BY <1>5
  DEF WorkerStep, WorkerThread, OnScreencastCreated, OnScreencastStart, LockLoop, ConnectCore,
      UnlockLoop, Unlocked, StartLoop, WorkerGoes, TypeOK, queueVars
<1>6. ASSUME NEW a \in LIGHTS, NEW picture \in PICTURES, OnParamChanged(a, picture)
      PROVE  TypeOK'
  BY <1>6 DEF OnParamChanged, TypeOK, queueVars
<1>7. ASSUME NEW a \in LIGHTS, NEW mapped \in BOOLEAN, OnProcess(a, mapped)
      PROVE  TypeOK'
  BY <1>7 DEF OnProcess, TypeOK, queueVars, captureVars
<1>8. CASE UNCHANGED vars
  BY <1>8 DEF TypeOK, vars, queueVars, captureVars
<1> QED
  BY <1>1, <1>2, <1>3, <1>4, <1>5, <1>6, <1>7, <1>8 DEF Next

\* Only queuePuller moves an effect to the front, when none plays, and only of
\* the one there is update() called.
LEMMA LightNext ==
  ASSUME LightInv, [Next]_vars
  PROVE  LightInv'
<1>1. TypeOK /\ StartedPlays
  BY DEF LightInv
<1>2. NONE \notin LIGHTS
  BY LightAssumption
<1>3. CASE PullEffect
  <2>1. \A a \in LIGHTS : update[a] = "not called"
    BY <1>1, <1>2, <1>3 DEF PullEffect, StartedPlays
  <2> QED
    BY <1>1, <1>3, <2>1, LightTypes DEF LightInv, PullEffect, StartedPlays
<1>4. ASSUME NEW a \in LIGHTS, Update(a)
      PROVE  LightInv'
  <2>1. currentEffect' = a /\ \A b \in LIGHTS \ {a} : update'[b] = update[b]
    BY <1>1, <1>4 DEF Update, TypeOK, queueVars
  <2>2. \A b \in LIGHTS \ {a} : update[b] = "not called"
    BY <1>1, <1>4 DEF Update, StartedPlays
  <2> QED
    BY <1>1, <2>1, <2>2, LightTypes DEF LightInv, StartedPlays
<1>5. CASE UNCHANGED <<currentEffect, update>>
  BY <1>1, <1>5, LightTypes DEF LightInv, StartedPlays
<1>6. CASE AddEffect
  BY <1>5, <1>6 DEF AddEffect
<1>7. ASSUME NEW a \in LIGHTS,
             \/ Construct(a)
             \/ WorkerStep(a)
             \/ \E picture \in PICTURES : OnParamChanged(a, picture)
             \/ \E mapped \in BOOLEAN : OnProcess(a, mapped)
      PROVE  LightInv'
  BY <1>5, <1>7
  DEF Construct, WorkerStep, WorkerThread, OnScreencastCreated, OnScreencastStart, LockLoop,
      ConnectCore, UnlockLoop, StartLoop, OnParamChanged, OnProcess, queueVars
<1>8. CASE UNCHANGED vars
  BY <1>5, <1>8 DEF vars, queueVars
<1> QED
  BY <1>3, <1>4, <1>6, <1>7, <1>8 DEF Next

\* The inductive invariant of the captures and the queue.
THEOREM LightInvariant == Spec => []LightInv
BY LightInit, LightNext, PTL DEF Spec

-----------------------------------------------------------------------------
\* The variables of all threads keep their types, for any number of captures.
THEOREM LightTypeCorrect == Spec => []TypeOK
<1>1. LightInv => TypeOK
  BY DEF LightInv
<1> QED
  BY <1>1, LightInvariant, PTL

\* A capture paints only while its effect is the current one, although on_process
\* (AmbientLight.cpp:109-164) never asks: what it does test, the leds, it has from
\* update() alone.
THEOREM CurrentAlonePaints == Spec => OnlyCurrentPaints
<1> DEFINE OnlyCurrent == painter' # painter => painter' = currentEffect
<1>1. LightInv /\ [Next]_vars => OnlyCurrent
  <2> SUFFICES ASSUME LightInv, [Next]_vars, painter' # painter
               PROVE  painter' = currentEffect
    OBVIOUS
  <2>1. PICK a \in LIGHTS : HasLeds(a) /\ painter' = a
    BY DEF Next, AddEffect, PullEffect, Construct, Update, WorkerStep, WorkerThread,
      OnScreencastCreated, OnScreencastStart, LockLoop, ConnectCore, UnlockLoop, StartLoop,
      OnParamChanged, OnProcess, vars
  <2> QED
    BY <2>1 DEF HasLeds, LightInv, StartedPlays
<1>2. Spec => [][OnlyCurrent]_vars
  BY <1>1, LightInvariant, PTL DEF Spec
<1> QED
  BY <1>2 DEF OnlyCurrentPaints

\* getColorFromArea (AmbientLight.cpp:84-108) never reads beside the picture,
\* takes each byte for the colour it is, and never divides by zero or by a number
\* of pixels that has wrapped around.
THEOREM InsideThePicture ==
  ASSUME PicturesFit
  PROVE  Spec => []ReadsInsidePicture
<1>1. LightInv => ReadsInsidePicture
  <2> SUFFICES ASSUME LightInv, NEW a \in LIGHTS, format[a] # NONE
               PROVE  ZonesSound(format[a])
    BY DEF ReadsInsidePicture
  <2>1. format[a] \in PICTURES
    BY DEF LightInv, TypeOK
  <2>2. format[a].format \in Offered /\ ZonesFit(format[a])
    BY <2>1, LightAssumption DEF PicturesFit
  <2> QED
    BY <2>2, PictureSound
<1> QED
  BY <1>1, LightInvariant, PTL

\* The three loops of on_process (AmbientLight.cpp:134-160) join: the light runs
\* round the screen without a jump, for every strip whose corner is reached.
THEOREM RoundTheScreen ==
  ASSUME PicturesFit, CornerReached
  PROVE  Spec => []StripFollowsEdge
<1>1. LightInv => StripFollowsEdge
  <2> SUFFICES ASSUME LightInv, NEW a \in LIGHTS, format[a] # NONE
               PROVE  ZonesFollow(format[a])
    BY DEF StripFollowsEdge
  <2>1. format[a] \in PICTURES
    BY DEF LightInv, TypeOK
  <2> QED
    BY <2>1, PictureFollows DEF PicturesFit
<1> QED
  BY <1>1, LightInvariant, PTL
=============================================================================
