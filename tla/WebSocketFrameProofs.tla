------------------------ MODULE WebSocketFrameProofs ------------------------
(***************************************************************************)
(* What holds of one read of a frame, module WebSocketFrame, for buffers,   *)
(* payloads, masks and pieces of any size and content.                      *)
(***************************************************************************)
EXTENDS WebSocketFrame, SequenceTheorems, TLAPS

-----------------------------------------------------------------------------
(* Bytes and their bits.                                                    *)

\* The value of eight bits.
OfBits(x0, x1, x2, x3, x4, x5, x6, x7) ==
  x0 + 2 * x1 + 4 * x2 + 8 * x3 + 16 * x4 + 32 * x5 + 64 * x6 + 128 * x7

\* The bits of a number's lowest byte.
HasBits(a, x0, x1, x2, x3, x4, x5, x6, x7) ==
  /\ Bit(a, 0) = x0 /\ Bit(a, 1) = x1 /\ Bit(a, 2) = x2 /\ Bit(a, 3) = x3
  /\ Bit(a, 4) = x4 /\ Bit(a, 5) = x5 /\ Bit(a, 6) = x6 /\ Bit(a, 7) = x7

\* A bit is 0 or 1.
LEMMA BitType ==
  ASSUME NEW a \in Byte, NEW n \in 0 .. 7
  PROVE  Bit(a, n) \in {0, 1}
<1>1. a \in Nat
  BY DEF Byte
<1>2. n \in {0, 1, 2, 3, 4, 5, 6, 7}
  OBVIOUS
<1> QED
  BY <1>1, <1>2 DEF Bit, Weight

\* The bits of a byte, one by one.
LEMMA BitIs ==
  ASSUME NEW a \in Nat
  PROVE  HasBits(a, a % 2, (a \div 2) % 2, (a \div 4) % 2, (a \div 8) % 2,
                 (a \div 16) % 2, (a \div 32) % 2, (a \div 64) % 2, (a \div 128) % 2)
<1>1. a \div 1 = a
  OBVIOUS
<1> QED
  BY <1>1 DEF HasBits, Bit, Weight

\* A byte is the value of its bits.
LEMMA ByteIsBits ==
  ASSUME NEW a \in Byte
  PROVE  a = OfBits(Bit(a, 0), Bit(a, 1), Bit(a, 2), Bit(a, 3),
                    Bit(a, 4), Bit(a, 5), Bit(a, 6), Bit(a, 7))
<1>1. a \in Nat /\ a <= 255
  BY DEF Byte
<1>2. a = 2 * (a \div 2) + (a % 2)
  BY <1>1
<1>3. a \div 2 = 2 * (a \div 4) + ((a \div 2) % 2)
  BY <1>1
<1>4. a \div 4 = 2 * (a \div 8) + ((a \div 4) % 2)
  BY <1>1
<1>5. a \div 8 = 2 * (a \div 16) + ((a \div 8) % 2)
  BY <1>1
<1>6. a \div 16 = 2 * (a \div 32) + ((a \div 16) % 2)
  BY <1>1
<1>7. a \div 32 = 2 * (a \div 64) + ((a \div 32) % 2)
  BY <1>1
<1>8. a \div 64 = 2 * (a \div 128) + ((a \div 64) % 2)
  BY <1>1
<1>9. a \div 128 = (a \div 128) % 2
  BY <1>1
<1>10. HasBits(a, a % 2, (a \div 2) % 2, (a \div 4) % 2, (a \div 8) % 2,
                (a \div 16) % 2, (a \div 32) % 2, (a \div 64) % 2, (a \div 128) % 2)
  BY <1>1, BitIs
<1>11. a = OfBits(a % 2, (a \div 2) % 2, (a \div 4) % 2, (a \div 8) % 2,
                 (a \div 16) % 2, (a \div 32) % 2, (a \div 64) % 2, (a \div 128) % 2)
  BY <1>1, <1>2, <1>3, <1>4, <1>5, <1>6, <1>7, <1>8, <1>9 DEF OfBits
<1> QED
  BY <1>10, <1>11 DEF HasBits

\* The value of eight bits is a byte with these bits.
LEMMA BitsOfByte ==
  ASSUME NEW x0 \in {0, 1}, NEW x1 \in {0, 1}, NEW x2 \in {0, 1}, NEW x3 \in {0, 1},
         NEW x4 \in {0, 1}, NEW x5 \in {0, 1}, NEW x6 \in {0, 1}, NEW x7 \in {0, 1},
         NEW c, c = OfBits(x0, x1, x2, x3, x4, x5, x6, x7)
  PROVE  c \in Byte /\ HasBits(c, x0, x1, x2, x3, x4, x5, x6, x7)
<1>1. c \in Nat /\ c <= 255
  BY DEF OfBits
<1>2. c = x0 + 2 * x1 + 4 * x2 + 8 * x3 + 16 * x4 + 32 * x5 + 64 * x6 + 128 * x7
  BY DEF OfBits
<1>3. c \div 2 = x1 + 2 * x2 + 4 * x3 + 8 * x4 + 16 * x5 + 32 * x6 + 64 * x7
  BY DEF OfBits
<1>4. c \div 4 = x2 + 2 * x3 + 4 * x4 + 8 * x5 + 16 * x6 + 32 * x7
  BY DEF OfBits
<1>5. c \div 8 = x3 + 2 * x4 + 4 * x5 + 8 * x6 + 16 * x7
  BY DEF OfBits
<1>6. c \div 16 = x4 + 2 * x5 + 4 * x6 + 8 * x7
  BY DEF OfBits
<1>7. c \div 32 = x5 + 2 * x6 + 4 * x7
  BY DEF OfBits
<1>8. c \div 64 = x6 + 2 * x7
  BY DEF OfBits
<1>9. c \div 128 = x7
  BY DEF OfBits
<1>10. c % 2 = x0
  BY <1>2
<1>11. (c \div 2) % 2 = x1
  BY <1>3
<1>12. (c \div 4) % 2 = x2
  BY <1>4
<1>13. (c \div 8) % 2 = x3
  BY <1>5
<1>14. (c \div 16) % 2 = x4
  BY <1>6
<1>15. (c \div 32) % 2 = x5
  BY <1>7
<1>16. (c \div 64) % 2 = x6
  BY <1>8
<1>17. (c \div 128) % 2 = x7
  BY <1>9
<1>18. HasBits(c, c % 2, (c \div 2) % 2, (c \div 4) % 2, (c \div 8) % 2,
                (c \div 16) % 2, (c \div 32) % 2, (c \div 64) % 2, (c \div 128) % 2)
  BY <1>1, BitIs
<1>19. c \in Byte
  BY <1>1 DEF Byte
<1> QED
  BY <1>10, <1>11, <1>12, <1>13, <1>14, <1>15, <1>16, <1>17, <1>18, <1>19 DEF HasBits

\* The exclusive or of two bytes is a byte, and works on each bit.
LEMMA XorBits ==
  ASSUME NEW a \in Byte, NEW b \in Byte
  PROVE  /\ Xor(a, b) \in Byte
         /\ HasBits(Xor(a, b), (Bit(a, 0) + Bit(b, 0)) % 2, (Bit(a, 1) + Bit(b, 1)) % 2,
                               (Bit(a, 2) + Bit(b, 2)) % 2, (Bit(a, 3) + Bit(b, 3)) % 2,
                               (Bit(a, 4) + Bit(b, 4)) % 2, (Bit(a, 5) + Bit(b, 5)) % 2,
                               (Bit(a, 6) + Bit(b, 6)) % 2, (Bit(a, 7) + Bit(b, 7)) % 2)
<1> DEFINE differ(n) == (Bit(a, n) + Bit(b, n)) % 2
<1>1. \A n \in 0 .. 7 : differ(n) \in {0, 1}
  <2> SUFFICES ASSUME NEW n \in 0 .. 7
               PROVE  differ(n) \in {0, 1}
    OBVIOUS
  <2>1. Bit(a, n) \in {0, 1} /\ Bit(b, n) \in {0, 1}
    BY BitType
  <2> QED
    BY <2>1
<1>2. Xor(a, b) = OfBits(differ(0), differ(1), differ(2), differ(3),
                         differ(4), differ(5), differ(6), differ(7))
  BY DEF Xor, OfBits
<1> HIDE DEF differ
<1>3. /\ differ(0) \in {0, 1} /\ differ(1) \in {0, 1}
      /\ differ(2) \in {0, 1} /\ differ(3) \in {0, 1}
      /\ differ(4) \in {0, 1} /\ differ(5) \in {0, 1}
      /\ differ(6) \in {0, 1} /\ differ(7) \in {0, 1}
  BY <1>1
<1>4. /\ Xor(a, b) \in Byte
      /\ HasBits(Xor(a, b), differ(0), differ(1), differ(2), differ(3),
                            differ(4), differ(5), differ(6), differ(7))
  BY <1>2, <1>3, BitsOfByte
<1> QED
  BY <1>4 DEF differ

\* Masking twice with the same byte gives the byte back.
LEMMA XorTwice ==
  ASSUME NEW a \in Byte, NEW m \in Byte
  PROVE  Xor(Xor(a, m), m) = a
<1> DEFINE c == Xor(a, m)
           differ(n) == (Bit(c, n) + Bit(m, n)) % 2
<1>1. c \in Byte
  BY XorBits
<1>2. \A n \in 0 .. 7 : differ(n) = Bit(a, n)
  <2> SUFFICES ASSUME NEW n \in 0 .. 7
               PROVE  differ(n) = Bit(a, n)
    OBVIOUS
  <2>1. n \in {0, 1, 2, 3, 4, 5, 6, 7}
    OBVIOUS
  <2>2. Bit(c, n) = (Bit(a, n) + Bit(m, n)) % 2
    BY <2>1, XorBits DEF HasBits
  <2>3. Bit(a, n) \in {0, 1} /\ Bit(m, n) \in {0, 1}
    BY BitType
  <2> QED
    BY <2>2, <2>3
<1>3. Xor(c, m) = OfBits(differ(0), differ(1), differ(2), differ(3),
                         differ(4), differ(5), differ(6), differ(7))
  BY DEF Xor, OfBits
<1> HIDE DEF differ, c
<1>4. Xor(c, m) = OfBits(Bit(a, 0), Bit(a, 1), Bit(a, 2), Bit(a, 3),
                         Bit(a, 4), Bit(a, 5), Bit(a, 6), Bit(a, 7))
  BY <1>2, <1>3
<1> QED
  BY <1>4, ByteIsBits DEF c

-----------------------------------------------------------------------------
(* Sequences of bytes.                                                      *)

\* A function on 1 .. n is a sequence of n elements.
LEMMA FunctionIsSeq ==
  ASSUME NEW S, NEW n \in Nat, NEW f \in [1 .. n -> S]
  PROVE  f \in Seq(S) /\ Len(f) = n
OBVIOUS

\* s followed by t.
IsJoin(s, t, joined) ==
  /\ joined \in Seq(Byte)
  /\ Len(joined) = Len(s) + Len(t)
  /\ \A n \in 1 .. Len(s) : joined[n] = s[n]
  /\ \A n \in 1 .. Len(t) : joined[Len(s) + n] = t[n]

\* Concatenation puts one sequence after the other.
LEMMA Join ==
  ASSUME NEW s \in Seq(Byte), NEW t \in Seq(Byte)
  PROVE  IsJoin(s, t, s \o t)
<1>1. /\ s \o t \in Seq(Byte)
      /\ Len(s \o t) = Len(s) + Len(t)
      /\ \A n \in 1 .. Len(s) + Len(t) :
           (s \o t)[n] = IF n <= Len(s) THEN s[n] ELSE t[n - Len(s)]
  BY ConcatProperties
<1>2. Len(s) \in Nat /\ Len(t) \in Nat
  OBVIOUS
<1> DEFINE joined == s \o t
<1> HIDE DEF joined
<1>3. ASSUME NEW n \in 1 .. Len(s)
      PROVE  joined[n] = s[n]
  BY <1>1, <1>2 DEF joined
<1>4. ASSUME NEW n \in 1 .. Len(t)
      PROVE  joined[Len(s) + n] = t[n]
  <2>1. Len(s) + n \in 1 .. Len(s) + Len(t) /\ ~(Len(s) + n <= Len(s)) /\ (Len(s) + n) - Len(s) = n
    BY <1>2
  <2> QED
    BY <1>1, <2>1 DEF joined
<1> QED
  BY <1>1, <1>3, <1>4 DEF IsJoin, joined

-----------------------------------------------------------------------------
(* The bytes of a frame.                                                    *)

Frames == [first : Byte, masked : BOOLEAN, mask : [1 .. 4 -> Byte], form : Byte, payload : Seq(Byte)]

\* A frame whose length is coded in a way that RFC 6455 allows.
Coded(frame) == frame \in Frames /\ frame.form \in Forms(frame.payload)

\* A frame that is short enough for a buffer.
Short(frame) == Len(frame.payload) < 65536

\* What a frame has after its length: the mask and the payload.
Body(frame) ==
  IF frame.masked THEN frame.mask \o Masked(frame.payload, frame.mask) ELSE frame.payload

SecondByte(frame) == frame.form + IF frame.masked THEN 128 ELSE 0

\* The length field: its bytes and how many there are.
LEMMA LengthFieldType ==
  ASSUME NEW frame, Coded(frame)
  PROVE  /\ LengthField(frame) \in Seq(Byte)
         /\ Len(LengthField(frame)) = CASE frame.form = 126 -> 2
                                        [] frame.form = 127 -> 8
                                        [] OTHER -> 0
<1> DEFINE length == Len(frame.payload)
           short == <<(length \div 256) % 256, length % 256>>
           zeros == <<0, 0, 0, 0, 0, 0>>
<1>1. length \in Nat
  BY DEF Coded, Frames
<1> HIDE DEF length
<1>2. (length \div 256) % 256 \in Byte /\ length % 256 \in Byte
  BY <1>1 DEF Byte
<1>3. short \in Seq(Byte) /\ Len(short) = 2
  BY <1>2
<1>4. zeros \in Seq(Byte) /\ Len(zeros) = 6
  <2>1. 0 \in Byte
    BY DEF Byte
  <2> QED
    BY <2>1
<1> HIDE DEF short, zeros
<1>5. zeros \o short \in Seq(Byte) /\ Len(zeros \o short) = 8
  <2>1. IsJoin(zeros, short, zeros \o short)
    BY <1>3, <1>4, Join
  <2> QED
    BY <1>3, <1>4, <2>1 DEF IsJoin
<1>6. <<>> \in Seq(Byte) /\ Len(<<>>) = 0
  OBVIOUS
<1>7. LengthField(frame) = CASE frame.form = 126 -> short
                             [] frame.form = 127 -> zeros \o short
                             [] OTHER -> <<>>
  BY DEF LengthField, length, short, zeros
<1>8. CASE frame.form = 126
  BY <1>3, <1>7, <1>8
<1>9. CASE frame.form = 127
  BY <1>5, <1>7, <1>9
<1>10. CASE frame.form # 126 /\ frame.form # 127
  BY <1>6, <1>7, <1>10
<1> QED
  BY <1>8, <1>9, <1>10

\* A mask is a sequence of four bytes.
LEMMA MaskIsSeq ==
  ASSUME NEW mask \in [1 .. 4 -> Byte]
  PROVE  mask \in Seq(Byte) /\ Len(mask) = 4
<1>1. PICK size \in Nat : size = 4
  OBVIOUS
<1>2. mask \in [1 .. size -> Byte]
  BY <1>1
<1>3. mask \in Seq(Byte) /\ Len(mask) = size
  BY <1>2, FunctionIsSeq
<1> QED
  BY <1>1, <1>3

\* Masking keeps the length and turns bytes into bytes.
LEMMA MaskedType ==
  ASSUME NEW payload \in Seq(Byte), NEW mask \in [1 .. 4 -> Byte]
  PROVE  /\ Masked(payload, mask) \in Seq(Byte)
         /\ Len(Masked(payload, mask)) = Len(payload)
<1> DEFINE length == Len(payload)
<1>0. length \in Nat /\ DOMAIN payload = 1 .. length
  OBVIOUS
<1>1. \A n \in 1 .. length : Xor(payload[n], mask[((n - 1) % 4) + 1]) \in Byte
  <2> SUFFICES ASSUME NEW n \in 1 .. length
               PROVE  Xor(payload[n], mask[((n - 1) % 4) + 1]) \in Byte
    OBVIOUS
  <2>1. ((n - 1) % 4) + 1 \in 1 .. 4
    OBVIOUS
  <2>2. payload[n] \in Byte /\ mask[((n - 1) % 4) + 1] \in Byte
    BY <2>1
  <2> QED
    BY <2>2, XorBits
<1> HIDE DEF length
<1>2. Masked(payload, mask) \in [1 .. length -> Byte]
  BY <1>0, <1>1 DEF Masked
<1>3. Masked(payload, mask) \in Seq(Byte) /\ Len(Masked(payload, mask)) = length
  BY <1>0, <1>2, FunctionIsSeq
<1> QED
  BY <1>3 DEF length

\* The mask and the payload.
LEMMA BodyType ==
  ASSUME NEW frame, Coded(frame)
  PROVE  /\ Body(frame) \in Seq(Byte)
         /\ Len(Body(frame)) = Len(frame.payload) + IF frame.masked THEN 4 ELSE 0
<1>1. frame.payload \in Seq(Byte) /\ frame.mask \in [1 .. 4 -> Byte] /\ frame.masked \in BOOLEAN
  BY DEF Coded, Frames
<1>2. frame.mask \in Seq(Byte) /\ Len(frame.mask) = 4
  BY <1>1, MaskIsSeq
<1>3. /\ Masked(frame.payload, frame.mask) \in Seq(Byte)
      /\ Len(Masked(frame.payload, frame.mask)) = Len(frame.payload)
  BY <1>1, MaskedType
<1>4. CASE frame.masked
  <2>1. IsJoin(frame.mask, Masked(frame.payload, frame.mask), Body(frame))
    BY <1>2, <1>3, <1>4, Join DEF Body
  <2> QED
    BY <1>2, <1>3, <1>4, <2>1 DEF IsJoin
<1>5. CASE ~frame.masked
  BY <1>1, <1>5 DEF Body
<1> QED
  BY <1>4, <1>5

\* The first bytes of a buffer are those of a frame.
LaidOut(frame, bytes) ==
  /\ bytes[1] = frame.first
  /\ bytes[2] = SecondByte(frame)
  /\ \A n \in 1 .. Len(LengthField(frame)) : bytes[2 + n] = LengthField(frame)[n]
  /\ \A n \in 1 .. Len(Body(frame)) :
       bytes[(2 + Len(LengthField(frame))) + n] = Body(frame)[n]

\* The second byte leaves room for the mask bit.
LEMMA FormIsShort ==
  ASSUME NEW frame, Coded(frame)
  PROVE  /\ frame.form \in Nat /\ frame.form <= 127
         /\ SecondByte(frame) \in Byte
         /\ frame.form <= 125 => frame.form = Len(frame.payload)
<1>1. /\ frame.form \in Nat
      /\ frame.form = 126 \/ frame.form = 127
           \/ (Len(frame.payload) <= 125 /\ frame.form = Len(frame.payload))
  BY DEF Coded, Forms, Frames, Byte
<1>2. frame.form <= 127
  <2>1. Len(frame.payload) \in Nat
    BY DEF Coded, Frames
  <2> QED
    BY <1>1, <2>1
<1>3. SecondByte(frame) = frame.form \/ SecondByte(frame) = frame.form + 128
  BY <1>1 DEF SecondByte
<1>4. SecondByte(frame) \in Byte
  <2>1. \A form \in Nat : form <= 127 => form \in Byte /\ form + 128 \in Byte
    BY DEF Byte
  <2> QED
    BY <1>1, <1>2, <1>3, <2>1
<1> QED
  BY <1>1, <1>2, <1>4

\* A frame's bytes, one after the other.
LEMMA EncodeLaidOut ==
  ASSUME NEW frame, Coded(frame)
  PROVE  /\ Encode(frame) \in Seq(Byte)
         /\ Len(Encode(frame)) = (2 + Len(LengthField(frame))) + Len(Body(frame))
         /\ LaidOut(frame, Encode(frame))
<1> DEFINE header == <<frame.first, SecondByte(frame)>>
           field == LengthField(frame)
           body == Body(frame)
           start == header \o field
<1>1. header \in Seq(Byte) /\ Len(header) = 2
      /\ header[1] = frame.first /\ header[2] = SecondByte(frame)
  BY FormIsShort DEF Coded, Frames
<1>2. field \in Seq(Byte) /\ body \in Seq(Byte)
  BY LengthFieldType, BodyType
<1>3. Encode(frame) = (header \o field) \o body
  BY DEF Encode, Body, SecondByte
<1> HIDE DEF header, field, body
<1>4. IsJoin(header, field, start)
  BY <1>1, <1>2, Join
<1>5. start \in Seq(Byte)
  BY <1>4 DEF IsJoin
<1>6. IsJoin(start, body, start \o body)
  BY <1>2, <1>5, Join
<1> DEFINE all == start \o body
<1>7. Encode(frame) = all
  BY <1>3
<1> HIDE DEF start, all
<1>8. Len(field) \in Nat /\ Len(body) \in Nat
  BY <1>2
<1>9. /\ Len(start) = 2 + Len(field)
      /\ start[1] = frame.first /\ start[2] = SecondByte(frame)
      /\ \A n \in 1 .. Len(field) : start[2 + n] = field[n]
  BY <1>1, <1>4 DEF IsJoin
<1>10. IsJoin(start, body, all)
  BY <1>6 DEF all
<1>11. /\ all \in Seq(Byte)
       /\ Len(all) = (2 + Len(field)) + Len(body)
       /\ \A n \in 1 .. 2 + Len(field) : all[n] = start[n]
       /\ \A n \in 1 .. Len(body) : all[(2 + Len(field)) + n] = body[n]
  BY <1>9, <1>10 DEF IsJoin
<1>12. all[1] = frame.first /\ all[2] = SecondByte(frame)
  <2>1. 1 \in 1 .. 2 + Len(field) /\ 2 \in 1 .. 2 + Len(field)
    BY <1>8
  <2> QED
    BY <1>9, <1>11, <2>1
<1>13. ASSUME NEW n \in 1 .. Len(field)
       PROVE  all[2 + n] = field[n]
  <2>1. 2 + n \in 1 .. 2 + Len(field)
    BY <1>8
  <2> QED
    BY <1>9, <1>11, <2>1
<1> QED
  BY <1>7, <1>11, <1>12, <1>13 DEF LaidOut, field, body

-----------------------------------------------------------------------------
(* What the server finds in a buffer that begins with a frame.              *)

\* The second byte: the mask bit, and the form of the length.
LEMMA SecondByteRead ==
  ASSUME NEW frame, Coded(frame), NEW bytes, LaidOut(frame, bytes)
  PROVE  /\ ShortLength(bytes) = frame.form
         /\ HasMask(bytes) <=> frame.masked
<1> DEFINE form == frame.form
<1>1. form \in Nat /\ form <= 127
  BY FormIsShort
<1>2. bytes[2] = form + IF frame.masked THEN 128 ELSE 0
  BY DEF LaidOut, SecondByte
<1>3. bytes[2] \in Nat
  BY <1>1, <1>2
<1>4. Bit(bytes[2], 7) = (bytes[2] \div 128) % 2
  <2> DEFINE a == bytes[2]
  <2>1. HasBits(a, a % 2, (a \div 2) % 2, (a \div 4) % 2, (a \div 8) % 2,
                (a \div 16) % 2, (a \div 32) % 2, (a \div 64) % 2, (a \div 128) % 2)
    BY <1>3, BitIs
  <2> QED
    BY <2>1 DEF HasBits
<1>5. frame.masked \in BOOLEAN
  BY DEF Coded, Frames
<1> HIDE DEF form
<1>6. CASE frame.masked
  <2>1. bytes[2] = form + 128
    BY <1>2, <1>6
  <2>2. (form + 128) % 128 = form /\ ((form + 128) \div 128) % 2 = 1
    BY <1>1
  <2> QED
    BY <1>4, <1>6, <2>1, <2>2 DEF ShortLength, HasMask, form
<1>7. CASE ~frame.masked
  <2>1. bytes[2] = form
    BY <1>1, <1>2, <1>7
  <2>2. form % 128 = form /\ (form \div 128) % 2 = 0
    BY <1>1
  <2> QED
    BY <1>4, <1>7, <2>1, <2>2 DEF ShortLength, HasMask, form
<1> QED
  BY <1>6, <1>7

\* The length of the payload and where the mask begins, for all three codings.
LEMMA LengthRead ==
  ASSUME NEW frame, Coded(frame), Short(frame), NEW bytes, LaidOut(frame, bytes)
  PROVE  /\ PayloadLength(bytes) = Len(frame.payload)
         /\ PayloadOffset(bytes) = 2 + Len(LengthField(frame))
<1> DEFINE length == Len(frame.payload)
           field == LengthField(frame)
<1>1. ShortLength(bytes) = frame.form
  BY SecondByteRead
<1>2. length \in Nat /\ length < 65536
  BY DEF Coded, Frames, Short
<1>3. /\ frame.form \in Nat /\ frame.form <= 127
      /\ frame.form <= 125 => frame.form = length
  BY FormIsShort
<1> DEFINE short == <<(length \div 256) % 256, length % 256>>
           zeros == <<0, 0, 0, 0, 0, 0>>
<1>4. field = CASE frame.form = 126 -> short
                 [] frame.form = 127 -> zeros \o short
                 [] OTHER -> <<>>
  BY DEF LengthField
<1> HIDE DEF length, field
<1>5. 0 \in Byte /\ (length \div 256) % 256 \in Byte /\ length % 256 \in Byte
  BY <1>2 DEF Byte
<1>6. /\ zeros \in Seq(Byte) /\ Len(zeros) = 6
      /\ short \in Seq(Byte) /\ Len(short) = 2
  BY <1>5
<1>7. /\ zeros[1] = 0 /\ zeros[2] = 0 /\ zeros[3] = 0
      /\ zeros[4] = 0 /\ zeros[5] = 0 /\ zeros[6] = 0
      /\ short[1] = (length \div 256) % 256 /\ short[2] = length % 256
  OBVIOUS
<1>8. \A n \in 1 .. Len(field) : bytes[2 + n] = field[n]
  BY DEF LaidOut, field
<1>9. Len(field) = CASE frame.form = 126 -> 2
                     [] frame.form = 127 -> 8
                     [] OTHER -> 0
  BY LengthFieldType DEF field
<1> HIDE DEF short, zeros
<1>10. CASE frame.form <= 125
  BY <1>1, <1>3, <1>9, <1>10 DEF PayloadLength, PayloadOffset, length, field
<1>11. CASE frame.form = 126
  <2>1. field = short
    BY <1>4, <1>11
  <2>2. Len(field) = 2
    BY <1>9, <1>11
  <2>3. bytes[2 + 1] = field[1] /\ bytes[2 + 2] = field[2]
    BY <1>8, <2>2
  <2>4. bytes[3] = (length \div 256) % 256 /\ bytes[4] = length % 256
    BY <1>7, <2>1, <2>3
  <2>5. length = 256 * ((length \div 256) % 256) + (length % 256)
    BY <1>2
  <2>6. TwoBytes(bytes, 3) = length
    BY <2>4, <2>5 DEF TwoBytes
  <2>7. PayloadLength(bytes) = TwoBytes(bytes, 3) /\ PayloadOffset(bytes) = 4
    BY <1>1, <1>11 DEF PayloadLength, PayloadOffset
  <2> QED
    BY <2>2, <2>6, <2>7 DEF length, field
<1>12. CASE frame.form = 127
  <2>1. field = zeros \o short
    BY <1>4, <1>12
  <2>2. IsJoin(zeros, short, field)
    BY <1>6, <2>1, Join
  <2>3. Len(field) = 8
    BY <1>9, <1>12
  <2>4. /\ field[1] = 0 /\ field[2] = 0 /\ field[3] = 0
        /\ field[4] = 0 /\ field[5] = 0 /\ field[6] = 0
    BY <1>6, <1>7, <2>2 DEF IsJoin
  <2>5. field[6 + 1] = short[1] /\ field[6 + 2] = short[2]
    BY <1>6, <2>2 DEF IsJoin
  <2>6. /\ bytes[2 + 1] = field[1] /\ bytes[2 + 2] = field[2] /\ bytes[2 + 3] = field[3]
        /\ bytes[2 + 4] = field[4] /\ bytes[2 + 5] = field[5] /\ bytes[2 + 6] = field[6]
        /\ bytes[2 + 7] = field[7] /\ bytes[2 + 8] = field[8]
    BY <1>8, <2>3
  <2>7. /\ bytes[3] = 0 /\ bytes[4] = 0 /\ bytes[5] = 0
        /\ bytes[6] = 0 /\ bytes[7] = 0 /\ bytes[8] = 0
        /\ bytes[9] = (length \div 256) % 256 /\ bytes[10] = length % 256
    BY <1>7, <2>4, <2>5, <2>6
  <2>8. length = 256 * ((length \div 256) % 256) + (length % 256)
    BY <1>2
  <2>9. /\ TwoBytes(bytes, 3) = 0 /\ TwoBytes(bytes, 3 + 2) = 0 /\ TwoBytes(bytes, 3 + 4) = 0
        /\ TwoBytes(bytes, 3 + 6) = length
    BY <2>7, <2>8 DEF TwoBytes
  <2>10. EightBytes(bytes, 3) = length
    BY <1>2, <2>9 DEF EightBytes
  <2>11. PayloadLength(bytes) = EightBytes(bytes, 3) /\ PayloadOffset(bytes) = 10
    BY <1>1, <1>12 DEF PayloadLength, PayloadOffset
  <2> QED
    BY <2>3, <2>10, <2>11 DEF length, field
<1>13. frame.form <= 125 \/ frame.form = 126 \/ frame.form = 127
  BY <1>3
<1> QED
  BY <1>10, <1>11, <1>12, <1>13

\* Unmasking what a client has masked gives its payload.
LEMMA PayloadRead ==
  ASSUME NEW frame, Coded(frame), Short(frame), NEW bytes, LaidOut(frame, bytes), frame.masked
  PROVE  Unmasked(bytes, PayloadOffset(bytes), PayloadLength(bytes)) = frame.payload
<1> DEFINE payload == frame.payload
           mask == frame.mask
           offset == 2 + Len(LengthField(frame))
           length == Len(payload)
           body == Body(frame)
<1>1. payload \in Seq(Byte) /\ mask \in [1 .. 4 -> Byte]
  BY DEF Coded, Frames
<1>2. PayloadLength(bytes) = length /\ PayloadOffset(bytes) = offset
  BY LengthRead
<1>3. offset \in Nat /\ length \in Nat
  BY <1>1, LengthFieldType
<1>4. mask \in Seq(Byte) /\ Len(mask) = 4
  BY <1>1, MaskIsSeq
<1>5. Masked(payload, mask) \in Seq(Byte) /\ Len(Masked(payload, mask)) = length
  BY <1>1, MaskedType
<1>6. \A n \in 1 .. Len(body) : bytes[offset + n] = body[n]
  BY DEF LaidOut
<1>7. IsJoin(mask, Masked(payload, mask), body)
  <2>1. body = mask \o Masked(payload, mask)
    BY DEF Body
  <2> QED
    BY <1>4, <1>5, <2>1, Join
<1> HIDE DEF offset, length, body, payload, mask
<1>8. /\ Len(body) = 4 + length
      /\ \A n \in 1 .. 4 : body[n] = mask[n]
      /\ \A n \in 1 .. length : body[4 + n] = Masked(payload, mask)[n]
  BY <1>4, <1>5, <1>7 DEF IsJoin
<1>9. ASSUME NEW n \in 1 .. length
      PROVE  Xor(bytes[offset + 4 + n], bytes[(offset + 1) + ((n - 1) % 4)]) = payload[n]
  <2> DEFINE k == ((n - 1) % 4) + 1
  <2>1. k \in 1 .. 4 /\ (offset + 1) + ((n - 1) % 4) = offset + k
    BY <1>3
  <2>2. offset + 4 + n = offset + (4 + n) /\ 4 + n \in 1 .. Len(body)
    BY <1>3, <1>8
  <2>3. bytes[offset + 4 + n] = Xor(payload[n], mask[k])
    <3>1. bytes[offset + 4 + n] = Masked(payload, mask)[n]
      BY <1>6, <1>8, <2>2
    <3>2. DOMAIN payload = 1 .. length
      BY <1>1 DEF length
    <3> QED
      BY <3>1, <3>2 DEF Masked
  <2> HIDE DEF k
  <2>4. bytes[offset + k] = mask[k]
    <3>1. k \in 1 .. Len(body)
      BY <1>3, <1>8, <2>1
    <3> QED
      BY <1>6, <1>8, <2>1, <3>1
  <2>5. payload[n] \in Byte /\ mask[k] \in Byte
    BY <1>1, <2>1 DEF length
  <2>6. Xor(Xor(payload[n], mask[k]), mask[k]) = payload[n]
    BY <2>5, XorTwice
  <2> QED
    BY <2>1, <2>3, <2>4, <2>6
<1>10. payload = [n \in 1 .. length |-> payload[n]]
  BY <1>1 DEF length
<1>11. Unmasked(bytes, offset, length) = [n \in 1 .. length |-> payload[n]]
  BY <1>9 DEF Unmasked
<1> QED
  BY <1>2, <1>10, <1>11 DEF payload

\* What the payload of a whole frame asks for.
Asked(payload) ==
  IF Len(payload) >= 5 /\ payload[1] = EFFECT_HEADER /\ payload[2] = STATIC_EFFECT
    THEN SubSeq(payload, 3, 5)
    ELSE NoEffect

\* processData and dispatch do what the payload asks for: the zero behind a
\* payload of less than two bytes is neither header nor flag.
LEMMA CommandRead ==
  ASSUME NEW payload \in Seq(Byte)
  PROVE  ProcessData(Append(payload, 0), Len(Append(payload, 0)) - 1) = Asked(payload)
<1> DEFINE data == Append(payload, 0)
           length == Len(payload)
<1>1. length \in Nat
  OBVIOUS
<1>2. 0 \in Byte
  BY DEF Byte
<1>3. /\ data \in Seq(Byte)
      /\ Len(data) = length + 1
      /\ \A n \in 1 .. length : data[n] = payload[n]
      /\ data[length + 1] = 0
  BY <1>2, AppendProperties
<1> HIDE DEF data, length
<1>4. Len(data) - 1 = length
  BY <1>1, <1>3
<1>5. CASE length >= 5
  <2>1. data[1] = payload[1] /\ data[2] = payload[2]
    BY <1>1, <1>3, <1>5
  <2>2. SubSeq(data, 3, 5) = SubSeq(payload, 3, 5)
    <3>1. \A n \in 3 .. 5 : data[n] = payload[n]
      BY <1>1, <1>3, <1>5
    <3>2. \A n \in 1 .. 3 : data[(3 + n) - 1] = payload[(3 + n) - 1]
      BY <3>1
    <3> QED
      BY <3>2
  <2> QED
    BY <1>4, <1>5, <2>1, <2>2 DEF ProcessData, Dispatch, Asked, data, length
<1>6. CASE length < 5
  <2>1. Asked(payload) = NoEffect
    BY <1>1, <1>6 DEF Asked, length
  <2>2. ProcessData(data, length) = NoEffect
    BY <1>1, <1>6 DEF ProcessData, Dispatch
  <2> QED
    BY <1>4, <2>1, <2>2 DEF data
<1> QED
  BY <1>1, <1>5, <1>6

\* The reserved bits of the first byte.
LEMMA ReservedBits ==
  ASSUME NEW bytes, bytes[1] \in Byte
  PROVE  IsFrameValid(bytes) <=> (bytes[1] \div 16) % 8 = 0
<1> DEFINE a == bytes[1]
<1>1. a \in Nat /\ a <= 255
  BY DEF Byte
<1> HIDE DEF a
<1>2. Bit(a, 4) = (a \div 16) % 2 /\ Bit(a, 5) = (a \div 32) % 2 /\ Bit(a, 6) = (a \div 64) % 2
  <2>1. HasBits(a, a % 2, (a \div 2) % 2, (a \div 4) % 2, (a \div 8) % 2,
                (a \div 16) % 2, (a \div 32) % 2, (a \div 64) % 2, (a \div 128) % 2)
    BY <1>1, BitIs
  <2> QED
    BY <2>1 DEF HasBits
<1>3. (a \div 16) % 8 = 0 <=>
        (a \div 16) % 2 = 0 /\ (a \div 32) % 2 = 0 /\ (a \div 64) % 2 = 0
  <2> DEFINE q == a \div 16
  <2>1. q \in Nat /\ a \div 32 = q \div 2 /\ a \div 64 = q \div 4
    BY <1>1
  <2> HIDE DEF q
  <2>2. q % 8 = 0 <=> q % 2 = 0 /\ (q \div 2) % 2 = 0 /\ (q \div 4) % 2 = 0
    BY <2>1
  <2> QED
    BY <2>1, <2>2 DEF q
<1>4. IsFrameValid(bytes) <=> Bit(a, 4) = 0 /\ Bit(a, 5) = 0 /\ Bit(a, 6) = 0
  <2>1. \A n \in 4 .. 6 : n = 4 \/ n = 5 \/ n = 6
    OBVIOUS
  <2> QED
    BY <2>1 DEF IsFrameValid, a
<1> QED
  BY <1>2, <1>3, <1>4 DEF a

-----------------------------------------------------------------------------
(* What a read does, whatever it brings.                                    *)

\* The effect of a whole command is a colour of three bytes.
LEMMA AskedType ==
  ASSUME NEW payload \in Seq(Byte)
  PROVE  /\ Asked(payload) \in Seq(Byte)
         /\ Asked(payload) # NoEffect => Len(payload) >= 5 /\ Len(Asked(payload)) = 3
<1>1. CASE Len(payload) >= 5
  <2>1. \A n \in 3 .. 5 : payload[n] \in Byte
    BY <1>1
  <2>2. SubSeq(payload, 3, 5) \in Seq(Byte) /\ Len(SubSeq(payload, 3, 5)) = 3
    BY <2>1, SubSeqProperties
  <2>3. NoEffect \in Seq(Byte)
    BY DEF NoEffect
  <2> QED
    BY <1>1, <2>2, <2>3 DEF Asked
<1>2. CASE ~(Len(payload) >= 5)
  <2>1. Asked(payload) = NoEffect
    BY <1>2 DEF Asked
  <2> QED
    BY <2>1 DEF NoEffect
<1> QED
  BY <1>1, <1>2

\* Whatever the heap holds is as long as the payload.
LEMMA HeapType ==
  ASSUME NEW length \in Nat, NEW payload \in Heap(length)
  PROVE  payload \in Seq(Byte) /\ Len(payload) = length
<1>1. CASE payload = [n \in 1 .. length |-> 0]
  <2>1. payload \in [1 .. length -> Byte]
    BY <1>1 DEF Byte
  <2> QED
    BY <2>1, FunctionIsSeq
<1>2. CASE payload \in PAYLOADS /\ Len(payload) = length
  BY <1>2, FrameAssumption DEF FrameAssumption
<1> QED
  BY <1>1, <1>2 DEF Heap

\* payload is what a read that leaves bytes in the buffer may hand on.
Payload(bytes, payload) ==
  /\ payload \in Seq(Byte)
  /\ Len(payload) = PayloadLength(bytes)
  /\ HasMask(bytes) => payload = Unmasked(bytes, PayloadOffset(bytes), PayloadLength(bytes))

\* The code unmasks within the buffer, or there is nothing to unmask.
Sound(bytes) ==
  /\ PayloadLength(bytes) \in Nat
  /\ HasMask(bytes) =>
       Unmasked(bytes, PayloadOffset(bytes), PayloadLength(bytes)) \in [1 .. PayloadLength(bytes) -> Byte]

\* A read adds what some payload of the buffer's bytes asks for, if they are valid.
LEMMA ReadAsks ==
  ASSUME NEW bytes, NEW frame, Sound(bytes), Read(bytes, frame)
  PROVE  \/ IsFrameValid(bytes) /\ \E payload : Payload(bytes, payload) /\ effect' = Asked(payload)
         \/ ~IsFrameValid(bytes) /\ effect' = NoEffect
<1>1. buffer' = bytes
  BY DEF Read
<1>2. CASE IsFrameValid(bytes)
  <2>1. PICK data \in PayloadData(bytes) : effect' = ProcessData(data, Len(data) - 1)
    BY <1>1, <1>2 DEF Read
  <2>2. \E payload : Payload(bytes, payload) /\ data = Append(payload, 0)
    <3>1. CASE HasMask(bytes)
      <4> DEFINE payload == Unmasked(bytes, PayloadOffset(bytes), PayloadLength(bytes))
      <4>1. data = Append(payload, 0)
        BY <3>1 DEF PayloadData
      <4>2. payload \in [1 .. PayloadLength(bytes) -> Byte] /\ PayloadLength(bytes) \in Nat
        BY <3>1 DEF Sound
      <4> HIDE DEF payload
      <4>3. payload \in Seq(Byte) /\ Len(payload) = PayloadLength(bytes)
        BY <4>2, FunctionIsSeq
      <4>4. Payload(bytes, payload)
        BY <4>3 DEF Payload, payload
      <4> QED
        BY <4>1, <4>4
    <3>2. CASE ~HasMask(bytes)
      <4>1. PICK payload \in Heap(PayloadLength(bytes)) : data = Append(payload, 0)
        BY <3>2 DEF PayloadData
      <4>2. payload \in Seq(Byte) /\ Len(payload) = PayloadLength(bytes)
        BY HeapType DEF Sound
      <4> QED
        BY <3>2, <4>1, <4>2 DEF Payload
    <3> QED
      BY <3>1, <3>2
  <2>3. PICK payload : Payload(bytes, payload) /\ data = Append(payload, 0)
    BY <2>2
  <2>4. effect' = Asked(payload)
    BY <2>1, <2>3, CommandRead DEF Payload
  <2> QED
    BY <1>2, <2>3, <2>4
<1>3. CASE ~IsFrameValid(bytes)
  BY <1>1, <1>3 DEF Read
<1> QED
  BY <1>2, <1>3

\* What a buffer of bytes says of the length and where the mask begins.
LEMMA LengthType ==
  ASSUME NEW bytes \in [1 .. BUFFER_SIZE -> Byte]
  PROVE  PayloadLength(bytes) \in Nat /\ PayloadOffset(bytes) \in {2, 4, 10}
<1>1. \A n \in 1 .. 14 : bytes[n] \in Nat
  <2>1. \A n \in 1 .. 14 : n \in 1 .. BUFFER_SIZE
    BY FrameAssumption DEF FrameAssumption
  <2>2. \A byte \in Byte : byte \in Nat
    BY DEF Byte
  <2> QED
    BY <2>1, <2>2
<1>2. ShortLength(bytes) \in Nat /\ ShortLength(bytes) <= 127
  <2>1. bytes[2] \in Nat
    BY <1>1
  <2> QED
    BY <2>1 DEF ShortLength
<1>3. \A n \in 1 .. 13 : TwoBytes(bytes, n) \in Nat
  <2> SUFFICES ASSUME NEW n \in 1 .. 13
               PROVE  TwoBytes(bytes, n) \in Nat
    OBVIOUS
  <2>1. n \in 1 .. 14 /\ n + 1 \in 1 .. 14
    OBVIOUS
  <2>2. bytes[n] \in Nat /\ bytes[n + 1] \in Nat
    BY <1>1, <2>1
  <2> QED
    BY <2>2 DEF TwoBytes
<1>4. EightBytes(bytes, 3) \in Nat
  <2>1. /\ TwoBytes(bytes, 3) \in Nat /\ TwoBytes(bytes, 3 + 2) \in Nat
        /\ TwoBytes(bytes, 3 + 4) \in Nat /\ TwoBytes(bytes, 3 + 6) \in Nat
    BY <1>3
  <2> DEFINE four == TwoBytes(bytes, 3 + 2) + 65536 * TwoBytes(bytes, 3)
             six == TwoBytes(bytes, 3 + 4) + 65536 * four
             eight == TwoBytes(bytes, 3 + 6) + 65536 * six
  <2>2. EightBytes(bytes, 3) = eight
    BY DEF EightBytes
  <2>3. four \in Nat
    BY <2>1
  <2> HIDE DEF four
  <2>4. six \in Nat
    BY <2>1, <2>3
  <2> HIDE DEF six
  <2>5. eight \in Nat
    BY <2>1, <2>4
  <2> QED
    BY <2>2, <2>5
<1>5. ShortLength(bytes) <= 125 \/ ShortLength(bytes) = 126 \/ ShortLength(bytes) = 127
  BY <1>2
<1>6. TwoBytes(bytes, 3) \in Nat
  BY <1>3
<1> QED
  BY <1>2, <1>4, <1>5, <1>6 DEF PayloadLength, PayloadOffset

\* A length that does not lead beyond the buffer.
LEMMA InBufferSound ==
  ASSUME NEW bytes \in [1 .. BUFFER_SIZE -> Byte], InBuffer(bytes)
  PROVE  Sound(bytes)
<1> DEFINE length == PayloadLength(bytes)
           offset == PayloadOffset(bytes)
<1>1. length \in Nat /\ offset \in Nat
  BY LengthType
<1>2. offset + 4 + length <= BUFFER_SIZE
  BY DEF InBuffer
<1> HIDE DEF length, offset
<1>3. ASSUME NEW n \in 1 .. length
      PROVE  Xor(bytes[offset + 4 + n], bytes[(offset + 1) + ((n - 1) % 4)]) \in Byte
  <2>1. (n - 1) % 4 \in 0 .. 3
    OBVIOUS
  <2>2. offset + 4 + n \in 1 .. BUFFER_SIZE /\ (offset + 1) + ((n - 1) % 4) \in 1 .. BUFFER_SIZE
    BY <1>1, <1>2, <2>1, FrameAssumption DEF FrameAssumption
  <2> QED
    BY <2>2, XorBits
<1>4. Unmasked(bytes, offset, length) \in [1 .. length -> Byte]
  BY <1>3 DEF Unmasked
<1> QED
  BY <1>1, <1>4 DEF Sound, length, offset

\* read() leaves a buffer of bytes, which begins with what it brought.
LEMMA OverwriteType ==
  ASSUME TypeOK, NEW bytes \in Seq(Byte)
  PROVE  /\ Overwrite(bytes) \in [1 .. BUFFER_SIZE -> Byte]
         /\ \A n \in 1 .. BUFFER_SIZE : n <= Len(bytes) => Overwrite(bytes)[n] = bytes[n]
<1>1. buffer \in [1 .. BUFFER_SIZE -> Byte] /\ BUFFER_SIZE \in Nat
  BY FrameAssumption DEF TypeOK, FrameAssumption
<1>2. \A n \in 1 .. BUFFER_SIZE : (IF n <= Len(bytes) THEN bytes[n] ELSE buffer[n]) \in Byte
  BY <1>1
<1> QED
  BY <1>2 DEF Overwrite

-----------------------------------------------------------------------------
(* The invariant.                                                           *)

\* What a read has left: a buffer of bytes, and an effect that it asks for.
FrameInv == TypeOK /\ ObeysTheFrame /\ NeedsWholeCommand

LEMMA InitInv == Init => FrameInv
<1> SUFFICES ASSUME Init PROVE FrameInv
  OBVIOUS
<1>1. buffer \in [1 .. BUFFER_SIZE -> Byte]
  BY DEF Init, Byte
<1>2. TypeOK
  <2>1. <<>> \in Seq(Byte)
    OBVIOUS
  <2> QED
    BY <1>1, <2>1, FrameAssumption DEF Init, TypeOK, NoEffect, FrameAssumption
<1>3. ObeysTheFrame
  <2>1. Meant(Frame(0, TRUE, <<0, 0, 0, 0>>, 0, <<>>)) = NoEffect
    BY DEF Meant, Frame
  <2> QED
    BY <2>1 DEF Init, ObeysTheFrame
<1>4. NeedsWholeCommand
  BY DEF Init, NeedsWholeCommand
<1> QED
  BY <1>2, <1>3, <1>4 DEF FrameInv

\* A whole frame, with whatever is in the buffer and whatever follows it.
LEMMA ReceiveInv ==
  ASSUME FrameInv, reads < MAX_READS,
         NEW first \in FIRST_BYTES, NEW masked \in BOOLEAN, NEW mask \in MASKS,
         NEW payload \in PAYLOADS, NEW following \in FOLLOWING, NEW form \in Forms(payload),
         Receive(first, masked, mask, form, payload, following)
  PROVE  FrameInv'
<1> DEFINE frame == Frame(first, masked, mask, form, payload)
           encoded == Encode(frame)
           bytes == Overwrite(encoded \o following)
<1>1. Len(encoded) <= BUFFER_SIZE /\ Read(bytes, frame)
  BY DEF Receive
<1>2. /\ frame.first = first /\ frame.masked = masked /\ frame.mask = mask
      /\ frame.form = form /\ frame.payload = payload
  BY DEF Frame
<1>3. /\ payload \in Seq(Byte) /\ following \in Seq(Byte)
      /\ first \in Byte /\ mask \in [1 .. 4 -> Byte]
  BY FrameAssumption DEF FrameAssumption
<1>4. BUFFER_SIZE \in Nat /\ BUFFER_SIZE < 65536 /\ MAX_READS \in Nat
  BY FrameAssumption DEF FrameAssumption
<1>5. Coded(frame)
  <2>1. form \in Byte
    BY <1>3 DEF Forms, Byte
  <2>2. frame \in Frames
    BY <1>3, <2>1 DEF Frame, Frames
  <2> QED
    BY <1>2, <2>2 DEF Coded
<1> HIDE DEF frame, encoded
<1>6. /\ encoded \in Seq(Byte)
      /\ Len(encoded) = (2 + Len(LengthField(frame))) + Len(Body(frame))
      /\ LaidOut(frame, encoded)
  BY <1>5, EncodeLaidOut DEF encoded
<1>7. /\ Len(payload) \in Nat /\ Len(LengthField(frame)) \in Nat /\ Len(Body(frame)) \in Nat
      /\ Len(payload) <= Len(Body(frame))
  <2>1. LengthField(frame) \in Seq(Byte) /\ Body(frame) \in Seq(Byte)
    BY <1>5, LengthFieldType, BodyType
  <2>2. Len(Body(frame)) = Len(payload) + IF masked THEN 4 ELSE 0
    BY <1>2, <1>5, BodyType
  <2>3. Len(payload) \in Nat
    BY <1>3
  <2> QED
    BY <2>1, <2>2, <2>3
<1>8. Short(frame)
  BY <1>1, <1>2, <1>4, <1>6, <1>7 DEF Short
<1>9. IsJoin(encoded, following, encoded \o following)
  BY <1>3, <1>6, Join
<1>10. /\ bytes \in [1 .. BUFFER_SIZE -> Byte]
       /\ \A n \in 1 .. Len(encoded) : bytes[n] = encoded[n]
  <2> DEFINE all == encoded \o following
  <2>1. IsJoin(encoded, following, all)
    BY <1>9
  <2> HIDE DEF all
  <2>2. /\ all \in Seq(Byte)
        /\ Len(encoded) <= Len(all)
        /\ \A n \in 1 .. Len(encoded) : all[n] = encoded[n]
    BY <1>3, <1>6, <2>1 DEF IsJoin
  <2>3. /\ Overwrite(all) \in [1 .. BUFFER_SIZE -> Byte]
        /\ \A n \in 1 .. BUFFER_SIZE : n <= Len(all) => Overwrite(all)[n] = all[n]
    BY <2>2, OverwriteType DEF FrameInv
  <2>4. \A n \in 1 .. Len(encoded) : n \in 1 .. BUFFER_SIZE /\ n <= Len(all)
    BY <1>1, <1>4, <1>6, <2>2
  <2> QED
    BY <2>2, <2>3, <2>4 DEF all
<1> HIDE DEF bytes
<1>11. LaidOut(frame, bytes)
  <2> DEFINE field == LengthField(frame)
             body == Body(frame)
  <2>1. /\ Len(field) \in Nat /\ Len(body) \in Nat
        /\ Len(encoded) = (2 + Len(field)) + Len(body)
    BY <1>6, <1>7
  <2>2. /\ encoded[1] = frame.first /\ encoded[2] = SecondByte(frame)
        /\ \A n \in 1 .. Len(field) : encoded[2 + n] = field[n]
        /\ \A n \in 1 .. Len(body) : encoded[(2 + Len(field)) + n] = body[n]
    BY <1>6 DEF LaidOut
  <2> HIDE DEF field, body
  <2>3. /\ 1 \in 1 .. Len(encoded) /\ 2 \in 1 .. Len(encoded)
        /\ \A n \in 1 .. Len(field) : 2 + n \in 1 .. Len(encoded)
        /\ \A n \in 1 .. Len(body) : (2 + Len(field)) + n \in 1 .. Len(encoded)
    BY <2>1
  <2>4. bytes[1] = frame.first /\ bytes[2] = SecondByte(frame)
    BY <1>10, <2>2, <2>3
  <2>5. \A n \in 1 .. Len(field) : bytes[2 + n] = field[n]
    BY <1>10, <2>2, <2>3
  <2>6. \A n \in 1 .. Len(body) : bytes[(2 + Len(field)) + n] = body[n]
    BY <1>10, <2>2, <2>3
  <2> QED
    BY <2>4, <2>5, <2>6 DEF LaidOut, field, body
<1>12. /\ PayloadLength(bytes) = Len(payload)
       /\ HasMask(bytes) <=> masked
       /\ masked => Unmasked(bytes, PayloadOffset(bytes), PayloadLength(bytes)) = payload
  BY <1>2, <1>5, <1>8, <1>11, LengthRead, SecondByteRead, PayloadRead
<1>13. IsFrameValid(bytes) <=> (first \div 16) % 8 = 0
  BY <1>2, <1>3, <1>11, ReservedBits DEF LaidOut
<1>14. Sound(bytes)
  BY <1>3, <1>7, <1>12 DEF Sound
<1>15. \/ IsFrameValid(bytes) /\ \E data : Payload(bytes, data) /\ effect' = Asked(data)
       \/ ~IsFrameValid(bytes) /\ effect' = NoEffect
  BY <1>1, <1>14, ReadAsks
<1>16. /\ buffer' = bytes /\ arrived' = frame /\ reads' = reads + 1
  BY <1>1 DEF Read
<1>17. Meant(frame) = IF (first \div 16) % 8 = 0 THEN Asked(payload) ELSE NoEffect
  BY <1>2 DEF Meant, Asked
<1>18. masked => effect' = Meant(frame)
  BY <1>12, <1>13, <1>15, <1>17 DEF Payload
<1>19. /\ effect' \in Seq(Byte)
       /\ effect' # NoEffect => /\ Len(payload) >= 5 /\ Len(effect') = 3
                                /\ IsFrameValid(bytes) /\ (first \div 16) % 8 = 0
  <2>1. CASE IsFrameValid(bytes)
    <3>1. PICK data : Payload(bytes, data) /\ effect' = Asked(data)
      BY <1>15, <2>1
    <3>2. data \in Seq(Byte) /\ Len(data) = Len(payload)
      BY <1>12, <3>1 DEF Payload
    <3> QED
      BY <1>13, <2>1, <3>1, <3>2, AskedType
  <2>2. CASE ~IsFrameValid(bytes)
    <3>1. effect' = <<>>
      BY <1>15, <2>2 DEF NoEffect
    <3> QED
      BY <3>1 DEF NoEffect
  <2> QED
    BY <2>1, <2>2
<1>20. TypeOK'
  <2>1. reads' \in 0 .. MAX_READS
    BY <1>4, <1>16 DEF FrameInv, TypeOK
  <2> QED
    BY <1>10, <1>16, <1>19, <2>1 DEF TypeOK
<1>21. ObeysTheFrame'
  BY <1>2, <1>16, <1>18 DEF ObeysTheFrame
<1>22. NeedsWholeCommand'
  <2>1. ASSUME effect' # NoEffect
        PROVE  LooksWhole'
    BY <1>12, <1>16, <1>19, <2>1 DEF LooksWhole
  <2> QED
    BY <1>2, <1>16, <1>19, <2>1 DEF NeedsWholeCommand
<1> QED
  BY <1>20, <1>21, <1>22 DEF FrameInv

\* A piece of a cut frame.
LEMMA ReceivePieceInv ==
  ASSUME FrameInv, reads < MAX_READS, NEW piece \in PIECES, ReceivePiece(piece)
  PROVE  FrameInv'
<1> DEFINE bytes == Overwrite(piece)
<1>1. InBuffer(bytes) /\ Read(bytes, CUT)
  BY DEF ReceivePiece
<1>2. bytes \in [1 .. BUFFER_SIZE -> Byte]
  BY OverwriteType, FrameAssumption DEF FrameAssumption, FrameInv
<1> HIDE DEF bytes
<1>3. Sound(bytes)
  BY <1>1, <1>2, InBufferSound
<1>4. \/ IsFrameValid(bytes) /\ \E data : Payload(bytes, data) /\ effect' = Asked(data)
      \/ ~IsFrameValid(bytes) /\ effect' = NoEffect
  BY <1>1, <1>3, ReadAsks
<1>5. buffer' = bytes /\ arrived' = CUT /\ reads' = reads + 1
  BY <1>1 DEF Read
<1>6. /\ effect' \in Seq(Byte)
      /\ effect' # NoEffect =>
           IsFrameValid(bytes) /\ PayloadLength(bytes) >= 5 /\ Len(effect') = 3
  <2>1. CASE IsFrameValid(bytes)
    <3>1. PICK data : Payload(bytes, data) /\ effect' = Asked(data)
      BY <1>4, <2>1
    <3> QED
      BY <2>1, <3>1, AskedType DEF Payload
  <2>2. CASE ~IsFrameValid(bytes)
    <3>1. effect' = <<>>
      BY <1>4, <2>2 DEF NoEffect
    <3> QED
      BY <3>1 DEF NoEffect
  <2> QED
    BY <2>1, <2>2
<1>7. TypeOK'
  <2>1. reads' \in 0 .. MAX_READS
    BY <1>5, FrameAssumption DEF FrameAssumption, FrameInv, TypeOK
  <2> QED
    BY <1>2, <1>5, <1>6, <2>1 DEF TypeOK
<1>8. ObeysTheFrame'
  BY <1>5 DEF ObeysTheFrame
<1>9. NeedsWholeCommand'
  BY <1>5, <1>6 DEF NeedsWholeCommand, LooksWhole
<1> QED
  BY <1>7, <1>8, <1>9 DEF FrameInv

\* Every step keeps the invariant.
LEMMA NextInv == FrameInv /\ [Next]_vars => FrameInv'
<1> SUFFICES ASSUME FrameInv, [Next]_vars
             PROVE  FrameInv'
  OBVIOUS
<1>1. ASSUME reads < MAX_READS,
             NEW first \in FIRST_BYTES, NEW masked \in BOOLEAN, NEW mask \in MASKS,
             NEW payload \in PAYLOADS, NEW following \in FOLLOWING, NEW form \in Forms(payload),
             Receive(first, masked, mask, form, payload, following)
      PROVE  FrameInv'
  BY <1>1, ReceiveInv
<1>2. ASSUME reads < MAX_READS, NEW piece \in PIECES, ReceivePiece(piece)
      PROVE  FrameInv'
  BY <1>2, ReceivePieceInv
<1>3. CASE UNCHANGED vars
  BY <1>3 DEF vars, FrameInv, TypeOK, ObeysTheFrame, NeedsWholeCommand, LooksWhole
<1> QED
  BY <1>1, <1>2, <1>3 DEF Next

-----------------------------------------------------------------------------
\* The invariant of the reads, for every buffer, payload, mask and piece.
THEOREM FrameInvariant == Spec => []FrameInv
BY InitInv, NextInv, PTL DEF Spec

\* The buffer keeps its size and holds bytes, whatever read() brings.
THEOREM FrameTypeCorrect == Spec => []TypeOK
<1>1. FrameInv => TypeOK
  BY DEF FrameInv
<1> QED
  BY <1>1, FrameInvariant, PTL

\* getPayloadLength, getPayloadData, processData and dispatch decode what a
\* client encodes: a masked frame that fits the buffer adds the effect it asks
\* for and no other, for every payload, every mask, each coding of the length,
\* and whatever the buffer holds beyond the frame.
THEOREM FramesAreObeyed == Spec => []ObeysTheFrame
<1>1. FrameInv => ObeysTheFrame
  BY DEF FrameInv
<1> QED
  BY <1>1, FrameInvariant, PTL

\* No effect without five bytes of payload that the length promises and none
\* of the reserved bits, masked or not, whole or cut.
THEOREM OnlyWholeCommands == Spec => []NeedsWholeCommand
<1>1. FrameInv => NeedsWholeCommand
  BY DEF FrameInv
<1> QED
  BY <1>1, FrameInvariant, PTL
=============================================================================
