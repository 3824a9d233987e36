--------------------------- MODULE WebSocketFrame ---------------------------
(***************************************************************************)
(* What src/WebSocketServer.cpp does with one read() of a client that has   *)
(* made its handshake: isFrameValid, getPayloadLength, getPayloadData,      *)
(* processData, and EffectDispatcher::dispatch.                             *)
(*                                                                         *)
(* The read overwrites the beginning of the client's buffer; what earlier   *)
(* reads have left beyond it stays.  A read begins with a whole frame and   *)
(* may go on with the next one; or, when the network cuts a frame, it is    *)
(* the first or the last piece of one, which the code takes for a frame.    *)
(***************************************************************************)
EXTENDS Integers, Sequences

CONSTANTS
  BUFFER_SIZE,      \* 4096: the buffer of a client
  FIRST_BYTES,      \* the first bytes of frames: FIN, RSV and opcode
  MASKS,            \* masking keys, sequences of four bytes
  PAYLOADS,         \* what the frames carry
  FOLLOWING,        \* what may follow a frame in the same read
  PIECES,           \* the pieces of cut frames
  CUT,              \* stands for the frame of such a piece
  MAX_READS         \* bound on the reads

EFFECT_HEADER == 239      \* 0xEF
STATIC_EFFECT == 1

Byte == 0 .. 255

ASSUME FrameAssumption ==
  /\ BUFFER_SIZE \in Nat /\ BUFFER_SIZE >= 14 /\ BUFFER_SIZE < 65536
  /\ FIRST_BYTES \subseteq Byte
  /\ MASKS \subseteq [1 .. 4 -> Byte]
  /\ PAYLOADS \cup FOLLOWING \cup PIECES \subseteq Seq(Byte)
  /\ MAX_READS \in Nat

VARIABLES
  buffer,           \* Client::buffer
  reads,            \* how many reads there have been
  arrived,          \* the latest frame, as the client meant it, or CUT
  effect            \* the effect that the latest read has added, or NoEffect

vars == <<buffer, reads, arrived, effect>>

NoEffect == <<>>

TypeOK ==
  /\ buffer \in [1 .. BUFFER_SIZE -> Byte]
  /\ reads \in 0 .. MAX_READS
  /\ effect \in Seq(Byte)

-----------------------------------------------------------------------------
(* The client's side: a frame and its bytes, as RFC 6455 lays them out.    *)

Frame(first, masked, mask, form, payload) ==
  [first |-> first, masked |-> masked, mask |-> mask, form |-> form, payload |-> payload]

\* Bit n of a byte, and the byte whose bits are set where two bytes differ.
Weight == <<1, 2, 4, 8, 16, 32, 64, 128>>
Bit(byte, n) == (byte \div Weight[n + 1]) % 2
Xor(a, b) ==
  LET differ(n) == (Bit(a, n) + Bit(b, n)) % 2
  IN  differ(0) + 2 * differ(1) + 4 * differ(2) + 8 * differ(3)
        + 16 * differ(4) + 32 * differ(5) + 64 * differ(6) + 128 * differ(7)

Masked(payload, mask) ==
  [n \in DOMAIN payload |-> Xor(payload[n], mask[((n - 1) % 4) + 1])]

\* form is the second byte without its mask bit: a length, or how it is coded.
\* What fits the buffer is shorter than 65536, so that the high bytes are zero.
LengthField(frame) ==
  LET short == <<(Len(frame.payload) \div 256) % 256, Len(frame.payload) % 256>>
  IN  CASE frame.form = 126 -> short
        [] frame.form = 127 -> <<0, 0, 0, 0, 0, 0>> \o short
        [] OTHER -> <<>>

Encode(frame) ==
  <<frame.first, frame.form + IF frame.masked THEN 128 ELSE 0>>
    \o LengthField(frame)
    \o IF frame.masked THEN frame.mask \o Masked(frame.payload, frame.mask)
                       ELSE frame.payload

\* What a frame asks for: a static colour, unless an extension's bit is set.
Meant(frame) ==
  IF /\ (frame.first \div 16) % 8 = 0
     /\ Len(frame.payload) >= 5
     /\ frame.payload[1] = EFFECT_HEADER
     /\ frame.payload[2] = STATIC_EFFECT
    THEN SubSeq(frame.payload, 3, 5)
    ELSE NoEffect

-----------------------------------------------------------------------------
(* The server's side.  bytes[n + 1] is frame[n] of the code.               *)

\* None of the reserved bits is set: frame[0] & 0x70 is zero.
IsFrameValid(bytes) == \A n \in 4 .. 6 : Bit(bytes[1], n) = 0

\* frame[1] & 0x7F, and the mask bit.
ShortLength(bytes) == bytes[2] % 128
HasMask(bytes) == Bit(bytes[2], 7) # 0

\* ntohs of two bytes, and reverseBytes of eight.
TwoBytes(bytes, n) == 256 * bytes[n] + bytes[n + 1]
EightBytes(bytes, n) ==
  TwoBytes(bytes, n + 6)
    + 65536 * (TwoBytes(bytes, n + 4)
    + 65536 * (TwoBytes(bytes, n + 2)
    + 65536 * TwoBytes(bytes, n)))

\* Mutant: only one byte of the 16-bit length is copied.
PayloadLength_OneByte(bytes) ==
  CASE ShortLength(bytes) <= 125 -> ShortLength(bytes)
    [] ShortLength(bytes) = 126 -> bytes[3]
    [] ShortLength(bytes) = 127 -> EightBytes(bytes, 3)

\* getPayloadLength, and how far it moves offset.
PayloadLength(bytes) ==
  CASE ShortLength(bytes) <= 125 -> ShortLength(bytes)
    [] ShortLength(bytes) = 126 -> TwoBytes(bytes, 3)
    [] ShortLength(bytes) = 127 -> EightBytes(bytes, 3)

PayloadOffset(bytes) ==
  CASE ShortLength(bytes) <= 125 -> 2
    [] ShortLength(bytes) = 126 -> 4
    [] ShortLength(bytes) = 127 -> 10

\* Mutant: the effect is dispatched when its header and flag are there.
Dispatch_Short(data, length) ==
  IF data[2] = STATIC_EFFECT /\ length >= 4 THEN SubSeq(data, 3, 5) ELSE NoEffect

\* data is the payload and its terminating zero, length that of the payload.
Dispatch(data, length) ==
  IF data[2] = STATIC_EFFECT /\ length >= 5 THEN SubSeq(data, 3, 5) ELSE NoEffect

ProcessData(data, length) ==
  IF data[1] = EFFECT_HEADER THEN Dispatch(data, length) ELSE NoEffect

\* What the heap may hold where payloadData is put: nothing yet, or what an
\* earlier frame has left there.
Heap(length) == {[n \in 1 .. length |-> 0]} \cup {p \in PAYLOADS : Len(p) = length}

\* original[i] ^ masking[i % 4], where masking starts at offset.
Unmasked(bytes, offset, length) ==
  [n \in 1 .. length |-> Xor(bytes[offset + 4 + n], bytes[(offset + 1) + ((n - 1) % 4)])]

\* The data of the frame in the buffer.  That of a frame without a mask is
\* never written to payloadData, which keeps what the heap holds.  The zero goes
\* one byte beyond what has been allocated; here it has a cell of its own, which
\* is what the code relies on and the language does not promise.
PayloadData(bytes) ==
  LET length == PayloadLength(bytes)
  IN  IF HasMask(bytes)
        THEN {Append(Unmasked(bytes, PayloadOffset(bytes), length), 0)}
        ELSE {Append(payload, 0) : payload \in Heap(length)}

\* Mutant: read() is not told the size of the buffer.
Overwrite_Unlimited(bytes) == bytes \o SubSeq(buffer, Len(bytes) + 1, BUFFER_SIZE)

\* read() into the buffer: it takes what there is room for, and what is beyond
\* the bytes it brings stays.
Overwrite(bytes) ==
  [n \in 1 .. BUFFER_SIZE |-> IF n <= Len(bytes) THEN bytes[n] ELSE buffer[n]]

\* One round of the read loop, in which frame arrives.
Read(newBuffer, frame) ==
  /\ reads' = reads + 1
  /\ arrived' = frame
  /\ buffer' = newBuffer
  /\ IF IsFrameValid(buffer')
       THEN \E data \in PayloadData(buffer') :
              effect' = ProcessData(data, Len(data) - 1)
       ELSE effect' = NoEffect

\* A frame that fits the buffer; one that does not arrives in pieces.
Receive(first, masked, mask, form, payload, following) ==
  LET frame == Frame(first, masked, mask, form, payload)
  IN  /\ Len(Encode(frame)) <= BUFFER_SIZE
      /\ Read(Overwrite(Encode(frame) \o following), frame)

\* A piece, with what is left in the buffer beyond it.  One in which the code
\* would find a length that leads beyond the buffer is not followed.
InBuffer(bytes) == PayloadOffset(bytes) + 4 + PayloadLength(bytes) <= BUFFER_SIZE
ReceivePiece(piece) ==
  /\ InBuffer(Overwrite(piece))
  /\ Read(Overwrite(piece), CUT)

-----------------------------------------------------------------------------
Forms(payload) ==
  {126, 127} \cup (IF Len(payload) <= 125 THEN {Len(payload)} ELSE {})

Init ==
  /\ buffer = [n \in 1 .. BUFFER_SIZE |-> 0]
  /\ reads = 0
  /\ arrived = Frame(0, TRUE, <<0, 0, 0, 0>>, 0, <<>>)
  /\ effect = NoEffect

Next ==
  /\ reads < MAX_READS
  /\ \/ \E first \in FIRST_BYTES, masked \in BOOLEAN, mask \in MASKS, payload \in PAYLOADS,
           following \in FOLLOWING :
          \E form \in Forms(payload) :
            Receive(first, masked, mask, form, payload, following)
     \/ \E piece \in PIECES : ReceivePiece(piece)

Spec == Init /\ [][Next]_vars

-----------------------------------------------------------------------------
\* A masked frame adds the effect its client asked for, and no other: for every
\* form of its length and every mask, whatever an earlier, longer read or a cut
\* frame has left in the buffer and whatever follows in the same read.
ObeysTheFrame == arrived # CUT /\ arrived.masked => effect = Meant(arrived)

\* Only a payload that is long enough adds an effect, masked or not, and never
\* one of a frame whose reserved bits are set; a piece of a frame does so only if
\* it looks like such a frame, together with what the buffer holds beyond it.
LooksWhole == IsFrameValid(buffer) /\ PayloadLength(buffer) >= 5
NeedsWholeCommand ==
  effect # NoEffect =>
    /\ IF arrived = CUT
         THEN LooksWhole
         ELSE Len(arrived.payload) >= 5 /\ (arrived.first \div 16) % 8 = 0
    /\ Len(effect) = 3
=============================================================================
