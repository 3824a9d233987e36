--------------------------- MODULE FirmwareProofs ---------------------------
(***************************************************************************)
(* Proofs about the sketch, for every frame size, chunk size and choice of *)
(* the protocol's bytes, and for every sequence of bytes it may be sent.   *)
(***************************************************************************)
EXTENDS Firmware, TLAPS

\* While a payload is being read it is the single byte of the fade speed.
SettingStarted ==
  state = "READ_SET_PAYLOAD" =>
    /\ settingId = SET_ID_LERP
    /\ settingTargetLen = 1
    /\ settingBuffer = <<>>

\* What every step of the device preserves.
FirmwareInv ==
  /\ FirmwareTypeOK
  /\ BuffersInBounds
  /\ ChunkAligned
  /\ SettingStarted

-----------------------------------------------------------------------------
LEMMA FrameSize == FRAME_DATA_SIZE \in Nat /\ FRAME_DATA_SIZE >= 4
BY SizesAssumption DEF FRAME_DATA_SIZE

LEMMA BytesOfProtocol ==
  {HEADER_BYTE, CMD_FRAME_DATA, CMD_SET_SETTINGS, SET_ID_LERP, HEADER_ACK} \subseteq Byte
BY ProtocolAssumption

LEMMA ByteIsNat == Byte \subseteq Nat
BY SizesAssumption DEF Byte

\* Showing a whole frame leaves a colour on every LED.
LEMMA ProcessedType ==
  ASSUME NEW buffer \in Seq(Byte), Len(buffer) = FRAME_DATA_SIZE,
         newState \in [Led -> Colour]
  PROVE  Processed(buffer) \in [Led -> Colour]
<1> SUFFICES ASSUME NEW id \in Led
             PROVE  Processed(buffer)[id] \in Colour
  BY DEF Processed
<1>1. CASE \E k \in Led : Decides(buffer, k, id)
  <2> DEFINE k == CHOOSE k \in Led : Decides(buffer, k, id)
  <2>1. k \in Led
    BY <1>1
  <2>2. RecordColour(buffer, k) \in Colour
    <3>1. /\ 4 * k + 2 \in 1 .. Len(buffer)
          /\ 4 * k + 3 \in 1 .. Len(buffer)
          /\ 4 * k + 4 \in 1 .. Len(buffer)
      BY <2>1, SizesAssumption DEF Led, FRAME_DATA_SIZE
    <3>2. \A n \in 1 .. Len(buffer) : buffer[n] \in Byte
      OBVIOUS
    <3> HIDE DEF k
    <3> QED
      BY <3>1, <3>2 DEF RecordColour, Colour
  <2> QED
    BY <1>1, <2>2 DEF Processed
<1>2. CASE ~ \E k \in Led : Decides(buffer, k, id)
  BY <1>2 DEF Processed
<1> QED
  BY <1>1, <1>2

-----------------------------------------------------------------------------
(* Reading a byte changes the line and the clock in the same way in all    *)
(* cases of the switch.                                                    *)

LEMMA ReadType ==
  ASSUME FirmwareTypeOK, NEW answer \in Seq(Byte), Read(answer)
  PROVE  /\ toDevice' \in Seq(Byte)
         /\ toHost' \in Seq(Byte)
         /\ quiet' \in 0 .. DEVICE_TIMEOUT
         /\ booted' \in BOOLEAN
         /\ Incoming \in Byte
<1>1. toDevice' \in Seq(Byte) /\ Incoming \in Byte
  BY DEF FirmwareTypeOK, Read, Incoming
<1>2. toHost' \in Seq(Byte)
  BY DEF FirmwareTypeOK, Read
<1> QED
  BY <1>1, <1>2, SizesAssumption DEF FirmwareTypeOK, DeviceTypeOK, Read

LEMMA ReadHeaderInv ==
  FirmwareInv /\ ReadHeader => FirmwareInv'
<1> SUFFICES ASSUME FirmwareInv, ReadHeader
             PROVE  FirmwareInv'
  OBVIOUS
<1>1. Read(<<HEADER_ACK>>) /\ <<HEADER_ACK>> \in Seq(Byte)
  BY BytesOfProtocol DEF ReadHeader
<1>2. FirmwareTypeOK'
  BY <1>1, ReadType
  DEF FirmwareInv, FirmwareTypeOK, DeviceTypeOK, ReadHeader, parserVars, lightVars, State
<1> QED
  BY <1>2 DEF FirmwareInv, ReadHeader, BuffersInBounds, ChunkAligned, SettingStarted

LEMMA ReadFrameCommandInv ==
  FirmwareInv /\ ReadFrameCommand => FirmwareInv'
<1> SUFFICES ASSUME FirmwareInv, ReadFrameCommand
             PROVE  FirmwareInv'
  OBVIOUS
<1>1. Read(<<>>) /\ <<>> \in Seq(Byte)
  BY DEF ReadFrameCommand
<1>2. FirmwareTypeOK'
  BY <1>1, ReadType
  DEF FirmwareInv, FirmwareTypeOK, DeviceTypeOK, ReadFrameCommand, BeginFrame, lightVars, State
<1>3. /\ state' = "READ_LED_FRAME"
      /\ Len(frameBuffer') = 0
      /\ Len(chunk') = 0
  BY DEF ReadFrameCommand, BeginFrame
<1>4. 0 = 0 * CHUNK_SIZE /\ 0 \in 0 .. 0
  BY SizesAssumption
<1> QED
  BY <1>2, <1>3, <1>4, FrameSize, SizesAssumption
  DEF FirmwareInv, BuffersInBounds, ChunkAligned, SettingStarted

LEMMA ReadOtherCommandInv ==
  FirmwareInv /\ (ReadSetCommand \/ ReadOtherCommand) => FirmwareInv'
<1> SUFFICES ASSUME FirmwareInv, ReadSetCommand \/ ReadOtherCommand
             PROVE  FirmwareInv'
  OBVIOUS
<1>1. Read(<<>>) /\ <<>> \in Seq(Byte)
  BY DEF ReadSetCommand, ReadOtherCommand
<1>2. FirmwareTypeOK'
  BY <1>1, ReadType
  DEF FirmwareInv, FirmwareTypeOK, DeviceTypeOK, ReadSetCommand, ReadOtherCommand,
      parserVars, lightVars, State
<1> QED
  BY <1>2
  DEF FirmwareInv, ReadSetCommand, ReadOtherCommand, BuffersInBounds, ChunkAligned,
      SettingStarted

\* The one case with a condition: the chunk, and with it the frame, may be full.
LEMMA ReadFrameByteInv ==
  FirmwareInv /\ ReadFrameByte => FirmwareInv'
<1> SUFFICES ASSUME FirmwareInv, ReadFrameByte
             PROVE  FirmwareInv'
  OBVIOUS
<1> DEFINE bytes == Append(chunk, Incoming)
<1>1. /\ state = "READ_LED_FRAME"
      /\ Len(chunk) < CHUNK_SIZE
      /\ Len(frameBuffer) + Len(chunk) < FRAME_DATA_SIZE
      /\ Len(chunk) \in Nat /\ Len(frameBuffer) \in Nat
      /\ chunk \in Seq(Byte) /\ frameBuffer \in Seq(Byte)
  BY DEF FirmwareInv, ReadFrameByte, BuffersInBounds, ChunkAligned,
         FirmwareTypeOK, DeviceTypeOK
<1>2. Read(<<Len(chunk) + 1>>) /\ <<Len(chunk) + 1>> \in Seq(Byte)
  BY <1>1, SizesAssumption DEF ReadFrameByte, ChunkCounter, Byte
<1>3. Incoming \in Byte
  BY <1>2, ReadType DEF FirmwareInv
<1>4. bytes \in Seq(Byte) /\ Len(bytes) = Len(chunk) + 1
  BY <1>1, <1>3
<1> HIDE DEF bytes
<1>5. CASE ChunkFull(bytes)
  <2>1. frameBuffer' = frameBuffer \o bytes /\ chunk' = <<>>
    BY <1>5 DEF ReadFrameByte, bytes
  <2>2. /\ frameBuffer' \in Seq(Byte)
        /\ Len(frameBuffer') = Len(frameBuffer) + Len(chunk) + 1
        /\ Len(frameBuffer') <= FRAME_DATA_SIZE
    BY <2>1, <1>1, <1>4, FrameSize
  <2>3. chunk' \in Seq(Byte) /\ Len(chunk') = 0
    BY <2>1
  <2>4. CASE Len(frameBuffer') >= FRAME_DATA_SIZE
    <3>1. Len(frameBuffer') = FRAME_DATA_SIZE
      BY <2>2, <2>4, FrameSize
    <3>2. newState' = Processed(frameBuffer') /\ state' = "WAIT_FOR_HEADER"
      BY <2>4 DEF ReadFrameByte, FrameComplete
    <3>3. newState' \in [Led -> Colour]
      BY <2>2, <3>1, <3>2, ProcessedType DEF FirmwareInv, FirmwareTypeOK, DeviceTypeOK
    <3>4. FirmwareTypeOK'
      BY <1>2, <2>2, <2>3, <3>2, <3>3, ReadType
      DEF FirmwareInv, FirmwareTypeOK, DeviceTypeOK, ReadFrameByte, State
    <3> QED
      BY <3>2, <3>4 DEF FirmwareInv, BuffersInBounds, ChunkAligned, SettingStarted
  <2>5. CASE ~ Len(frameBuffer') >= FRAME_DATA_SIZE
    <3>1. UNCHANGED <<newState, state>>
      BY <2>5 DEF ReadFrameByte, FrameComplete
    <3>2. Len(frameBuffer') = Len(frameBuffer) + CHUNK_SIZE
      BY <1>1, <1>4, <1>5, <2>2, <2>5, FrameSize, SizesAssumption, SMTT(20) DEF ChunkFull
    <3>3. ChunkAligned'
      <4>1. PICK n \in 0 .. Len(frameBuffer) : Len(frameBuffer) = n * CHUNK_SIZE
        BY <1>1 DEF FirmwareInv, ChunkAligned
      <4>2. n + 1 \in 0 .. Len(frameBuffer')
        BY <1>1, <3>2, SizesAssumption
      <4>3. Len(frameBuffer') = (n + 1) * CHUNK_SIZE
        BY <1>1, <4>1, <3>2, SizesAssumption
      <4> QED
        BY <4>2, <4>3 DEF ChunkAligned
    <3>4. FirmwareTypeOK'
      BY <1>2, <2>2, <2>3, <3>1, ReadType
      DEF FirmwareInv, FirmwareTypeOK, DeviceTypeOK, ReadFrameByte
    <3> QED
      BY <1>1, <2>2, <2>3, <2>5, <3>1, <3>3, <3>4, FrameSize, SizesAssumption
      DEF FirmwareInv, BuffersInBounds, SettingStarted
  <2> QED
    BY <2>4, <2>5
<1>6. CASE ~ChunkFull(bytes)
  <2>1. chunk' = bytes /\ UNCHANGED frameBuffer
    BY <1>6 DEF ReadFrameByte, bytes
  <2>2. /\ Len(chunk') < CHUNK_SIZE
        /\ Len(frameBuffer) + Len(chunk') < FRAME_DATA_SIZE
    BY <1>1, <1>4, <1>6, <2>1, FrameSize, SizesAssumption DEF ChunkFull
  <2>3. UNCHANGED <<newState, state>>
    BY <1>1, <1>4, <2>1, <2>2, FrameSize DEF ReadFrameByte, FrameComplete
  <2>4. FirmwareTypeOK'
    BY <1>2, <1>4, <2>1, <2>3, ReadType
    DEF FirmwareInv, FirmwareTypeOK, DeviceTypeOK, ReadFrameByte
  <2> QED
    BY <1>1, <2>1, <2>2, <2>3, <2>4
    DEF FirmwareInv, BuffersInBounds, ChunkAligned, SettingStarted
<1> QED
  BY <1>5, <1>6

\* The frame that is shown has exactly the frame's size: the last byte that the
\* device read made it full, not more than full.
LEMMA FrameFull ==
  FirmwareInv /\ ReadFrameByte /\ newState' # newState
    => Len(frameBuffer') = FRAME_DATA_SIZE
<1> SUFFICES ASSUME FirmwareInv, ReadFrameByte, newState' # newState
             PROVE  Len(frameBuffer') = FRAME_DATA_SIZE
  OBVIOUS
<1>1. Len(frameBuffer') >= FRAME_DATA_SIZE
  BY DEF ReadFrameByte, FrameComplete
<1>2. /\ Len(frameBuffer) + Len(chunk) < FRAME_DATA_SIZE
      /\ chunk \in Seq(Byte) /\ frameBuffer \in Seq(Byte)
      /\ Incoming \in Byte
  BY ReadType
  DEF FirmwareInv, ReadFrameByte, Read, BuffersInBounds, FirmwareTypeOK, DeviceTypeOK,
      Incoming
<1>3. frameBuffer' \in {frameBuffer, frameBuffer \o Append(chunk, Incoming)}
  BY DEF ReadFrameByte
<1>4. Len(frameBuffer \o Append(chunk, Incoming)) = Len(frameBuffer) + Len(chunk) + 1
  BY <1>2
<1> QED
  BY <1>1, <1>2, <1>3, <1>4, FrameSize

LEMMA ReadSetTypeInv ==
  FirmwareInv /\ ReadSetType => FirmwareInv'
<1> SUFFICES ASSUME FirmwareInv, ReadSetType
             PROVE  FirmwareInv'
  OBVIOUS
<1>1. Read(<<>>) /\ <<>> \in Seq(Byte)
  BY DEF ReadSetType
<1>2. /\ settingId' \in Byte
      /\ settingBuffer' = <<>>
      /\ settingTargetLen' \in 0 .. 1
      /\ state' \in State
  <2>1. Incoming \in Byte /\ settingTargetLen \in 0 .. 1
    BY <1>1, ReadType DEF FirmwareInv, FirmwareTypeOK, DeviceTypeOK
  <2> QED
    BY <2>1 DEF ReadSetType, State
<1>3. FirmwareTypeOK'
  BY <1>1, <1>2, ReadType
  DEF FirmwareInv, FirmwareTypeOK, DeviceTypeOK, ReadSetType, lightVars
<1> QED
  BY <1>3 DEF FirmwareInv, ReadSetType, BuffersInBounds, ChunkAligned, SettingStarted

LEMMA ReadSetPayloadInv ==
  FirmwareInv /\ ReadSetPayload => FirmwareInv'
<1> SUFFICES ASSUME FirmwareInv, ReadSetPayload
             PROVE  FirmwareInv'
  OBVIOUS
<1>1. Read(<<>>) /\ <<>> \in Seq(Byte)
  BY DEF ReadSetPayload
<1>2. Incoming \in Byte
  BY <1>1, ReadType DEF FirmwareInv
<1>3. settingBuffer = <<>> /\ settingTargetLen = 1 /\ settingId = SET_ID_LERP
  BY DEF FirmwareInv, ReadSetPayload, SettingStarted
<1>4. /\ settingBuffer' \in Seq(Byte)
      /\ Len(settingBuffer') = 1
      /\ settingBuffer'[1] = Incoming
  BY <1>2, <1>3 DEF ReadSetPayload
<1>5. lerpSpeed' = 2 * Incoming /\ state' = "WAIT_FOR_HEADER"
  BY <1>3, <1>4 DEF ReadSetPayload
<1>6. lerpSpeed' \in 0 .. 2 * MAX_BYTE \cup {51}
  BY <1>2, <1>5, SizesAssumption DEF Byte
<1>7. FirmwareTypeOK'
  BY <1>1, <1>4, <1>5, <1>6, ReadType
  DEF FirmwareInv, FirmwareTypeOK, DeviceTypeOK, ReadSetPayload, State
<1> QED
  BY <1>5, <1>7
  DEF FirmwareInv, ReadSetPayload, BuffersInBounds, ChunkAligned, SettingStarted

LEMMA ReadByteInv ==
  FirmwareInv /\ ReadByte => FirmwareInv'
BY ReadHeaderInv, ReadFrameCommandInv, ReadOtherCommandInv, ReadFrameByteInv,
   ReadSetTypeInv, ReadSetPayloadInv DEF ReadByte

\* What the device does without reading: it boots, misses a byte, gives up.
LEMMA NoReadInv ==
  FirmwareInv /\ (Setup \/ MissByte \/ GiveUp) => FirmwareInv'
<1> SUFFICES ASSUME FirmwareInv, Setup \/ MissByte \/ GiveUp
             PROVE  FirmwareInv'
  OBVIOUS
<1>1. FirmwareTypeOK'
  <2>1. CASE Setup
    BY <2>1 DEF FirmwareInv, FirmwareTypeOK, DeviceTypeOK, Setup, parserVars, lightVars,
                lineVars
  <2>2. CASE MissByte
    BY <2>2 DEF FirmwareInv, FirmwareTypeOK, DeviceTypeOK, MissByte, deviceVars,
                parserVars, lightVars
  <2>3. CASE GiveUp
    BY <2>3, SizesAssumption
    DEF FirmwareInv, FirmwareTypeOK, DeviceTypeOK, GiveUp, parserVars, lightVars,
        lineVars, State
  <2> QED
    BY <2>1, <2>2, <2>3
<1> QED
  BY <1>1
  DEF FirmwareInv, Setup, MissByte, GiveUp, deviceVars, parserVars, lightVars,
      BuffersInBounds, ChunkAligned, SettingStarted

LEMMA DeviceStepInv ==
  FirmwareInv /\ DeviceStep => FirmwareInv'
BY ReadByteInv, NoReadInv DEF DeviceStep

\* After a power-up, and so after a reset, the invariant holds.
LEMMA PowerUpInv ==
  ASSUME PowerUp, toDevice \in Seq(Byte), toHost \in Seq(Byte)
  PROVE  FirmwareInv
<1>1. Black \in Colour
  BY SizesAssumption DEF Black, Colour, Byte
<1>2. newState \in [Led -> Colour]
  BY <1>1 DEF PowerUp
<1>3. /\ quiet \in 0 .. DEVICE_TIMEOUT
      /\ lerpSpeed \in 0 .. 2 * MAX_BYTE \cup {51}
      /\ settingId \in Byte
      /\ settingTargetLen \in 0 .. 1
  BY SizesAssumption DEF PowerUp, Byte
<1>4. /\ chunk \in Seq(Byte)
      /\ frameBuffer \in Seq(Byte)
      /\ settingBuffer \in Seq(Byte)
  BY DEF PowerUp
<1>5. FirmwareTypeOK
  BY <1>2, <1>3, <1>4 DEF PowerUp, FirmwareTypeOK, DeviceTypeOK, State
<1> QED
  BY <1>5 DEF PowerUp, FirmwareInv, BuffersInBounds, ChunkAligned, SettingStarted

LEMMA InitInv ==
  FirmwareInit => FirmwareInv
BY PowerUpInv DEF FirmwareInit

\* The line and the clock on their own do not touch what the device holds.
LEMMA EnvironmentInv ==
  FirmwareInv /\ (Pass \/ Collect \/ \E byte \in ARRIVING : Arrive(byte))
    => FirmwareInv'
<1> SUFFICES ASSUME FirmwareInv, Pass \/ Collect \/ \E byte \in ARRIVING : Arrive(byte)
             PROVE  FirmwareInv'
  OBVIOUS
<1>1. FirmwareTypeOK'
  <2>1. CASE Pass
    BY <2>1, SizesAssumption
    DEF FirmwareInv, FirmwareTypeOK, DeviceTypeOK, Pass, Silence, parserVars, lightVars,
        lineVars
  <2>2. CASE Collect
    BY <2>2 DEF FirmwareInv, FirmwareTypeOK, DeviceTypeOK, Collect, deviceVars,
                parserVars, lightVars
  <2>3. CASE \E byte \in ARRIVING : Arrive(byte)
    BY <2>3, ProtocolAssumption
    DEF FirmwareInv, FirmwareTypeOK, DeviceTypeOK, Arrive, deviceVars, parserVars,
        lightVars
  <2> QED
    BY <2>1, <2>2, <2>3
<1> QED
  BY <1>1
  DEF FirmwareInv, Pass, Silence, Collect, Arrive, deviceVars, parserVars, lightVars,
      BuffersInBounds, ChunkAligned, SettingStarted

LEMMA FirmwareNextInv ==
  FirmwareInv /\ [FirmwareNext]_firmwareVars => FirmwareInv'
<1> SUFFICES ASSUME FirmwareInv, UNCHANGED firmwareVars
             PROVE  FirmwareInv'
  BY DeviceStepInv, EnvironmentInv DEF FirmwareNext
<1> QED
  BY DEF FirmwareInv, FirmwareTypeOK, DeviceTypeOK, BuffersInBounds, ChunkAligned,
         SettingStarted, firmwareVars, deviceVars, parserVars, lightVars, lineVars

THEOREM FirmwareInvariant == FirmwareSpec => []FirmwareInv
BY InitInv, FirmwareNextInv, PTL DEF FirmwareSpec

-----------------------------------------------------------------------------
\* The sketch's variables have their types, whatever bytes arrive.
THEOREM FirmwareTypeCorrect == FirmwareSpec => []FirmwareTypeOK
<1>1. FirmwareInv => FirmwareTypeOK
  BY DEF FirmwareInv
<1> QED
  BY <1>1, FirmwareInvariant, PTL

\* No bytes and no silence make the sketch write outside chunk[], frameBuffer[]
\* or settingBuffer[] (arduino.ino, the cases READ_LED_FRAME and
\* READ_SET_PAYLOAD), for every frame and chunk size.
THEOREM BuffersSafe == FirmwareSpec => []BuffersInBounds
<1>1. FirmwareInv => BuffersInBounds
  BY DEF FirmwareInv
<1> QED
  BY <1>1, FirmwareInvariant, PTL

\* The device's chunks lie where the host's loop over the frame puts them.
THEOREM ChunksAligned == FirmwareSpec => []ChunkAligned
<1>1. FirmwareInv => ChunkAligned
  BY DEF FirmwareInv
<1> QED
  BY <1>1, FirmwareInvariant, PTL

\* Only a complete frame changes the colours, only a complete setting the speed.
THEOREM OnlyWholeCommands == FirmwareSpec => WholeCommandsOnly
<1> DEFINE Whole ==
      /\ newState' # newState =>
           /\ state = "READ_LED_FRAME"
           /\ state' = "WAIT_FOR_HEADER"
           /\ Len(frameBuffer') = FRAME_DATA_SIZE
      /\ lerpSpeed' # lerpSpeed =>
           /\ state = "READ_SET_PAYLOAD"
           /\ state' = "WAIT_FOR_HEADER"
<1>1. FirmwareInv /\ [FirmwareNext]_firmwareVars => [Whole]_firmwareVars
  <2> SUFFICES ASSUME FirmwareInv, FirmwareNext
               PROVE  Whole
    OBVIOUS
  <2>1. CASE ReadFrameByte
    <3>1. newState' # newState => Len(frameBuffer') = FRAME_DATA_SIZE
      BY <2>1, FrameFull
    <3> QED
      BY <2>1, <3>1 DEF ReadFrameByte
  <2>2. CASE ReadSetPayload
    BY <2>2 DEF ReadSetPayload
  <2>3. CASE ~ReadFrameByte /\ ~ReadSetPayload
    BY <2>3
    DEF FirmwareNext, DeviceStep, ReadByte, ReadHeader, ReadFrameCommand, BeginFrame, ReadSetCommand,
        ReadOtherCommand, ReadSetType, Setup, MissByte, GiveUp, Pass, Silence, Collect,
        Arrive, deviceVars, lightVars
  <2> QED
    BY <2>1, <2>2, <2>3
<1>2. FirmwareSpec => [][Whole]_firmwareVars
  BY <1>1, FirmwareInvariant, PTL DEF FirmwareSpec
<1> QED
  BY <1>2 DEF WholeCommandsOnly
=============================================================================
