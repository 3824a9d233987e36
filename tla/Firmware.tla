------------------------------ MODULE Firmware ------------------------------
(***************************************************************************)
(* The micro-controller of arduino/arduino.ino: the state machine that     *)
(* loop() runs over the bytes of the serial line, the frame and setting    *)
(* buffers it fills, and the one second of silence after which it gives up *)
(* on whatever it was reading.                                             *)
(*                                                                         *)
(* The two directions of the line are sequences of bytes.  Time is counted *)
(* in ticks: quiet is the number of ticks since the last byte was read     *)
(* (millis() - lastReceivedData), saturating at DEVICE_TIMEOUT.            *)
(***************************************************************************)
EXTENDS Integers, Sequences

CONSTANTS
  NUM_LEDS,           \* 62
  CHUNK_SIZE,         \* 64
  MAX_BYTE,           \* 255: the largest value of a uint8_t
  HEADER_BYTE,        \* 0xAA
  CMD_FRAME_DATA,     \* 0x10
  CMD_SET_SETTINGS,   \* 0x20
  SET_ID_LERP,        \* 0x01
  HEADER_ACK,         \* '1', the answer to a header
  DEVICE_TIMEOUT,     \* 1000 ms, in ticks
  ARRIVING,           \* the bytes the environment below puts on the line
  MAX_LINE            \* bound on the bytes under way, for that environment

FRAME_DATA_SIZE == NUM_LEDS * 4

Byte == 0 .. MAX_BYTE
Led == 0 .. NUM_LEDS - 1
Colour == Byte \X Byte \X Byte

ASSUME SizesAssumption ==
  /\ NUM_LEDS \in Nat \ {0}
  /\ CHUNK_SIZE \in Nat \ {0}
  /\ MAX_BYTE \in Nat
  /\ NUM_LEDS <= MAX_BYTE + 1     \* an LED id is one byte
  /\ CHUNK_SIZE <= MAX_BYTE       \* chunkPos is a uint8_t
  /\ DEVICE_TIMEOUT \in Nat \ {0}

ASSUME ProtocolAssumption ==
  /\ {HEADER_BYTE, CMD_FRAME_DATA, CMD_SET_SETTINGS, SET_ID_LERP, HEADER_ACK}
       \subseteq Byte
  /\ ARRIVING \subseteq Byte
  /\ CMD_FRAME_DATA # CMD_SET_SETTINGS
  /\ HEADER_BYTE \notin {CMD_FRAME_DATA, CMD_SET_SETTINGS}

VARIABLES
  booted,            \* setup() has reached Serial.begin
  state,             \* the enum State of the sketch
  chunk,             \* chunk[0 .. chunkPos - 1]
  frameBuffer,       \* frameBuffer[0 .. frameIndex - 1]
  settingId,
  settingBuffer,     \* settingBuffer[0 .. settingBytesRead - 1]
  settingTargetLen,
  lerpSpeed,         \* in units of 1/510
  newState,          \* the colours the LEDs fade to
  quiet,             \* ticks since lastReceivedData
  toDevice,          \* bytes on their way to the device
  toHost             \* bytes on their way to the host

parserVars == <<chunk, frameBuffer, settingId, settingBuffer, settingTargetLen>>
lightVars == <<lerpSpeed, newState>>
deviceVars == <<booted, state, parserVars, lightVars, quiet>>
lineVars == <<toDevice, toHost>>
firmwareVars == <<deviceVars, lineVars>>

Black == <<0, 0, 0>>

\* What the sketch's globals hold after a power-up or a reset.
PowerUp ==
  /\ booted = FALSE
  /\ state = "WAIT_FOR_HEADER"
  /\ chunk = <<>>
  /\ frameBuffer = <<>>
  /\ settingId = 0
  /\ settingBuffer = <<>>
  /\ settingTargetLen = 0
  /\ lerpSpeed = 51
  /\ newState = [id \in Led |-> Black]
  /\ quiet = DEVICE_TIMEOUT

\* The same after a reset while the line is up.
Reset ==
  /\ booted' = FALSE
  /\ state' = "WAIT_FOR_HEADER"
  /\ chunk' = <<>>
  /\ frameBuffer' = <<>>
  /\ settingId' = 0
  /\ settingBuffer' = <<>>
  /\ settingTargetLen' = 0
  /\ lerpSpeed' = 51
  /\ newState' = [id \in Led |-> Black]
  /\ quiet' = DEVICE_TIMEOUT

FirmwareInit ==
  /\ PowerUp
  /\ toDevice = <<>>
  /\ toHost = <<>>

-----------------------------------------------------------------------------
(* Reading one byte: one action per case of the switch of loop().          *)

Incoming == Head(toDevice)

\* Serial.read() takes the byte and lastReceivedData = millis(); answer is
\* what the case writes back.
Read(answer) ==
  /\ booted
  /\ toDevice # <<>>
  /\ toDevice' = Tail(toDevice)
  /\ toHost' = toHost \o answer
  /\ quiet' = 0
  /\ UNCHANGED booted

ReadHeader ==
  /\ state = "WAIT_FOR_HEADER"
  /\ Read(<<HEADER_ACK>>)
  /\ Incoming = HEADER_BYTE
  /\ state' = "WAIT_FOR_COMMAND"
  /\ UNCHANGED <<parserVars, lightVars>>

\* Mutant: the case WAIT_FOR_HEADER ends with the break it seems to lack.
ExpectsCommand_Break == state = "WAIT_FOR_COMMAND"

\* The case WAIT_FOR_HEADER has no break for other bytes: it falls through.
ExpectsCommand ==
  \/ state = "WAIT_FOR_COMMAND"
  \/ state = "WAIT_FOR_HEADER" /\ Incoming # HEADER_BYTE

\* Mutant: an unfinished frame is not forgotten when a new one begins.
BeginFrame_KeepsFrame == chunk' = <<>> /\ UNCHANGED <<frameBuffer, newState>>

\* Mutant: the strip goes dark as soon as a new frame begins.
BeginFrame_Blanks == frameBuffer' = <<>> /\ chunk' = <<>> /\ newState' = [id \in Led |-> Black]

\* frameIndex and chunkPos start again; nothing is shown yet.
BeginFrame == frameBuffer' = <<>> /\ chunk' = <<>> /\ UNCHANGED newState

ReadFrameCommand ==
  /\ Read(<<>>)
  /\ ExpectsCommand
  /\ Incoming = CMD_FRAME_DATA
  /\ state' = "READ_LED_FRAME"
  /\ BeginFrame
  /\ UNCHANGED <<settingId, settingBuffer, settingTargetLen, lerpSpeed>>

ReadSetCommand ==
  /\ Read(<<>>)
  /\ ExpectsCommand
  /\ Incoming = CMD_SET_SETTINGS
  /\ state' = "READ_SET_TYPE"
  /\ UNCHANGED <<parserVars, lightVars>>

ReadOtherCommand ==
  /\ Read(<<>>)
  /\ ExpectsCommand
  /\ Incoming \notin {CMD_FRAME_DATA, CMD_SET_SETTINGS}
  /\ state' = "WAIT_FOR_HEADER"
  /\ UNCHANGED <<parserVars, lightVars>>

\* Record k of a frame is the four bytes id, red, green, blue.
RecordId(buffer, k) == buffer[4 * k + 1]
RecordColour(buffer, k) == <<buffer[4 * k + 2], buffer[4 * k + 3], buffer[4 * k + 4]>>

\* k is the record whose colour id ends up with: the last one that names it.
Decides(buffer, k, id) ==
  /\ RecordId(buffer, k) = id
  /\ \A later \in k + 1 .. NUM_LEDS - 1 : RecordId(buffer, later) # id

\* The colours after processFrame(buffer): a record whose id is no LED's is
\* skipped, an LED that no record names keeps its colour.
Processed(buffer) ==
  [id \in Led |->
     IF \E k \in Led : Decides(buffer, k, id)
       THEN RecordColour(buffer, CHOOSE k \in Led : Decides(buffer, k, id))
       ELSE newState[id]]

\* Mutant: the answer counts the bytes of the frame, not of the chunk.
ChunkCounter_OfFrame == Len(frameBuffer) + Len(chunk) + 1

\* What the device answers to a byte of a frame: chunkPos, just increased.
ChunkCounter == Len(chunk) + 1

\* Mutant: the chunk is copied one byte too late.
ChunkFull_Late(bytes) ==
  \/ Len(bytes) > CHUNK_SIZE
  \/ Len(frameBuffer) + Len(bytes) >= FRAME_DATA_SIZE

\* The chunk is copied into the frame when it, or the frame, is full.
ChunkFull(bytes) ==
  \/ Len(bytes) >= CHUNK_SIZE
  \/ Len(frameBuffer) + Len(bytes) >= FRAME_DATA_SIZE

FrameComplete(buffer) == Len(buffer) >= FRAME_DATA_SIZE

ReadFrameByte ==
  /\ state = "READ_LED_FRAME"
  /\ Read(<<ChunkCounter>>)
  /\ LET bytes == Append(chunk, Incoming)
     IN  IF ChunkFull(bytes)
           THEN /\ frameBuffer' = frameBuffer \o bytes
                /\ chunk' = <<>>
           ELSE /\ chunk' = bytes
                /\ UNCHANGED frameBuffer
  /\ IF FrameComplete(frameBuffer')
       THEN /\ newState' = Processed(frameBuffer')
            /\ state' = "WAIT_FOR_HEADER"
       ELSE UNCHANGED <<newState, state>>
  /\ UNCHANGED <<settingId, settingBuffer, settingTargetLen, lerpSpeed>>

\* An unknown setting returns from loop(); the next loop() reads on.
ReadSetType ==
  /\ state = "READ_SET_TYPE"
  /\ Read(<<>>)
  /\ settingId' = Incoming
  /\ settingBuffer' = <<>>
  /\ IF Incoming = SET_ID_LERP
       THEN /\ settingTargetLen' = 1
            /\ state' = "READ_SET_PAYLOAD"
       ELSE /\ state' = "WAIT_FOR_HEADER"
            /\ UNCHANGED settingTargetLen
  /\ UNCHANGED <<chunk, frameBuffer, lightVars>>

ReadSetPayload ==
  /\ state = "READ_SET_PAYLOAD"
  /\ Read(<<>>)
  /\ settingBuffer' = Append(settingBuffer, Incoming)
  /\ IF Len(settingBuffer') >= settingTargetLen
       THEN /\ lerpSpeed' = IF settingId = SET_ID_LERP
                              THEN 2 * settingBuffer'[1] ELSE lerpSpeed
            /\ state' = "WAIT_FOR_HEADER"
       ELSE UNCHANGED <<lerpSpeed, state>>
  /\ UNCHANGED <<chunk, frameBuffer, settingId, settingTargetLen, newState>>

-----------------------------------------------------------------------------
\* setup() ends: Serial.begin has been called and loop() runs.
Setup ==
  /\ ~booted
  /\ booted' = TRUE
  /\ UNCHANGED <<state, parserVars, lightVars, quiet, lineVars>>

\* A byte that arrives while setup() still waits is lost.
MissByte ==
  /\ ~booted
  /\ toDevice # <<>>
  /\ toDevice' = Tail(toDevice)
  /\ UNCHANGED <<deviceVars, toHost>>

\* Mutant: more than one second, which quiet never reaches.
TimedOut_Never == booted /\ toDevice = <<>> /\ quiet > DEVICE_TIMEOUT

\* The end of loop(): one second without a byte.
TimedOut == booted /\ toDevice = <<>> /\ quiet >= DEVICE_TIMEOUT

GiveUp ==
  /\ TimedOut
  /\ state' = "WAIT_FOR_HEADER"
  /\ quiet' = 0
  /\ UNCHANGED <<booted, parserVars, lightVars, lineVars>>

Silence ==
  /\ quiet < DEVICE_TIMEOUT
  /\ quiet' = quiet + 1
  /\ UNCHANGED <<booted, state, parserVars, lightVars>>

ReadByte ==
  \/ ReadHeader
  \/ ReadFrameCommand
  \/ ReadSetCommand
  \/ ReadOtherCommand
  \/ ReadFrameByte
  \/ ReadSetType
  \/ ReadSetPayload

DeviceStep == ReadByte \/ Setup \/ MissByte \/ GiveUp

-----------------------------------------------------------------------------
(* The device on its own, at the end of a line that may carry any bytes.   *)

Arrive(byte) ==
  /\ Len(toDevice) + Len(toHost) < MAX_LINE
  /\ toDevice' = Append(toDevice, byte)
  /\ UNCHANGED <<deviceVars, toHost>>

Collect ==
  /\ toHost # <<>>
  /\ toHost' = Tail(toHost)
  /\ UNCHANGED <<deviceVars, toDevice>>

Pass == Silence /\ UNCHANGED lineVars

FirmwareNext ==
  \/ DeviceStep
  \/ Pass
  \/ Collect
  \/ \E byte \in ARRIVING : Arrive(byte)

\* loop() runs for ever, time passes, and the host's kernel takes the answers.
FirmwareFairness ==
  /\ WF_firmwareVars(DeviceStep)
  /\ WF_firmwareVars(Pass)
  /\ WF_firmwareVars(Collect)

FirmwareSpec == FirmwareInit /\ [][FirmwareNext]_firmwareVars /\ FirmwareFairness

-----------------------------------------------------------------------------
State == {"WAIT_FOR_HEADER", "WAIT_FOR_COMMAND", "READ_LED_FRAME",
          "READ_SET_TYPE", "READ_SET_PAYLOAD"}

DeviceTypeOK ==
  /\ booted \in BOOLEAN
  /\ state \in State
  /\ chunk \in Seq(Byte)
  /\ frameBuffer \in Seq(Byte)
  /\ settingId \in Byte
  /\ settingBuffer \in Seq(Byte)
  /\ settingTargetLen \in 0 .. 1
  /\ lerpSpeed \in 0 .. 2 * MAX_BYTE \cup {51}
  /\ newState \in [Led -> Colour]
  /\ quiet \in 0 .. DEVICE_TIMEOUT

\* The type of every variable of the device and of the line.
FirmwareTypeOK ==
  /\ DeviceTypeOK
  /\ toDevice \in Seq(Byte)
  /\ toHost \in Seq(Byte)

\* Whatever bytes arrive, in whatever state a silence interrupts, no buffer of
\* the sketch is written outside its bounds: there is always room in chunk[]
\* for the next byte, in frameBuffer[] for the whole chunk that the next byte
\* may complete (the memcpy), and in settingBuffer[8] for the next byte.
BuffersInBounds ==
  /\ state = "READ_LED_FRAME" =>
       /\ Len(chunk) < CHUNK_SIZE
       /\ Len(frameBuffer) + Len(chunk) < FRAME_DATA_SIZE
  /\ state = "READ_SET_PAYLOAD" => Len(settingBuffer) < 8

\* The chunk counter the device acknowledges with stays in step with the frame:
\* the frame holds whole chunks only, so the byte being read has the place in
\* its chunk that the host computes by cutting the frame every CHUNK_SIZE bytes.
ChunkAligned ==
  state = "READ_LED_FRAME" =>
    \E n \in 0 .. Len(frameBuffer) : Len(frameBuffer) = n * CHUNK_SIZE

\* A step changes the colours only by completing a frame of exactly
\* FRAME_DATA_SIZE bytes, and the fade speed only by completing a setting: a
\* frame that was cut short by a silence or by a new command is never shown.
WholeCommandsOnly ==
  [][/\ newState' # newState =>
          /\ state = "READ_LED_FRAME"
          /\ state' = "WAIT_FOR_HEADER"
          /\ Len(frameBuffer') = FRAME_DATA_SIZE
     /\ lerpSpeed' # lerpSpeed =>
          /\ state = "READ_SET_PAYLOAD"
          /\ state' = "WAIT_FOR_HEADER"]_firmwareVars

\* The device comes back to waiting for a header again and again unless bytes
\* keep arriving for ever: no garbage, and no command cut short, leaves it deaf.
SilenceRecovers ==
  []<>(booted /\ state = "WAIT_FOR_HEADER") \/ []<>(toDevice # <<>>)
=============================================================================
