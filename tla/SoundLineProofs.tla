-------------------------- MODULE SoundLineProofs --------------------------
(***************************************************************************)
(* A healthy line with one call at a time: what the two ends know of each  *)
(* other, byte by byte, and that the line is the channel the effects rely  *)
(* on.                                                                     *)
(*                                                                         *)
(* Bytes may be under way in any number, and those of a killed server too. *)
(* That the device understands them is said with a walk: the modes that it *)
(* goes through while it reads them, ending in the mode the host expects.  *)
(***************************************************************************)
EXTENDS SerialProtocolProofs

Modes == {"ready", "type", "payload", "frame"}

Mode ==
  CASE state = "READ_SET_TYPE" -> "type"
    [] state = "READ_SET_PAYLOAD" -> "payload"
    [] state = "READ_LED_FRAME" -> "frame"
    [] OTHER -> "ready"

\* The bytes of calls that have sent no frame, and what they do to the device.
Leads(from, byte, to) ==
  \/ from = "ready" /\ byte = HEADER_BYTE /\ to = "ready"
  \/ from = "ready" /\ byte = CMD_SET_SETTINGS /\ to = "type"
  \/ from = "type" /\ byte = SET_ID_LERP /\ to = "payload"
  \/ from = "payload" /\ byte \in SPEEDS /\ to = "ready"

\* The first n bytes take the device from one mode to the other.
Walk(bytes, n, from, to) ==
  \E mode \in [0 .. n -> Modes] :
    /\ mode[0] = from
    /\ mode[n] = to
    /\ \A i \in 1 .. n : Leads(mode[i - 1], bytes[i], mode[i])

\* No frame is under way, and the device will end up in that mode.
Commands(to) == Walk(toDevice, Len(toDevice), Mode, to)

\* The command of a frame is under way, at place k, with the frame's first bytes.
BeforeAt(k, sent) ==
  /\ Len(toDevice) = k + sent
  /\ toDevice[k] = CMD_FRAME_DATA
  /\ Walk(toDevice, k - 1, Mode, "ready")
  /\ \A i \in 1 .. sent : toDevice[k + i] = FrameData(frame)[i]
Before(sent) == \E k \in 1 .. Len(toDevice) : BeforeAt(k, sent)

\* How much of the frame the device has, and that it has got it right.
Got == Len(frameBuffer) + Len(chunk)
Inside(sent) ==
  /\ state = "READ_LED_FRAME"
  /\ Got + Len(toDevice) = sent
  /\ \A i \in 1 .. Len(frameBuffer) : frameBuffer[i] = FrameData(frame)[i]
  /\ \A i \in 1 .. Len(chunk) : chunk[i] = FrameData(frame)[Len(frameBuffer) + i]
  /\ \A i \in 1 .. Len(toDevice) : toDevice[i] = FrameData(frame)[Got + i]

\* The device has the whole frame and shows it.
Complete == Mode = "ready" /\ toDevice = <<>> /\ newState = frame

-----------------------------------------------------------------------------
(* What the two ends know of each other.                                   *)

Calling(t) == pc[t] \notin {"closed", "opening", "idle"}

\* Nobody writes: there is no server, or it has no port.
Silent == port # "open" \/ pc["main"] \in {"closed", "opening"}

\* What a killed server has left under way is a part of its last call.
LeftOver ==
  \/ \E to \in Modes : Commands(to)
  \/ \E sent \in 0 .. FRAME_DATA_SIZE : Before(sent) \/ Inside(sent)

\* Only answers to headers are on their way to the host.
OnlyAcks == \A n \in 1 .. Len(toHost) : toHost[n] = HEADER_ACK

\* The answers to headers, and then the counters up to that of the byte read last.
Answers(got) ==
  \A n \in 1 .. Len(toHost) :
    toHost[n] = HEADER_ACK \/ toHost[n] = got - (Len(toHost) - n)

\* The chunk is under way, and the device has got some of it.
ChunkUnderWay ==
  /\ Inside(base + SizeToSend)
  /\ \/ Len(frameBuffer) = base /\ Len(chunk) < SizeToSend
     \/ Len(frameBuffer) = base + SizeToSend /\ Len(chunk) = 0
  /\ Answers(Got - base)

\* The device has read the last byte of the chunk: its counter is under way.
LastCounter == Len(toHost) >= 1 /\ toHost[Len(toHost)] = SizeToSend

Reading ==
  \/ base = 0 /\ Before(SizeToSend) /\ OnlyAcks
  \/ ChunkUnderWay /\ (Got = base + SizeToSend => LastCounter)
  \/ Complete /\ base + SizeToSend = FRAME_DATA_SIZE /\ Answers(SizeToSend) /\ LastCounter

\* What the label of the thread that calls says about the device.
Phase(label) ==
  CASE label = "setId" -> Commands("type") /\ OnlyAcks
    [] label = "setValue" -> Commands("payload") /\ OnlyAcks
    [] label = "writeChunk" ->
         /\ offset = 0
         /\ \/ base = 0 /\ Before(0)
            \/ Inside(base) /\ Len(frameBuffer) = base
         /\ OnlyAcks
    [] label = "readAck" -> Reading /\ waited = 0
    [] label = "drain" -> Complete /\ toHost = <<>>
    [] OTHER -> Commands("ready") /\ OnlyAcks

\* Without a call everything under way is commands, ending where a header may come.
AtWork ==
  /\ \A t \in Thread : Calling(t) => Phase(pc[t])
  /\ (\A t \in Thread : ~Calling(t)) => Phase("idle")
  /\ Mode # "ready" => quiet = 0

\* A device that has not booted has been sent headers only, and answers nothing.
Unbooted ==
  /\ \A n \in 1 .. Len(toDevice) : toDevice[n] = HEADER_BYTE
  /\ ~Silent => toHost = <<>> /\ \A t \in Thread : pc[t] \in {"idle", "header", "awaitAck"}

WholeChunks == \E n \in Nat : base = n * CHUNK_SIZE

\* One call at a time, and only over a port that is open.
OneCall ==
  \A t \in Thread : Calling(t) => port = "open" /\ \A u \in Thread : Calling(u) => u = t

Understood ==
  /\ OneCall
  /\ IF Silent THEN LeftOver ELSE AtWork
  /\ ~booted => Unbooted

HealthyInv ==
  /\ port = "dead" => ~healthy
  /\ WholeChunks
  /\ healthy => Understood

-----------------------------------------------------------------------------
(* Walks.                                                                  *)

LEMMA WalkNowhere ==
  ASSUME NEW bytes, NEW from \in Modes, NEW to
  PROVE  Walk(bytes, 0, from, to) <=> from = to
<1>1. ASSUME Walk(bytes, 0, from, to) PROVE from = to
  BY <1>1 DEF Walk
<1>2. ASSUME from = to PROVE Walk(bytes, 0, from, to)
  <2> DEFINE mode == [i \in 0 .. 0 |-> from]
  <2>1. mode \in [0 .. 0 -> Modes] /\ mode[0] = from /\ mode[0] = to
    BY <1>2
  <2>2. \A i \in 1 .. 0 : Leads(mode[i - 1], bytes[i], mode[i])
    OBVIOUS
  <2> QED
    BY <2>1, <2>2 DEF Walk
<1> QED
  BY <1>1, <1>2

\* Only the bytes that are walked over matter.
LEMMA SameWalk ==
  ASSUME NEW n \in Nat, NEW bytes, NEW others, NEW from, NEW to,
         Walk(bytes, n, from, to), \A i \in 1 .. n : others[i] = bytes[i]
  PROVE  Walk(others, n, from, to)
BY DEF Walk

LEMMA WalkFurther ==
  ASSUME NEW n \in Nat, NEW bytes, NEW others, NEW from, NEW mid, NEW to \in Modes,
         Walk(bytes, n, from, mid), \A i \in 1 .. n : others[i] = bytes[i],
         Leads(mid, others[n + 1], to)
  PROVE  Walk(others, n + 1, from, to)
<1>1. PICK mode \in [0 .. n -> Modes] :
        /\ mode[0] = from
        /\ mode[n] = mid
        /\ \A i \in 1 .. n : Leads(mode[i - 1], bytes[i], mode[i])
  BY DEF Walk
<1> DEFINE longer == [i \in 0 .. n + 1 |-> IF i = n + 1 THEN to ELSE mode[i]]
<1>2. longer \in [0 .. n + 1 -> Modes]
  OBVIOUS
<1>3. longer[0] = from /\ longer[n] = mid /\ longer[n + 1] = to
  BY <1>1
<1>4. ASSUME NEW i \in 1 .. n + 1
      PROVE  Leads(longer[i - 1], others[i], longer[i])
  <2>1. CASE i = n + 1
    <3>1. i - 1 = n
      BY <2>1
    <3> QED
      BY <1>3, <2>1, <3>1
  <2>2. CASE i # n + 1
    <3>1. i \in 1 .. n /\ longer[i] = mode[i] /\ longer[i - 1] = mode[i - 1]
      BY <2>2
    <3> QED
      BY <1>1, <3>1
  <2> QED
    BY <2>1, <2>2
<1> HIDE DEF longer
<1> QED
  BY <1>2, <1>3, <1>4 DEF Walk

\* Reading the first byte is the walk's first step.
LEMMA WalkOn ==
  ASSUME NEW n \in Nat, n >= 1, NEW bytes, NEW others, NEW from, NEW to,
         Walk(bytes, n, from, to), \A i \in 1 .. n - 1 : others[i] = bytes[i + 1]
  PROVE  \E mid \in Modes : Leads(from, bytes[1], mid) /\ Walk(others, n - 1, mid, to)
<1>1. PICK mode \in [0 .. n -> Modes] :
        /\ mode[0] = from
        /\ mode[n] = to
        /\ \A i \in 1 .. n : Leads(mode[i - 1], bytes[i], mode[i])
  BY DEF Walk
<1> DEFINE rest == [i \in 0 .. n - 1 |-> mode[i + 1]]
<1>2. rest \in [0 .. n - 1 -> Modes] /\ rest[0] = mode[1] /\ rest[n - 1] = to
  BY <1>1
<1>3. ASSUME NEW i \in 1 .. n - 1
      PROVE  Leads(rest[i - 1], others[i], rest[i])
  <2>1. rest[i - 1] = mode[i] /\ rest[i] = mode[i + 1] /\ i + 1 \in 1 .. n
    OBVIOUS
  <2>2. Leads(mode[(i + 1) - 1], bytes[i + 1], mode[i + 1])
    BY <1>1, <2>1
  <2>3. (i + 1) - 1 = i
    OBVIOUS
  <2> QED
    BY <2>1, <2>2, <2>3
<1>4. Leads(from, bytes[1], mode[1]) /\ mode[1] \in Modes
  <2>1. Leads(mode[1 - 1], bytes[1], mode[1])
    BY <1>1
  <2> QED
    BY <1>1, <2>1
<1> HIDE DEF rest
<1>5. Walk(others, n - 1, mode[1], to)
  BY <1>2, <1>3 DEF Walk
<1> QED
  BY <1>4, <1>5

\* Headers alone lead nowhere else.
LEMMA HeadersWalk ==
  ASSUME NEW n \in Nat, NEW bytes, \A i \in 1 .. n : bytes[i] = HEADER_BYTE
  PROVE  Walk(bytes, n, "ready", "ready")
<1> DEFINE mode == [i \in 0 .. n |-> "ready"]
<1>1. mode \in [0 .. n -> Modes] /\ mode[0] = "ready" /\ mode[n] = "ready"
  BY DEF Modes
<1>2. \A i \in 1 .. n : mode[i - 1] = "ready" /\ mode[i] = "ready"
  OBVIOUS
<1> HIDE DEF mode
<1> QED
  BY <1>1, <1>2 DEF Walk, Leads

-----------------------------------------------------------------------------
(* What reading a byte does to the line, to the mode and to the frame.     *)

LEMMA TailOfBytes ==
  ASSUME NEW bytes \in Seq(Byte), bytes # <<>>
  PROVE  /\ Len(bytes) \in Nat /\ Len(bytes) >= 1
         /\ Head(bytes) = bytes[1]
         /\ Tail(bytes) \in Seq(Byte)
         /\ Len(Tail(bytes)) = Len(bytes) - 1
         /\ \A i \in 1 .. Len(bytes) - 1 : Tail(bytes)[i] = bytes[i + 1]
OBVIOUS

LEMMA OneMoreByte ==
  ASSUME NEW bytes \in Seq(Byte), NEW byte \in Byte
  PROVE  /\ bytes \o <<byte>> \in Seq(Byte)
         /\ Len(bytes \o <<byte>>) = Len(bytes) + 1
         /\ \A i \in 1 .. Len(bytes) : (bytes \o <<byte>>)[i] = bytes[i]
         /\ (bytes \o <<byte>>)[Len(bytes) + 1] = byte
OBVIOUS

LEMMA DeviceTypes ==
  ASSUME LinkInv
  PROVE  /\ toDevice \in Seq(Byte) /\ toHost \in Seq(Byte)
         /\ chunk \in Seq(Byte) /\ frameBuffer \in Seq(Byte)
         /\ Mode \in Modes
         /\ frame \in [Led -> Colour] /\ newState \in [Led -> Colour]
         /\ pc \in [Thread -> Label]
BY FramesAreColours
DEF LinkInv, TypeOK, FirmwareTypeOK, DeviceTypeOK, Mode, Modes

\* What all cases of the switch have in common.
LEMMA ReadsHead ==
  ASSUME LinkInv, ReadByte
  PROVE  /\ booted /\ booted' = booted /\ quiet' = 0
         /\ toDevice # <<>> /\ toDevice' = Tail(toDevice)
         /\ Incoming = toDevice[1] /\ Incoming \in Byte
<1>1. toDevice # <<>> /\ toDevice' = Tail(toDevice) /\ booted /\ booted' = booted /\ quiet' = 0
  BY DEF ReadByte, ReadHeader, ReadFrameCommand, ReadSetCommand, ReadOtherCommand,
         ReadFrameByte, ReadSetType, ReadSetPayload, Read
<1>2. toDevice \in Seq(Byte)
  BY DeviceTypes
<1> QED
  BY <1>1, <1>2, TailOfBytes DEF Incoming

\* The byte of a call that has sent no frame changes the mode as that call means it
\* to, shows nothing, and is answered if it is a header.
LEMMA ReadLeads ==
  ASSUME LinkInv, ReadByte, NEW mid, Leads(Mode, Incoming, mid)
  PROVE  /\ Mode' = mid
         /\ UNCHANGED <<newState, frameBuffer, chunk>>
         /\ toHost' = toHost \/ toHost' = toHost \o <<HEADER_ACK>>
         /\ lerpSpeed' # lerpSpeed => lerpSpeed' \in {2 * value : value \in SPEEDS}
<1>1. state \in State
  BY DEF LinkInv, TypeOK, FirmwareTypeOK, DeviceTypeOK
<1>2. CASE Mode = "ready"
  <2>1. state \in {"WAIT_FOR_HEADER", "WAIT_FOR_COMMAND"}
    BY <1>1, <1>2 DEF Mode, State
  <2>2. CASE Incoming = HEADER_BYTE
    <3>1. ReadHeader \/ ReadOtherCommand
      BY <2>1, <2>2, ProtocolAssumption
      DEF ReadByte, ReadFrameCommand, ReadSetCommand, ReadFrameByte, ReadSetType,
          ReadSetPayload
    <3>2. mid = "ready"
      BY <1>2, <2>2, ProtocolAssumption DEF Leads
    <3>3. toHost' = toHost \o <<HEADER_ACK>> \/ toHost' = toHost
      <4>1. toHost \o <<>> = toHost
        BY DeviceTypes
      <4> QED
        BY <3>1, <4>1 DEF ReadHeader, ReadOtherCommand, Read
    <3> QED
      BY <3>1, <3>2, <3>3
      DEF ReadHeader, ReadOtherCommand, Mode, parserVars, lightVars
  <2>3. CASE Incoming = CMD_SET_SETTINGS
    <3>1. ReadSetCommand
      BY <2>1, <2>3, ProtocolAssumption
      DEF ReadByte, ReadHeader, ReadFrameCommand, ReadOtherCommand, ReadFrameByte, ReadSetType,
          ReadSetPayload
    <3>2. mid = "type"
      BY <1>2, <2>3, ProtocolAssumption DEF Leads
    <3>3. toHost' = toHost
      <4>1. toHost \o <<>> = toHost
        BY DeviceTypes
      <4> QED
        BY <3>1, <4>1 DEF ReadSetCommand, Read
    <3> QED
      BY <3>1, <3>2, <3>3 DEF ReadSetCommand, Mode, parserVars, lightVars
  <2> QED
    BY <1>2, <2>2, <2>3 DEF Leads
<1>3. CASE Mode = "type"
  <2>1. state = "READ_SET_TYPE"
    BY <1>3 DEF Mode
  <2>2. Incoming = SET_ID_LERP /\ mid = "payload"
    BY <1>3 DEF Leads
  <2>3. ReadSetType
    BY <2>1
    DEF ReadByte, ReadHeader, ReadFrameCommand, ReadSetCommand, ReadOtherCommand,
        ReadFrameByte, ReadSetPayload, ExpectsCommand
  <2>4. toHost' = toHost
    <3>1. toHost \o <<>> = toHost
      BY DeviceTypes
    <3> QED
      BY <2>3, <3>1 DEF ReadSetType, Read
  <2> QED
    BY <2>2, <2>3, <2>4 DEF ReadSetType, Mode, lightVars
<1>4. CASE Mode = "payload"
  <2>1. state = "READ_SET_PAYLOAD"
    BY <1>4 DEF Mode
  <2>2. Incoming \in SPEEDS /\ mid = "ready"
    BY <1>4 DEF Leads
  <2>3. ReadSetPayload
    BY <2>1
    DEF ReadByte, ReadHeader, ReadFrameCommand, ReadSetCommand, ReadOtherCommand,
        ReadFrameByte, ReadSetType, ExpectsCommand
  <2>4. toHost' = toHost
    <3>1. toHost \o <<>> = toHost
      BY DeviceTypes
    <3> QED
      BY <2>3, <3>1 DEF ReadSetPayload, Read
  <2>5. settingBuffer = <<>> /\ settingTargetLen = 1 /\ settingId = SET_ID_LERP
    BY <2>1 DEF LinkInv, FirmwareInv, SettingStarted
  <2>6. Incoming \in Byte
    BY ReadsHead
  <2>7. Len(settingBuffer') = 1 /\ settingBuffer'[1] = Incoming
    BY <2>3, <2>5, <2>6 DEF ReadSetPayload
  <2>8. lerpSpeed' = 2 * Incoming /\ state' = "WAIT_FOR_HEADER"
    BY <2>3, <2>5, <2>7 DEF ReadSetPayload
  <2> QED
    BY <2>2, <2>3, <2>4, <2>8 DEF ReadSetPayload, Mode
<1> QED
  BY <1>2, <1>3, <1>4 DEF Leads

-----------------------------------------------------------------------------
(* A byte is read from commands, from what precedes a frame, from a frame. *)

\* What reading a byte outside of a frame does not do.
Discreet ==
  /\ newState' = newState
  /\ toHost' = toHost \/ toHost' = toHost \o <<HEADER_ACK>>
  /\ lerpSpeed' # lerpSpeed => lerpSpeed' \in {2 * value : value \in SPEEDS}

LEMMA ReadCommands ==
  ASSUME LinkInv, ReadByte, NEW to, Commands(to)
  PROVE  Commands(to)' /\ Discreet
<1> DEFINE n == Len(toDevice)
<1>1. /\ n \in Nat /\ n >= 1
      /\ toDevice' = Tail(toDevice) /\ Len(toDevice') = n - 1
      /\ \A i \in 1 .. n - 1 : toDevice'[i] = toDevice[i + 1]
      /\ Incoming = toDevice[1]
  BY DeviceTypes, ReadsHead, TailOfBytes
<1>2. Walk(toDevice, n, Mode, to)
  BY DEF Commands
<1> HIDE DEF n
<1>3. PICK mid \in Modes : Leads(Mode, toDevice[1], mid) /\ Walk(toDevice', n - 1, mid, to)
  BY <1>1, <1>2, WalkOn
<1>4. Mode' = mid /\ Discreet
  BY <1>1, <1>3, ReadLeads DEF Discreet
<1> QED
  BY <1>1, <1>3, <1>4 DEF Commands

\* Before the command of the frame there are commands; then it begins.
LEMMA ReadBefore ==
  ASSUME LinkInv, ReadByte, frame' = frame, NEW sent \in Nat, Before(sent)
  PROVE  /\ Discreet
         /\ \/ Before(sent)'
            \/ Inside(sent)' /\ frameBuffer' = <<>> /\ chunk' = <<>> /\ toHost' = toHost
<1> DEFINE n == Len(toDevice)
<1>1. PICK k \in 1 .. n : BeforeAt(k, sent)
  BY DEF Before
<1>2. /\ n \in Nat /\ n >= 1 /\ n = k + sent
      /\ toDevice' = Tail(toDevice) /\ Len(toDevice') = n - 1
      /\ \A i \in 1 .. n - 1 : toDevice'[i] = toDevice[i + 1]
      /\ Incoming = toDevice[1]
  <2>1. n = k + sent
    BY <1>1 DEF BeforeAt
  <2> QED
    BY <2>1, DeviceTypes, ReadsHead, TailOfBytes
<1>3. /\ toDevice[k] = CMD_FRAME_DATA
      /\ Walk(toDevice, k - 1, Mode, "ready")
      /\ \A i \in 1 .. sent : toDevice[k + i] = FrameData(frame)[i]
  BY <1>1 DEF BeforeAt
<1> HIDE DEF n
<1>4. CASE k = 1
  <2>1. Mode = "ready"
    <3>1. k - 1 = 0
      BY <1>4
    <3>2. Mode \in Modes
      BY DeviceTypes
    <3> QED
      BY <1>3, <3>1, <3>2, WalkNowhere
  <2>2. state \in {"WAIT_FOR_HEADER", "WAIT_FOR_COMMAND"}
    BY <2>1 DEF Mode, State, LinkInv, TypeOK, FirmwareTypeOK, DeviceTypeOK
  <2>3. ReadFrameCommand
    BY <1>2, <1>3, <1>4, <2>2, ProtocolAssumption
    DEF ReadByte, ReadHeader, ReadSetCommand, ReadOtherCommand, ReadFrameByte, ReadSetType,
        ReadSetPayload
  <2>4. /\ state' = "READ_LED_FRAME" /\ frameBuffer' = <<>> /\ chunk' = <<>>
        /\ UNCHANGED <<newState, lerpSpeed>>
    BY <2>3 DEF ReadFrameCommand, BeginFrame
  <2>5. toHost' = toHost
    <3>1. toHost \o <<>> = toHost
      BY DeviceTypes
    <3> QED
      BY <2>3, <3>1 DEF ReadFrameCommand, Read
  <2>6. Got' = 0 /\ Len(toDevice') = sent
    BY <1>2, <1>4, <2>4 DEF Got
  <2>7. \A i \in 1 .. Len(toDevice') : toDevice'[i] = FrameData(frame)[i]
    BY <1>2, <1>3, <1>4
  <2>8. Inside(sent)'
    <3>1. Got' + Len(toDevice') = sent
      BY <2>6
    <3>2. \A i \in 1 .. Len(toDevice') : Got' + i = i
      BY <2>6
    <3>3. Len(frameBuffer') = 0 /\ Len(chunk') = 0
      BY <2>4
    <3> QED
      BY <2>4, <2>7, <3>1, <3>2, <3>3 DEF Inside
  <2> QED
    BY <2>4, <2>5, <2>8 DEF Discreet
<1>5. CASE k # 1
  <2>1. k - 1 \in Nat /\ k - 1 >= 1 /\ \A i \in 1 .. (k - 1) - 1 : toDevice'[i] = toDevice[i + 1]
    <3>1. k - 1 \in Nat /\ k - 1 >= 1 /\ \A i \in 1 .. (k - 1) - 1 : i \in 1 .. n - 1
      BY <1>2, <1>5
    <3> QED
      BY <1>2, <3>1
  <2>2. PICK mid \in Modes :
          Leads(Mode, toDevice[1], mid) /\ Walk(toDevice', (k - 1) - 1, mid, "ready")
    BY <1>3, <2>1, WalkOn
  <2>3. Mode' = mid /\ Discreet
    BY <1>2, <2>2, ReadLeads DEF Discreet
  <2>4. /\ k - 1 \in 1 .. Len(toDevice')
        /\ Len(toDevice') = (k - 1) + sent
        /\ toDevice'[k - 1] = CMD_FRAME_DATA
    <3>1. k - 1 \in 1 .. n - 1 /\ (k - 1) + 1 = k /\ n - 1 = (k - 1) + sent
      BY <1>2, <1>5
    <3>2. toDevice'[k - 1] = CMD_FRAME_DATA
      BY <1>2, <1>3, <3>1
    <3> QED
      BY <1>2, <3>1, <3>2
  <2>5. \A i \in 1 .. sent : toDevice'[(k - 1) + i] = FrameData(frame)[i]
    <3>1. \A i \in 1 .. sent : (k - 1) + i \in 1 .. n - 1 /\ ((k - 1) + i) + 1 = k + i
      BY <1>2, <1>5
    <3> QED
      BY <1>2, <1>3, <3>1
  <2>6. BeforeAt(k - 1, sent)'
    BY <2>2, <2>3, <2>4, <2>5 DEF BeforeAt
  <2> QED
    BY <2>3, <2>4, <2>6 DEF Before
<1> QED
  BY <1>4, <1>5

\* The bytes of a frame show that frame, on whatever was shown before.
LEMMA ShowsFrame ==
  ASSUME NEW f \in [Led -> Colour]
  PROVE  Processed(FrameData(f)) = f
<1>1. ASSUME NEW k \in Led, NEW j \in 1 .. 4
      PROVE  FrameData(f)[4 * k + j] = RecordOf(f, k)[j]
  <2>1. 4 * k + j \in 1 .. FRAME_DATA_SIZE
    BY SizesAssumption DEF Led, FRAME_DATA_SIZE
  <2>2. k \in Nat
    BY SizesAssumption DEF Led
  <2>3. ((4 * k + j) - 1) \div 4 = k /\ (((4 * k + j) - 1) % 4) + 1 = j
    BY <2>2
  <2> QED
    BY <2>1, <2>3 DEF FrameData
<1>2. ASSUME NEW k \in Led
      PROVE  RecordId(FrameData(f), k) = k /\ RecordColour(FrameData(f), k) = f[k]
  BY <1>1, RecordBytes DEF RecordId, RecordColour
<1>3. ASSUME NEW k \in Led, NEW id \in Led
      PROVE  Decides(FrameData(f), k, id) <=> k = id
  <2>1. ASSUME NEW later \in k + 1 .. NUM_LEDS - 1
        PROVE  RecordId(FrameData(f), later) # k
    <3>1. later \in Led /\ later # k
      BY SizesAssumption DEF Led
    <3> QED
      BY <1>2, <3>1
  <2> QED
    BY <1>2, <2>1 DEF Decides
<1>4. ASSUME NEW id \in Led
      PROVE  Processed(FrameData(f))[id] = f[id]
  <2>1. (CHOOSE k \in Led : Decides(FrameData(f), k, id)) = id
    BY <1>3
  <2>2. \E k \in Led : Decides(FrameData(f), k, id)
    BY <1>3
  <2> QED
    BY <1>2, <2>1, <2>2 DEF Processed
<1>5. Processed(FrameData(f)) = [id \in Led |-> Processed(FrameData(f))[id]]
  BY DEF Processed
<1> QED
  BY <1>4, <1>5

\* A byte of the frame is answered with its place in its chunk, and put there; the
\* last one shows the frame.
LEMMA ReadInside ==
  ASSUME LinkInv, ReadByte, frame' = frame, NEW sent \in 0 .. FRAME_DATA_SIZE, Inside(sent)
  PROVE  /\ toHost' = toHost \o <<Len(chunk) + 1>>
         /\ lerpSpeed' = lerpSpeed
         /\ \/ /\ Inside(sent)'
               /\ newState' = newState
               /\ Got + 1 < FRAME_DATA_SIZE
               /\ IF Len(chunk) + 1 = CHUNK_SIZE
                    THEN Len(frameBuffer') = Got + 1 /\ Len(chunk') = 0
                    ELSE Len(frameBuffer') = Len(frameBuffer) /\ Len(chunk') = Len(chunk) + 1
            \/ Complete' /\ Got + 1 = FRAME_DATA_SIZE /\ sent = FRAME_DATA_SIZE
<1> DEFINE data == FrameData(frame)
           held == Len(frameBuffer)
           place == Len(chunk) + 1
           bytes == Append(chunk, Incoming)
<1>1. /\ state = "READ_LED_FRAME"
      /\ held \in Nat /\ place \in Nat /\ place >= 1 /\ place <= CHUNK_SIZE
      /\ Got \in Nat /\ Got + 1 = held + place /\ Got + 1 <= FRAME_DATA_SIZE
      /\ FRAME_DATA_SIZE \in Nat /\ CHUNK_SIZE \in Nat
  BY DeviceTypes, FrameSize, SizesAssumption
  DEF Inside, LinkInv, FirmwareInv, BuffersInBounds, Got
<1>2. /\ toDevice' = Tail(toDevice) /\ Incoming = toDevice[1] /\ Incoming \in Byte
      /\ Len(toDevice) \in Nat /\ Len(toDevice) >= 1
      /\ Len(toDevice') = Len(toDevice) - 1
      /\ \A i \in 1 .. Len(toDevice) - 1 : toDevice'[i] = toDevice[i + 1]
  BY DeviceTypes, ReadsHead, TailOfBytes
<1>3. /\ Got + Len(toDevice) = sent
      /\ \A i \in 1 .. held : frameBuffer[i] = data[i]
      /\ \A i \in 1 .. Len(chunk) : chunk[i] = data[held + i]
      /\ \A i \in 1 .. Len(toDevice) : toDevice[i] = data[Got + i]
  BY DEF Inside
<1>4. data \in Seq(Byte) /\ Len(data) = FRAME_DATA_SIZE
  BY DeviceTypes, FrameDataBytes
<1>5. bytes \in Seq(Byte) /\ Len(bytes) = place
  BY <1>2, DeviceTypes
<1>6. ASSUME NEW i \in 1 .. place
      PROVE  bytes[i] = data[held + i]
  <2>1. CASE i = place
    <3>1. bytes[i] = Incoming
      BY <2>1, DeviceTypes, <1>2
    <3>2. toDevice[1] = data[Got + 1]
      BY <1>2, <1>3
    <3> QED
      BY <1>1, <1>2, <2>1, <3>1, <3>2
  <2>2. CASE i # place
    <3>1. i \in 1 .. Len(chunk) /\ bytes[i] = chunk[i]
      BY <2>2, DeviceTypes, <1>2
    <3> QED
      BY <1>3, <3>1
  <2> QED
    BY <2>1, <2>2
<1>7. frameBuffer \o bytes \in Seq(Byte) /\ Len(frameBuffer \o bytes) = Got + 1
  BY <1>1, <1>5, DeviceTypes, ConcatProperties
<1>8. ASSUME NEW i \in 1 .. Got + 1
      PROVE  (frameBuffer \o bytes)[i] = data[i]
  <2>1. i \in 1 .. Len(frameBuffer) + Len(bytes)
    BY <1>1, <1>5
  <2>2. (frameBuffer \o bytes)[i] = IF i <= held THEN frameBuffer[i] ELSE bytes[i - held]
    BY <1>5, <2>1, DeviceTypes, ConcatProperties
  <2>3. CASE i <= held
    <3>1. i \in 1 .. held
      BY <1>1, <2>3
    <3> QED
      BY <1>3, <2>2, <2>3, <3>1
  <2>4. CASE ~(i <= held)
    <3>1. i - held \in 1 .. place /\ held + (i - held) = i
      BY <1>1, <2>4
    <3> QED
      BY <1>6, <2>2, <2>4, <3>1
  <2> QED
    BY <2>3, <2>4
<1>9. ReadFrameByte
  BY <1>1
  DEF ReadByte, ReadHeader, ReadFrameCommand, ReadSetCommand, ReadOtherCommand, ExpectsCommand,
      ReadSetType, ReadSetPayload
<1>10. toHost' = toHost \o <<Len(chunk) + 1>> /\ lerpSpeed' = lerpSpeed
  BY <1>9 DEF ReadFrameByte, Read, ChunkCounter
<1>11. Len(toDevice) - 1 = Len(toDevice') /\ (Got + 1) + (Len(toDevice) - 1) = sent
  BY <1>1, <1>2, <1>3
<1>12. ASSUME NEW i \in 1 .. Len(toDevice) - 1
       PROVE  toDevice'[i] = data[(Got + 1) + i]
  <2>1. i + 1 \in 1 .. Len(toDevice) /\ Got + (i + 1) = (Got + 1) + i
    BY <1>1, <1>2
  <2> QED
    BY <1>2, <1>3, <2>1
<1>13. ChunkFull(bytes) <=> place = CHUNK_SIZE \/ Got + 1 = FRAME_DATA_SIZE
  BY <1>1, <1>5 DEF ChunkFull
<1> HIDE DEF bytes
<1>14. CASE Got + 1 = FRAME_DATA_SIZE
  <2>1. frameBuffer' = frameBuffer \o bytes
    BY <1>9, <1>13, <1>14 DEF ReadFrameByte, bytes
  <2>2. frameBuffer' = data
    BY <1>4, <1>7, <1>8, <1>14, <2>1, SeqEqual
  <2>3. FrameComplete(frameBuffer')
    BY <1>1, <1>4, <2>2 DEF FrameComplete
  <2>4. newState' = Processed(data) /\ state' = "WAIT_FOR_HEADER"
    BY <1>9, <2>2, <2>3 DEF ReadFrameByte
  <2>5. newState' = frame
    BY <2>4, DeviceTypes, ShowsFrame
  <2>6. sent = FRAME_DATA_SIZE /\ Len(toDevice) - 1 = 0
    <3>1. \A m \in Nat : m >= 1 /\ Got + m <= Got + 1 => m = 1
      BY <1>1
    <3>2. Got + Len(toDevice) <= Got + 1
      BY <1>3, <1>14
    <3>3. Len(toDevice) = 1
      BY <1>2, <3>1, <3>2
    <3> QED
      BY <1>3, <1>14, <3>3
  <2>7. toDevice' = <<>>
    <3>1. Tail(toDevice) \in Seq(Byte) /\ Len(Tail(toDevice)) = 0
      BY <1>2, <2>6, DeviceTypes, TailOfBytes
    <3> QED
      BY <1>2, <3>1
  <2> QED
    BY <1>10, <1>14, <2>4, <2>5, <2>6, <2>7 DEF Complete, Mode
<1>15. CASE Got + 1 # FRAME_DATA_SIZE /\ place = CHUNK_SIZE
  <2>1. frameBuffer' = frameBuffer \o bytes /\ chunk' = <<>>
    BY <1>9, <1>13, <1>15 DEF ReadFrameByte, bytes
  <2>2. Len(frameBuffer') = Got + 1 /\ Len(chunk') = 0 /\ Got' = Got + 1
    <3>1. Len(frameBuffer') = Got + 1 /\ Len(chunk') = 0
      BY <1>7, <2>1
    <3>2. (Got + 1) + 0 = Got + 1
      BY <1>1
    <3> QED
      BY <3>1, <3>2 DEF Got
  <2>3. ~FrameComplete(frameBuffer')
    BY <1>1, <1>15, <2>2 DEF FrameComplete
  <2>4. UNCHANGED <<newState, state>>
    BY <1>9, <2>3 DEF ReadFrameByte
  <2>5. Inside(sent)'
    <3>1. state' = "READ_LED_FRAME" /\ Got' + Len(toDevice') = sent
      BY <1>1, <1>11, <2>2, <2>4
    <3>2. \A i \in 1 .. Len(frameBuffer') : frameBuffer'[i] = data[i]
      BY <1>8, <2>1, <2>2
    <3>3. \A i \in 1 .. Len(toDevice') : toDevice'[i] = data[Got' + i]
      BY <1>11, <1>12, <2>2
    <3> QED
      BY <2>2, <3>1, <3>2, <3>3 DEF Inside
  <2> QED
    BY <1>1, <1>10, <1>15, <2>2, <2>4, <2>5
<1>16. CASE Got + 1 # FRAME_DATA_SIZE /\ place # CHUNK_SIZE
  <2>1. frameBuffer' = frameBuffer /\ chunk' = bytes
    BY <1>9, <1>13, <1>16 DEF ReadFrameByte, bytes
  <2>2. Len(frameBuffer') = held /\ Len(chunk') = place /\ Got' = Got + 1
    <3>1. Len(frameBuffer') = held /\ Len(chunk') = place
      BY <1>5, <2>1
    <3>2. held + place = Got + 1
      BY <1>1
    <3> QED
      BY <3>1, <3>2 DEF Got
  <2>3. ~FrameComplete(frameBuffer')
    BY <1>1, <1>16, <2>2 DEF FrameComplete
  <2>4. UNCHANGED <<newState, state>>
    BY <1>9, <2>3 DEF ReadFrameByte
  <2>5. Inside(sent)'
    BY <1>1, <1>3, <1>5, <1>6, <1>11, <1>12, <2>1, <2>2, <2>4 DEF Inside
  <2> QED
    BY <1>1, <1>10, <1>16, <2>2, <2>4, <2>5
<1> QED
  BY <1>14, <1>15, <1>16

-----------------------------------------------------------------------------
(* What the host knows while it is at a label, it knows when the device    *)
(* has read a byte.                                                        *)

LEMMA NothingUnderWay ==
  ASSUME LinkInv, toDevice = <<>>, NEW to
  PROVE  Commands(to) <=> Mode = to
<1>1. Len(toDevice) = 0 /\ Mode \in Modes
  BY DeviceTypes
<1> QED
  BY <1>1, WalkNowhere DEF Commands

LEMMA DiscreetAcks ==
  ASSUME LinkInv, Discreet, OnlyAcks
  PROVE  OnlyAcks'
<1>1. toHost \in Seq(Byte) /\ HEADER_ACK \in Byte
  BY DeviceTypes, ProtocolAssumption
<1>2. CASE toHost' = toHost
  BY <1>2 DEF OnlyAcks
<1>3. CASE toHost' = toHost \o <<HEADER_ACK>>
  <2>1. /\ Len(toHost') = Len(toHost) + 1
        /\ \A i \in 1 .. Len(toHost) : toHost'[i] = toHost[i]
        /\ toHost'[Len(toHost) + 1] = HEADER_ACK
    BY <1>1, <1>3, OneMoreByte
  <2>2. \A i \in 1 .. Len(toHost) + 1 : i \in 1 .. Len(toHost) \/ i = Len(toHost) + 1
    BY <1>1
  <2> QED
    BY <2>1, <2>2 DEF OnlyAcks
<1> QED
  BY <1>2, <1>3 DEF Discreet

\* The next counter is one more than the last.
LEMMA NextCounter ==
  ASSUME LinkInv, NEW got \in Int, Answers(got), got + 1 \in Byte,
         toHost' = toHost \o <<got + 1>>
  PROVE  /\ Len(toHost') >= 1 /\ toHost'[Len(toHost')] = got + 1
         /\ \A n \in 1 .. Len(toHost') :
              toHost'[n] = HEADER_ACK \/ toHost'[n] = (got + 1) - (Len(toHost') - n)
<1> DEFINE len == Len(toHost)
           next == got + 1
<1>1. /\ len \in Nat /\ next \in Byte
      /\ Len(toHost') = len + 1
      /\ \A i \in 1 .. len : toHost'[i] = toHost[i]
      /\ toHost'[len + 1] = next
  BY DeviceTypes, OneMoreByte
<1>2. \A n \in 1 .. len : toHost[n] = HEADER_ACK \/ toHost[n] = got - (len - n)
  BY DEF Answers
<1>3. len + 1 >= 1 /\ next - ((len + 1) - (len + 1)) = next
  BY <1>1
<1>4. \A n \in 1 .. len : got - (len - n) = next - ((len + 1) - n)
  BY <1>1
<1>5. \A n \in 1 .. len + 1 : n \in 1 .. len \/ n = len + 1
  BY <1>1
<1> HIDE DEF next, len
<1>6. ASSUME NEW n \in 1 .. len + 1
      PROVE  toHost'[n] = HEADER_ACK \/ toHost'[n] = next - ((len + 1) - n)
  BY <1>1, <1>2, <1>3, <1>4, <1>5
<1>7. /\ Len(toHost') >= 1 /\ toHost'[Len(toHost')] = next
      /\ \A n \in 1 .. Len(toHost') :
           toHost'[n] = HEADER_ACK \/ toHost'[n] = next - (Len(toHost') - n)
  BY <1>1, <1>3, <1>6
<1> QED
  BY <1>7 DEF next

\* The chunk's bytes are read from first to last.
LEMMA ReadReading ==
  ASSUME LinkInv, ReadByte, UNCHANGED <<hostVars, cableVars>>, pc["puller"] = "readAck", Reading
  PROVE  Reading'
<1> DEFINE size == SizeToSend
           sent == base + size
<1>1. /\ base \in Nat /\ size \in Int /\ size >= 1 /\ size <= CHUNK_SIZE
      /\ sent <= FRAME_DATA_SIZE /\ FRAME_DATA_SIZE \in Nat /\ CHUNK_SIZE \in Nat
      /\ size = CHUNK_SIZE \/ sent = FRAME_DATA_SIZE
  <2>1. base \in Nat /\ base < FRAME_DATA_SIZE
    BY DEF LinkInv, TypeOK, ChunkInFrame
  <2> QED
    BY <2>1, FrameSize, SizesAssumption DEF SizeToSend
<1>2. UNCHANGED <<frame, base, SizeToSend>>
  BY DEF hostVars, sendVars, SizeToSend
<1>3. size \in Nat /\ sent \in Nat /\ sent \in 0 .. FRAME_DATA_SIZE
  BY <1>1
<1>4. /\ toDevice # <<>>
      /\ Len(toDevice) \in Nat /\ Len(toDevice) >= 1
      /\ Len(chunk) \in Nat /\ Len(frameBuffer) \in Nat
      /\ Got = Len(frameBuffer) + Len(chunk)
  BY DeviceTypes, ReadsHead, TailOfBytes DEF Got
<1>5. CASE base = 0 /\ Before(SizeToSend) /\ OnlyAcks
  <2>1. OnlyAcks'
    BY <1>2, <1>3, <1>5, ReadBefore, DiscreetAcks
  <2>2. CASE Before(size)'
    BY <1>2, <1>5, <2>1, <2>2 DEF Reading
  <2>3. CASE Inside(size)' /\ frameBuffer' = <<>> /\ chunk' = <<>> /\ toHost' = toHost
    <3>1. Len(frameBuffer') = 0 /\ Len(chunk') = 0 /\ Got' = 0
      BY <2>3 DEF Got
    <3>2. base' = 0 /\ size = 0 + size /\ 0 < size /\ 0 # size /\ 0 - 0 = 0
      BY <1>1, <1>2, <1>5
    <3>3. Answers(Got - base)'
      BY <2>1 DEF OnlyAcks, Answers
    <3>4. ChunkUnderWay'
      BY <1>2, <2>3, <3>1, <3>2, <3>3 DEF ChunkUnderWay
    <3> QED
      BY <1>2, <3>1, <3>2, <3>4 DEF Reading
  <2> QED
    BY <1>2, <1>3, <1>5, <2>2, <2>3, ReadBefore
<1>6. CASE ChunkUnderWay
  <2>1. Inside(sent) /\ Got + Len(toDevice) = sent
    BY <1>6 DEF ChunkUnderWay, Inside
  <2>2. Len(frameBuffer) = base /\ Len(chunk) < size
    BY <1>1, <1>3, <1>4, <1>6, <2>1 DEF ChunkUnderWay
  <2>3. Got - base = Len(chunk) /\ Got + 1 = base + (Len(chunk) + 1)
    BY <1>1, <1>4, <2>2
  <2>4. toHost' = toHost \o <<Len(chunk) + 1>>
    BY <1>2, <1>3, <2>1, ReadInside
  <2>5. /\ Len(toHost') >= 1 /\ toHost'[Len(toHost')] = Len(chunk) + 1
        /\ \A n \in 1 .. Len(toHost') :
             toHost'[n] = HEADER_ACK \/ toHost'[n] = (Len(chunk) + 1) - (Len(toHost') - n)
    <3>1. Answers(Len(chunk)) /\ Len(chunk) \in Int
      BY <1>4, <1>6, <2>3 DEF ChunkUnderWay
    <3>2. Len(chunk) + 1 \in Byte
      BY <1>1, <1>3, <1>4, <2>2, SizesAssumption DEF Byte
    <3> QED
      BY <2>4, <3>1, <3>2, NextCounter
  <2>6. CASE Complete' /\ Got + 1 = FRAME_DATA_SIZE
    <3>1. Len(chunk) + 1 = size /\ sent = FRAME_DATA_SIZE
      BY <1>1, <1>3, <1>4, <2>2, <2>3, <2>6
    <3>2. Answers(size)' /\ LastCounter'
      BY <1>2, <2>5, <3>1 DEF Answers, LastCounter
    <3> QED
      BY <1>2, <2>6, <3>1, <3>2 DEF Reading
  <2>7. CASE /\ Inside(sent)'
             /\ Got + 1 < FRAME_DATA_SIZE
             /\ IF Len(chunk) + 1 = CHUNK_SIZE
                  THEN Len(frameBuffer') = Got + 1 /\ Len(chunk') = 0
                  ELSE Len(frameBuffer') = Len(frameBuffer) /\ Len(chunk') = Len(chunk) + 1
    <3>1. CASE Len(chunk) + 1 = CHUNK_SIZE
      <4>1. size = Len(chunk) + 1 /\ sent = Got + 1 /\ sent - base = size /\ sent + 0 = sent
        BY <1>1, <1>3, <1>4, <2>2, <2>3, <3>1
      <4>2. Len(frameBuffer') = sent /\ Len(chunk') = 0 /\ Got' = sent
        BY <2>7, <3>1, <4>1 DEF Got
      <4>3. Got' - base' = size
        BY <1>2, <4>1, <4>2
      <4>4. Answers(Got - base)'
        BY <2>5, <4>1, <4>3 DEF Answers
      <4>5. LastCounter'
        BY <1>2, <2>5, <4>1 DEF LastCounter
      <4> QED
        BY <1>2, <2>7, <4>2, <4>4, <4>5 DEF Reading, ChunkUnderWay
    <3>2. CASE Len(chunk) + 1 # CHUNK_SIZE
      <4>1. Len(chunk) + 1 < size
        BY <1>1, <1>3, <1>4, <2>2, <2>3, <2>7, <3>2
      <4>2. Len(frameBuffer') = base /\ Len(chunk') = Len(chunk) + 1
        BY <2>2, <2>7, <3>2
      <4>3. Got' = Got + 1 /\ Got + 1 # sent /\ (Got + 1) - base = Len(chunk) + 1
        <5>1. base + (Len(chunk) + 1) = Got + 1
          BY <2>3
        <5> QED
          BY <1>1, <1>3, <1>4, <2>2, <4>1, <4>2, <5>1 DEF Got
      <4>4. Got' - base' = Len(chunk) + 1
        BY <1>2, <4>3
      <4>5. Answers(Got - base)'
        BY <2>5, <4>4 DEF Answers
      <4>6. ChunkUnderWay'
        BY <1>2, <2>7, <4>1, <4>2, <4>5 DEF ChunkUnderWay
      <4> QED
        BY <1>2, <4>3, <4>6 DEF Reading
    <3> QED
      BY <3>1, <3>2
  <2> QED
    BY <1>2, <1>3, <2>1, <2>6, <2>7, ReadInside
<1>7. CASE Complete
  BY <1>4, <1>7 DEF Complete
<1> QED
  BY <1>5, <1>6, <1>7 DEF Reading

-----------------------------------------------------------------------------
(* The device's steps.                                                     *)

LEMMA PhaseRead ==
  ASSUME LinkInv, ReadByte, UNCHANGED <<hostVars, cableVars>>,
         NEW label \in Label, Phase(label),
         label = "readAck" => pc["puller"] = "readAck"
  PROVE  Phase(label)'
<1>1. UNCHANGED <<frame, base, offset, waited>> /\ toDevice # <<>>
  BY ReadsHead DEF hostVars, sendVars
<1>2. ASSUME NEW to, Commands(to), OnlyAcks
      PROVE  Commands(to)' /\ OnlyAcks'
  BY <1>2, ReadCommands, DiscreetAcks
<1>3. CASE label = "setId"
  BY <1>2, <1>3 DEF Phase
<1>4. CASE label = "setValue"
  BY <1>2, <1>4 DEF Phase
<1>5. CASE label = "writeChunk"
  <2>1. offset' = 0 /\ OnlyAcks
    BY <1>1, <1>5 DEF Phase
  <2>2. base = 0 /\ Before(0)
    <3>1. ~(Inside(base) /\ Len(frameBuffer) = base)
      <4> SUFFICES ASSUME Inside(base), Len(frameBuffer) = base
                   PROVE  FALSE
        OBVIOUS
      <4>1. /\ Len(toDevice) \in Nat /\ Len(toDevice) >= 1
            /\ Len(chunk) \in Nat /\ Len(frameBuffer) \in Nat
        BY <1>1, DeviceTypes, TailOfBytes
      <4> QED
        BY <4>1 DEF Inside, Got
    <3> QED
      BY <1>5, <3>1 DEF Phase
  <2>3. OnlyAcks'
    BY <1>1, <2>1, <2>2, ReadBefore, DiscreetAcks
  <2>4. Before(0)' \/ (Inside(0)' /\ Len(frameBuffer') = 0)
    BY <1>1, <2>2, ReadBefore
  <2> QED
    BY <1>1, <1>5, <2>1, <2>2, <2>3, <2>4 DEF Phase
<1>6. CASE label = "readAck"
  BY <1>1, <1>6, ReadReading DEF Phase
<1>7. CASE label = "drain"
  BY <1>1, <1>7 DEF Phase, Complete
<1>8. CASE label \notin {"setId", "setValue", "writeChunk", "readAck", "drain"}
  BY <1>2, <1>8 DEF Phase
<1> QED
  BY <1>3, <1>4, <1>5, <1>6, <1>7, <1>8

LEMMA LeftOverRead ==
  ASSUME LinkInv, ReadByte, UNCHANGED <<hostVars, cableVars>>, LeftOver
  PROVE  LeftOver'
<1>1. frame' = frame /\ FRAME_DATA_SIZE \in Nat
  BY FrameSize DEF hostVars, sendVars
<1>2. CASE \E to \in Modes : Commands(to)
  BY <1>2, ReadCommands DEF LeftOver
<1>3. ASSUME NEW sent \in 0 .. FRAME_DATA_SIZE, Before(sent)
      PROVE  LeftOver'
  BY <1>1, <1>3, ReadBefore DEF LeftOver
<1>4. ASSUME NEW sent \in 0 .. FRAME_DATA_SIZE, Inside(sent)
      PROVE  LeftOver'
  <2>1. CASE Inside(sent)'
    BY <2>1 DEF LeftOver
  <2>2. CASE Complete'
    <3>1. toDevice' = <<>> /\ Mode' = "ready"
      BY <2>2 DEF Complete
    <3>2. Len(toDevice') = 0 /\ "ready" \in Modes
      BY <3>1 DEF Modes
    <3>3. Commands("ready")'
      BY <3>1, <3>2, WalkNowhere DEF Commands
    <3> QED
      BY <3>2, <3>3 DEF LeftOver
  <2> QED
    BY <1>1, <1>4, <2>1, <2>2, ReadInside
<1> QED
  BY <1>2, <1>3, <1>4 DEF LeftOver

\* What the two ends know depends on nothing else.
LEMMA SameView ==
  ASSUME Mode' = Mode,
         UNCHANGED <<frameBuffer, chunk, newState, toDevice, toHost, frame, base, offset, waited>>
  PROVE  /\ LeftOver => LeftOver'
         /\ \A label \in Label : Phase(label) => Phase(label)'
<1>1. state = "READ_LED_FRAME" <=> state' = "READ_LED_FRAME"
  BY DEF Mode
<1>2. \A to : Commands(to)' <=> Commands(to)
  BY DEF Commands
<1>3. \A sent : Before(sent)' <=> Before(sent)
  BY DEF Before, BeforeAt
<1>4. Got' = Got /\ SizeToSend' = SizeToSend
  BY DEF Got, SizeToSend
<1>5. \A sent : Inside(sent)' <=> Inside(sent)
  BY <1>1, <1>4 DEF Inside
<1>6. /\ Complete' <=> Complete
      /\ OnlyAcks' <=> OnlyAcks
      /\ LastCounter' <=> LastCounter
      /\ \A got : Answers(got)' <=> Answers(got)
  BY <1>4 DEF Complete, OnlyAcks, LastCounter, Answers
<1>7. ChunkUnderWay' <=> ChunkUnderWay
  BY <1>4, <1>5, <1>6 DEF ChunkUnderWay
<1>8. Reading' <=> Reading
  BY <1>3, <1>4, <1>6, <1>7 DEF Reading
<1>9. LeftOver => LeftOver'
  BY <1>2, <1>3, <1>5 DEF LeftOver
<1>10. ASSUME NEW label \in Label, Phase(label)
       PROVE  Phase(label)'
  BY <1>2, <1>3, <1>5, <1>6, <1>8, <1>10 DEF Phase
<1> QED
  BY <1>9, <1>10

LEMMA AtWorkKept ==
  ASSUME LinkInv, UNCHANGED pc, AtWork,
         \A label \in Label :
           /\ Phase(label)
           /\ label = "readAck" => pc["puller"] = "readAck"
           => Phase(label)',
         (Mode # "ready" => quiet = 0)'
  PROVE  AtWork'
<1>1. \A t \in Thread : pc[t] \in Label
  BY DeviceTypes
<1>2. "idle" \in Label
  BY DEF Label
<1>3. \A t \in Thread : Calling(t)' <=> Calling(t)
  BY DEF Calling
<1>4. ASSUME NEW t \in Thread, Calling(t)
      PROVE  Phase(pc[t])'
  <2>1. Phase(pc[t])
    BY <1>4 DEF AtWork
  <2>2. pc[t] = "readAck" => pc["puller"] = "readAck"
    BY DEF Thread, LinkInv, OwnCalls
  <2>3. PICK label \in Label : label = pc[t]
    BY <1>1
  <2>4. Phase(label)'
    BY <2>1, <2>2, <2>3
  <2>5. pc'[t] = label
    BY <2>3
  <2> QED
    BY <2>4, <2>5 DEF Phase
<1>5. ASSUME \A t \in Thread : ~Calling(t)
      PROVE  Phase("idle")'
  BY <1>2, <1>5 DEF AtWork
<1> QED
  BY <1>3, <1>4, <1>5 DEF AtWork

\* A device that has not booted misses headers only, which the host will repeat.
LEMMA MissedHeader ==
  ASSUME LinkInv, Understood, MissByte, UNCHANGED <<hostVars, cableVars>>
  PROVE  Understood'
<1>1. /\ UNCHANGED <<deviceVars, toHost, pc, port>>
      /\ ~booted /\ toDevice # <<>> /\ toDevice' = Tail(toDevice)
  BY DEF MissByte, hostVars, cableVars
<1>2. Silent' <=> Silent
  BY <1>1 DEF Silent
<1>3. Mode' = "ready"
  BY <1>1 DEF LinkInv, BoardThere, Mode, deviceVars
<1>4. \A n \in 1 .. Len(toDevice') : toDevice'[n] = HEADER_BYTE
  <2>1. \A n \in 1 .. Len(toDevice) : toDevice[n] = HEADER_BYTE
    BY <1>1 DEF Understood, Unbooted
  <2>2. /\ Len(toDevice) \in Nat
        /\ Len(toDevice') = Len(toDevice) - 1
        /\ \A i \in 1 .. Len(toDevice) - 1 : toDevice'[i] = toDevice[i + 1]
    BY <1>1, DeviceTypes, TailOfBytes
  <2>3. \A i \in 1 .. Len(toDevice) - 1 : i + 1 \in 1 .. Len(toDevice)
    BY <2>2
  <2> QED
    BY <2>1, <2>2, <2>3
<1>5. Commands("ready")'
  <2>1. Len(toDevice') \in Nat
    BY <1>1, DeviceTypes, TailOfBytes
  <2> QED
    BY <1>3, <1>4, <2>1, HeadersWalk DEF Commands
<1>6. OneCall'
  BY <1>1 DEF Understood, OneCall, Calling
<1>7. Unbooted'
  BY <1>1, <1>2, <1>4 DEF Understood, Unbooted
<1>8. CASE Silent
  BY <1>2, <1>5, <1>6, <1>7, <1>8 DEF Understood, LeftOver, Modes
<1>9. CASE ~Silent
  <2>1. OnlyAcks' /\ \A t \in Thread : pc'[t] \in {"idle", "header", "awaitAck"}
    BY <1>1, <1>9 DEF Understood, Unbooted, OnlyAcks
  <2>2. Phase("idle")' /\ Phase("header")' /\ Phase("awaitAck")'
    BY <1>5, <2>1 DEF Phase
  <2>3. AtWork'
    BY <1>3, <2>1, <2>2 DEF AtWork
  <2> QED
    BY <1>2, <1>6, <1>7, <1>9, <2>3 DEF Understood
<1> QED
  BY <1>8, <1>9

LEMMA DeviceHealthy ==
  ASSUME LinkInv, HealthyInv, Device
  PROVE  HealthyInv'
<1>1. DeviceStep /\ UNCHANGED <<hostVars, cableVars>>
  BY DEF Device, Powered
<1>2. UNCHANGED <<pc, port, healthy, frame, base, offset, waited>>
  BY <1>1 DEF hostVars, sendVars, cableVars, budgetVars
<1>3. (port = "dead" => ~healthy)' /\ WholeChunks'
  BY <1>2 DEF HealthyInv, WholeChunks
<1> SUFFICES ASSUME Understood
             PROVE  Understood'
  BY <1>2, <1>3 DEF HealthyInv
<1>4. OneCall' /\ (Silent' <=> Silent)
  BY <1>2 DEF Understood, OneCall, Calling, Silent
<1>5. CASE ReadByte
  <2>1. booted' /\ quiet' = 0
    BY <1>5, ReadsHead
  <2>2. CASE Silent
    BY <1>1, <1>4, <1>5, <2>1, <2>2, LeftOverRead DEF Understood
  <2>3. CASE ~Silent
    <3>1. \A label \in Label :
            /\ Phase(label)
            /\ label = "readAck" => pc["puller"] = "readAck"
            => Phase(label)'
      BY <1>1, <1>5, PhaseRead
    <3>2. AtWork'
      BY <1>2, <2>1, <2>3, <3>1, AtWorkKept DEF Understood
    <3> QED
      BY <1>4, <2>1, <2>3, <3>2 DEF Understood
  <2> QED
    BY <2>2, <2>3
<1>6. CASE Setup
  <2>1. booted' /\ UNCHANGED <<state, frameBuffer, chunk, newState, toDevice, toHost, quiet>>
    BY <1>6 DEF Setup, parserVars, lightVars, lineVars
  <2>2. Mode' = Mode
    BY <2>1 DEF Mode
  <2>3. LeftOver => LeftOver'
    BY <1>2, <2>1, <2>2, SameView
  <2>4. AtWork => AtWork'
    <3>1. \A label \in Label : Phase(label) => Phase(label)'
      BY <1>2, <2>1, <2>2, SameView
    <3>2. AtWork => (Mode # "ready" => quiet = 0)'
      BY <2>1, <2>2 DEF AtWork
    <3> QED
      BY <1>2, <3>1, <3>2, AtWorkKept
  <2> QED
    BY <1>4, <2>1, <2>3, <2>4 DEF Understood
<1>7. CASE MissByte
  BY <1>1, <1>7, MissedHeader
<1>8. CASE GiveUp
  <2>1. /\ booted' /\ Mode' = "ready" /\ toDevice = <<>> /\ toDevice' = <<>>
        /\ quiet >= DEVICE_TIMEOUT
        /\ UNCHANGED <<frameBuffer, chunk, newState, toHost>>
    BY <1>8 DEF GiveUp, TimedOut, Mode, parserVars, lightVars, lineVars
  <2>2. CASE Silent
    <3>1. Len(toDevice') = 0 /\ "ready" \in Modes
      BY <2>1 DEF Modes
    <3>2. Commands("ready")'
      BY <2>1, <3>1, WalkNowhere DEF Commands
    <3>3. LeftOver'
      BY <3>1, <3>2 DEF LeftOver
    <3> QED
      BY <1>4, <2>1, <2>2, <3>3 DEF Understood
  <2>3. CASE ~Silent
    <3>1. Mode = "ready"
      BY <2>1, <2>3, SizesAssumption DEF Understood, AtWork
    <3>2. \A label \in Label : Phase(label) => Phase(label)'
      BY <1>2, <2>1, <3>1, SameView
    <3>3. AtWork'
      BY <1>2, <2>1, <2>3, <3>2, AtWorkKept DEF Understood
    <3> QED
      BY <1>4, <2>1, <2>3, <3>3 DEF Understood
  <2> QED
    BY <2>2, <2>3
<1> QED
  BY <1>1, <1>5, <1>6, <1>7, <1>8 DEF DeviceStep

-----------------------------------------------------------------------------
(* The steps of a call.                                                    *)

\* What is known while a call is made over a healthy line.
LEMMA InCall ==
  ASSUME LinkInv, HealthyInv, healthy, NEW t \in Thread, Calling(t)
  PROVE  /\ port = "open" /\ ~Silent
         /\ \A u \in Thread : Calling(u) => u = t
         /\ Phase(pc[t])
         /\ Mode # "ready" => quiet = 0
         /\ ~booted => /\ \A n \in 1 .. Len(toDevice) : toDevice[n] = HEADER_BYTE
                       /\ toHost = <<>>
                       /\ \A u \in Thread : pc[u] \in {"idle", "header", "awaitAck"}
<1>1. Understood /\ port = "open"
  BY DEF HealthyInv, Understood, OneCall
<1>2. ~Silent
  BY <1>1 DEF Silent, Calling, LinkInv, Together, Thread
<1> QED
  BY <1>1, <1>2 DEF Understood, OneCall, AtWork, Unbooted

\* A thread goes on at another label, of which the line tells as much.
LEMMA CallHealthy ==
  ASSUME LinkInv, HealthyInv, NEW t \in Thread, NEW to \in Label \ {"closed", "opening"},
         pc[t] \notin {"closed", "opening"}, pc' = [pc EXCEPT ![t] = to],
         UNCHANGED <<deviceVars, cableVars>>, WholeChunks',
         healthy => /\ port = "open"
                    /\ \A u \in Thread : Calling(u) => u = t
                    /\ Phase(to)'
                    /\ ~booted => Unbooted'
  PROVE  HealthyInv'
<1>1. UNCHANGED <<booted, state, quiet, port, healthy>>
  BY DEF deviceVars, cableVars, budgetVars
<1>2. (port = "dead" => ~healthy)' /\ WholeChunks'
  BY <1>1 DEF HealthyInv
<1> SUFFICES ASSUME healthy
             PROVE  Understood'
  BY <1>1, <1>2 DEF HealthyInv
<1>3. \A u \in Thread : pc'[u] = IF u = t THEN to ELSE pc[u]
  BY DeviceTypes
<1>4. OneCall'
  <2> SUFFICES ASSUME NEW u \in Thread, Calling(u)'
               PROVE  port' = "open" /\ \A v \in Thread : Calling(v)' => v = u
    BY DEF OneCall
  <2>1. \A v \in Thread : Calling(v)' => v = t
    BY <1>3 DEF Calling
  <2> QED
    BY <1>1, <2>1
<1>5. ~Silent /\ ~Silent'
  <2>1. \A u \in Thread : pc[u] \notin {"closed", "opening"}
    BY DEF LinkInv, Together
  <2>2. pc["main"] \notin {"closed", "opening"} /\ pc'["main"] \notin {"closed", "opening"}
    BY <1>3, <2>1 DEF Thread
  <2> QED
    BY <1>1, <2>2 DEF Silent
<1>6. AtWork'
  <2>1. ASSUME NEW u \in Thread, Calling(u)'
        PROVE  Phase(pc[u])'
    <3>1. pc'[u] = to
      BY <1>3, <2>1 DEF Calling
    <3>2. Phase(to)'
      OBVIOUS
    <3> QED
      BY <3>1, <3>2 DEF Phase
  <2>2. ASSUME \A u \in Thread : ~Calling(u)'
        PROVE  Phase("idle")'
    <3>1. to = "idle"
      BY <1>3, <2>2 DEF Calling
    <3> QED
      BY <3>1
  <2>3. (Mode # "ready" => quiet = 0)'
    BY <1>1, <1>5 DEF HealthyInv, Understood, AtWork, Mode
  <2> QED
    BY <2>1, <2>2, <2>3 DEF AtWork
<1> QED
  BY <1>1, <1>4, <1>5, <1>6 DEF Understood

\* A byte that is written lengthens the walk.
LEMMA WrittenByte ==
  ASSUME LinkInv, port = "open", NEW byte \in Byte, Send(<<byte>>), UNCHANGED deviceVars,
         NEW mid, NEW to \in Modes, Commands(mid), Leads(mid, byte, to)
  PROVE  Commands(to)'
<1>1. /\ toDevice' = toDevice \o <<byte>>
      /\ Len(toDevice) \in Nat
      /\ Len(toDevice') = Len(toDevice) + 1
      /\ \A i \in 1 .. Len(toDevice) : toDevice'[i] = toDevice[i]
      /\ toDevice'[Len(toDevice) + 1] = byte
  BY DeviceTypes, OneMoreByte DEF Send
<1>2. Mode' = Mode
  BY DEF Mode, deviceVars
<1>3. Walk(toDevice, Len(toDevice), Mode, mid)
  BY DEF Commands
<1>4. Walk(toDevice', Len(toDevice) + 1, Mode, to)
  BY <1>1, <1>3, WalkFurther
<1> QED
  BY <1>1, <1>2, <1>4 DEF Commands

\* An answer that is read leaves the others.
LEMMA AcksRead ==
  ASSUME LinkInv, Receive, OnlyAcks
  PROVE  OnlyAcks' /\ Head(toHost) = HEADER_ACK
<1>1. /\ toHost' = Tail(toHost) /\ Len(toHost) \in Nat /\ Len(toHost) >= 1
      /\ Len(toHost') = Len(toHost) - 1 /\ Head(toHost) = toHost[1]
      /\ \A i \in 1 .. Len(toHost) - 1 : toHost'[i] = toHost[i + 1]
  BY DeviceTypes, TailOfBytes DEF Receive
<1>2. \A i \in 1 .. Len(toHost) - 1 : i + 1 \in 1 .. Len(toHost)
  BY <1>1
<1>3. 1 \in 1 .. Len(toHost)
  BY <1>1
<1> QED
  BY <1>1, <1>2, <1>3 DEF OnlyAcks

LEMMA CommandsKept ==
  ASSUME UNCHANGED <<deviceVars, toDevice>>, NEW to
  PROVE  Commands(to)' <=> Commands(to)
BY DEF Commands, Mode, deviceVars

LEMMA HeaderHealthy ==
  ASSUME LinkInv, HealthyInv, NEW t \in Thread, HeaderStep(t)
  PROVE  HealthyInv'
<1>1. /\ pc[t] \in {"header", "awaitAck"} /\ Calling(t)
      /\ UNCHANGED <<deviceVars, base, cableVars>>
  BY DEF HeaderStep, WriteHeader, ReadHeaderAck, RetryHeader, sendVars, Calling
<1>2. WholeChunks'
  BY <1>1 DEF HealthyInv, WholeChunks
<1>3. healthy => /\ port = "open" /\ \A u \in Thread : Calling(u) => u = t
                 /\ Commands("ready") /\ OnlyAcks
  BY <1>1, InCall DEF Phase
<1>4. \A label \in {"header", "awaitAck", "command", "setCommand"} :
        Commands("ready")' /\ OnlyAcks' => Phase(label)'
  BY DEF Phase
<1>5. CASE WriteHeader(t)
  <2>1. pc' = [pc EXCEPT ![t] = "awaitAck"] /\ Send(<<HEADER_BYTE>>)
    BY <1>5 DEF WriteHeader, Goto
  <2>2. healthy => Commands("ready")' /\ OnlyAcks'
    <3>1. Leads("ready", HEADER_BYTE, "ready") /\ HEADER_BYTE \in Byte /\ "ready" \in Modes
      BY ProtocolAssumption DEF Leads, Modes
    <3>2. healthy => Commands("ready")'
      BY <1>1, <1>3, <2>1, <3>1, WrittenByte
    <3> QED
      BY <1>3, <2>1, <3>2 DEF Send, OnlyAcks
  <2>3. healthy /\ ~booted => Unbooted'
    <3> SUFFICES ASSUME healthy, ~booted
                 PROVE  Unbooted'
      OBVIOUS
    <3>1. /\ \A n \in 1 .. Len(toDevice) : toDevice[n] = HEADER_BYTE
          /\ toHost = <<>>
          /\ \A u \in Thread : pc[u] \in {"idle", "header", "awaitAck"}
      BY <1>1, InCall
    <3>2. /\ toDevice' = toDevice \o <<HEADER_BYTE>> /\ toHost' = toHost
          /\ Len(toDevice) \in Nat
          /\ Len(toDevice') = Len(toDevice) + 1
          /\ \A i \in 1 .. Len(toDevice) : toDevice'[i] = toDevice[i]
          /\ toDevice'[Len(toDevice) + 1] = HEADER_BYTE
      BY <1>3, <2>1, DeviceTypes, OneMoreByte, ProtocolAssumption DEF Send
    <3>3. \A n \in 1 .. Len(toDevice) + 1 : n \in 1 .. Len(toDevice) \/ n = Len(toDevice) + 1
      BY <3>2
    <3>4. \A n \in 1 .. Len(toDevice') : toDevice'[n] = HEADER_BYTE
      BY <3>1, <3>2, <3>3
    <3>5. \A u \in Thread : pc'[u] \in {"idle", "header", "awaitAck"}
      BY <2>1, <3>1, DeviceTypes
    <3> QED
      BY <3>1, <3>2, <3>4, <3>5 DEF Unbooted
  <2> QED
    BY <1>1, <1>2, <1>3, <1>4, <2>1, <2>2, <2>3, CallHealthy DEF Label
<1>6. CASE ReadHeaderAck(t)
  <2>1. /\ Receive /\ UNCHANGED toDevice
        /\ pc' = [pc EXCEPT ![t] = IF Head(toHost) = HEADER_ACK THEN AfterHeader(t) ELSE "header"]
    BY <1>6 DEF ReadHeaderAck, Goto, Receive
  <2>2. PICK to \in {"header", "command", "setCommand"} : pc' = [pc EXCEPT ![t] = to]
    BY <2>1 DEF AfterHeader
  <2>3. healthy => Commands("ready")' /\ OnlyAcks'
    BY <1>1, <1>3, <2>1, AcksRead, CommandsKept
  <2>4. healthy => booted
    BY <1>1, <2>1, InCall DEF Receive
  <2> QED
    BY <1>1, <1>2, <1>3, <1>4, <2>2, <2>3, <2>4, CallHealthy DEF Label
<1>7. CASE RetryHeader(t)
  <2>1. pc' = [pc EXCEPT ![t] = "header"] /\ UNCHANGED lineVars
    BY <1>7 DEF RetryHeader, Goto
  <2>2. healthy => Commands("ready")' /\ OnlyAcks'
    BY <1>1, <1>3, <2>1, CommandsKept DEF lineVars, OnlyAcks
  <2>3. healthy /\ ~booted => Unbooted'
    <3>1. \A u \in Thread : pc'[u] \in {pc[u], "header"}
      BY <2>1, DeviceTypes
    <3> QED
      BY <1>1, <2>1, <3>1, InCall DEF Unbooted, lineVars
  <2> QED
    BY <1>1, <1>2, <1>3, <1>4, <2>1, <2>2, <2>3, CallHealthy DEF Label
<1> QED
  BY <1>5, <1>6, <1>7 DEF HeaderStep

\* A call begins when none is made, and so where everything under way is commands.
LEMMA StartHealthy ==
  ASSUME ~OVERLAP, LinkInv, HealthyInv,
         (\E f \in FRAMES : StartFrame(f)) \/ (\E value \in SPEEDS : PressSpeedKey(value))
  PROVE  HealthyInv'
<1>1. PICK t \in Thread : /\ MayStart(t)
                          /\ pc' = [pc EXCEPT ![t] = "header"]
  BY DEF StartFrame, PressSpeedKey, Goto, Thread
<1>2. UNCHANGED <<deviceVars, base, lineVars, cableVars>>
  BY DEF StartFrame, PressSpeedKey, sendVars
<1>3. port # "none" /\ \A u \in Thread : pc[u] = "idle"
  BY <1>1 DEF MayStart, IsConnected
<1>4. WholeChunks'
  BY <1>2 DEF HealthyInv, WholeChunks
<1>5. healthy => /\ port = "open"
                 /\ \A u \in Thread : ~Calling(u)
                 /\ Phase("header")'
                 /\ ~booted => Unbooted'
  <2> SUFFICES ASSUME healthy
               PROVE  /\ port = "open"
                      /\ \A u \in Thread : ~Calling(u)
                      /\ Phase("header")'
                      /\ ~booted => Unbooted'
    OBVIOUS
  <2>1. port = "open" /\ \A u \in Thread : ~Calling(u)
    BY <1>3 DEF HealthyInv, Calling, LinkInv, TypeOK
  <2>2. ~Silent
    BY <1>3, <2>1 DEF Silent, Thread
  <2>3. Commands("ready") /\ OnlyAcks
    BY <2>1, <2>2 DEF HealthyInv, Understood, AtWork, Phase
  <2>4. Phase("header")'
    BY <1>2, <2>3, CommandsKept DEF Phase, OnlyAcks, lineVars
  <2>5. ~booted => Unbooted'
    <3>1. \A u \in Thread : pc'[u] \in {"idle", "header"}
      BY <1>1, <1>3, DeviceTypes
    <3> QED
      BY <1>2, <2>2, <3>1 DEF HealthyInv, Understood, Unbooted, lineVars
  <2> QED
    BY <2>1, <2>4, <2>5
<1>6. UNCHANGED <<deviceVars, cableVars>> /\ "header" \in Label \ {"closed", "opening"}
  BY <1>2 DEF Label
<1>7. pc[t] \notin {"closed", "opening"}
  BY <1>3
<1> QED
  BY <1>1, <1>4, <1>5, <1>6, <1>7, CallHealthy

\* The three bytes of a setting lead through its modes.
LEMMA SettingHealthy ==
  ASSUME LinkInv, HealthyInv, WriteSetCommand \/ WriteSetId \/ WriteSetValue
  PROVE  HealthyInv'
<1>1. PICK byte \in Byte, from \in Modes, to \in Modes, next \in {"setId", "setValue", "idle"} :
        /\ pc["main"] \in {"setCommand", "setId", "setValue"}
        /\ Send(<<byte>>)
        /\ pc' = [pc EXCEPT !["main"] = next]
        /\ UNCHANGED <<deviceVars, sendVars, cableVars>>
        /\ Phase(pc["main"]) => Commands(from) /\ OnlyAcks
        /\ Leads(from, byte, to)
        /\ Commands(to)' /\ OnlyAcks' => Phase(next)'
  <2>1. {CMD_SET_SETTINGS, SET_ID_LERP, speed} \subseteq Byte /\ speed \in SPEEDS
    BY ProtocolAssumption, HostAssumption DEF LinkInv, TypeOK
  <2>2. CASE WriteSetCommand
    <3>1. /\ pc["main"] = "setCommand" /\ Send(<<CMD_SET_SETTINGS>>)
          /\ pc' = [pc EXCEPT !["main"] = "setId"]
          /\ UNCHANGED <<deviceVars, sendVars, cableVars>>
      BY <2>2 DEF WriteSetCommand, WriteSetting, Goto
    <3>2. /\ Phase("setCommand") => Commands("ready") /\ OnlyAcks
          /\ Leads("ready", CMD_SET_SETTINGS, "type")
          /\ Commands("type")' /\ OnlyAcks' => Phase("setId")'
      BY DEF Phase, Leads
    <3> QED
      BY <2>1, <3>1, <3>2 DEF Modes
  <2>3. CASE WriteSetId
    <3>1. /\ pc["main"] = "setId" /\ Send(<<SET_ID_LERP>>)
          /\ pc' = [pc EXCEPT !["main"] = "setValue"]
          /\ UNCHANGED <<deviceVars, sendVars, cableVars>>
      BY <2>3 DEF WriteSetId, WriteSetting, Goto
    <3>2. /\ Phase("setId") => Commands("type") /\ OnlyAcks
          /\ Leads("type", SET_ID_LERP, "payload")
          /\ Commands("payload")' /\ OnlyAcks' => Phase("setValue")'
      BY DEF Phase, Leads
    <3> QED
      BY <2>1, <3>1, <3>2 DEF Modes
  <2>4. CASE WriteSetValue
    <3>1. /\ pc["main"] = "setValue" /\ Send(<<speed>>)
          /\ pc' = [pc EXCEPT !["main"] = "idle"]
          /\ UNCHANGED <<deviceVars, sendVars, cableVars>>
      BY <2>4 DEF WriteSetValue, WriteSetting, Goto
    <3>2. /\ Phase("setValue") => Commands("payload") /\ OnlyAcks
          /\ Leads("payload", speed, "ready")
          /\ Commands("ready")' /\ OnlyAcks' => Phase("idle")'
      BY <2>1 DEF Phase, Leads
    <3> QED
      BY <2>1, <3>1, <3>2 DEF Modes
  <2> QED
    BY <2>2, <2>3, <2>4
<1>2. WholeChunks'
  BY <1>1 DEF HealthyInv, WholeChunks, sendVars
<1>3. "main" \in Thread /\ Calling("main")
  BY <1>1 DEF Thread, Calling
<1>4. healthy => /\ port = "open"
                 /\ \A u \in Thread : Calling(u) => u = "main"
                 /\ Phase(next)'
                 /\ ~booted => Unbooted'
  <2> SUFFICES ASSUME healthy
               PROVE  /\ port = "open"
                      /\ \A u \in Thread : Calling(u) => u = "main"
                      /\ Phase(next)'
                      /\ ~booted => Unbooted'
    OBVIOUS
  <2>1. /\ port = "open" /\ \A u \in Thread : Calling(u) => u = "main"
        /\ Commands(from) /\ OnlyAcks
        /\ booted
    BY <1>1, <1>3, InCall
  <2>2. Commands(to)'
    BY <1>1, <2>1, WrittenByte
  <2>3. OnlyAcks'
    BY <1>1, <2>1 DEF Send, OnlyAcks
  <2> QED
    BY <1>1, <2>1, <2>2, <2>3
<1>5. next \in Label \ {"closed", "opening"} /\ pc["main"] \notin {"closed", "opening"}
  BY <1>1 DEF Label
<1> QED
  BY <1>1, <1>2, <1>3, <1>4, <1>5, CallHealthy

\* The command of the frame comes after commands only.
LEMMA FrameCommandHealthy ==
  ASSUME LinkInv, HealthyInv, WriteFrameCommand
  PROVE  HealthyInv'
<1>1. /\ pc["puller"] = "command" /\ pc' = [pc EXCEPT !["puller"] = "writeChunk"]
      /\ Send(<<CMD_FRAME_DATA>>) /\ base' = 0 /\ offset' = 0
      /\ UNCHANGED <<deviceVars, cableVars>>
  BY DEF WriteFrameCommand, Goto
<1>2. WholeChunks'
  BY <1>1, SizesAssumption DEF WholeChunks
<1>3. "puller" \in Thread /\ Calling("puller") /\ pc["puller"] \notin {"closed", "opening"}
  BY <1>1 DEF Thread, Calling
<1>4. healthy => /\ port = "open"
                 /\ \A u \in Thread : Calling(u) => u = "puller"
                 /\ Phase("writeChunk")'
                 /\ ~booted => Unbooted'
  <2> SUFFICES ASSUME healthy
               PROVE  /\ port = "open"
                      /\ \A u \in Thread : Calling(u) => u = "puller"
                      /\ Phase("writeChunk")'
                      /\ ~booted => Unbooted'
    OBVIOUS
  <2>1. /\ port = "open" /\ \A u \in Thread : Calling(u) => u = "puller"
        /\ Commands("ready") /\ OnlyAcks
        /\ booted
    BY <1>1, <1>3, InCall DEF Phase
  <2>2. /\ toHost' = toHost
        /\ Len(toDevice) \in Nat
        /\ Len(toDevice') = Len(toDevice) + 1
        /\ \A i \in 1 .. Len(toDevice) : toDevice'[i] = toDevice[i]
        /\ toDevice'[Len(toDevice) + 1] = CMD_FRAME_DATA
    BY <1>1, <2>1, DeviceTypes, OneMoreByte, ProtocolAssumption DEF Send
  <2> DEFINE n == Len(toDevice)
  <2>3. PICK k \in Nat : k = n + 1
    BY <2>2
  <2>4. k - 1 = n /\ k \in 1 .. k /\ k = k + 0
    BY <2>2, <2>3
  <2>5. Walk(toDevice, n, Mode, "ready")
    BY <2>1 DEF Commands
  <2> HIDE DEF n
  <2>6. Walk(toDevice', k - 1, Mode, "ready") /\ Mode' = Mode
    <3>1. n \in Nat /\ \A i \in 1 .. n : toDevice'[i] = toDevice[i]
      BY <2>2 DEF n
    <3>2. Walk(toDevice', n, Mode, "ready")
      BY <2>5, <3>1, SameWalk
    <3> QED
      BY <1>1, <2>4, <3>2 DEF Mode, deviceVars
  <2>7. Len(toDevice') = k /\ toDevice'[k] = CMD_FRAME_DATA
    BY <2>2, <2>3 DEF n
  <2>8. BeforeAt(k, 0)'
    BY <2>4, <2>6, <2>7 DEF BeforeAt
  <2>9. Before(0)'
    BY <2>4, <2>7, <2>8 DEF Before
  <2> QED
    BY <1>1, <2>1, <2>2, <2>9 DEF Phase, OnlyAcks
<1> QED
  BY <1>1, <1>2, <1>3, <1>4, CallHealthy DEF Label

\* A chunk goes behind what is under way, where its place in the frame is.
LEMMA WriteChunkHealthy ==
  ASSUME LinkInv, HealthyInv, WriteChunk
  PROVE  HealthyInv'
<1> DEFINE data == FrameData(frame)
           bytes == SubSeq(data, base + offset + 1, base + SizeToSend)
<1>1. /\ pc["puller"] = "writeChunk" /\ pc' = [pc EXCEPT !["puller"] = "readAck"]
      /\ Send(bytes) /\ offset' = 0 /\ waited' = 0
      /\ UNCHANGED <<deviceVars, frame, base, cableVars>>
  BY DEF WriteChunk, Goto
<1>2. WholeChunks'
  BY <1>1 DEF HealthyInv, WholeChunks
<1>3. "puller" \in Thread /\ Calling("puller") /\ pc["puller"] \notin {"closed", "opening"}
  BY <1>1 DEF Thread, Calling
<1>4. healthy => /\ port = "open"
                 /\ \A u \in Thread : Calling(u) => u = "puller"
                 /\ Phase("readAck")'
                 /\ ~booted => Unbooted'
  <2> SUFFICES ASSUME healthy
               PROVE  /\ port = "open"
                      /\ \A u \in Thread : Calling(u) => u = "puller"
                      /\ Phase("readAck")'
                      /\ ~booted => Unbooted'
    OBVIOUS
  <2>1. /\ port = "open" /\ \A u \in Thread : Calling(u) => u = "puller"
        /\ offset = 0 /\ OnlyAcks
        /\ (base = 0 /\ Before(0)) \/ (Inside(base) /\ Len(frameBuffer) = base)
        /\ booted
    BY <1>1, <1>3, InCall DEF Phase
  <2>2. PICK size \in Nat : size = SizeToSend /\ size >= 1 /\ base + size <= FRAME_DATA_SIZE
    BY <1>1, ChunkBounds DEF LinkInv, TypeOK, ChunkInFrame
  <2>3. base \in Nat /\ FRAME_DATA_SIZE \in Nat
    BY FrameSize DEF LinkInv, TypeOK
  <2>4. data \in Seq(Byte) /\ Len(data) = FRAME_DATA_SIZE
    BY DeviceTypes, FrameDataBytes
  <2>5. bytes \in Seq(Byte) /\ Len(bytes) = size /\ \A i \in 1 .. size : bytes[i] = data[base + i]
    <3>1. bytes = SubSeq(data, base + 1, base + size)
      BY <2>1, <2>2, <2>3
    <3>2. /\ base + 1 \in Int /\ base + size \in Int /\ base + 1 <= base + size
          /\ (base + size) - (base + 1) + 1 = size
          /\ \A i \in base + 1 .. base + size : i \in 1 .. Len(data)
          /\ \A i \in 1 .. size : (base + 1) + i - 1 = base + i
      BY <2>2, <2>3, <2>4
    <3>3. \A i \in base + 1 .. base + size : data[i] \in Byte
      BY <2>4, <3>2, ElementOfSeq
    <3> HIDE DEF data, bytes
    <3>4. /\ SubSeq(data, base + 1, base + size) \in Seq(Byte)
          /\ Len(SubSeq(data, base + 1, base + size)) = size
          /\ \A i \in 1 .. size :
               SubSeq(data, base + 1, base + size)[i] = data[(base + 1) + i - 1]
      BY <3>2, <3>3, SubSeqProperties
    <3> QED
      BY <3>1, <3>2, <3>4
  <2> HIDE DEF data, bytes
  <2> DEFINE n == Len(toDevice)
  <2>6. /\ n \in Nat /\ toHost' = toHost
        /\ Len(toDevice') = n + size
        /\ \A i \in 1 .. n : toDevice'[i] = toDevice[i]
        /\ \A i \in 1 .. size : toDevice'[n + i] = data[base + i]
    <3>1. toDevice' = toDevice \o bytes /\ toHost' = toHost /\ toDevice \in Seq(Byte) /\ n \in Nat
      BY <1>1, <2>1, DeviceTypes DEF Send
    <3>2. /\ Len(toDevice') = n + size
          /\ \A i \in 1 .. n + size :
               toDevice'[i] = IF i <= n THEN toDevice[i] ELSE bytes[i - n]
      BY <2>5, <3>1, ConcatProperties
    <3>3. \A i \in 1 .. n : i \in 1 .. n + size /\ i <= n
      BY <3>1
    <3>4. \A i \in 1 .. size : n + i \in 1 .. n + size /\ ~(n + i <= n) /\ (n + i) - n = i
      BY <3>1
    <3> HIDE DEF n
    <3> QED
      BY <2>5, <3>1, <3>2, <3>3, <3>4
  <2>7. /\ Mode' = Mode /\ Got' = Got /\ SizeToSend' = size
        /\ UNCHANGED <<state, frameBuffer, chunk>> /\ OnlyAcks'
    BY <1>1, <2>1, <2>2, <2>6
    DEF Mode, Got, SizeToSend, deviceVars, parserVars, OnlyAcks
  <2>8. CASE base = 0 /\ Before(0)
    <3>1. PICK k \in 1 .. n : BeforeAt(k, 0)
      BY <2>8 DEF Before
    <3>2. /\ n = k /\ k \in Nat /\ k - 1 \in Nat
          /\ toDevice[k] = CMD_FRAME_DATA
          /\ Walk(toDevice, k - 1, Mode, "ready")
          /\ \A i \in 1 .. k - 1 : i \in 1 .. n
      BY <2>6, <3>1 DEF BeforeAt
    <3> HIDE DEF n
    <3>3. Walk(toDevice', k - 1, Mode, "ready")
      BY <2>6, <3>2, SameWalk
    <3>4. Len(toDevice') = k + size /\ toDevice'[k] = CMD_FRAME_DATA /\ k \in 1 .. k + size
      BY <2>2, <2>6, <3>1, <3>2
    <3>5. \A i \in 1 .. size : toDevice'[k + i] = data[i]
      <4>1. \A i \in 1 .. size : base + i = i
        BY <2>8
      <4> QED
        BY <2>6, <3>2, <4>1
    <3>6. BeforeAt(k, size)'
      BY <1>1, <2>7, <3>3, <3>4, <3>5 DEF BeforeAt, data
    <3>7. Before(size)'
      BY <3>4, <3>6 DEF Before
    <3> QED
      BY <1>1, <2>1, <2>7, <2>8, <3>7 DEF Phase, Reading
  <2>9. CASE Inside(base) /\ Len(frameBuffer) = base
    <3>1. Got = base /\ n = 0 /\ Len(chunk) = 0
      BY <2>3, <2>6, <2>9, DeviceTypes DEF Inside, Got
    <3>2. Len(toDevice') = size /\ \A i \in 1 .. size : toDevice'[i] = data[base + i]
      <4>1. n + size = size /\ \A i \in 1 .. size : n + i = i
        BY <3>1
      <4> HIDE DEF n
      <4> QED
        BY <2>6, <4>1
    <3>3. Inside(base + SizeToSend)'
      <4>1. base' + SizeToSend' = base + size /\ Got' + Len(toDevice') = base + size
        BY <1>1, <2>7, <3>1, <3>2
      <4>2. \A i \in 1 .. Len(toDevice') : toDevice'[i] = data[Got' + i]
        BY <2>7, <3>1, <3>2
      <4> QED
        BY <1>1, <2>7, <2>9, <4>1, <4>2 DEF Inside, data
    <3>4. Answers(Got - base)'
      BY <2>7 DEF OnlyAcks, Answers
    <3>5. 0 < size /\ base # base + size
      BY <2>2, <2>3
    <3>6. ChunkUnderWay'
      BY <1>1, <2>7, <2>9, <3>1, <3>3, <3>4, <3>5 DEF ChunkUnderWay
    <3>7. Got' # base' + SizeToSend'
      BY <1>1, <2>7, <3>1, <3>5
    <3> QED
      BY <1>1, <2>1, <3>6, <3>7 DEF Phase, Reading
  <2> QED
    BY <2>1, <2>8, <2>9
<1> QED
  BY <1>1, <1>2, <1>3, <1>4, CallHealthy DEF Label

\* A counter that is read leaves the later ones.
LEMMA CountersRead ==
  ASSUME LinkInv, Receive
  PROVE  /\ Len(toHost) \in Nat /\ Len(toHost) >= 1 /\ Head(toHost) = toHost[1]
         /\ Len(toHost') = Len(toHost) - 1 /\ toDevice' = toDevice
         /\ \A got \in Int : Answers(got) =>
              \A n \in 1 .. Len(toHost') :
                toHost'[n] = HEADER_ACK \/ toHost'[n] = got - (Len(toHost') - n)
         /\ LastCounter /\ Head(toHost) # SizeToSend =>
              Len(toHost') >= 1 /\ toHost'[Len(toHost')] = SizeToSend
<1> DEFINE len == Len(toHost)
<1>1. /\ toHost' = Tail(toHost) /\ len \in Nat /\ len >= 1 /\ toDevice' = toDevice
      /\ Len(toHost') = len - 1 /\ Head(toHost) = toHost[1]
      /\ \A i \in 1 .. len - 1 : toHost'[i] = toHost[i + 1]
  BY DeviceTypes, TailOfBytes DEF Receive
<1>2. ASSUME NEW got \in Int, Answers(got), NEW n \in 1 .. len - 1
      PROVE  toHost'[n] = HEADER_ACK \/ toHost'[n] = got - ((len - 1) - n)
  <2>1. n + 1 \in 1 .. len /\ got - (len - (n + 1)) = got - ((len - 1) - n)
    BY <1>1
  <2>2. toHost[n + 1] = HEADER_ACK \/ toHost[n + 1] = got - (len - (n + 1))
    BY <1>2, <2>1 DEF Answers
  <2> QED
    BY <1>1, <2>1, <2>2
<1>3. ASSUME LastCounter, Head(toHost) # SizeToSend
      PROVE  len - 1 >= 1 /\ toHost'[len - 1] = SizeToSend
  <2>1. toHost[len] = SizeToSend
    BY <1>3 DEF LastCounter
  <2>2. len # 1
    BY <1>1, <1>3, <2>1
  <2>3. len - 1 \in 1 .. len - 1 /\ (len - 1) + 1 = len
    <3>1. \A l \in Nat : l >= 1 /\ l # 1 => l - 1 \in 1 .. l - 1 /\ (l - 1) + 1 = l
      OBVIOUS
    <3> HIDE DEF len
    <3> QED
      BY <1>1, <2>2, <3>1
  <2> QED
    BY <1>1, <2>1, <2>3
<1> HIDE DEF len
<1>4. \A got \in Int : Answers(got) =>
        \A n \in 1 .. Len(toHost') :
          toHost'[n] = HEADER_ACK \/ toHost'[n] = got - (Len(toHost') - n)
  BY <1>1, <1>2
<1>5. LastCounter /\ Head(toHost) # SizeToSend =>
        Len(toHost') >= 1 /\ toHost'[Len(toHost')] = SizeToSend
  BY <1>1, <1>3
<1> QED
  BY <1>1, <1>4, <1>5 DEF len

LEMMA ReadChunkAckHealthy ==
  ASSUME LinkInv, HealthyInv, ReadChunkAck
  PROVE  HealthyInv'
<1>1. /\ pc["puller"] = "readAck" /\ pc' = [pc EXCEPT !["puller"] = "readAck"]
      /\ Receive /\ Head(toHost) # SizeToSend /\ waited' = 0
      /\ UNCHANGED <<deviceVars, frame, base, cableVars>>
  BY DeviceTypes DEF ReadChunkAck
<1>2. WholeChunks'
  BY <1>1 DEF HealthyInv, WholeChunks
<1>3. "puller" \in Thread /\ Calling("puller") /\ pc["puller"] \notin {"closed", "opening"}
  BY <1>1 DEF Thread, Calling
<1>4. healthy => /\ port = "open"
                 /\ \A u \in Thread : Calling(u) => u = "puller"
                 /\ Phase("readAck")'
                 /\ ~booted => Unbooted'
  <2> SUFFICES ASSUME healthy
               PROVE  /\ port = "open"
                      /\ \A u \in Thread : Calling(u) => u = "puller"
                      /\ Phase("readAck")'
                      /\ ~booted => Unbooted'
    OBVIOUS
  <2>1. /\ port = "open" /\ \A u \in Thread : Calling(u) => u = "puller"
        /\ Reading
        /\ booted
    BY <1>1, <1>3, InCall DEF Phase, Receive
  <2>2. /\ Mode' = Mode /\ Got' = Got /\ SizeToSend' = SizeToSend
        /\ UNCHANGED <<state, frameBuffer, chunk, newState, toDevice>>
    BY <1>1, CountersRead DEF Mode, Got, SizeToSend, deviceVars, parserVars, lightVars
  <2>3. LastCounter => LastCounter'
    BY <1>1, <2>2, CountersRead DEF LastCounter
  <2>4. Got - base \in Int /\ SizeToSend \in Int
    BY DeviceTypes, ChunkBounds DEF LinkInv, TypeOK, Got
  <2>5. Answers(Got - base) => Answers(Got - base)'
    BY <1>1, <2>2, <2>4, CountersRead DEF Answers
  <2>6. Answers(SizeToSend) => Answers(SizeToSend)'
    BY <1>1, <2>2, <2>4, CountersRead DEF Answers
  <2>7. OnlyAcks => OnlyAcks'
    BY <1>1, AcksRead
  <2>8. Before(SizeToSend)' <=> Before(SizeToSend)
    BY <1>1, <2>2 DEF Before, BeforeAt
  <2>9. Inside(base + SizeToSend)' <=> Inside(base + SizeToSend)
    BY <1>1, <2>2 DEF Inside
  <2>10. ChunkUnderWay => ChunkUnderWay'
    BY <1>1, <2>2, <2>5, <2>9 DEF ChunkUnderWay
  <2>11. Complete => Complete'
    BY <1>1, <2>2 DEF Complete
  <2>12. Reading'
    BY <1>1, <2>1, <2>2, <2>3, <2>6, <2>7, <2>8, <2>10, <2>11 DEF Reading
  <2> QED
    BY <1>1, <2>1, <2>12 DEF Phase
<1> QED
  BY <1>1, <1>2, <1>3, <1>4, CallHealthy DEF Label

LEMMA Remainder ==
  ASSUME NEW n \in Nat, NEW c \in Nat, NEW r \in Nat, r < c
  PROVE  (n * c + r) % c = r
<1> DEFINE f == n * c + r
           q == f \div c
           m == f % c
<1>1. f \in Nat /\ c > 0
  OBVIOUS
<1> HIDE DEF f
<1>2. q \in Int /\ m \in Int /\ f = c * q + m /\ 0 <= m /\ m < c
  BY <1>1
<1> HIDE DEF q, m
<1>3. n * c + r = q * c + m
  BY <1>2 DEF f
<1>4. ~(n > q)
  <2> SUFFICES ASSUME n > q PROVE FALSE
    OBVIOUS
  <2>1. PICK d \in Nat : n = q + d /\ d >= 1
    BY <1>2
  <2>2. n * c = q * c + d * c /\ d * c >= c
    BY <1>2, <2>1
  <2> QED
    BY <1>2, <1>3, <2>2
<1>5. ~(n < q)
  <2> SUFFICES ASSUME n < q PROVE FALSE
    OBVIOUS
  <2>1. PICK d \in Nat : q = n + d /\ d >= 1
    BY <1>2
  <2>2. q * c = n * c + d * c /\ d * c >= c
    BY <1>2, <2>1
  <2> QED
    BY <1>2, <1>3, <2>2
<1>6. n = q
  BY <1>2, <1>4, <1>5
<1>7. m = r
  BY <1>2, <1>3, <1>6
<1> QED
  BY <1>7 DEF m, f

\* The counter that ends a chunk is not taken for the answer to a header.
LEMMA LastIsNoAck ==
  ASSUME LinkInv, WholeChunks, pc["puller"] = "readAck"
  PROVE  SizeToSend # HEADER_ACK
<1>1. PICK n \in Nat : base = n * CHUNK_SIZE
  BY DEF WholeChunks
<1>2. base \in Nat /\ base < FRAME_DATA_SIZE /\ FRAME_DATA_SIZE \in Nat /\ CHUNK_SIZE \in Nat
  BY FrameSize, SizesAssumption DEF LinkInv, TypeOK, ChunkInFrame
<1>3. CASE FRAME_DATA_SIZE - base < CHUNK_SIZE
  <2>1. PICK r \in Nat : r = FRAME_DATA_SIZE - base /\ r < CHUNK_SIZE
    BY <1>2, <1>3
  <2>2. FRAME_DATA_SIZE = n * CHUNK_SIZE + r
    BY <1>1, <1>2, <2>1
  <2>3. FRAME_DATA_SIZE % CHUNK_SIZE = r
    BY <1>2, <2>1, <2>2, Remainder
  <2> QED
    BY <1>3, <2>1, <2>3, AckAssumption DEF SizeToSend
<1>4. CASE ~(FRAME_DATA_SIZE - base < CHUNK_SIZE)
  BY <1>4, AckAssumption DEF SizeToSend
<1> QED
  BY <1>3, <1>4

\* With the last counter of the chunk the host has read everything there is, and the
\* device has read all that was sent.
LEMMA ChunkDone ==
  ASSUME LinkInv, WholeChunks, pc["puller"] = "readAck", Reading, Receive,
         Head(toHost) = SizeToSend
  PROVE  /\ toHost' = <<>>
         /\ IF base + CHUNK_SIZE < FRAME_DATA_SIZE
              THEN Inside(base + CHUNK_SIZE) /\ Len(frameBuffer) = base + CHUNK_SIZE
              ELSE Complete
<1> DEFINE size == SizeToSend
           len == Len(toHost)
<1>1. /\ base \in Nat /\ size \in Int /\ size >= 1 /\ size <= CHUNK_SIZE
      /\ base + size <= FRAME_DATA_SIZE /\ FRAME_DATA_SIZE \in Nat /\ CHUNK_SIZE \in Nat
      /\ size = CHUNK_SIZE \/ base + size = FRAME_DATA_SIZE
  <2>1. base \in Nat /\ base < FRAME_DATA_SIZE
    BY DEF LinkInv, TypeOK, ChunkInFrame
  <2> QED
    BY <2>1, FrameSize, SizesAssumption DEF SizeToSend
<1>2. /\ toHost' = Tail(toHost) /\ Tail(toHost) \in Seq(Byte)
      /\ Len(Tail(toHost)) = len - 1
      /\ len \in Nat /\ len >= 1 /\ toHost[1] = size /\ size # HEADER_ACK
  BY DeviceTypes, TailOfBytes, LastIsNoAck DEF Receive
<1>3. ASSUME NEW got \in Int, got <= size, Answers(got)
      PROVE  toHost' = <<>> /\ got = size
  <2>1. 1 \in 1 .. len
    BY <1>2
  <2>2. toHost[1] = HEADER_ACK \/ toHost[1] = got - (len - 1)
    BY <1>3, <2>1 DEF Answers
  <2>3. size = got - (len - 1)
    BY <1>2, <2>2
  <2> HIDE DEF size, len
  <2>4. len - 1 = 0 /\ got = size
    BY <1>1, <1>2, <1>3, <2>3
  <2> QED
    BY <1>2, <2>4
<1>4. ~OnlyAcks
  <2>1. 1 \in 1 .. len
    BY <1>2
  <2> QED
    BY <1>2, <2>1 DEF OnlyAcks
<1>5. CASE ChunkUnderWay
  <2>1. /\ Got \in Nat /\ Len(frameBuffer) \in Nat /\ Len(chunk) \in Nat
        /\ Got = Len(frameBuffer) + Len(chunk)
    BY DeviceTypes DEF Got
  <2>2. Got - base \in Int /\ Got - base <= size /\ Answers(Got - base)
    BY <1>1, <1>5, <2>1 DEF ChunkUnderWay
  <2>3. toHost' = <<>> /\ Got - base = size
    BY <1>3, <2>2
  <2> HIDE DEF size
  <2>4. Got = base + size
    BY <1>1, <2>1, <2>3
  <2>5. Len(frameBuffer) = base + size /\ Inside(base + size)
    <3>1. /\ Inside(base + size)
          /\ \/ Len(frameBuffer) = base /\ Len(chunk) < size
             \/ Len(frameBuffer) = base + size /\ Len(chunk) = 0
      BY <1>5 DEF ChunkUnderWay, size
    <3> QED
      BY <1>1, <2>1, <2>4, <3>1
  <2>6. Got < FRAME_DATA_SIZE
    BY <2>5 DEF Inside, LinkInv, FirmwareInv, BuffersInBounds, Got
  <2>7. size = CHUNK_SIZE
    BY <1>1, <2>4, <2>6
  <2> QED
    BY <2>3, <2>4, <2>5, <2>6, <2>7
<1>6. CASE Complete /\ base + size = FRAME_DATA_SIZE /\ Answers(size)
  <2>1. toHost' = <<>>
    BY <1>1, <1>3, <1>6
  <2>2. ~(base + CHUNK_SIZE < FRAME_DATA_SIZE)
    <3> HIDE DEF size
    <3> QED
      BY <1>1, <1>6
  <2> QED
    BY <1>6, <2>1, <2>2
<1> QED
  BY <1>4, <1>5, <1>6 DEF Reading

LEMMA ReadLastChunkAckHealthy ==
  ASSUME LinkInv, HealthyInv, ReadLastChunkAck
  PROVE  HealthyInv'
<1>1. PICK to \in {"writeChunk", "drain"} :
        /\ to = IF base + CHUNK_SIZE < FRAME_DATA_SIZE THEN "writeChunk" ELSE "drain"
        /\ pc' = [pc EXCEPT !["puller"] = to]
  BY DEF ReadLastChunkAck, Goto
<1>2. /\ pc["puller"] = "readAck" /\ Receive /\ Head(toHost) = SizeToSend
      /\ base' = base + CHUNK_SIZE /\ offset' = 0 /\ toDevice' = toDevice
      /\ UNCHANGED <<deviceVars, frame, cableVars>>
  BY DEF ReadLastChunkAck, Receive
<1>3. WholeChunks'
  <2>1. PICK n \in Nat : base = n * CHUNK_SIZE
    BY DEF HealthyInv, WholeChunks
  <2>2. base + CHUNK_SIZE = (n + 1) * CHUNK_SIZE /\ n + 1 \in Nat
    BY <2>1, SizesAssumption
  <2>3. base' = (n + 1) * CHUNK_SIZE
    BY <1>2, <2>2
  <2> QED
    BY <2>2, <2>3 DEF WholeChunks
<1>4. "puller" \in Thread /\ Calling("puller") /\ pc["puller"] \notin {"closed", "opening"}
  BY <1>2 DEF Thread, Calling
<1>5. healthy => /\ port = "open"
                 /\ \A u \in Thread : Calling(u) => u = "puller"
                 /\ Phase(to)'
                 /\ ~booted => Unbooted'
  <2> SUFFICES ASSUME healthy
               PROVE  /\ port = "open"
                      /\ \A u \in Thread : Calling(u) => u = "puller"
                      /\ Phase(to)'
                      /\ ~booted => Unbooted'
    OBVIOUS
  <2>1. /\ port = "open" /\ \A u \in Thread : Calling(u) => u = "puller"
        /\ Reading
        /\ booted
    BY <1>2, <1>4, InCall DEF Phase, Receive
  <2>2. /\ toHost' = <<>>
        /\ IF base + CHUNK_SIZE < FRAME_DATA_SIZE
             THEN Inside(base + CHUNK_SIZE) /\ Len(frameBuffer) = base + CHUNK_SIZE
             ELSE Complete
    BY <1>2, <2>1, ChunkDone DEF HealthyInv
  <2>3. OnlyAcks'
    <3>1. Len(toHost') = 0
      BY <2>2
    <3> QED
      BY <3>1 DEF OnlyAcks
  <2>4. Mode' = Mode /\ Got' = Got /\ UNCHANGED <<state, frameBuffer, chunk, newState>>
    BY <1>2 DEF Mode, Got, deviceVars, parserVars, lightVars
  <2>5. CASE to = "writeChunk"
    <3>1. Inside(base + CHUNK_SIZE) /\ Len(frameBuffer) = base + CHUNK_SIZE
      BY <1>1, <2>2, <2>5
    <3>2. Inside(base)' /\ Len(frameBuffer') = base'
      BY <1>2, <2>4, <3>1 DEF Inside
    <3> QED
      BY <1>2, <2>1, <2>3, <2>5, <3>2 DEF Phase
  <2>6. CASE to = "drain"
    <3>1. Complete
      BY <1>1, <2>2, <2>6
    <3>2. Complete'
      BY <1>2, <2>4, <3>1 DEF Complete
    <3> QED
      BY <2>1, <2>2, <2>6, <3>2 DEF Phase
  <2> QED
    BY <2>5, <2>6
<1> QED
  BY <1>1, <1>2, <1>3, <1>4, <1>5, CallHealthy DEF Label

\* A healthy line is never so late that a chunk is sent again, and leaves nothing to
\* drain.
LEMMA RestOfSendHealthy ==
  ASSUME LinkInv, HealthyInv, ResendChunk \/ DrainByte \/ ReturnFromSend
  PROVE  HealthyInv'
<1>1. PICK to \in {"writeChunk", "drain", "idle"} :
        /\ pc["puller"] \in {"readAck", "drain"}
        /\ pc' = [pc EXCEPT !["puller"] = to]
        /\ UNCHANGED <<deviceVars, cableVars>>
  <2>1. pc = [pc EXCEPT !["puller"] = pc["puller"]]
    BY DeviceTypes
  <2> QED
    BY <2>1 DEF ResendChunk, DrainByte, ReturnFromSend, Goto, hostVars
<1>2. WholeChunks'
  <2>1. base' = base \/ base' = 0
    BY DEF ResendChunk, DrainByte, ReturnFromSend, sendVars, hostVars, ForgetLocals
  <2>2. CASE base' = base
    BY <2>2 DEF HealthyInv, WholeChunks
  <2>3. CASE base' = 0
    BY <2>3, SizesAssumption DEF WholeChunks
  <2> QED
    BY <2>1, <2>2, <2>3
<1>3. "puller" \in Thread /\ Calling("puller") /\ pc["puller"] \notin {"closed", "opening"}
  BY <1>1 DEF Thread, Calling
<1>4. healthy => /\ port = "open"
                 /\ \A u \in Thread : Calling(u) => u = "puller"
                 /\ Phase(to)'
                 /\ ~booted => Unbooted'
  <2> SUFFICES ASSUME healthy
               PROVE  /\ port = "open"
                      /\ \A u \in Thread : Calling(u) => u = "puller"
                      /\ Phase(to)'
                      /\ ~booted => Unbooted'
    OBVIOUS
  <2>1. /\ port = "open" /\ \A u \in Thread : Calling(u) => u = "puller"
        /\ Phase(pc["puller"])
        /\ booted
    BY <1>1, <1>3, InCall
  <2>2. ReturnFromSend /\ Complete /\ toHost = <<>>
    BY <2>1 DEF ResendChunk, DrainByte, ReturnFromSend, Receive, Phase
  <2>3. to = "idle" /\ UNCHANGED lineVars
    <3>1. pc'["puller"] = "idle" /\ pc'["puller"] = to /\ UNCHANGED lineVars
      BY <1>1, <1>3, <2>2, DeviceTypes DEF ReturnFromSend, Goto
    <3> QED
      BY <3>1
  <2>4. Commands("ready")'
    <3>1. Commands("ready")
      BY <2>2, NothingUnderWay DEF Complete
    <3> QED
      BY <1>1, <2>3, <3>1, CommandsKept DEF lineVars
  <2>5. OnlyAcks'
    <3>1. Len(toHost') = 0
      BY <2>2, <2>3 DEF lineVars
    <3> QED
      BY <3>1 DEF OnlyAcks
  <2> QED
    BY <2>1, <2>3, <2>4, <2>5 DEF Phase
<1> QED
  BY <1>1, <1>2, <1>3, <1>4, CallHealthy DEF Label

-----------------------------------------------------------------------------
(* The server ends, and another one starts.                                *)

LEMMA LeftOverKept ==
  ASSUME UNCHANGED <<state, frameBuffer, chunk, toDevice, frame>>, LeftOver
  PROVE  LeftOver'
<1>1. Mode' = Mode /\ Got' = Got
  BY DEF Mode, Got
<1>2. \A to : Commands(to)' <=> Commands(to)
  BY <1>1 DEF Commands
<1>3. \A sent : Before(sent)' <=> Before(sent)
  BY <1>1 DEF Before, BeforeAt
<1>4. \A sent : Inside(sent)' <=> Inside(sent)
  BY <1>1 DEF Inside
<1> QED
  BY <1>2, <1>3, <1>4 DEF LeftOver

LEMMA IdleLine ==
  ASSUME LinkInv, Mode = "ready", toDevice = <<>>
  PROVE  LeftOver /\ Commands("ready")
<1>1. Commands("ready") /\ "ready" \in Modes
  BY NothingUnderWay DEF Modes
<1> QED
  BY <1>1 DEF LeftOver

\* Whatever the call was doing, what it leaves is a part of it.
LEMMA PhaseLeavesOver ==
  ASSUME LinkInv, NEW label \in Label, Phase(label),
         label \in {"writeChunk", "readAck"} => pc["puller"] = label
  PROVE  LeftOver
<1>1. "type" \in Modes /\ "payload" \in Modes /\ "ready" \in Modes
  BY DEF Modes
<1>2. FRAME_DATA_SIZE \in Nat /\ 0 \in 0 .. FRAME_DATA_SIZE
  BY FrameSize
<1>3. Complete => LeftOver
  BY IdleLine DEF Complete
<1>4. CASE label = "writeChunk"
  <2>1. base \in 0 .. FRAME_DATA_SIZE
    BY <1>2, <1>4 DEF LinkInv, TypeOK, ChunkInFrame
  <2> QED
    BY <1>2, <1>4, <2>1 DEF Phase, LeftOver
<1>5. CASE label = "readAck"
  <2>1. base \in Nat /\ base < FRAME_DATA_SIZE
    BY <1>5 DEF LinkInv, TypeOK, ChunkInFrame
  <2>2. SizeToSend \in 0 .. FRAME_DATA_SIZE /\ base + SizeToSend \in 0 .. FRAME_DATA_SIZE
    BY <1>2, <2>1, ChunkBounds
  <2> QED
    BY <1>3, <1>5, <2>2 DEF Phase, Reading, ChunkUnderWay, LeftOver
<1>6. CASE label \notin {"writeChunk", "readAck"}
  BY <1>1, <1>3, <1>6 DEF Phase, LeftOver
<1> QED
  BY <1>4, <1>5, <1>6

\* Over a healthy line everything under way is a part of the latest call.
LEMMA UnderstoodLeavesOver ==
  ASSUME LinkInv, Understood
  PROVE  LeftOver
<1>1. CASE Silent
  BY <1>1 DEF Understood
<1>2. CASE ~Silent /\ \A t \in Thread : ~Calling(t)
  <2>1. Phase("idle") /\ "idle" \in Label
    BY <1>2 DEF Understood, AtWork, Label
  <2> QED
    BY <2>1, PhaseLeavesOver
<1>3. CASE ~Silent /\ \E t \in Thread : Calling(t)
  <2>1. PICK t \in Thread : Phase(pc[t])
    BY <1>3 DEF Understood, AtWork
  <2>2. pc[t] \in {"writeChunk", "readAck"} => pc["puller"] = pc[t]
    BY DEF Thread, LinkInv, OwnCalls
  <2>3. pc[t] \in Label
    BY DeviceTypes
  <2> QED
    BY <2>1, <2>2, <2>3, PhaseLeavesOver
<1> QED
  BY <1>1, <1>2, <1>3

LEMMA ExitHealthy ==
  ASSUME LinkInv, HealthyInv, Exit
  PROVE  HealthyInv'
<1>1. /\ \A t \in Thread : pc'[t] = "closed"
      /\ port' = "none" /\ base' = 0
      /\ UNCHANGED <<deviceVars, lineVars, frame, healthy>>
  BY DEF Exit, ForgetLocals, budgetVars
<1>2. WholeChunks'
  BY <1>1, SizesAssumption DEF WholeChunks
<1> SUFFICES ASSUME Understood
             PROVE  Understood'
  BY <1>1, <1>2 DEF HealthyInv
<1>3. OneCall' /\ Silent'
  BY <1>1 DEF OneCall, Calling, Silent
<1>4. LeftOver
  BY UnderstoodLeavesOver
<1>5. LeftOver'
  BY <1>1, <1>4, LeftOverKept DEF deviceVars, parserVars, lineVars
<1>6. (~booted => Unbooted)'
  BY <1>1, <1>3 DEF Understood, Unbooted, deviceVars, lineVars
<1> QED
  BY <1>3, <1>5, <1>6 DEF Understood

LEMMA OpenPortHealthy ==
  ASSUME LinkInv, HealthyInv, OpenPort
  PROVE  HealthyInv'
<1>1. /\ \A t \in Thread : pc'[t] = "opening"
      /\ pc["main"] = "closed" /\ port' # "dead"
      /\ UNCHANGED <<frame, base, healthy>>
  BY DEF OpenPort, OpenBoard, OpenNothing, sendVars, budgetVars
<1>2. WholeChunks'
  BY <1>1 DEF HealthyInv, WholeChunks
<1> SUFFICES ASSUME Understood
             PROVE  Understood'
  BY <1>1, <1>2 DEF HealthyInv
<1>3. OneCall' /\ Silent' /\ Silent
  BY <1>1 DEF OneCall, Calling, Silent, Thread
<1>4. CASE Reset /\ toDevice' = <<>>
  <2>1. Mode' = "ready" /\ Len(toDevice') = 0 /\ "ready" \in Modes
    BY <1>4 DEF Reset, Mode, Modes
  <2>2. Commands("ready")'
    BY <2>1, WalkNowhere DEF Commands
  <2>3. LeftOver' /\ Unbooted'
    BY <1>3, <2>1, <2>2 DEF LeftOver, Unbooted
  <2> QED
    BY <1>3, <2>3 DEF Understood
<1>5. CASE UNCHANGED <<deviceVars, toDevice>>
  <2>1. LeftOver'
    BY <1>1, <1>3, <1>5, LeftOverKept DEF Understood, deviceVars, parserVars
  <2>2. (~booted => Unbooted)'
    BY <1>3, <1>5 DEF Understood, Unbooted, deviceVars
  <2> QED
    BY <1>3, <2>1, <2>2 DEF Understood
<1> QED
  BY <1>4, <1>5 DEF OpenPort, OpenBoard, OpenNothing, lineVars

\* The sleep has outlasted the board's patience, so that a new line is a healthy one.
LEMMA PortReadyHealthy ==
  ASSUME SleepOutlasts, LinkInv, HealthyInv, PortReady
  PROVE  HealthyInv'
<1>1. /\ \A t \in Thread : pc'[t] = "idle"
      /\ pc["main"] = "opening" /\ napLeft = 0 /\ Flush
      /\ port' \in {"open", "none"} /\ (port' = "open" <=> port = "open")
      /\ UNCHANGED <<deviceVars, frame, base>>
  BY DEF PortReady, sendVars
<1>2. toDevice = <<>> /\ state = "WAIT_FOR_HEADER"
  BY <1>1, BoardAtRest
<1>3. toDevice' = <<>> /\ (port = "open" => toHost' = <<>>)
  BY <1>1, <1>2 DEF Flush, lineVars
<1>4. Mode' = "ready" /\ Len(toDevice') = 0 /\ "ready" \in Modes
  BY <1>1, <1>2, <1>3 DEF Mode, Modes, deviceVars
<1>5. Commands("ready")'
  BY <1>4, WalkNowhere DEF Commands
<1>6. WholeChunks' /\ port' # "dead"
  BY <1>1 DEF HealthyInv, WholeChunks
<1>7. OneCall' /\ \A t \in Thread : ~Calling(t)'
  BY <1>1 DEF OneCall, Calling
<1>8. Unbooted'
  BY <1>1, <1>3, <1>4 DEF Unbooted, Silent
<1>9. CASE port = "open"
  <2>1. ~Silent' /\ OnlyAcks'
    <3>1. Len(toHost') = 0
      BY <1>3, <1>9
    <3> QED
      BY <1>1, <1>9, <3>1 DEF Silent, OnlyAcks, Thread
  <2>2. AtWork'
    BY <1>4, <1>5, <1>7, <2>1 DEF AtWork, Phase
  <2> QED
    BY <1>6, <1>7, <1>8, <2>1, <2>2 DEF HealthyInv, Understood
<1>10. CASE port # "open"
  <2>1. Silent' /\ LeftOver'
    BY <1>1, <1>4, <1>5, <1>10 DEF Silent, LeftOver
  <2> QED
    BY <1>6, <1>7, <1>8, <2>1 DEF HealthyInv, Understood
<1> QED
  BY <1>9, <1>10

-----------------------------------------------------------------------------
(* The line and the clock.                                                 *)

\* While the host waits for a counter, a byte is under way or an answer.
LEMMA ReadingIsBusy ==
  ASSUME LinkInv, pc["puller"] = "readAck", Reading
  PROVE  toDevice # <<>> \/ toHost # <<>>
<1> SUFFICES ASSUME toDevice = <<>>, toHost = <<>>
             PROVE  FALSE
  OBVIOUS
<1>1. Len(toDevice) = 0 /\ Len(toHost) = 0
  OBVIOUS
<1>2. ~LastCounter
  BY <1>1 DEF LastCounter
<1>3. ~Before(SizeToSend)
  BY <1>1 DEF Before
<1>4. ~Inside(base + SizeToSend) \/ Got = base + SizeToSend
  BY <1>1, DeviceTypes DEF Inside, Got
<1> QED
  BY <1>2, <1>3, <1>4 DEF Reading, ChunkUnderWay

\* The clock of a healthy line ticks only between the commands.
LEMMA TickHealthy ==
  ASSUME LinkInv, HealthyInv, Tick
  PROVE  HealthyInv'
<1>1. /\ UNCHANGED <<booted, state, frameBuffer, chunk, newState, toDevice, toHost, pc, port,
                     frame, base, offset>>
      /\ healthy' => healthy /\ Quiescent
      /\ waited' = IF pc["puller"] = "readAck" THEN 1 ELSE waited
  BY DEF Tick, parserVars, lightVars, lineVars
<1>2. (port = "dead" => ~healthy)' /\ WholeChunks'
  BY <1>1 DEF HealthyInv, WholeChunks
<1> SUFFICES ASSUME healthy, Quiescent
             PROVE  Understood'
  BY <1>1, <1>2 DEF HealthyInv
<1>3. Understood
  BY DEF HealthyInv
<1>4. OneCall' /\ (Silent' <=> Silent)
  BY <1>1, <1>3 DEF Understood, OneCall, Calling, Silent
<1>5. (~booted => Unbooted)'
  BY <1>1, <1>3, <1>4 DEF Understood, Unbooted
<1>6. Mode' = Mode
  BY <1>1 DEF Mode
<1>7. CASE Silent
  BY <1>1, <1>3, <1>4, <1>5, <1>7, LeftOverKept DEF Understood
<1>8. CASE ~Silent
  <2>1. toDevice = <<>> /\ \A t \in Thread : Waiting(t)
    BY DEF Quiescent
  <2>2. AtWork
    BY <1>3, <1>8 DEF Understood
  <2>3. pc["puller"] # "readAck"
    <3> SUFFICES ASSUME pc["puller"] = "readAck"
                 PROVE  FALSE
      OBVIOUS
    <3>1. "puller" \in Thread /\ Calling("puller")
      BY DEF Thread, Calling
    <3>2. Reading
      BY <2>2, <3>1 DEF AtWork, Phase
    <3>3. toHost = <<>>
      BY <2>1, <3>1 DEF Waiting
    <3> QED
      BY <2>1, <3>2, <3>3, ReadingIsBusy
  <2>4. Mode = "ready"
    <3>1. ASSUME NEW t \in Thread, Calling(t)
          PROVE  Commands("ready")
      <4>1. pc[t] \in {"awaitAck", "readAck"}
        BY <2>1, <3>1 DEF Waiting, Calling
      <4>2. pc[t] = "awaitAck"
        BY <2>3, <4>1 DEF Thread, LinkInv, OwnCalls
      <4> QED
        BY <2>2, <3>1, <4>2 DEF AtWork, Phase
    <3>2. (\A t \in Thread : ~Calling(t)) => Commands("ready")
      BY <2>2 DEF AtWork, Phase
    <3> QED
      BY <2>1, <3>1, <3>2, NothingUnderWay
  <2>5. \A label \in Label : Phase(label) => Phase(label)'
    BY <1>1, <1>6, <2>3, SameView
  <2>6. AtWork'
    BY <1>1, <1>6, <2>2, <2>4, <2>5, AtWorkKept
  <2> QED
    BY <1>4, <1>5, <1>8, <2>6 DEF Understood
<1> QED
  BY <1>7, <1>8

\* A line that has lost something, or its board, is not healthy; and a board that is
\* plugged in is not one that the server talks to.
LEMMA CableHealthy ==
  ASSUME LinkInv, HealthyInv, Lose \/ Unplug \/ Plug
  PROVE  HealthyInv'
<1>1. CASE Lose \/ Unplug
  BY <1>1 DEF HealthyInv, WholeChunks, Lose, Unplug, hostVars, sendVars
<1>2. CASE Plug
  <2>1. UNCHANGED <<deviceVars, toDevice, toHost, pc, frame, base, offset, waited, port, healthy>>
    BY <1>2 DEF Plug, firmwareVars, lineVars, hostVars, sendVars, budgetVars
  <2>2. (port = "dead" => ~healthy)' /\ WholeChunks'
    BY <2>1 DEF HealthyInv, WholeChunks
  <2>3. port # "open" /\ Silent /\ Silent'
    BY <1>2, <2>1 DEF LinkInv, BoardThere, Plug, Silent
  <2>4. Understood => Understood'
    <3> SUFFICES ASSUME Understood
                 PROVE  Understood'
      OBVIOUS
    <3>1. LeftOver'
      BY <2>1, <2>3, LeftOverKept DEF Understood, deviceVars, parserVars
    <3>2. OneCall' /\ (~booted => Unbooted)'
      BY <2>1, <2>3 DEF Understood, OneCall, Calling, Unbooted, deviceVars
    <3> QED
      BY <2>3, <3>1, <3>2 DEF Understood
  <2> QED
    BY <2>1, <2>2, <2>4 DEF HealthyInv
<1> QED
  BY <1>1, <1>2

-----------------------------------------------------------------------------
LEMMA HealthyInit == Init => HealthyInv
<1> SUFFICES ASSUME Init
             PROVE  HealthyInv
  OBVIOUS
<1>1. LinkInv
  BY LinkInitInv
<1>2. toDevice = <<>> /\ Mode = "ready" /\ Len(toDevice) = 0
  BY DEF Init, FirmwareInit, PowerUp, Mode
<1>3. LeftOver
  BY <1>1, <1>2, IdleLine
<1>4. \A t \in Thread : pc[t] = "closed"
  BY DEF Init
<1>5. Understood
  BY <1>2, <1>3, <1>4 DEF Understood, OneCall, Calling, Silent, Unbooted, Thread
<1> QED
  BY <1>5, SizesAssumption DEF Init, HealthyInv, WholeChunks

LEMMA HealthyStutters ==
  ASSUME LinkInv, HealthyInv, UNCHANGED vars
  PROVE  HealthyInv'
<1>1. UNCHANGED <<deviceVars, toDevice, toHost, pc, frame, base, offset, waited, port, healthy>>
  BY DEF vars, firmwareVars, lineVars, hostVars, sendVars, cableVars, budgetVars
<1>2. (port = "dead" => ~healthy)' /\ WholeChunks'
  BY <1>1 DEF HealthyInv, WholeChunks
<1>3. Understood => Understood'
  <2> SUFFICES ASSUME Understood
               PROVE  Understood'
    OBVIOUS
  <2>1. UNCHANGED <<booted, state, frameBuffer, chunk, newState, quiet>> /\ Mode' = Mode
    BY <1>1 DEF deviceVars, parserVars, lightVars, Mode
  <2>2. OneCall' /\ (Silent' <=> Silent) /\ (~booted => Unbooted)'
    BY <1>1, <2>1 DEF Understood, OneCall, Calling, Silent, Unbooted
  <2>3. Silent => LeftOver'
    BY <1>1, <2>1, LeftOverKept DEF Understood
  <2>4. ~Silent => AtWork'
    <3>1. \A label \in Label : Phase(label) => Phase(label)'
      BY <1>1, <2>1, SameView
    <3> QED
      BY <1>1, <2>1, <3>1, AtWorkKept DEF Understood, AtWork
  <2> QED
    BY <2>2, <2>3, <2>4 DEF Understood
<1> QED
  BY <1>1, <1>2, <1>3 DEF HealthyInv

LEMMA HealthyNext ==
  ASSUME ~OVERLAP, SleepOutlasts, LinkInv, HealthyInv, [Next]_vars
  PROVE  HealthyInv'
<1>1. CASE SendStep \/ SettingStep
  BY <1>1, HeaderHealthy, SettingHealthy, FrameCommandHealthy, WriteChunkHealthy,
     ReadChunkAckHealthy, ReadLastChunkAckHealthy, RestOfSendHealthy
  DEF SendStep, SettingStep, Thread
<1> QED
  BY <1>1, DeviceHealthy, StartHealthy, ExitHealthy, OpenPortHealthy, PortReadyHealthy,
     CableHealthy, TickHealthy, HealthyStutters DEF Next

\* The inductive invariant of a healthy line: bytes are never understood otherwise
\* than they were meant.
THEOREM HealthyInvariant ==
  ASSUME ~OVERLAP, SleepOutlasts
  PROVE  Spec => []HealthyInv
<1>1. LinkInv /\ HealthyInv /\ [Next]_vars => HealthyInv'
  BY HealthyNext
<1> QED
  BY <1>1, HealthyInit, LinkInvariant, PTL DEF Spec

-----------------------------------------------------------------------------
(* What follows from it.                                                   *)

\* A device in the middle of a frame reads no commands.
LEMMA NoWalkFromFrame ==
  ASSUME NEW n \in Nat, NEW bytes, Walk(bytes, n, "frame", "ready")
  PROVE  FALSE
<1>1. CASE n = 0
  BY <1>1, WalkNowhere DEF Modes
<1>2. CASE n # 0
  <2>1. n >= 1 /\ 1 \in 1 .. n
    BY <1>2
  <2>2. PICK mode \in [0 .. n -> Modes] :
          mode[0] = "frame" /\ \A i \in 1 .. n : Leads(mode[i - 1], bytes[i], mode[i])
    BY DEF Walk
  <2>3. Leads("frame", bytes[1], mode[1])
    <3>1. Leads(mode[1 - 1], bytes[1], mode[1]) /\ 1 - 1 = 0
      BY <2>1, <2>2
    <3> QED
      BY <2>2, <3>1
  <2> QED
    BY <2>3 DEF Leads
<1> QED
  BY <1>1, <1>2

LEMMA InsideAgrees ==
  ASSUME LinkInv, NEW sent \in 0 .. FRAME_DATA_SIZE, Inside(sent)
  PROVE  frameBuffer \o chunk \o toDevice = SubSeq(FrameData(frame), 1, sent)
<1> DEFINE data == FrameData(frame)
           held == frameBuffer \o chunk
<1>1. /\ frameBuffer \in Seq(Byte) /\ chunk \in Seq(Byte) /\ toDevice \in Seq(Byte)
      /\ data \in Seq(Byte) /\ Len(data) = FRAME_DATA_SIZE
      /\ FRAME_DATA_SIZE \in Nat
  BY DeviceTypes, FrameDataBytes, FrameSize
<1>2. /\ Got + Len(toDevice) = sent
      /\ \A i \in 1 .. Len(frameBuffer) : frameBuffer[i] = data[i]
      /\ \A i \in 1 .. Len(chunk) : chunk[i] = data[Len(frameBuffer) + i]
      /\ \A i \in 1 .. Len(toDevice) : toDevice[i] = data[Got + i]
  BY DEF Inside
<1> HIDE DEF data
<1>3. held \in Seq(Byte) /\ Len(held) = Got /\ \A i \in 1 .. Got : held[i] = data[i]
  <2>1. /\ held \in Seq(Byte) /\ Len(held) = Len(frameBuffer) + Len(chunk)
        /\ \A i \in 1 .. Len(frameBuffer) + Len(chunk) :
             held[i] = IF i <= Len(frameBuffer) THEN frameBuffer[i]
                       ELSE chunk[i - Len(frameBuffer)]
    BY <1>1, ConcatProperties
  <2> HIDE DEF held
  <2>2. ASSUME NEW i \in 1 .. Got
        PROVE  held[i] = data[i]
    <3>1. CASE i <= Len(frameBuffer)
      <4>1. i \in 1 .. Len(frameBuffer)
        BY <1>1, <3>1
      <4>2. held[i] = frameBuffer[i]
        BY <2>1, <3>1 DEF Got
      <4> QED
        BY <1>2, <4>1, <4>2
    <3>2. CASE ~(i <= Len(frameBuffer))
      <4>1. /\ i - Len(frameBuffer) \in 1 .. Len(chunk)
            /\ Len(frameBuffer) + (i - Len(frameBuffer)) = i
        BY <1>1, <3>2 DEF Got
      <4>2. held[i] = chunk[i - Len(frameBuffer)]
        BY <2>1, <3>2 DEF Got
      <4>3. chunk[i - Len(frameBuffer)] = data[Len(frameBuffer) + (i - Len(frameBuffer))]
        BY <1>2, <4>1
      <4> QED
        BY <4>1, <4>2, <4>3
    <3> QED
      BY <3>1, <3>2
  <2> QED
    BY <2>1, <2>2 DEF Got
<1> HIDE DEF held
<1>4. /\ held \o toDevice \in Seq(Byte) /\ Len(held \o toDevice) = sent
      /\ \A i \in 1 .. sent : (held \o toDevice)[i] = data[i]
  <2>1. /\ held \o toDevice \in Seq(Byte) /\ Len(held \o toDevice) = Got + Len(toDevice)
        /\ \A i \in 1 .. Got + Len(toDevice) :
             (held \o toDevice)[i] = IF i <= Got THEN held[i] ELSE toDevice[i - Got]
    BY <1>1, <1>3, ConcatProperties
  <2>2. ASSUME NEW i \in 1 .. sent
        PROVE  (held \o toDevice)[i] = data[i]
    <3>1. Got \in Nat /\ Len(toDevice) \in Nat
      BY <1>1, <1>3
    <3>2. CASE i <= Got
      BY <1>2, <1>3, <2>1, <3>1, <3>2
    <3>3. CASE ~(i <= Got)
      <4>1. i - Got \in 1 .. Len(toDevice) /\ Got + (i - Got) = i
        BY <1>2, <3>1, <3>3
      <4> QED
        BY <1>2, <2>1, <3>3, <4>1
    <3> QED
      BY <3>2, <3>3
  <2> QED
    BY <1>2, <2>1, <2>2
<1>5. /\ SubSeq(data, 1, sent) \in Seq(Byte)
      /\ Len(SubSeq(data, 1, sent)) = sent
      /\ \A i \in 1 .. sent : SubSeq(data, 1, sent)[i] = data[i]
  <2>1. \A i \in 1 .. sent : data[i] \in Byte
    <3>1. \A i \in 1 .. sent : i \in 1 .. Len(data)
      BY <1>1
    <3> QED
      BY <1>1, <3>1, ElementOfSeq
  <2>2. sent \in Int /\ 1 \in Int /\ sent - 1 + 1 = sent /\ \A i \in 1 .. sent : 1 + i - 1 = i
    BY <1>1
  <2>3. /\ SubSeq(data, 1, sent) \in Seq(Byte)
        /\ Len(SubSeq(data, 1, sent)) = IF 1 <= sent THEN sent - 1 + 1 ELSE 0
        /\ \A i \in 1 .. sent - 1 + 1 : SubSeq(data, 1, sent)[i] = data[1 + i - 1]
    BY <2>1, <2>2, SubSeqProperties
  <2> QED
    BY <1>1, <2>2, <2>3
<1>6. held \o toDevice = SubSeq(data, 1, sent)
  BY <1>4, <1>5, SeqEqual
<1> QED
  BY <1>6 DEF held, data

\* While the device reads a frame, what it has and what is under way is what
\* sendData has sent of it, byte for byte, for frames and chunks of any size, as
\* long as the line is healthy and no key is pressed while a frame is sent.
THEOREM TheEndsAgree ==
  ASSUME ~OVERLAP, SleepOutlasts
  PROVE  Spec => []EndsAgree
<1>1. LinkInv /\ HealthyInv => EndsAgree
  <2> SUFFICES ASSUME LinkInv, HealthyInv, healthy, state = "READ_LED_FRAME",
                      pc["puller"] \in {"writeChunk", "readAck"}
               PROVE  frameBuffer \o chunk \o toDevice =
                        SubSeq(FrameData(frame), 1,
                               IF pc["puller"] = "readAck" THEN base + SizeToSend ELSE base)
    BY DEF EndsAgree
  <2>1. "puller" \in Thread /\ Calling("puller")
    BY DEF Thread, Calling
  <2>2. Phase(pc["puller"])
    BY <2>1, InCall
  <2>3. Mode = "frame"
    BY DEF Mode
  <2>4. ASSUME NEW sent, Before(sent)
        PROVE  FALSE
    <3>1. PICK k \in 1 .. Len(toDevice) : Walk(toDevice, k - 1, Mode, "ready")
      BY <2>4 DEF Before, BeforeAt
    <3>2. k - 1 \in Nat
      BY DeviceTypes
    <3> QED
      BY <2>3, <3>1, <3>2, NoWalkFromFrame
  <2>5. base \in Nat /\ base < FRAME_DATA_SIZE /\ FRAME_DATA_SIZE \in Nat
    BY FrameSize DEF LinkInv, TypeOK, ChunkInFrame
  <2>6. CASE pc["puller"] = "writeChunk"
    <3>1. Inside(base) /\ base \in 0 .. FRAME_DATA_SIZE
      BY <2>2, <2>4, <2>5, <2>6 DEF Phase
    <3> QED
      BY <2>6, <3>1, InsideAgrees
  <2>7. CASE pc["puller"] = "readAck"
    <3>1. Inside(base + SizeToSend)
      BY <2>2, <2>3, <2>4, <2>7 DEF Phase, Reading, ChunkUnderWay, Complete
    <3>2. base + SizeToSend \in 0 .. FRAME_DATA_SIZE
      BY <2>5, ChunkBounds
    <3> QED
      BY <2>7, <3>1, <3>2, InsideAgrees
  <2> QED
    BY <2>6, <2>7
<1> QED
  BY <1>1, LinkInvariant, HealthyInvariant, PTL

\* Which steps touch the lights at all: those of the device, and a reset.
LEMMA LightsTouched ==
  ASSUME Next
  PROVE  \/ Device
         \/ OpenPort /\ Reset
         \/ Unplug
         \/ UNCHANGED <<booted, lightVars>>
<1>1. CASE SendStep \/ SettingStep \/ (\E f \in FRAMES : StartFrame(f))
           \/ (\E value \in SPEEDS : PressSpeedKey(value)) \/ Exit \/ PortReady \/ Lose
  <2>1. UNCHANGED deviceVars
    BY <1>1
    DEF SendStep, SettingStep, HeaderStep, WriteHeader, ReadHeaderAck, RetryHeader,
        WriteFrameCommand, WriteChunk, ReadChunkAck, ReadLastChunkAck, ResendChunk, DrainByte,
        ReturnFromSend, WriteSetCommand, WriteSetId, WriteSetValue, WriteSetting, StartFrame,
        PressSpeedKey, Exit, PortReady, Lose
  <2> QED
    BY <2>1 DEF deviceVars
<1>2. CASE OpenPort
  BY <1>2 DEF OpenPort, OpenBoard, OpenNothing, deviceVars
<1>3. CASE Plug \/ Tick
  BY <1>3 DEF Plug, Tick, firmwareVars, deviceVars
<1> QED
  BY <1>1, <1>2, <1>3 DEF Next

\* What a step of the device may do to the lights while the line is healthy.
LEMMA DeviceShows ==
  ASSUME LinkInv, HealthyInv, healthy, Device
  PROVE  /\ newState' = newState \/ newState' = frame
         /\ lerpSpeed' # lerpSpeed => lerpSpeed' \in {2 * value : value \in SPEEDS}
         /\ UNCHANGED <<pc, frame>>
<1>1. DeviceStep /\ UNCHANGED <<hostVars, cableVars>> /\ UNCHANGED <<pc, frame>>
  BY DEF Device, Powered, hostVars, sendVars
<1>2. CASE ReadByte
  <2>1. LeftOver
    BY UnderstoodLeavesOver DEF HealthyInv
  <2>2. (\E to \in Modes : Commands(to)) => Discreet
    BY <1>2, ReadCommands
  <2>3. (\E sent \in 0 .. FRAME_DATA_SIZE : Before(sent)) => Discreet
    <3>1. \A sent \in 0 .. FRAME_DATA_SIZE : sent \in Nat
      BY FrameSize
    <3> QED
      BY <1>1, <1>2, <3>1, ReadBefore
  <2>4. ASSUME NEW sent \in 0 .. FRAME_DATA_SIZE, Inside(sent)
        PROVE  lerpSpeed' = lerpSpeed /\ (newState' = newState \/ newState' = frame)
    BY <1>1, <1>2, <2>4, ReadInside DEF Complete
  <2> QED
    BY <1>1, <2>1, <2>2, <2>3, <2>4 DEF LeftOver, Discreet
<1>3. CASE Setup \/ MissByte \/ GiveUp
  BY <1>1, <1>3 DEF Setup, MissByte, GiveUp, deviceVars, lightVars
<1> QED
  BY <1>1, <1>2, <1>3 DEF DeviceStep

\* When sendData returns, the frame it has sent is what the device shows.
THEOREM FramesShown ==
  ASSUME ~OVERLAP, SleepOutlasts
  PROVE  Spec => FrameShown
<1> DEFINE Shown == healthy /\ pc["puller"] = "drain" /\ pc'["puller"] = "idle"
                      => newState' = frame
<1>1. LinkInv /\ HealthyInv /\ [Next]_vars => [Shown]_vars
  <2> SUFFICES ASSUME LinkInv, HealthyInv, Next, healthy, pc["puller"] = "drain",
                      pc'["puller"] = "idle"
               PROVE  newState' = frame
    OBVIOUS
  <2>1. "puller" \in Thread /\ Calling("puller")
    BY DEF Thread, Calling
  <2>2. newState = frame
    <3>1. Phase(pc["puller"])
      BY <2>1, InCall
    <3> QED
      BY <3>1 DEF Phase, Complete
  <2>3. pc' # pc /\ pc["main"] # "closed"
    BY <2>1 DEF LinkInv, Together, Thread
  <2>4. UNCHANGED lightVars
    BY <2>3, LightsTouched DEF Device, Powered, OpenPort, Unplug, hostVars
  <2> QED
    BY <2>2, <2>4 DEF lightVars
<1>2. Spec => [][Shown]_vars
  BY <1>1, LinkInvariant, HealthyInvariant, PTL DEF Spec
<1> QED
  BY <1>2 DEF FrameShown

\* Nothing else is ever shown, and no other speed set: no byte of a command or of a
\* frame is taken for a byte of another, whatever the values of ids and colours, and
\* whenever a server has been killed.
THEOREM NoneGarbled ==
  ASSUME ~OVERLAP, SleepOutlasts
  PROVE  Spec => NothingGarbled
<1> DEFINE Clear == healthy /\ booted' =>
             /\ newState' # newState => newState' = frame
             /\ lerpSpeed' # lerpSpeed => lerpSpeed' \in {2 * value : value \in SPEEDS}
<1>1. LinkInv /\ HealthyInv /\ [Next]_vars => [Clear]_vars
  <2> SUFFICES ASSUME LinkInv, HealthyInv, Next, healthy, booted'
               PROVE  /\ newState' # newState => newState' = frame
                      /\ lerpSpeed' # lerpSpeed =>
                           lerpSpeed' \in {2 * value : value \in SPEEDS}
    OBVIOUS
  <2>1. ~Reset
    BY DEF Reset
  <2>2. Device \/ UNCHANGED lightVars
    BY <2>1, LightsTouched DEF Unplug
  <2> QED
    BY <2>2, DeviceShows DEF lightVars
<1>2. Spec => [][Clear]_vars
  BY <1>1, LinkInvariant, HealthyInvariant, PTL DEF Spec
<1> QED
  BY <1>2, PTL DEF NothingGarbled

-----------------------------------------------------------------------------
(* The channel.                                                            *)

\* Nothing is lost, nobody late and nothing unplugged.
SoundLine == MAX_LOSS = 0 /\ MAX_SLACK = 0 /\ MAX_UNPLUG = 0

LEMMA StaysHealthy ==
  ASSUME SoundLine
  PROVE  Spec => []healthy
<1>1. Init => healthy
  BY DEF Init
<1>2. LinkInv /\ healthy /\ [Next]_vars => healthy'
  <2> SUFFICES ASSUME LinkInv, healthy, [Next]_vars
               PROVE  healthy'
    OBVIOUS
  <2>1. lossLeft = 0 /\ slackLeft = 0 /\ unplugsLeft = 0
    BY DEF SoundLine, LinkInv, TypeOK
  <2>2. ~Lose /\ ~Unplug
    BY <2>1 DEF Lose, Unplug
  <2>3. CASE SendStep \/ SettingStep \/ (\E f \in FRAMES : StartFrame(f))
             \/ (\E value \in SPEEDS : PressSpeedKey(value)) \/ Device
    <3>1. UNCHANGED cableVars
      BY <2>3
      DEF SendStep, SettingStep, HeaderStep, WriteHeader, ReadHeaderAck, RetryHeader,
          WriteFrameCommand, WriteChunk, ReadChunkAck, ReadLastChunkAck, ResendChunk,
          DrainByte, ReturnFromSend, WriteSetCommand, WriteSetId, WriteSetValue, WriteSetting,
          StartFrame, PressSpeedKey, Device, Powered
    <3> QED
      BY <3>1 DEF cableVars, budgetVars
  <2>4. CASE Exit \/ OpenPort \/ PortReady \/ Plug \/ UNCHANGED vars
    BY <2>4 DEF Exit, OpenPort, PortReady, Plug, vars, cableVars, budgetVars
  <2>5. CASE Tick
    <3>1. ~(slackLeft > 0)
      BY <2>1
    <3> QED
      BY <2>5, <3>1 DEF Tick
  <2> QED
    BY <2>2, <2>3, <2>4, <2>5 DEF Next
<1> QED
  BY <1>1, <1>2, LinkInvariant, PTL DEF Spec

InSend == pc["puller"] \notin {"closed", "opening", "idle"}

LEMMA ChannelStep ==
  ASSUME ~OVERLAP, SleepOutlasts, SoundLine, LinkInv, HealthyInv, healthy, [Next]_vars
  PROVE  [Channel!Next]_Channel!channelVars
<1> USE DEF Channel!channelVars
<1>1. CASE Device
  <2>1. UNCHANGED <<pc, frame>> /\ (newState' = newState \/ newState' = frame)
    BY <1>1, DeviceShows
  <2>2. CASE newState' = frame
    BY <2>1, <2>2 DEF Channel!Next, Channel!Show
  <2> QED
    BY <2>1, <2>2
<1>2. CASE (\E value \in SPEEDS : PressSpeedKey(value)) \/ SettingStep
  <2>1. UNCHANGED <<frame, newState>>
    BY <1>2
    DEF PressSpeedKey, SettingStep, HeaderStep, WriteHeader, ReadHeaderAck, RetryHeader,
        WriteSetCommand, WriteSetId, WriteSetValue, WriteSetting, sendVars, deviceVars, lightVars
  <2>2. pc'["puller"] = pc["puller"]
    <3>1. \E label : pc' = [pc EXCEPT !["main"] = label]
      BY <1>2
      DEF PressSpeedKey, SettingStep, HeaderStep, WriteHeader, ReadHeaderAck, RetryHeader,
          WriteSetCommand, WriteSetId, WriteSetValue, WriteSetting, Goto
    <3> QED
      BY <3>1, DeviceTypes DEF Thread
  <2> QED
    BY <2>1, <2>2
<1>3. CASE \E f \in FRAMES : StartFrame(f)
  <2>1. PICK f \in FRAMES : StartFrame(f)
    BY <1>3
  <2>2. pc["puller"] = "idle" /\ pc'["puller"] = "header" /\ frame' = f /\ newState' = newState
    BY <2>1, DeviceTypes DEF StartFrame, MayStart, Goto, Thread, deviceVars, lightVars
  <2>3. Channel!Offer(f)
    BY <2>2 DEF Channel!Offer
  <2> QED
    BY <2>3 DEF Channel!Next
<1>4. CASE SendStep
  <2>1. /\ UNCHANGED <<frame, newState>> /\ InSend
        /\ \E label : pc' = [pc EXCEPT !["puller"] = label]
    <3>1. UNCHANGED <<frame, newState>>
      BY <1>4
      DEF SendStep, HeaderStep, WriteHeader, ReadHeaderAck, RetryHeader, WriteFrameCommand,
          WriteChunk, ReadChunkAck, ReadLastChunkAck, ResendChunk, DrainByte, ReturnFromSend,
          hostVars, sendVars, deviceVars, lightVars
    <3>2. InSend
      BY <1>4
      DEF SendStep, HeaderStep, WriteHeader, ReadHeaderAck, RetryHeader, WriteFrameCommand,
          WriteChunk, ReadChunkAck, ReadLastChunkAck, ResendChunk, DrainByte, ReturnFromSend,
          InSend
    <3>3. pc = [pc EXCEPT !["puller"] = pc["puller"]]
      BY DeviceTypes
    <3>4. \E label : pc' = [pc EXCEPT !["puller"] = label]
      BY <1>4, <3>3
      DEF SendStep, HeaderStep, WriteHeader, ReadHeaderAck, RetryHeader, WriteFrameCommand,
          WriteChunk, ReadChunkAck, ReadLastChunkAck, ResendChunk, DrainByte, ReturnFromSend,
          Goto, hostVars
    <3> QED
      BY <3>1, <3>2, <3>4
  <2>2. CASE InSend'
    BY <2>1, <2>2 DEF InSend
  <2>3. CASE ~InSend'
    <3>1. ReturnFromSend
      <4>1. "puller" \in Thread
        BY DEF Thread
      <4> QED
        BY <1>4, <2>1, <2>3, <4>1, DeviceTypes
        DEF SendStep, HeaderStep, WriteHeader, ReadHeaderAck, RetryHeader, WriteFrameCommand,
            WriteChunk, ReadChunkAck, ReadLastChunkAck, ResendChunk, DrainByte, Goto, hostVars,
            AfterHeader, InSend
    <3>2. newState = frame
      <4>1. Phase(pc["puller"])
        <5>1. "puller" \in Thread /\ Calling("puller")
          BY <2>1 DEF Thread, Calling, InSend
        <5> QED
          BY <5>1, InCall
      <4> QED
        BY <3>1, <4>1 DEF ReturnFromSend, Phase, Complete
    <3>3. Channel!Return
      BY <2>1, <2>3, <3>2 DEF Channel!Return, InSend
    <3> QED
      BY <3>3 DEF Channel!Next
  <2> QED
    BY <2>2, <2>3
<1>5. CASE Exit
  <2>1. pc'["puller"] = "closed" /\ UNCHANGED <<frame, newState>>
    BY <1>5 DEF Exit, Thread, deviceVars, lightVars
  <2>2. CASE InSend
    BY <2>1, <2>2 DEF Channel!Next, Channel!Abandon, InSend
  <2> QED
    BY <2>1, <2>2 DEF InSend
<1>6. CASE OpenPort
  <2>1. pc["puller"] = "closed" /\ pc'["puller"] = "opening" /\ frame' = frame
    BY <1>6 DEF OpenPort, LinkInv, Together, Thread, sendVars
  <2>2. CASE Reset
    <3>1. newState' = Dark
      BY <2>2 DEF Reset, Dark
    <3> QED
      BY <2>1, <3>1 DEF Channel!Next, Channel!GoDark
  <2>3. CASE UNCHANGED deviceVars
    BY <2>1, <2>3 DEF deviceVars, lightVars
  <2> QED
    BY <1>6, <2>2, <2>3 DEF OpenPort, OpenBoard, OpenNothing
<1>7. CASE PortReady
  <2>1. pc["puller"] = "opening" /\ pc'["puller"] = "idle" /\ UNCHANGED <<frame, newState>>
    BY <1>7 DEF PortReady, LinkInv, Together, Thread, sendVars, deviceVars, lightVars
  <2> QED
    BY <2>1
<1>8. ~Lose /\ ~Unplug
  BY DEF Lose, Unplug, SoundLine, LinkInv, TypeOK
<1>9. CASE Plug \/ Tick \/ UNCHANGED vars
  BY <1>9
  DEF Plug, Tick, vars, firmwareVars, deviceVars, lightVars, hostVars, sendVars
<1> QED
  BY <1>1, <1>2, <1>3, <1>4, <1>5, <1>6, <1>7, <1>8, <1>9 DEF Next

\* A sound line is the channel that the effects may rely on, as far as safety goes:
\* every step of the two ends is one of the channel's, or none.
THEOREM SoundLineIsChannel ==
  ASSUME ~OVERLAP, SleepOutlasts, SoundLine
  PROVE  Spec => Channel!Safety
<1>1. Init => Channel!Init
  BY DEF Init, FirmwareInit, PowerUp, Dark, Channel!Init, Thread
<1>2. LinkInv /\ HealthyInv /\ healthy /\ [Next]_vars => [Channel!Next]_Channel!channelVars
  BY ChannelStep
<1> QED
  BY <1>1, <1>2, LinkInvariant, HealthyInvariant, StaysHealthy, PTL
  DEF Spec, Channel!Safety
=============================================================================
