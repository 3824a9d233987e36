------------------------ MODULE SerialProtocolProofs ------------------------
(***************************************************************************)
(* What holds of the serial line whatever it loses, whoever is late and     *)
(* whenever the board is unplugged or the server killed, for frames and     *)
(* chunks of any size.                                                      *)
(***************************************************************************)
EXTENDS SerialProtocol, FirmwareProofs, SequenceTheorems

\* The server's two threads start and end together.
Together ==
  \A t, u \in Thread : pc[t] \in {"closed", "opening"} => pc[u] = pc[t]

\* Each thread makes its own kind of call.
OwnCalls ==
  /\ pc["puller"] \notin {"setCommand", "setId", "setValue"}
  /\ pc["main"] \notin {"command", "writeChunk", "readAck", "drain"}

\* A port that is open has the board at its other end, and a board that has not
\* booted has read nothing.
BoardThere ==
  /\ port = "open" => plugged
  /\ ~booted => state = "WAIT_FOR_HEADER"

\* While a new server sleeps, the time that has passed was either slack, or has
\* made the board's silence longer.
Slept == OPEN_SLEEP - napLeft
SlackUsed == MAX_SLACK - slackLeft
Patience ==
  pc["main"] = "opening" =>
    /\ toDevice # <<>> => Slept <= SlackUsed
    /\ state # "WAIT_FOR_HEADER" => Slept <= SlackUsed + quiet

LinkInv ==
  /\ TypeOK
  /\ FirmwareInv
  /\ ChunkInFrame
  /\ Together
  /\ OwnCalls
  /\ BoardThere
  /\ Patience

-----------------------------------------------------------------------------
(* Frames and their bytes.                                                 *)

LEMMA RecordBytes ==
  ASSUME NEW f \in [Led -> Colour], NEW id \in Led
  PROVE  /\ RecordOf(f, id) \in Seq(Byte)
         /\ Len(RecordOf(f, id)) = 4
         /\ RecordOf(f, id)[1] = id
         /\ <<RecordOf(f, id)[2], RecordOf(f, id)[3], RecordOf(f, id)[4]>> = f[id]
<1>1. PICK r \in Byte, g \in Byte, b \in Byte : f[id] = <<r, g, b>>
  BY DEF Colour
<1>2. id \in Byte
  BY SizesAssumption DEF Led, Byte
<1> DEFINE colour == <<r, g, b>>
           head == <<id>>
<1>3. /\ head \in Seq(Byte) /\ Len(head) = 1 /\ head[1] = id
      /\ colour \in Seq(Byte) /\ Len(colour) = 3
      /\ colour[1] = r /\ colour[2] = g /\ colour[3] = b
  BY <1>2
<1> HIDE DEF head, colour
<1>4. /\ head \o colour \in Seq(Byte)
      /\ Len(head \o colour) = 4
      /\ (head \o colour)[1] = id
      /\ (head \o colour)[2] = r /\ (head \o colour)[3] = g /\ (head \o colour)[4] = b
  <2>1. /\ head \o colour \in Seq(Byte)
        /\ Len(head \o colour) = Len(head) + Len(colour)
        /\ \A n \in 1 .. Len(head) + Len(colour) :
             (head \o colour)[n] = IF n <= Len(head) THEN head[n] ELSE colour[n - Len(head)]
    BY <1>3, ConcatProperties
  <2> QED
    BY <1>3, <2>1
<1> QED
  BY <1>1, <1>4 DEF RecordOf, head, colour

LEMMA RecordPlace ==
  ASSUME NEW n \in 1 .. FRAME_DATA_SIZE
  PROVE  (n - 1) \div 4 \in Led /\ ((n - 1) % 4) + 1 \in 1 .. 4
BY SizesAssumption DEF FRAME_DATA_SIZE, Led

LEMMA FrameDataBytes ==
  ASSUME NEW f \in [Led -> Colour]
  PROVE  /\ FrameData(f) \in Seq(Byte)
         /\ Len(FrameData(f)) = FRAME_DATA_SIZE
<1>1. FrameData(f) \in [1 .. FRAME_DATA_SIZE -> Byte]
  <2> SUFFICES ASSUME NEW n \in 1 .. FRAME_DATA_SIZE
               PROVE  RecordOf(f, (n - 1) \div 4)[((n - 1) % 4) + 1] \in Byte
    BY DEF FrameData
  <2>1. (n - 1) \div 4 \in Led /\ ((n - 1) % 4) + 1 \in 1 .. 4
    BY RecordPlace
  <2> DEFINE id == (n - 1) \div 4
             k == ((n - 1) % 4) + 1
  <2> HIDE DEF id, k
  <2>2. id \in Led /\ k \in 1 .. 4
    BY <2>1 DEF id, k
  <2>3. RecordOf(f, id) \in Seq(Byte) /\ Len(RecordOf(f, id)) = 4
    BY <2>2, RecordBytes
  <2>4. RecordOf(f, id)[k] \in Byte
    BY <2>2, <2>3, ElementOfSeq
  <2> QED
    BY <2>4 DEF id, k
<1> QED
  BY <1>1, FrameSize

LEMMA FramesAreColours == FRAMES \cup {Dark} \subseteq [Led -> Colour]
BY HostAssumption, SizesAssumption DEF Dark, Black, Colour, Byte

\* A chunk that begins inside the frame is not empty and ends inside it.
LEMMA ChunkBounds ==
  ASSUME base \in Nat
  PROVE  /\ SizeToSend \in Int /\ SizeToSend <= CHUNK_SIZE
         /\ base < FRAME_DATA_SIZE =>
              SizeToSend >= 1 /\ base + SizeToSend <= FRAME_DATA_SIZE
BY FrameSize, SizesAssumption DEF SizeToSend

-----------------------------------------------------------------------------
(* What host and line do leaves the device as it is.                       *)

LEMMA DeviceKept ==
  ASSUME FirmwareInv, UNCHANGED deviceVars,
         toDevice' \in Seq(Byte), toHost' \in Seq(Byte)
  PROVE  FirmwareInv'
BY DEF FirmwareInv, FirmwareTypeOK, DeviceTypeOK, BuffersInBounds, ChunkAligned,
       SettingStarted, deviceVars, parserVars, lightVars

LEMMA PowerUpImplies ==
  PowerUp /\ toDevice \in Seq(Byte) /\ toHost \in Seq(Byte) => FirmwareInv
BY PowerUpInv

LEMMA ResetInv ==
  Reset /\ (toDevice \in Seq(Byte) /\ toHost \in Seq(Byte))' => FirmwareInv'
<1>1. (PowerUp /\ toDevice \in Seq(Byte) /\ toHost \in Seq(Byte) => FirmwareInv)'
  BY PowerUpImplies, PTL
<1>2. Reset => PowerUp'
  BY DEF Reset, PowerUp, Led
<1> QED
  BY <1>1, <1>2

LEMMA LinkInitInv == Init => LinkInv
<1> SUFFICES ASSUME Init
             PROVE  LinkInv
  OBVIOUS
<1>1. FirmwareInv
  BY InitInv DEF Init
<1>2. TypeOK
  BY <1>1, HostAssumption, SizesAssumption DEF Init, TypeOK, FirmwareInv, Label
<1> QED
  BY <1>1, <1>2
  DEF Init, FirmwareInit, PowerUp, LinkInv, ChunkInFrame, Together, OwnCalls, BoardThere,
      Patience, Thread

\* What a step of the device may do to the state, the clock and the line.
LEMMA DeviceMoves ==
  ASSUME DeviceStep
  PROVE  /\ toDevice' # <<>> => toDevice # <<>>
         /\ \/ booted /\ booted' /\ toDevice # <<>> /\ quiet' = 0
            \/ state' = state /\ quiet' = quiet /\ (booted => booted')
            \/ booted /\ booted' /\ state' = "WAIT_FOR_HEADER"
<1>1. CASE ReadByte
  BY <1>1
  DEF ReadByte, ReadHeader, ReadFrameCommand, ReadSetCommand, ReadOtherCommand,
      ReadFrameByte, ReadSetType, ReadSetPayload, Read
<1>2. CASE Setup \/ MissByte \/ GiveUp
  BY <1>2 DEF Setup, MissByte, GiveUp, TimedOut, deviceVars, lineVars
<1> QED
  BY <1>1, <1>2 DEF DeviceStep

LEMMA DeviceInv ==
  ASSUME LinkInv, Device
  PROVE  LinkInv'
<1>1. DeviceStep /\ plugged /\ UNCHANGED <<hostVars, cableVars>>
  BY DEF Device, Powered
<1>2. FirmwareInv'
  BY <1>1, DeviceStepInv DEF LinkInv
<1>3. UNCHANGED <<pc, frame, base, offset, waited, speed, napLeft, plugged, port,
                  lossLeft, slackLeft, unplugsLeft, healthy>>
  BY <1>1 DEF hostVars, sendVars, cableVars, budgetVars
<1>4. TypeOK'
  BY <1>2, <1>3 DEF LinkInv, TypeOK, FirmwareInv
<1>5. ChunkInFrame' /\ Together' /\ OwnCalls'
  BY <1>3 DEF LinkInv, ChunkInFrame, SizeToSend, Together, OwnCalls
<1>6. BoardThere'
  BY <1>1, <1>3, DeviceMoves DEF LinkInv, BoardThere
<1>7. Patience'
  <2>1. Slept' = Slept /\ SlackUsed' = SlackUsed
    BY <1>3 DEF Slept, SlackUsed
  <2>2. Slept \in Int /\ SlackUsed \in Int
    BY HostAssumption DEF Slept, SlackUsed, LinkInv, TypeOK
  <2> QED
    BY <1>1, <1>3, <2>1, <2>2, DeviceMoves DEF LinkInv, Patience
<1> QED
  BY <1>2, <1>4, <1>5, <1>6, <1>7 DEF LinkInv

-----------------------------------------------------------------------------
(* The two calls.                                                          *)

\* A thread that is inside a call, or begins one, goes on at another label.
LEMMA CallStepInv ==
  ASSUME LinkInv, NEW t \in Thread, NEW to \in Label \ {"closed", "opening"},
         pc[t] \notin {"closed", "opening"}, pc' = [pc EXCEPT ![t] = to],
         t = "puller" => to \notin {"setCommand", "setId", "setValue"},
         t = "main" => to \notin {"command", "writeChunk", "readAck", "drain"},
         UNCHANGED <<deviceVars, napLeft, cableVars>>,
         toDevice' \in Seq(Byte), toHost' \in Seq(Byte),
         frame' \in FRAMES \cup {Dark}, base' \in Nat, offset' \in 0 .. CHUNK_SIZE,
         waited' \in 0 .. 1, speed' \in SPEEDS, ChunkInFrame'
  PROVE  LinkInv'
<1>1. FirmwareInv'
  BY DeviceKept DEF LinkInv
<1>2. UNCHANGED <<booted, state, quiet, plugged, port, lossLeft, slackLeft, unplugsLeft,
                  healthy>>
  BY DEF deviceVars, cableVars, budgetVars
<1>3. pc' \in [Thread -> Label]
  BY DEF LinkInv, TypeOK
<1>4. TypeOK'
  BY <1>1, <1>2, <1>3 DEF LinkInv, TypeOK, FirmwareInv
<1>5. \A u \in Thread : pc'[u] = IF u = t THEN to ELSE pc[u]
  BY DEF LinkInv, TypeOK
<1>6. \A u \in Thread : pc[u] \notin {"closed", "opening"}
  BY DEF LinkInv, Together
<1>7. Together' /\ OwnCalls'
  BY <1>5, <1>6 DEF LinkInv, Together, OwnCalls, Thread
<1>8. BoardThere'
  BY <1>2 DEF LinkInv, BoardThere
<1>9. Patience'
  BY <1>5, <1>6 DEF Patience, Thread
<1> QED
  BY <1>1, <1>4, <1>7, <1>8, <1>9 DEF LinkInv

\* write() puts bytes on the line, or does not.
LEMMA SendType ==
  ASSUME TypeOK, NEW bytes \in Seq(Byte), Send(bytes)
  PROVE  toDevice' \in Seq(Byte) /\ toHost' \in Seq(Byte)
BY DEF Send, TypeOK, FirmwareTypeOK

LEMMA ReceiveType ==
  ASSUME TypeOK, Receive
  PROVE  /\ toDevice' \in Seq(Byte) /\ toHost' \in Seq(Byte)
         /\ Head(toHost) \in Byte
BY DEF Receive, TypeOK, FirmwareTypeOK

\* The steps of a call that leave the locals of sendData alone.
LEMMA HeaderStepInv ==
  ASSUME LinkInv, NEW t \in Thread, HeaderStep(t)
  PROVE  LinkInv'
<1> DEFINE to == pc'[t]
<1>1. /\ pc[t] \notin {"closed", "opening"}
      /\ UNCHANGED <<deviceVars, frame, base, offset, waited, speed, napLeft, cableVars>>
  BY DEF HeaderStep, WriteHeader, ReadHeaderAck, RetryHeader, sendVars
<1>2. /\ to \in {"header", "awaitAck", AfterHeader(t)}
      /\ pc' = [pc EXCEPT ![t] = to]
  BY DEF HeaderStep, WriteHeader, ReadHeaderAck, RetryHeader, Goto, LinkInv, TypeOK
<1> HIDE DEF to
<1>3. /\ to \in Label \ {"closed", "opening", "writeChunk", "readAck"}
      /\ t = "puller" => to \notin {"setCommand", "setId", "setValue"}
      /\ t = "main" => to \notin {"command", "writeChunk", "readAck", "drain"}
  BY <1>2 DEF AfterHeader, Label, Thread
<1>4. toDevice' \in Seq(Byte) /\ toHost' \in Seq(Byte)
  <2>1. <<HEADER_BYTE>> \in Seq(Byte)
    BY BytesOfProtocol
  <2> QED
    BY <2>1, SendType, ReceiveType
    DEF LinkInv, TypeOK, FirmwareTypeOK, HeaderStep, WriteHeader, ReadHeaderAck, RetryHeader,
        lineVars
<1>5. /\ frame' \in FRAMES \cup {Dark} /\ base' \in Nat /\ offset' \in 0 .. CHUNK_SIZE
      /\ waited' \in 0 .. 1 /\ speed' \in SPEEDS
  BY <1>1 DEF LinkInv, TypeOK
<1>6. ChunkInFrame'
  <2>1. SizeToSend' = SizeToSend
    BY <1>1 DEF SizeToSend
  <2>2. pc'["puller"] \in {"writeChunk", "readAck"} => pc["puller"] = pc'["puller"]
    BY <1>2, <1>3 DEF LinkInv, TypeOK, Thread
  <2> QED
    BY <1>1, <2>1, <2>2 DEF LinkInv, ChunkInFrame
<1> QED
  BY <1>1, <1>2, <1>3, <1>4, <1>5, <1>6, CallStepInv

\* Both calls begin at their header.
LEMMA StartInv ==
  ASSUME LinkInv, (\E f \in FRAMES : StartFrame(f)) \/ (\E value \in SPEEDS : PressSpeedKey(value))
  PROVE  LinkInv'
<1>1. PICK t \in Thread : /\ pc[t] = "idle"
                          /\ pc' = [pc EXCEPT ![t] = "header"]
  BY DEF StartFrame, PressSpeedKey, MayStart, Goto, Thread
<1>2. /\ UNCHANGED <<deviceVars, base, offset, waited, napLeft, lineVars, cableVars>>
      /\ frame' \in FRAMES \cup {Dark} /\ speed' \in SPEEDS
  BY DEF StartFrame, PressSpeedKey, sendVars, LinkInv, TypeOK
<1>3. /\ toDevice' \in Seq(Byte) /\ toHost' \in Seq(Byte)
      /\ base' \in Nat /\ offset' \in 0 .. CHUNK_SIZE /\ waited' \in 0 .. 1
  BY <1>2 DEF LinkInv, TypeOK, FirmwareTypeOK, lineVars
<1>4. ChunkInFrame'
  <2>1. SizeToSend' = SizeToSend
    BY <1>2 DEF SizeToSend
  <2>2. pc'["puller"] \in {"writeChunk", "readAck"} => pc["puller"] = pc'["puller"]
    BY <1>1 DEF LinkInv, TypeOK, Thread
  <2> QED
    BY <1>2, <2>1, <2>2 DEF LinkInv, ChunkInFrame
<1> QED
  BY <1>1, <1>2, <1>3, <1>4, CallStepInv DEF Label

LEMMA SettingWriteInv ==
  ASSUME LinkInv, WriteSetCommand \/ WriteSetId \/ WriteSetValue
  PROVE  LinkInv'
<1>1. PICK byte \in Byte, next \in {"setId", "setValue", "idle"} :
        /\ pc["main"] \in {"setCommand", "setId", "setValue"}
        /\ Send(<<byte>>)
        /\ Goto("main", next)
        /\ UNCHANGED <<deviceVars, sendVars, speed, napLeft, cableVars>>
  <2>1. {CMD_SET_SETTINGS, SET_ID_LERP, speed} \subseteq Byte
    BY ProtocolAssumption, HostAssumption DEF LinkInv, TypeOK
  <2> QED
    BY <2>1 DEF WriteSetCommand, WriteSetId, WriteSetValue, WriteSetting
<1>2. toDevice' \in Seq(Byte) /\ toHost' \in Seq(Byte)
  <2>1. <<byte>> \in Seq(Byte)
    OBVIOUS
  <2> QED
    BY <1>1, <2>1, SendType DEF LinkInv
<1>3. /\ frame' \in FRAMES \cup {Dark} /\ base' \in Nat /\ offset' \in 0 .. CHUNK_SIZE
      /\ waited' \in 0 .. 1 /\ speed' \in SPEEDS
  BY <1>1 DEF LinkInv, TypeOK, sendVars
<1>4. ChunkInFrame'
  <2>1. SizeToSend' = SizeToSend
    BY <1>1 DEF SizeToSend, sendVars
  <2>2. pc'["puller"] = pc["puller"]
    BY <1>1 DEF LinkInv, TypeOK, Thread, Goto
  <2> QED
    BY <1>1, <2>1, <2>2 DEF LinkInv, ChunkInFrame, sendVars
<1> QED
  BY <1>1, <1>2, <1>3, <1>4, CallStepInv DEF Label, Goto, Thread

\* The first chunk begins where the frame does.
LEMMA WriteFrameCommandInv ==
  ASSUME LinkInv, WriteFrameCommand
  PROVE  LinkInv'
<1>1. toDevice' \in Seq(Byte) /\ toHost' \in Seq(Byte)
  <2>1. <<CMD_FRAME_DATA>> \in Seq(Byte)
    BY BytesOfProtocol
  <2> QED
    BY <2>1, SendType DEF LinkInv, WriteFrameCommand
<1>2. base' = 0 /\ offset' = 0 /\ base' \in Nat /\ offset' \in 0 .. CHUNK_SIZE
  BY SizesAssumption DEF WriteFrameCommand
<1>3. ChunkInFrame'
  BY <1>2, FrameSize, SizesAssumption DEF ChunkInFrame, SizeToSend
<1>4. frame' \in FRAMES \cup {Dark} /\ waited' \in 0 .. 1 /\ speed' \in SPEEDS
  BY DEF LinkInv, TypeOK, WriteFrameCommand
<1> QED
  BY <1>1, <1>2, <1>3, <1>4, CallStepInv DEF WriteFrameCommand, Goto, Label, Thread

\* The bytes written are bytes of the frame, because the chunk is a part of it.
LEMMA WriteChunkInv ==
  ASSUME LinkInv, WriteChunk
  PROVE  LinkInv'
<1>1. /\ base \in Nat /\ base < FRAME_DATA_SIZE
      /\ offset \in Nat /\ offset < SizeToSend
      /\ SizeToSend \in Int /\ base + SizeToSend <= FRAME_DATA_SIZE
  BY ChunkBounds DEF LinkInv, TypeOK, ChunkInFrame, WriteChunk
<1>2. toDevice' \in Seq(Byte) /\ toHost' \in Seq(Byte)
  <2>1. FrameData(frame) \in Seq(Byte) /\ Len(FrameData(frame)) = FRAME_DATA_SIZE
    BY FrameDataBytes, FramesAreColours DEF LinkInv, TypeOK
  <2>2. SubSeq(FrameData(frame), base + offset + 1, base + SizeToSend) \in Seq(Byte)
    BY <1>1, <2>1, FrameSize, SubSeqProperties
  <2> QED
    BY <2>2, SendType DEF LinkInv, WriteChunk
<1>3. /\ offset' = 0 /\ waited' = 0 /\ base' = base
      /\ offset' \in 0 .. CHUNK_SIZE /\ waited' \in 0 .. 1 /\ base' \in Nat
  BY <1>1, SizesAssumption DEF WriteChunk
<1>4. ChunkInFrame'
  BY <1>1, <1>3 DEF ChunkInFrame, SizeToSend
<1>5. frame' \in FRAMES \cup {Dark} /\ speed' \in SPEEDS
  BY DEF LinkInv, TypeOK, WriteChunk
<1> QED
  BY <1>2, <1>3, <1>4, <1>5, CallStepInv DEF WriteChunk, Goto, Label, Thread

\* Whatever counter is read, offset stays inside the chunk.
LEMMA ReadChunkAckInv ==
  ASSUME LinkInv, ReadChunkAck
  PROVE  LinkInv'
<1>1. toDevice' \in Seq(Byte) /\ toHost' \in Seq(Byte) /\ Head(toHost) \in Byte
  BY ReceiveType DEF LinkInv, ReadChunkAck
<1>2. /\ base \in Nat /\ base < FRAME_DATA_SIZE
      /\ SizeToSend \in Int /\ SizeToSend >= 1 /\ SizeToSend <= CHUNK_SIZE
  BY ChunkBounds DEF LinkInv, TypeOK, ChunkInFrame, ReadChunkAck
<1>3. /\ offset' \in Nat /\ offset' < SizeToSend /\ offset' \in 0 .. CHUNK_SIZE
      /\ waited' \in 0 .. 1 /\ base' = base
  <2>1. Head(toHost) \in Nat /\ Head(toHost) # SizeToSend
    BY <1>1, ByteIsNat DEF ReadChunkAck
  <2> QED
    BY <1>2, <2>1, SizesAssumption DEF ReadChunkAck, Acknowledged
<1>4. ChunkInFrame'
  BY <1>2, <1>3 DEF ChunkInFrame, SizeToSend
<1>5. pc["puller"] = "readAck" /\ pc' = [pc EXCEPT !["puller"] = "readAck"]
  BY DEF ReadChunkAck, LinkInv, TypeOK
<1>6. /\ frame' \in FRAMES \cup {Dark} /\ speed' \in SPEEDS /\ base' \in Nat
      /\ UNCHANGED <<deviceVars, napLeft, cableVars>>
  BY DEF LinkInv, TypeOK, ReadChunkAck
<1> QED
  BY <1>1, <1>3, <1>4, <1>5, <1>6, CallStepInv DEF Label, Thread

LEMMA ReadLastChunkAckInv ==
  ASSUME LinkInv, ReadLastChunkAck
  PROVE  LinkInv'
<1> DEFINE to == IF base' < FRAME_DATA_SIZE THEN "writeChunk" ELSE "drain"
<1>1. toDevice' \in Seq(Byte) /\ toHost' \in Seq(Byte)
  BY ReceiveType DEF LinkInv, ReadLastChunkAck
<1>2. /\ base' \in Nat /\ offset' = 0 /\ offset' \in 0 .. CHUNK_SIZE /\ waited' \in 0 .. 1
  BY SizesAssumption DEF LinkInv, TypeOK, ReadLastChunkAck
<1>3. pc["puller"] = "readAck" /\ pc' = [pc EXCEPT !["puller"] = to]
  BY DEF ReadLastChunkAck, Goto
<1>4. pc'["puller"] = to
  BY <1>3 DEF LinkInv, TypeOK, Thread
<1>5. ChunkInFrame'
  <2>1. CHUNK_SIZE \in Int /\ CHUNK_SIZE >= 1 /\ FRAME_DATA_SIZE \in Int /\ base' \in Int
    BY <1>2, FrameSize, SizesAssumption
  <2>2. SizeToSend' = IF FRAME_DATA_SIZE - base' < CHUNK_SIZE
                      THEN FRAME_DATA_SIZE - base' ELSE CHUNK_SIZE
    BY DEF SizeToSend
  <2>3. \A b \in Int : b < FRAME_DATA_SIZE =>
          0 < IF FRAME_DATA_SIZE - b < CHUNK_SIZE THEN FRAME_DATA_SIZE - b ELSE CHUNK_SIZE
    BY <2>1
  <2> QED
    BY <1>2, <1>4, <2>1, <2>2, <2>3 DEF ChunkInFrame
<1>6. /\ frame' \in FRAMES \cup {Dark} /\ speed' \in SPEEDS
      /\ UNCHANGED <<deviceVars, napLeft, cableVars>>
  BY DEF LinkInv, TypeOK, ReadLastChunkAck
<1>7. to \in {"writeChunk", "drain"}
  OBVIOUS
<1> HIDE DEF to
<1> QED
  BY <1>1, <1>2, <1>3, <1>5, <1>6, <1>7, CallStepInv DEF Label, Thread

LEMMA RestOfSendInv ==
  ASSUME LinkInv, ResendChunk \/ DrainByte \/ ReturnFromSend
  PROVE  LinkInv'
<1>1. toDevice' \in Seq(Byte) /\ toHost' \in Seq(Byte)
  BY ReceiveType
  DEF LinkInv, TypeOK, FirmwareTypeOK, ResendChunk, DrainByte, ReturnFromSend, lineVars
<1>2. /\ base' \in Nat /\ offset' \in 0 .. CHUNK_SIZE /\ waited' \in 0 .. 1
      /\ frame' \in FRAMES \cup {Dark} /\ speed' \in SPEEDS
      /\ UNCHANGED <<deviceVars, napLeft, cableVars>>
  BY SizesAssumption
  DEF LinkInv, TypeOK, ResendChunk, DrainByte, ReturnFromSend, ForgetLocals, hostVars, sendVars
<1>3. CASE ResendChunk
  <2>1. ChunkInFrame'
    BY <1>3 DEF LinkInv, ChunkInFrame, SizeToSend, ResendChunk, sendVars
  <2> QED
    BY <1>1, <1>2, <1>3, <2>1, CallStepInv DEF ResendChunk, Goto, Label, Thread
<1>4. CASE DrainByte
  <2>1. pc["puller"] = "drain" /\ pc' = [pc EXCEPT !["puller"] = "drain"]
    BY <1>4 DEF DrainByte, hostVars, LinkInv, TypeOK
  <2>2. ChunkInFrame'
    BY <1>4 DEF ChunkInFrame, DrainByte, hostVars
  <2> QED
    BY <1>1, <1>2, <2>1, <2>2, CallStepInv DEF Label, Thread
<1>5. CASE ReturnFromSend
  <2>1. ChunkInFrame'
    BY <1>5 DEF LinkInv, TypeOK, Thread, ChunkInFrame, ReturnFromSend, Goto
  <2> QED
    BY <1>1, <1>2, <1>5, <2>1, CallStepInv DEF ReturnFromSend, Goto, Label, Thread
<1> QED
  BY <1>3, <1>4, <1>5

LEMMA CallsInv ==
  ASSUME LinkInv, SendStep \/ SettingStep
  PROVE  LinkInv'
BY HeaderStepInv, SettingWriteInv, WriteFrameCommandInv, WriteChunkInv, ReadChunkAckInv,
   ReadLastChunkAckInv, RestOfSendInv DEF SendStep, SettingStep, Thread

-----------------------------------------------------------------------------
(* The server's process.                                                   *)

LEMMA ExitInv ==
  ASSUME LinkInv, Exit
  PROVE  LinkInv'
<1>1. \A t \in Thread : pc'[t] = "closed"
  BY DEF Exit
<1>2. FirmwareInv'
  BY DeviceKept DEF LinkInv, Exit, lineVars, TypeOK, FirmwareTypeOK
<1>3. TypeOK'
  BY <1>2, SizesAssumption
  DEF LinkInv, TypeOK, FirmwareInv, Exit, ForgetLocals, budgetVars, Label
<1>4. ChunkInFrame' /\ Together' /\ OwnCalls' /\ Patience'
  BY <1>1 DEF ChunkInFrame, Together, OwnCalls, Patience, Thread
<1>5. BoardThere'
  BY DEF LinkInv, BoardThere, Exit, deviceVars
<1> QED
  BY <1>2, <1>3, <1>4, <1>5 DEF LinkInv

\* Nothing has been slept yet.
LEMMA OpenPortInv ==
  ASSUME LinkInv, OpenPort
  PROVE  LinkInv'
<1>1. \A t \in Thread : pc'[t] = "opening"
  BY DEF OpenPort
<1>2. toDevice' \in Seq(Byte) /\ toHost' \in Seq(Byte)
  <2>1. toDevice' \in {toDevice, <<>>} /\ toHost' = toHost
    BY DEF OpenPort, OpenBoard, OpenNothing, lineVars
  <2>2. toDevice \in Seq(Byte) /\ toHost \in Seq(Byte) /\ <<>> \in Seq(Byte)
    BY DEF LinkInv, TypeOK, FirmwareTypeOK
  <2> QED
    BY <2>1, <2>2
<1>3. FirmwareInv'
  BY <1>2, DeviceKept, ResetInv DEF LinkInv, OpenPort, OpenBoard, OpenNothing
<1>4. UNCHANGED <<frame, base, offset, waited, speed, plugged, lossLeft, slackLeft,
                  unplugsLeft, healthy>>
  BY DEF OpenPort, sendVars, budgetVars
<1>5. TypeOK'
  <2>1. pc' \in [Thread -> Label] /\ napLeft' \in 0 .. OPEN_SLEEP
    BY HostAssumption DEF OpenPort, Nap, Label
  <2>2. port' \in {"none", "open", "dead"}
    BY DEF OpenPort, OpenBoard, OpenNothing
  <2> QED
    BY <1>3, <1>4, <2>1, <2>2 DEF LinkInv, TypeOK, FirmwareInv
<1>6. ChunkInFrame' /\ Together' /\ OwnCalls'
  BY <1>1 DEF ChunkInFrame, Together, OwnCalls, Thread
<1>7. BoardThere'
  BY DEF LinkInv, BoardThere, OpenPort, OpenBoard, OpenNothing, Reset, deviceVars
<1>8. Patience'
  <2>1. Slept' = 0
    BY HostAssumption DEF Slept, OpenPort, Nap
  <2>2. SlackUsed' \in Nat
    BY <1>4, HostAssumption DEF SlackUsed, LinkInv, TypeOK
  <2>3. quiet' \in Nat
    BY <1>5, SizesAssumption DEF TypeOK, FirmwareTypeOK, DeviceTypeOK
  <2>4. \A used, silent \in Nat : 0 <= used /\ 0 <= used + silent
    OBVIOUS
  <2>5. Slept' <= SlackUsed' /\ Slept' <= SlackUsed' + quiet'
    BY <2>1, <2>2, <2>3, <2>4
  <2> QED
    BY <2>5 DEF Patience
<1> QED
  BY <1>3, <1>5, <1>6, <1>7, <1>8 DEF LinkInv

LEMMA PortReadyInv ==
  ASSUME LinkInv, PortReady
  PROVE  LinkInv'
<1>1. \A t \in Thread : pc'[t] = "idle"
  BY DEF PortReady
<1>2. toDevice' \in Seq(Byte) /\ toHost' \in Seq(Byte)
  <2>1. toDevice' \in {toDevice, <<>>} /\ toHost' \in {toHost, <<>>}
    BY DEF PortReady, Flush, lineVars
  <2>2. toDevice \in Seq(Byte) /\ toHost \in Seq(Byte) /\ <<>> \in Seq(Byte)
    BY DEF LinkInv, TypeOK, FirmwareTypeOK
  <2> QED
    BY <2>1, <2>2
<1>3. FirmwareInv'
  BY <1>2, DeviceKept DEF LinkInv, PortReady
<1>4. TypeOK'
  BY <1>3 DEF LinkInv, TypeOK, FirmwareInv, PortReady, sendVars, Label
<1>5. ChunkInFrame' /\ Together' /\ OwnCalls' /\ Patience'
  BY <1>1 DEF ChunkInFrame, Together, OwnCalls, Patience, Thread
<1>6. BoardThere'
  BY DEF LinkInv, BoardThere, PortReady, deviceVars
<1> QED
  BY <1>3, <1>4, <1>5, <1>6 DEF LinkInv

-----------------------------------------------------------------------------
(* The line and the clock.                                                 *)

LEMMA LoseInv ==
  ASSUME LinkInv, Lose
  PROVE  LinkInv'
<1>1. \A bytes \in Seq(Byte) : \A n \in DOMAIN bytes : Without(bytes, n) \in Seq(Byte)
  <2> SUFFICES ASSUME NEW bytes \in Seq(Byte), NEW n \in 1 .. Len(bytes)
               PROVE  Without(bytes, n) \in Seq(Byte)
    OBVIOUS
  <2>1. /\ SubSeq(bytes, 1, n - 1) \in Seq(Byte)
        /\ SubSeq(bytes, n + 1, Len(bytes)) \in Seq(Byte)
    BY SubSeqProperties
  <2> QED
    BY <2>1, ConcatProperties DEF Without
<1>2. toDevice' \in Seq(Byte) /\ toHost' \in Seq(Byte)
  BY <1>1 DEF Lose, LinkInv, TypeOK, FirmwareTypeOK
<1>3. toDevice' # <<>> => toDevice # <<>>
  BY DEF Lose
<1>4. FirmwareInv'
  BY <1>2, DeviceKept DEF LinkInv, Lose
<1>5. UNCHANGED <<booted, state, quiet, pc, frame, base, offset, waited, speed, napLeft,
                  plugged, port, slackLeft, unplugsLeft>>
  BY DEF Lose, deviceVars, hostVars, sendVars
<1>6. TypeOK'
  <2>1. lossLeft' \in 0 .. MAX_LOSS
    <3>1. lossLeft \in 0 .. MAX_LOSS /\ lossLeft > 0 /\ lossLeft' = lossLeft - 1
      BY DEF Lose, LinkInv, TypeOK
    <3> QED
      BY <3>1, HostAssumption
  <2>2. healthy' \in BOOLEAN
    BY DEF Lose
  <2> QED
    BY <1>4, <1>5, <2>1, <2>2 DEF LinkInv, TypeOK, FirmwareInv
<1>7. ChunkInFrame' /\ Together' /\ OwnCalls' /\ BoardThere'
  BY <1>5 DEF LinkInv, ChunkInFrame, SizeToSend, Together, OwnCalls, BoardThere
<1>8. Patience'
  BY <1>3, <1>5 DEF LinkInv, Patience, Slept, SlackUsed
<1> QED
  BY <1>4, <1>6, <1>7, <1>8 DEF LinkInv

LEMMA UnplugInv ==
  ASSUME LinkInv, Unplug
  PROVE  LinkInv'
<1>1. FirmwareInv'
  BY ResetInv DEF Unplug
<1>2. UNCHANGED <<pc, frame, base, offset, waited, speed, napLeft, lossLeft, slackLeft>>
  BY DEF Unplug, hostVars, sendVars
<1>3. TypeOK'
  <2>1. unplugsLeft' \in 0 .. MAX_UNPLUG
    <3>1. unplugsLeft \in 0 .. MAX_UNPLUG /\ unplugsLeft > 0 /\ unplugsLeft' = unplugsLeft - 1
      BY DEF Unplug, LinkInv, TypeOK
    <3> QED
      BY <3>1, HostAssumption
  <2>2. /\ healthy' \in BOOLEAN /\ plugged' \in BOOLEAN
        /\ port' \in {"none", "open", "dead"}
    BY DEF Unplug, LinkInv, TypeOK
  <2> QED
    BY <1>1, <1>2, <2>1, <2>2 DEF LinkInv, TypeOK, FirmwareInv
<1>4. ChunkInFrame' /\ Together' /\ OwnCalls'
  BY <1>2 DEF LinkInv, ChunkInFrame, SizeToSend, Together, OwnCalls
<1>5. BoardThere' /\ Patience'
  BY DEF BoardThere, Patience, Unplug, Reset
<1> QED
  BY <1>1, <1>3, <1>4, <1>5 DEF LinkInv

LEMMA PlugInv ==
  ASSUME LinkInv, Plug
  PROVE  LinkInv'
<1>1. FirmwareInv'
  BY DeviceKept DEF LinkInv, TypeOK, FirmwareTypeOK, Plug, firmwareVars, lineVars
<1>2. UNCHANGED <<booted, state, quiet, toDevice, pc, frame, base, offset, waited, speed,
                  napLeft, port, lossLeft, slackLeft, unplugsLeft, healthy>>
  BY DEF Plug, firmwareVars, deviceVars, lineVars, hostVars, sendVars, budgetVars
<1>3. TypeOK'
  BY <1>1, <1>2 DEF LinkInv, TypeOK, FirmwareInv, Plug
<1>4. ChunkInFrame' /\ Together' /\ OwnCalls' /\ Patience'
  BY <1>2 DEF LinkInv, ChunkInFrame, SizeToSend, Together, OwnCalls, Patience, Slept, SlackUsed
<1>5. BoardThere'
  BY <1>2 DEF LinkInv, BoardThere, Plug
<1> QED
  BY <1>1, <1>3, <1>4, <1>5 DEF LinkInv

\* A tick makes the silence longer, or the board has just run out of patience,
\* or somebody is late.
LEMMA TickInv ==
  ASSUME LinkInv, Tick
  PROVE  LinkInv'
<1>1. UNCHANGED <<booted, state, parserVars, lightVars, toDevice, toHost, plugged, port,
                  pc, frame, base, offset, speed, lossLeft, unplugsLeft>>
  BY DEF Tick, lineVars
<1>2. quiet \in 0 .. DEVICE_TIMEOUT /\ quiet' = IF quiet < DEVICE_TIMEOUT THEN quiet + 1 ELSE quiet
  BY DEF Tick, LinkInv, TypeOK, FirmwareTypeOK, DeviceTypeOK
<1>3. quiet' \in 0 .. DEVICE_TIMEOUT
  BY <1>2, SizesAssumption
<1>4. FirmwareInv'
  BY <1>1, <1>3
  DEF LinkInv, FirmwareInv, FirmwareTypeOK, DeviceTypeOK, BuffersInBounds, ChunkAligned,
      SettingStarted, parserVars, lightVars
<1>5. napLeft' \in 0 .. OPEN_SLEEP /\ slackLeft' \in 0 .. MAX_SLACK /\ waited' \in 0 .. 1
      /\ healthy' \in BOOLEAN
  <2>1. /\ napLeft' # napLeft => napLeft > 0 /\ napLeft' = napLeft - 1
        /\ slackLeft' # slackLeft => slackLeft > 0 /\ slackLeft' = slackLeft - 1
        /\ waited' \in {waited, 1} /\ healthy' \in {healthy, FALSE}
    BY DEF Tick
  <2>2. /\ napLeft \in 0 .. OPEN_SLEEP /\ slackLeft \in 0 .. MAX_SLACK /\ waited \in 0 .. 1
        /\ healthy \in BOOLEAN
    BY DEF LinkInv, TypeOK
  <2>3. \A bound \in Nat : \A n \in 0 .. bound : n > 0 => n - 1 \in 0 .. bound
    OBVIOUS
  <2>4. napLeft' \in 0 .. OPEN_SLEEP
    <3>1. CASE napLeft' = napLeft
      BY <2>2, <3>1
    <3>2. CASE napLeft' # napLeft
      BY <2>1, <2>2, <2>3, <3>2, HostAssumption
    <3> QED
      BY <3>1, <3>2
  <2>5. slackLeft' \in 0 .. MAX_SLACK
    <3>1. CASE slackLeft' = slackLeft
      BY <2>2, <3>1
    <3>2. CASE slackLeft' # slackLeft
      BY <2>1, <2>2, <2>3, <3>2, HostAssumption
    <3> QED
      BY <3>1, <3>2
  <2>6. waited' \in 0 .. 1
    BY <2>2 DEF Tick
  <2>7. healthy' \in BOOLEAN
    BY <2>1, <2>2
  <2> QED
    BY <2>4, <2>5, <2>6, <2>7
<1>6. TypeOK'
  BY <1>1, <1>4, <1>5 DEF LinkInv, TypeOK, FirmwareInv
<1>7. ChunkInFrame' /\ Together' /\ OwnCalls' /\ BoardThere'
  BY <1>1 DEF LinkInv, ChunkInFrame, SizeToSend, Together, OwnCalls, BoardThere
<1>8. Patience'
  <2> SUFFICES ASSUME pc["main"] = "opening"
               PROVE  /\ toDevice # <<>> => Slept' <= SlackUsed'
                      /\ state # "WAIT_FOR_HEADER" => Slept' <= SlackUsed' + quiet'
    BY <1>1 DEF Patience
  <2>1. /\ toDevice # <<>> => Slept <= SlackUsed
        /\ state # "WAIT_FOR_HEADER" => Slept <= SlackUsed + quiet
    BY DEF LinkInv, Patience
  <2>2. Slept \in Int /\ SlackUsed \in Int /\ Slept' \in Int /\ SlackUsed' \in Int
    BY <1>5, HostAssumption DEF Slept, SlackUsed, LinkInv, TypeOK
  <2>3. Slept' <= Slept + 1
    BY <1>5, HostAssumption DEF Slept, Tick, LinkInv, TypeOK
  <2>4. IF Quiescent THEN SlackUsed' = SlackUsed ELSE SlackUsed' = SlackUsed + 1
    BY HostAssumption DEF SlackUsed, Tick, LinkInv, TypeOK
  <2>5. CASE ~Quiescent
    BY <1>2, <2>1, <2>2, <2>3, <2>4, <2>5, SizesAssumption
  <2>6. CASE Quiescent
    <3>1. toDevice = <<>> /\ ~TimedOut
      BY <2>6 DEF Quiescent
    <3>2. state # "WAIT_FOR_HEADER" => ~(quiet >= DEVICE_TIMEOUT)
      BY <3>1 DEF TimedOut, LinkInv, BoardThere
    <3>3. state # "WAIT_FOR_HEADER" => quiet' = quiet + 1
      BY <1>2, <3>2, SizesAssumption
    <3> QED
      BY <1>2, <2>1, <2>2, <2>3, <2>4, <2>6, <3>1, <3>3, SizesAssumption
  <2> QED
    BY <2>5, <2>6
<1> QED
  BY <1>4, <1>6, <1>7, <1>8 DEF LinkInv

LEMMA LinkNextInv ==
  ASSUME LinkInv, [Next]_vars
  PROVE  LinkInv'
<1>1. CASE Next
  BY <1>1, DeviceInv, CallsInv, StartInv, ExitInv, OpenPortInv, PortReadyInv, LoseInv,
     UnplugInv, PlugInv, TickInv DEF Next
<1>2. CASE UNCHANGED vars
  <2>1. /\ UNCHANGED <<deviceVars, toDevice, toHost, pc, frame, base, offset, waited, speed>>
        /\ UNCHANGED <<napLeft, plugged, port, lossLeft, slackLeft, unplugsLeft, healthy>>
    BY <1>2 DEF vars, firmwareVars, lineVars, hostVars, sendVars, cableVars, budgetVars
  <2>2. FirmwareInv'
    BY <2>1, DeviceKept DEF LinkInv, TypeOK, FirmwareTypeOK
  <2> QED
    BY <2>1, <2>2
    DEF LinkInv, TypeOK, FirmwareInv, ChunkInFrame, SizeToSend, Together, OwnCalls,
        BoardThere, Patience, Slept, SlackUsed, deviceVars
<1> QED
  BY <1>1, <1>2

\* The inductive invariant of the line and its two ends.
THEOREM LinkInvariant == Spec => []LinkInv
BY LinkInitInv, LinkNextInv, PTL DEF Spec

-----------------------------------------------------------------------------
\* The variables of both ends keep their types, whatever happens to the line, to
\* the board and to the server.
THEOREM LinkTypeCorrect == Spec => []TypeOK
<1>1. LinkInv => TypeOK
  BY DEF LinkInv
<1> QED
  BY <1>1, LinkInvariant, PTL

\* sendData never reads outside its frame and never writes an empty chunk: the
\* unsigned sizeToSend - offset of src/Pixel.cpp does not wrap around, whichever
\* counters get lost, come twice or are left over.
THEOREM ChunksInFrame == Spec => []ChunkInFrame
<1>1. LinkInv => ChunkInFrame
  BY DEF LinkInv
<1> QED
  BY <1>1, LinkInvariant, PTL

\* The constructor sleeps longer than the board waits for the rest of a command,
\* by more than both may be late: two seconds against one.
SleepOutlasts == OPEN_SLEEP > DEVICE_TIMEOUT + MAX_SLACK

\* When the server has slept, the board has given up whatever it was reading.
LEMMA BoardAtRest ==
  ASSUME LinkInv, SleepOutlasts, pc["main"] = "opening", napLeft = 0
  PROVE  toDevice = <<>> /\ state = "WAIT_FOR_HEADER"
<1>1. /\ Slept = OPEN_SLEEP /\ SlackUsed <= MAX_SLACK /\ SlackUsed \in Int
      /\ quiet <= DEVICE_TIMEOUT /\ quiet \in Nat
  BY HostAssumption
  DEF Slept, SlackUsed, LinkInv, TypeOK, FirmwareTypeOK, DeviceTypeOK
<1> QED
  BY <1>1, HostAssumption, SizesAssumption DEF LinkInv, Patience, SleepOutlasts

\* A server that starts finds the board waiting for a header and the line empty,
\* whatever its predecessor was doing and whatever has been unplugged.
THEOREM StartsFresh ==
  ASSUME SleepOutlasts
  PROVE  Spec => FreshStart
<1> DEFINE Fresh ==
      pc["puller"] = "opening" /\ pc'["puller"] = "idle" /\ port' = "open" =>
        /\ plugged
        /\ state' = "WAIT_FOR_HEADER"
        /\ toDevice' = <<>>
        /\ toHost' = <<>>
<1>1. LinkInv /\ [Next]_vars => [Fresh]_vars
  <2> SUFFICES ASSUME LinkInv, Next, pc["puller"] = "opening", pc'["puller"] = "idle",
                      port' = "open"
               PROVE  /\ plugged
                      /\ state' = "WAIT_FOR_HEADER"
                      /\ toDevice' = <<>>
                      /\ toHost' = <<>>
    OBVIOUS
  <2>1. PortReady
    <3>1. pc["main"] = "opening"
      BY DEF LinkInv, Together, Thread
    <3>2. pc["puller"] \notin {"header", "awaitAck", "command", "writeChunk", "readAck", "drain"}
      OBVIOUS
    <3> QED
      BY <3>1
      DEF Next, Device, Powered, SendStep, SettingStep, HeaderStep, WriteHeader,
          ReadHeaderAck, RetryHeader, WriteFrameCommand, WriteChunk, ReadChunkAck,
          ReadLastChunkAck, ResendChunk, DrainByte, ReturnFromSend, WriteSetCommand,
          WriteSetId, WriteSetValue, WriteSetting, StartFrame, PressSpeedKey, MayStart,
          Exit, OpenPort, Lose, Unplug, Plug, Tick, hostVars, Thread
  <2>2. pc["main"] = "opening" /\ napLeft = 0 /\ port = "open" /\ Flush /\ UNCHANGED deviceVars
    BY <2>1 DEF PortReady
  <2>3. state = "WAIT_FOR_HEADER"
    BY <2>2, BoardAtRest
  <2> QED
    BY <2>2, <2>3 DEF Flush, deviceVars, LinkInv, BoardThere
<1>2. Spec => [][Fresh]_vars
  BY <1>1, LinkInvariant, PTL DEF Spec
<1> QED
  BY <1>2 DEF FreshStart
=============================================================================
