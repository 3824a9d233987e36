--------------------------- MODULE SerialProtocol ---------------------------
(***************************************************************************)
(* The serial line with a program at both ends: the server of src/Pixel.cpp *)
(* and src/SerialPort.cpp on the host, the sketch of module Firmware on the *)
(* device.                                                                 *)
(*                                                                         *)
(* Two threads of the server write to the line and read from it: "puller"  *)
(* (LedController::queuePuller) streams frames with Pixel::sendData, "main" *)
(* (the key loop of main()) sends a fade speed with Pixel::setLerpSpeed.   *)
(*                                                                         *)
(* A tick is the 100 ms after which sendData repeats a chunk.  The line may *)
(* lose MAX_LOSS bytes and a side may be late by MAX_SLACK ticks in all;   *)
(* apart from that, time passes only when nobody has anything to do.  The   *)
(* board may be unplugged MAX_UNPLUG times, and there need not be one.      *)
(* healthy says that none of this has happened since the port was opened.   *)
(***************************************************************************)
EXTENDS Firmware

CONSTANTS
  FRAMES,        \* the frames that effects compute, functions of Led
  SPEEDS,        \* the fade speeds the keys send
  OPEN_SLEEP,    \* sleep(2) of the SerialPort constructor, in ticks
  OVERLAP,       \* a key may be pressed while a frame is being sent
  MAX_HEADERS,   \* bound on the headers repeated before one is answered
  MAX_LOSS,      \* bytes the line may lose
  MAX_SLACK,     \* ticks that may pass while somebody has work to do
  MAX_UNPLUG     \* how often the board may be unplugged

ASSUME HostAssumption ==
  /\ FRAMES \subseteq [Led -> Colour]
  /\ SPEEDS \subseteq Byte
  /\ OPEN_SLEEP \in Nat
  /\ OVERLAP \in BOOLEAN
  /\ MAX_LOSS \in Nat
  /\ MAX_SLACK \in Nat
  /\ MAX_UNPLUG \in Nat
  /\ MAX_HEADERS \in Nat
  /\ MAX_LINE \in Nat

\* A '1' is also a legal chunk counter (49), but never the last of a chunk.
ASSUME AckAssumption ==
  HEADER_ACK \notin {CHUNK_SIZE, FRAME_DATA_SIZE % CHUNK_SIZE}

VARIABLES
  plugged,       \* the board is at the other end of the cable
  port,          \* fd: "none" if it is not open, "dead" after a hang-up
  pc,            \* where each thread of the server is
  frame,         \* frameData of the latest sendData
  base,          \* its i: the first byte of the current chunk
  offset,        \* what of the chunk the device has acknowledged
  waited,        \* ticks since begin
  speed,         \* the argument of the latest setLerpSpeed
  napLeft,       \* what is left of OPEN_SLEEP
  lossLeft,
  slackLeft,
  unplugsLeft,
  healthy

sendVars == <<frame, base, offset, waited>>
budgetVars == <<lossLeft, slackLeft, unplugsLeft, healthy>>
cableVars == <<plugged, port, budgetVars>>
hostVars == <<pc, sendVars, speed, napLeft>>
vars == <<firmwareVars, hostVars, cableVars>>

Thread == {"puller", "main"}

\* Mutant: the ids are counted from one.
RecordOf_FromOne(f, id) == <<id + 1>> \o f[id]

\* The four bytes of an LED in a frame.
RecordOf(f, id) == <<id>> \o f[id]

\* The bytes of a frame: a record of four per LED, in the order of the ids.
FrameData(f) ==
  [n \in 1 .. FRAME_DATA_SIZE |-> RecordOf(f, (n - 1) \div 4)[((n - 1) % 4) + 1]]

SizeToSend ==
  IF FRAME_DATA_SIZE - base < CHUNK_SIZE THEN FRAME_DATA_SIZE - base ELSE CHUNK_SIZE

\* Thread t goes on at label.
Goto(t, label) == pc' = [pc EXCEPT ![t] = label]

\* The locals of sendData are gone.
ForgetLocals == base' = 0 /\ offset' = 0 /\ waited' = 0

\* write(), whose result is ignored: after a hang-up it fails.  MAX_LINE bounds
\* what is under way; a healthy line never holds that much.
Send(bytes) ==
  /\ Len(toDevice) + Len(toHost) + Len(bytes) <= MAX_LINE
  /\ toDevice' = IF port = "open" THEN toDevice \o bytes ELSE toDevice
  /\ UNCHANGED toHost

Receive == toHost # <<>> /\ toHost' = Tail(toHost) /\ UNCHANGED toDevice

\* Mutant: is_open stays TRUE although open() failed.
IsConnected_Always == TRUE

\* Both calls return at once, and so change nothing, on a port that is not open;
\* a hang-up does not change is_open.
IsConnected == port # "none"

MayStart(t) ==
  /\ IsConnected
  /\ pc[t] = "idle"
  /\ OVERLAP \/ \A u \in Thread : pc[u] = "idle"

-----------------------------------------------------------------------------
(* What both calls begin with: a header every 10 ms until a '1' is read.   *)

WriteHeader(t) ==
  /\ pc[t] = "header"
  /\ Send(<<HEADER_BYTE>>)
  /\ Goto(t, "awaitAck")
  /\ UNCHANGED <<deviceVars, sendVars, speed, napLeft, cableVars>>

AfterHeader(t) == IF t = "puller" THEN "command" ELSE "setCommand"

ReadHeaderAck(t) ==
  /\ pc[t] = "awaitAck"
  /\ Receive
  /\ Goto(t, IF Head(toHost) = HEADER_ACK THEN AfterHeader(t) ELSE "header")
  /\ UNCHANGED <<deviceVars, sendVars, speed, napLeft, cableVars>>

\* Nothing to read: the header is repeated, at most MAX_HEADERS under way.
RetryHeader(t) ==
  /\ pc[t] = "awaitAck"
  /\ toHost = <<>>
  /\ Len(toDevice) < MAX_HEADERS
  /\ Goto(t, "header")
  /\ UNCHANGED <<deviceVars, sendVars, speed, napLeft, lineVars, cableVars>>

-----------------------------------------------------------------------------
(* Pixel::sendData on the puller thread.                                   *)

StartFrame(f) ==
  /\ MayStart("puller")
  /\ frame' = f
  /\ Goto("puller", "header")
  /\ UNCHANGED <<deviceVars, base, offset, waited, speed, napLeft, lineVars, cableVars>>

WriteFrameCommand ==
  /\ pc["puller"] = "command"
  /\ Send(<<CMD_FRAME_DATA>>)
  /\ base' = 0
  /\ offset' = 0
  /\ Goto("puller", "writeChunk")
  /\ UNCHANGED <<deviceVars, frame, waited, speed, napLeft, cableVars>>

WriteChunk ==
  /\ pc["puller"] = "writeChunk"
  /\ Send(SubSeq(FrameData(frame), base + offset + 1, base + SizeToSend))
  /\ offset' = 0
  /\ waited' = 0
  /\ Goto("puller", "readAck")
  /\ UNCHANGED <<deviceVars, frame, base, speed, napLeft, cableVars>>

\* Mutant: the counters are added up.
Acknowledged_AddsUp == offset + Head(toHost)

\* Mutant: a counter beyond the chunk is not discarded.
Acknowledged_Unchecked == Head(toHost)

\* What of the chunk the device has, by the counter just read.
Acknowledged == IF Head(toHost) > SizeToSend THEN 0 ELSE Head(toHost)

\* A counter other than the last one of the chunk: the loop reads on.
ReadChunkAck ==
  /\ pc["puller"] = "readAck"
  /\ Receive
  /\ Head(toHost) # SizeToSend
  /\ offset' = Acknowledged
  /\ waited' = 0
  /\ UNCHANGED <<deviceVars, pc, frame, base, speed, napLeft, cableVars>>

ReadLastChunkAck ==
  /\ pc["puller"] = "readAck"
  /\ Receive
  /\ Head(toHost) = SizeToSend
  /\ base' = base + CHUNK_SIZE
  /\ offset' = 0
  /\ waited' = 0
  /\ Goto("puller", IF base' < FRAME_DATA_SIZE THEN "writeChunk" ELSE "drain")
  /\ UNCHANGED <<deviceVars, frame, speed, napLeft, cableVars>>

\* 100 ms without a counter: the chunk is sent again, from offset on.
ResendChunk ==
  /\ pc["puller"] = "readAck"
  /\ toHost = <<>>
  /\ waited >= 1
  /\ Goto("puller", "writeChunk")
  /\ UNCHANGED <<deviceVars, sendVars, speed, napLeft, lineVars, cableVars>>

DrainByte ==
  /\ pc["puller"] = "drain"
  /\ Receive
  /\ UNCHANGED <<deviceVars, hostVars, cableVars>>

ReturnFromSend ==
  /\ pc["puller"] = "drain"
  /\ toHost = <<>>
  /\ Goto("puller", "idle")
  /\ ForgetLocals
  /\ UNCHANGED <<deviceVars, frame, speed, napLeft, lineVars, cableVars>>

-----------------------------------------------------------------------------
(* Pixel::setLerpSpeed on the main thread.                                 *)

PressSpeedKey(value) ==
  /\ MayStart("main")
  /\ speed' = value
  /\ Goto("main", "header")
  /\ UNCHANGED <<deviceVars, sendVars, napLeft, lineVars, cableVars>>

WriteSetting(label, byte, next) ==
  /\ pc["main"] = label
  /\ Send(<<byte>>)
  /\ Goto("main", next)
  /\ UNCHANGED <<deviceVars, sendVars, speed, napLeft, cableVars>>

WriteSetCommand == WriteSetting("setCommand", CMD_SET_SETTINGS, "setId")
\* Mutant: the command byte is sent where the id of the setting belongs.
WriteSetId_WrongByte == WriteSetting("setId", CMD_SET_SETTINGS, "setValue")

WriteSetId == WriteSetting("setId", SET_ID_LERP, "setValue")
WriteSetValue == WriteSetting("setValue", speed, "idle")

-----------------------------------------------------------------------------
(* The server's process: it may be killed anywhere and started again.      *)

Exit ==
  /\ pc["main"] # "closed"
  /\ pc' = [t \in Thread |-> "closed"]
  /\ port' = "none"
  /\ ForgetLocals
  /\ UNCHANGED <<deviceVars, frame, speed, napLeft, lineVars, plugged, budgetVars>>

\* Mutant: the constructor does not sleep.
Nap_None == 0

Nap == OPEN_SLEEP

\* open() of a board: many are reset by it, others run on.  After a reset setup()
\* waits three seconds, in which what was under way arrives and is missed.
OpenBoard ==
  /\ plugged
  /\ port' = "open"
  /\ \/ Reset /\ toDevice' = <<>>
     \/ UNCHANGED <<deviceVars, toDevice>>
  /\ UNCHANGED toHost

\* open() fails, for want of a board or of the right.
OpenNothing == port' = "none" /\ UNCHANGED <<deviceVars, lineVars>>

OpenPort ==
  /\ pc["main"] = "closed"
  /\ pc' = [t \in Thread |-> "opening"]
  /\ napLeft' = Nap
  /\ OpenBoard \/ OpenNothing
  /\ UNCHANGED <<sendVars, speed, plugged, budgetVars>>

\* Mutant: no tcflush.
Flush_None == UNCHANGED lineVars

\* tcflush(TCIOFLUSH)
Flush == IF port = "open" THEN toDevice' = <<>> /\ toHost' = <<>> ELSE UNCHANGED lineVars

\* After sleep(2) the line is flushed, and its settings are made, which fails
\* if there is no port or no longer a board.  The threads start in any case.
PortReady ==
  /\ pc["main"] = "opening"
  /\ napLeft = 0
  /\ Flush
  /\ port' = IF port = "open" THEN "open" ELSE "none"
  /\ pc' = [t \in Thread |-> "idle"]
  /\ healthy' = TRUE
  /\ UNCHANGED <<deviceVars, sendVars, speed, napLeft, plugged, lossLeft, slackLeft, unplugsLeft>>

-----------------------------------------------------------------------------
(* The line and the clock.                                                 *)

Without(bytes, n) == SubSeq(bytes, 1, n - 1) \o SubSeq(bytes, n + 1, Len(bytes))

Lose ==
  /\ lossLeft > 0
  /\ lossLeft' = lossLeft - 1
  /\ healthy' = FALSE
  /\ \/ \E n \in DOMAIN toDevice : toDevice' = Without(toDevice, n) /\ UNCHANGED toHost
     \/ \E n \in DOMAIN toHost : toHost' = Without(toHost, n) /\ UNCHANGED toDevice
  /\ UNCHANGED <<deviceVars, hostVars, plugged, port, slackLeft, unplugsLeft>>

\* The board loses its power, and the open descriptor is hung up: from then on
\* it reads nothing and writes nothing, also when the board is plugged in again.
Unplug ==
  /\ plugged
  /\ unplugsLeft > 0
  /\ unplugsLeft' = unplugsLeft - 1
  /\ plugged' = FALSE
  /\ port' = IF port = "open" THEN "dead" ELSE port
  /\ healthy' = FALSE
  /\ toDevice' = <<>>
  /\ toHost' = <<>>
  /\ Reset
  /\ UNCHANGED <<hostVars, lossLeft, slackLeft>>

Plug ==
  /\ ~plugged
  /\ plugged' = TRUE
  /\ UNCHANGED <<firmwareVars, hostVars, port, budgetVars>>

\* A thread that waits for the device, or for the user, or not at all.
Waiting(t) ==
  \/ pc[t] \in {"idle", "closed"}
  \/ pc[t] = "opening" /\ napLeft > 0
  \/ pc[t] = "awaitAck" /\ toHost = <<>>
  \/ pc[t] = "readAck" /\ toHost = <<>> /\ waited = 0

Quiescent == toDevice = <<>> /\ ~TimedOut /\ \A t \in Thread : Waiting(t)

Tick ==
  /\ IF Quiescent
       THEN UNCHANGED <<slackLeft, healthy>>
       ELSE /\ slackLeft > 0
            /\ slackLeft' = slackLeft - 1
            /\ healthy' = FALSE
  /\ quiet' = IF quiet < DEVICE_TIMEOUT THEN quiet + 1 ELSE quiet
  /\ waited' = IF pc["puller"] = "readAck" THEN 1 ELSE waited
  /\ napLeft' = IF pc["main"] = "opening" /\ napLeft > 0 THEN napLeft - 1 ELSE napLeft
  /\ UNCHANGED <<booted, state, parserVars, lightVars, lineVars, plugged, port,
                 pc, frame, base, offset, speed, lossLeft, unplugsLeft>>

-----------------------------------------------------------------------------
\* What a board without a frame shows.
Dark == [id \in Led |-> Black]

Init ==
  /\ FirmwareInit
  /\ pc = [t \in Thread |-> "closed"]
  /\ plugged = TRUE
  /\ port = "none"
  /\ frame = Dark
  /\ speed \in SPEEDS
  /\ base = 0
  /\ offset = 0
  /\ waited = 0
  /\ napLeft = 0
  /\ lossLeft = MAX_LOSS
  /\ slackLeft = MAX_SLACK
  /\ unplugsLeft = MAX_UNPLUG
  /\ healthy = TRUE

HeaderStep(t) == WriteHeader(t) \/ ReadHeaderAck(t) \/ RetryHeader(t)

SendStep ==
  \/ HeaderStep("puller")
  \/ WriteFrameCommand
  \/ WriteChunk
  \/ ReadChunkAck
  \/ ReadLastChunkAck
  \/ ResendChunk
  \/ DrainByte
  \/ ReturnFromSend

SettingStep ==
  \/ HeaderStep("main")
  \/ WriteSetCommand
  \/ WriteSetId
  \/ WriteSetValue

\* A step of the sketch, which needs power.
Powered(step) == plugged /\ step /\ UNCHANGED <<hostVars, cableVars>>

Device == Powered(DeviceStep)

Next ==
  \/ Device
  \/ SendStep
  \/ SettingStep
  \/ \E f \in FRAMES : StartFrame(f)
  \/ \E value \in SPEEDS : PressSpeedKey(value)
  \/ Exit
  \/ OpenPort
  \/ PortReady
  \/ Lose
  \/ Unplug
  \/ Plug
  \/ Tick

\* The sketch's loop() and the server's threads run on, and the clock too.
\* Nothing makes the user press a key, kill the server or start it, or plug in
\* the board.
Fairness ==
  /\ WF_vars(Powered(ReadByte))
  /\ WF_vars(Powered(Setup))
  /\ WF_vars(Powered(MissByte))
  /\ WF_vars(Powered(GiveUp))
  /\ WF_vars(SendStep)
  /\ WF_vars(SettingStep)
  /\ WF_vars(PortReady)
  /\ WF_vars(Tick)

Spec == Init /\ [][Next]_vars /\ Fairness

-----------------------------------------------------------------------------
Label == {"closed", "opening", "idle", "header", "awaitAck", "command", "writeChunk",
          "readAck", "drain", "setCommand", "setId", "setValue"}

\* The type of every variable of the line and of its two ends.
TypeOK ==
  /\ FirmwareTypeOK
  /\ pc \in [Thread -> Label]
  /\ plugged \in BOOLEAN
  /\ port \in {"none", "open", "dead"}
  /\ frame \in FRAMES \cup {Dark}
  /\ base \in Nat
  /\ offset \in 0 .. CHUNK_SIZE
  /\ waited \in 0 .. 1
  /\ speed \in SPEEDS
  /\ napLeft \in 0 .. OPEN_SLEEP
  /\ lossLeft \in 0 .. MAX_LOSS
  /\ slackLeft \in 0 .. MAX_SLACK
  /\ unplugsLeft \in 0 .. MAX_UNPLUG
  /\ healthy \in BOOLEAN

\* The chunk sendData writes, first or again, is a non-empty part of the frame:
\* sizeToSend - offset, which is unsigned, never wraps around, whatever
\* counters are lost, repeated or left over from an earlier chunk.
ChunkInFrame ==
  pc["puller"] \in {"writeChunk", "readAck"} =>
    /\ base < FRAME_DATA_SIZE
    /\ offset < SizeToSend

\* While the device reads a frame over a healthy line, the two ends agree:
\* what the device holds, followed by what is still under way, is what
\* sendData has sent of the frame in flight, byte for byte.
EndsAgree ==
  healthy /\ state = "READ_LED_FRAME" /\ pc["puller"] \in {"writeChunk", "readAck"} =>
    LET sent == IF pc["puller"] = "readAck" THEN base + SizeToSend ELSE base
    IN  frameBuffer \o chunk \o toDevice = SubSeq(FrameData(frame), 1, sent)

\* When sendData returns over a healthy line, the device shows that frame.
FrameShown ==
  [][healthy /\ pc["puller"] = "drain" /\ pc'["puller"] = "idle"
       => newState' = frame]_vars

\* Over a healthy line the device never shows anything but a frame that was
\* sent whole, nor fades at a speed that was not sent: no byte of one command
\* is ever taken for another, even when LED ids, colours and speeds have the
\* values of the header, of the commands or of a '1', and even when a server
\* was killed in the middle of a command and another one started.
NothingGarbled ==
  [][healthy /\ booted' =>
       /\ newState' # newState => newState' = frame
       /\ lerpSpeed' # lerpSpeed => lerpSpeed' \in {2 * value : value \in SPEEDS}]_vars

\* A server that starts with a board finds it idle and the line empty, whatever
\* its predecessor was doing when it was killed, whatever the line did to it and
\* whenever the board was plugged in or out: sleep(2) outlasts the device's second
\* of patience, and a board that has gone since is not taken for one.
FreshStart ==
  [][pc["puller"] = "opening" /\ pc'["puller"] = "idle" /\ port' = "open" =>
         /\ plugged
         /\ state' = "WAIT_FOR_HEADER"
         /\ toDevice' = <<>>
         /\ toHost' = <<>>]_vars

\* A sound line is the channel that the effects may rely on.
Channel == INSTANCE FrameChannel WITH
             Frames <- FRAMES,
             offered <- frame,
             calling <- pc["puller"] \notin {"closed", "opening", "idle"},
             showing <- newState
SoundChannel == Channel!Spec

\* A call that has begun returns, unless the server ends: over a healthy line, and
\* at once if there is no port.
CallsReturn ==
  \A t \in Thread :
    pc[t] = "header" ~> pc[t] \in {"idle", "closed"}

\* A speed whose last byte is being written is in force some time later,
\* unless the server ends: the device was not left in the middle of something.
SpeedInForce ==
  \A value \in SPEEDS :
    pc["main"] = "setValue" /\ speed = value
      ~> lerpSpeed = 2 * value \/ pc["main"] = "closed"
=============================================================================
