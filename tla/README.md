# A verification development for OsasLedServer

OsasLedServer streams colours from a PC to an LED strip. A C++ server takes
commands from the keyboard and from web socket clients, computes frames, and
sends them over a serial line; an Arduino sketch reads them, answers, and fades
the LEDs to the colours of the latest frame. This directory models that program
in TLA+, checks the models with TLC and proves part of what they claim with
TLAPS.

Paths such as `src/Pixel.cpp:136` are those of the repository.

1. [The system](#1-the-system)
2. [The modules](#2-the-modules)
3. [The checks](#3-the-checks)
4. [Where the code and its README differ](#4-where-the-code-and-its-readme-differ)
5. [Other observations](#5-other-observations)
6. [The proofs](#6-the-proofs)
7. [What is abstracted, and what is left out](#7-what-is-abstracted-and-what-is-left-out)
8. [Plan](#8-plan)

## 1. The system

### Parts

| Part | Source | State it keeps | Operations |
|---|---|---|---|
| Firmware | `arduino/arduino.ino` | parser `state`, `chunk`/`chunkPos`, `frameBuffer`/`frameIndex`, `settingId`/`settingBuffer`/`settingTargetLen`, `lerpSpeed`, `newState`, `currentState`, `lastReceivedData` | `setup`, one case of `loop`'s switch per byte, `processFrame`, `applySetting`, the one-second timeout, `updateLeds` |
| Serial link, host side | `src/Pixel.cpp`, `src/SerialPort.cpp` | the descriptor; the locals of `sendData`: `i`, `offset`, `chunkIdx`, `begin` | open and flush, `sendData`, `setLerpSpeed`, `readSerialPort`, `writeSerialPort` |
| Effect queue | `src/LedController.cpp` | `effectsQueue`, `currentEffect`, `pPixels` | `addEffect`, `queuePuller`, `changeLedSpeed` |
| Colours of effects | `include/Effects/StaticColor.h`, `ColorWheel.h`, `Pixel::HSVtoRGB` | `_hue`, the colours of `pPixels` | `update` |
| AmbientLight | `src/Effects/AmbientLight.cpp` | `m_data`: the portal, the PipeWire loop, the negotiated format, `leds`, `initialized` | construction, `workerThread`, the portal's callbacks, `start_pipewire`, `on_param_changed`, `on_process`, `update` |
| WebSocketServer | `src/WebSocketServer.cpp` | the epoll set, `clients` with a buffer and `handshakeDone` each | `handleRequests`, `performHandshake`, the decoding of a frame |
| EffectDispatcher | `src/Dispatchers/EffectDispatcher.cpp` | none | `dispatch` |
| main | `main.cpp` | none | one action per key |
| Not built or not used | `windows/*`, `utils/FunctionQueue.h`, `libs/*` | | third-party code, an older version, an unused class |

### How they interact

    keyboard --> main ------------- changeLedSpeed -----------+
                  | addEffect                                 v
    clients --> WebSocketServer --> EffectDispatcher      SerialPort <==> sketch
                                        | addEffect           ^            | fade
                                        v                     | sendData   v
                                  effectsQueue --> queuePuller+           LEDs
                                                       | update()
                                  AmbientLight <-------+
                                    worker thread, PipeWire thread

The server has three threads of its own (main, `queuePuller`, the network
thread), and two more for every AmbientLight. They share `effectsQueue`, the
serial port, and the pixels, and there is no mutex or atomic in the program.
The server and the sketch share only the two byte streams of the line, and two
timeouts that know nothing of each other: 100 ms in `sendData`, 1 s in `loop`.

### What is hard, and what has to hold

**Firmware.** Bytes arrive in any number, are cut short anywhere, and a silence
may interrupt any state. The case `WAIT_FOR_HEADER` falls through into
`WAIT_FOR_COMMAND`. The buffers are reset only when a frame command arrives, not
by the timeout. *No buffer is overrun, an unfinished frame lends nothing to the
next, nothing is shown that was not sent whole, and silence always makes the
sketch receptive again.* The fade truncates floats 60 times a second. *It never
passes its colour and it comes to rest.*

**Serial link.** Header and chunks are repeated when no answer comes in time, so
answers may be late, and the answer to a header, `'1'` = 49, is also a legal
chunk counter. Both ends cut the frame into chunks on their own. The server may
be killed in the middle of a command; the board may reboot when the port is
opened and is then deaf for three seconds while the server waits for two. There
may be no board, or it may be unplugged at any moment.
*Both ends agree on what has been transferred, `sendData` returns only when the
device has the frame, no byte of one command is taken for part of another, a
new server finds the device idle, and every call returns.*

**Effect queue.** One thread pushes and another pops without a lock; the size
test and the push are two steps; effects are freed by the thread that plays
them. *What is played is alive and complete, nothing is lost or played twice,
the order and the limit are kept, and what is accepted is played.*

**Colours of effects.** The wheel starts from an uninitialised hue
(`include/Effects/ColorWheel.h:10`), its colours are floats that are cast to
bytes, and pixels are copied into a frame while another thread may be writing
them. *Whatever the heap held, the colours are bytes and the wheel is continuous;
the strip ends up showing what was asked for last.*

**AmbientLight.** An effect captures pictures from the moment it is created,
whether it waits in the queue, plays or was refused; its pictures arrive on a
thread that shares `leds` and `initialized` with `queuePuller`. *Only the effect
that plays writes to the LEDs, and it does. Zones lie inside the picture, and
the divisor is the number of pixels summed.*

**WebSocketServer.** epoll is edge-triggered, descriptors are reused, data and
the end of a connection arrive together, buffers are not cleared between reads.
*Everything that arrives is read, everyone who leaves frees the descriptor, no
connection inherits another's handshake, and a frame does what its sender
meant.*

`PROJECT.json` lists these hazards line by line, with the properties that cover
each.

## 2. The modules

    Firmware <-------------------- FirmwareProofs
       ^                                 ^
    SerialProtocol <-------------- SerialProtocolProofs <-- SoundLineProofs
          == refines ==> FrameChannel                        (that refinement)
                              ^ part of
    Fade, EffectColours <-- Strip <------------- StripProofs
                              : the queue as promised by
    LedController == refines ==> EffectFifo      LedControllerProofs
                                                  (that refinement)
    ScreenZones <-- AmbientLight <-------------- AmbientLightProofs

    WebSocketServer <-- WebSocketServerProofs    WebSocketFrame <-- WebSocketFrameProofs

`X <-- Y` means that Y extends X; each `...Proofs` module extends the module it is
named after, and `SoundLineProofs` builds on `SerialProtocolProofs`. Each `MC...` module extends its component and
defines the values that a `.cfg` cannot write down; the component modules stay
parametric. Definitions whose comment begins with "Mutant" are plausible
mistakes in the definition that follows. No specification uses them; they serve
to see that a property notices the mistake.

### Firmware

The sketch at the end of two byte sequences, `toDevice` and `toHost`. The
buffers with their indices become sequences (`chunk` is `chunk[0..chunkPos-1]`),
so an index is the length of a sequence, and a write beyond an array is a
sequence that has grown too long. Each case of the switch is an action:

| Action | Code |
|---|---|
| `ReadHeader` | `case WAIT_FOR_HEADER`, the byte is `0xAA` |
| `ReadFrameCommand`, `ReadSetCommand`, `ReadOtherCommand` | `case WAIT_FOR_COMMAND`, also reached by falling through (`ExpectsCommand`) |
| `ReadFrameByte` | `case READ_LED_FRAME` with the `memcpy` and `processFrame` |
| `ReadSetType` | `case READ_SET_TYPE`, with its early return |
| `ReadSetPayload` | `case READ_SET_PAYLOAD` and `applySetting` |
| `GiveUp` | the timeout at the end of `loop` |
| `Setup`, `MissByte` | `Serial.begin` is reached; bytes before that are lost |
| `Silence` | the clock |

`Arrive` and `Collect` are an environment that sends whatever it likes. They
are used when the sketch is checked on its own, and replaced by a server in
`SerialProtocol`.

### SerialProtocol and FrameChannel

Extends `Firmware` with the server's end of the line. `pc["puller"]` walks
through `sendData`, `pc["main"]` through `setLerpSpeed`; each read or write of
the port is a step. `base`, `offset` and `waited` are `i`, `offset` and the time
since `begin`. The loop that repeats a header is `WriteHeader`, `ReadHeaderAck`,
`RetryHeader`; the loop of a chunk is `WriteChunk`, `ReadChunkAck`,
`ReadLastChunkAck`, `ResendChunk`; the draining at the end is `DrainByte` and
`ReturnFromSend`. `Exit`, `OpenPort` and `PortReady` end the server anywhere and
start it again. Opening the port may fail, or succeed with or without resetting
the board; both calls return at once on a port that is not open
(`IsConnected`). `Lose` drops a byte in either direction. `Unplug` takes the
board's power and hangs the descriptor up: `port` is then `"dead"`, reads
bring nothing, writes go nowhere, and `is_open` stays TRUE. `Plug` brings the
board back, but not the descriptor. A reset that opening the port causes
(`OpenBoard`) loses everything under way: the board is deaf for the three
seconds of `delay(3000)`, and whatever was sent before has gone by then.

`Tick` is 100 ms. By itself time passes only when nobody has anything to do (a
byte takes 20 microseconds at 500 000 baud and the loops on both ends do nothing
else); `MAX_SLACK` allows that many ticks in which somebody was late. `healthy`
records whether bytes were lost, somebody was late or the board was unplugged
since the port was opened.

`FrameChannel` is what the effects rely on: a frame that is offered is shown
before the call returns, nothing else is shown between two offers, the line is
dark only after a board was reset, and calls end. `SoundChannel` states that
`SerialProtocol` implements it, fairness included, while the line is sound, with
the device's `newState` as what is shown.

### LedController and EffectFifo

`EffectFifo` is what the controller promises: a bounded queue, one effect played
at a time, in the order of acceptance. `LedController` is the code: `addEffect`
is `Create`, `Configure`, `CheckRoom` or `Refuse`, `WriteSlot`, `Publish`; a pass
of `queuePuller` is `Update` (or `NothingToPlay`), `AfterSend`, then
`NothingToPull`, or `TakeFront` and `Pop`. The `std::queue` is shown as far as
its threads can see into each other's operations: `push` writes the element and
then moves the end that it had read, `size` and `empty` look at both ends.
`BoundedFifo` states the refinement, with the queue mapped to the slots between
the ends and `playing` to `currentEffect` except between `front()` and `pop()`.

### WebSocketServer and WebSocketFrame

`WebSocketServer` is the epoll loop: the events of one `epoll_wait` are handled
one by one (`Accept`, `AcceptFails`, `StartReading`), every `read` is a step
(`ReadSome`, `DoneReading`), and clients connect, send and leave in between. The
kernel is modelled as the code relies on it: `ready` holds the descriptors with
an edge that has not been reported, `Event` samples `EPOLLRDHUP` when the event
is reported, descriptors are handed out lowest first.

`WebSocketFrame` is what one read does after the handshake, byte by byte: the
client's side is written from RFC 6455 (`Encode`, `Meant`), the server's from the
code (`PayloadLength`, `PayloadData`, `ProcessData`, `Dispatch`), over a buffer
that keeps what earlier reads left. A read brings a whole frame and perhaps the
next (`Receive`), or the first or last piece of a frame that TCP has cut
(`ReceivePiece`), which the code takes for a frame, completed by what the buffer
holds. A read takes what the buffer has room for (`Overwrite`), and a frame that
does not fit it whole is not a `Receive`. The bits of a byte, for the masks and
the reserved bits, are quotients and remainders (`Bit`, `Xor`). In
`WebSocketServer` a `"piece"` is read and forgotten before the
handshake, and may or may not be obeyed after it.

### Fade

One colour of one LED, which `updateLeds` treats independently of all others.
`lerpSpeed` is counted in 1/510, in which both 0.1 and n/255 are whole numbers.
`Lerp` gives the results that the float expression may have: the exact value
without its fraction, and, where the exact value is whole, also the number
below, which rounding and a fused multiply-add can produce.

### Strip and EffectColours

`EffectColours` holds, without variables, the arithmetic of the wheel: the hue's
way round the circle (`NextHue`, `Wrapped`), `HSVtoRGB` with its early return, and
the cast to a byte (`ColourBytes`). Hues are whole numbers of units, `DEGREE` to the
degree. With 2^149 units every float is one, 0.05 too; the float that a sum is
rounded to is the constant operator `Float`, of which only is assumed that it is
within `ROUNDING` of the sum. The fraction of a colour is exact, and the error of
the floats it is computed in leaves a choice of bytes: `FLOAT_ERROR` is 1/5000 of
a byte, more than twice what the roundings on the way can add up to.
A hue that is not a number passes every test of `HSVtoRGB` and comes out as one
constant colour.

`Strip` composes the program along the way of a colour: requests
(`AddEffect`, `PressSpeedKey`), the queue as `EffectFifo` promises it
(`PullEffect`, `AfterSend`), the effects (`SendFrame` is `update()` and the
copying in `sendData`; `PaintPicture` is `on_process`), the line as
`FrameChannel` promises it (its `Offer`, `Show` and `Return` are conjuncts of the
actions here), and the sketch's fade, which is module `Fade` extended, not
abstracted. It follows one colour of one LED. LEDs do not influence each other,
and a frame that is torn between LEDs is, for the one that is followed, a frame
that was copied a moment earlier or later. The server is not killed here: what
that does to a frame is a question to `SerialProtocol`.

### AmbientLight and ScreenZones

`ScreenZones` holds the arithmetic of the zones, without variables: which pixels
each LED shows, passed on as `int16_t` (`Int16`), the 16 bits in which they are
counted, and the bytes in which the negotiated format has the three colours,
at offsets that the code computes in an `int` (`INT_MAX`).
`AmbientLight` has one program counter per worker, through the portal's
callbacks (each of which may fail) and `start_pipewire`; PipeWire's two
callbacks, which need the loop's lock; and the steps of `update()`. The queue is
that of `LedController` in steps of a whole call. `painter` is the effect whose
colours the strip shows. `crashed` records that `on_process` has gone on without
a picture or without leds.

## 3. The checks

TLC runs of less than three minutes each. All safety properties are checked in every
reachable state or step of the instance.

| Run | Distinct states | Question | Properties |
|---|---:|---|---|
| `firmware` | 1 563 736 | Does the sketch survive any bytes and silences? | `FirmwareTypeOK` `BuffersInBounds` `ChunkAligned` `WholeCommandsOnly` `SilenceRecovers` |
| `link_clean` | 320 064 | Is a good line the channel that the effects rely on? | `EndsAgree` `SoundChannel` `CallsReturn` `SpeedInForce` |
| `link_faulty` | 4 829 000 | What survives a lost byte, a late end and a pulled cable? | `TypeOK` `ChunkInFrame` `FrameShown` `NothingGarbled` `FreshStart` |
| `link_drop` | violated | Does a call return after a lost byte? | `CallsReturn` |
| `link_overlap` | violated | May a speed be sent during a frame? | `FrameShown` |
| `effects_one` | 25 820 | Is the queue a queue with one thread adding? | `TypeOK` `PlaysLiveEffects` `OneOwner` `LimitKept` `BoundedFifo` `EveryEffectEnds` |
| `effects_two` | violated | And with two? | `PlaysLiveEffects` |
| `ws_serve` | 285 538 | Does the epoll loop miss anything of a client it has accepted? | `TypeOK` `CommandsAfterHandshake` `NothingLeftBehind` `EverythingIsRead` `LeaversAreClosed` |
| `ws_accept` | violated | Is every client accepted? | `EveryClientAccepted` |
| `ws_frame` | 23 186 | Is a frame understood as it was meant? | `TypeOK` `ObeysTheFrame` `NeedsWholeCommand` |
| `strip` | 108 290 | Does the strip come to show what was asked for, and how does it get there? | `TypeOK` `StripTypeOK` `WheelSmooth` `LatestWins` `NoOvershoot` `FadeSettles` `StripFollows` |
| `ambient` | 17 106 | Who writes to the strip, and from which pixels? | `TypeOK` `ReadsInsidePicture` `StripFollowsEdge` `OnlyCurrentPaints` `CurrentPaints` |

### Bounds, and why they are enough

**firmware.** One LED: a frame of four bytes, chunks of three, so a frame has a
full and a partial chunk as the real one (248 = 3 * 64 + 56). The environment
sends a header byte, both command bytes and the id of the setting, in which ids,
colours and speeds coincide with protocol bytes. At most one byte is under way
(`MAX_LINE = 1`): the sketch reads bytes one at a time and never looks ahead, so
a longer line only delays the same steps. Sizes and bytes are arbitrary in the
proofs of section 6.

**link_clean.** Two LEDs, frames of eight bytes in chunks of five and three, two
frames in which the colours swap, and the value of every colour, LED id and
speed is also a header, a command or an answer, so that any confusion would be
noticed. `MAX_HEADERS = 3` headers may be under way, the least for which a late
answer to one is read where `sendData` waits for a chunk counter. The real number
is bounded only by the boot time of the board over 10 ms, all of whose bytes but
the last few are lost. `MAX_LINE = 16`
is never reached over a healthy line. `DEVICE_TIMEOUT = 2` and `OPEN_SLEEP = 4`
keep the order 100 ms < 1 s < 2 s of the three waits, and the proportion of the
last two. The port may fail to open at every start.

**link_faulty, link_drop, link_overlap.** One LED and one speed; the bytes of the
frame read like a whole setting and a header. In `link_faulty` one byte is lost, one tick of lateness
happens and the board is unplugged once and plugged in again, anywhere, before
or after a restart; a line that has lost a byte and has been opened again must
be as good as new. The two others have one fault each, the lost byte and the
overlapping call. Here `MAX_LINE` (9, and 12 in the two others) is
reached: a chunk may be repeated to a board that is late to read it, and the
model stops piling up repetitions after the second or third. The kernel's buffers
would take more of them, all alike.

**effects_one, effects_two.** A limit of two and five effects: the queue fills,
refuses, empties and refills, with one effect that never ends. Five effects
exceed the queue, the one that plays and the one being added. Slots are never
reused in the model; in the program they are reused after 64 elements, more than
six times the limit. Two threads and three effects suffice for the violation.

**ws_serve.** Three clients and two descriptors: descriptors are reused, and run
out. The clients send two messages between them, requests, commands or pieces, and the buffer of a read holds
one (`MAX_READ = 1`), so a read leaves something behind. The listening socket's
accept is checked in the same run, except for the promise that `ws_accept`
refutes.

**ws_frame.** Two reads into one buffer of 280 bytes, in which the longest frame
fits, but not with the next one behind it, so that a read fills the buffer and
leaves the rest; payloads of 0, 1, 4, 5,
125, 126 and 260 bytes, around the length of a command and around every change
of the coding of the length; all three codings wherever they apply, also where a
shorter one exists; every reserved bit; masked and not; followed by nothing or
by the next frame. 260 needs both bytes of the 16-bit length. Two frames, with
a short and with a 16-bit length, are also cut after every byte. A piece in
which the code finds a length that leads beyond the buffer is not followed.

**strip.** The static colours 0 and 255, a wheel and a capture, the speeds of the
keys q and w (2 and 255, of 255: the slowest, and the one at which a fade is a
jump) and the initial 0.1. Three requests and a queue of one, so that it refuses
one, an effect waits behind another, and a picture or a speed comes in the middle
of a fade; the order of several that wait is a question to `effects_one`. The fade
takes every value of a byte. Other colours, speeds and roundings of the fade are
covered by the proofs.

The wheel is that of key 5, 0.05 degrees per LED; a unit is 1/20 of a degree. Its
floats (`Coarse`) are like those of the code, farther apart the larger they are,
but with so few digits that an LED may be a further 0.35 degrees off: that keeps
the hues that occur at the end of a frame few. With 163 LEDs, more than the 62 of the real strip, a pass
ends at eight different hues; of all LEDs the thirteenth is the one behind which
the hue passes 300 degrees, where the border between two parts of the circle is.
It is followed in its blue part, the one that a hue which is not a number treats
differently. The wheel starts far below the circle or from NaN. `WheelSlack` is 2
here, and the mutant jumps by 207.

**ambient.** Two effects and a queue with room for one: an effect plays, waits
or is refused. The strip is the real one, and the pictures are the smallest for
which the zones work, three common screens, an upright one and the largest
possible: in a picture of 22 541 x 9 267 a zone has just under 65 536 pixels.
Between them they have the three formats that are offered.

### Fairness

Threads that loop for ever are weakly fair, and so is the clock: the sketch's
`loop`, `queuePuller`, `addEffect` once it has begun, `handleRequests`,
PipeWire's threads. That is what an operating system grants a runnable thread,
and none of these loops waits for a lock another of them may hold for ever.
Nothing is fair that a person, a client or chance decides: keys, connecting,
sending, leaving, answering the portal's question, killing and starting the
server, losing bytes, unplugging the board and plugging it in. `Strip` takes over
the fairness of the queue and of the channel it stands for. `SilenceRecovers` holds only because its second disjunct
admits a line that never falls silent; `EveryEffectEnds` has a disjunct for an
effect that never ends, since ColorWheel and AmbientLight do not.

In `SerialProtocol` each thread is fair as a whole, not step by step: which of its
steps comes next is decided by its label and by whether there is something to
read. The clock is fair too, and by itself waits until nobody has work to do.

Deadlock is checked except in `ws_serve`, `ws_accept`, `ws_frame` and `ambient`:
there clients connect once, reads are counted, and users may do nothing more, so
the models come to rest where the program waits for input, or has ended.

### What the checks show

- **The sketch** cannot be driven out of its buffers, keeps its chunks aligned
  and shows only whole frames, whatever it is sent.
- **Over a good line** the protocol works, in spite of late answers to repeated
  headers, the fall-through in `WAIT_FOR_HEADER` and an answer that doubles as a
  chunk counter. Two facts carry this: an answer to a header is never the last
  counter of a chunk (`AckAssumption`: 49 is neither 64 nor 56), and a header
  byte in `WAIT_FOR_COMMAND` sends the sketch back to `WAIT_FOR_HEADER`, where
  the command that follows is accepted all the same. Without the missing `break`
  calls would not return.
- **After a fault** everything written stays inside the frame, and a server that
  is started again works as on the first day: its two seconds of sleep exceed
  the sketch's one second of patience. Without the sleep or without the flush it
  would not.
- **One producer** is safe without locks under the assumption of section 7: the
  queue refines a bounded FIFO.
- **The epoll loop** loses no edge: it reads until nothing is left, and handles
  data before a hang-up. The `insert` that keeps an existing entry is harmless
  because every entry is erased before its descriptor is closed.
- **Frames** are decoded correctly over a buffer that is never cleared, because
  the decoder does not look beyond the length in the frame.
- **The fade** never overshoots. Downwards it reaches its colour; upwards it may
  stop short of it (section 5).
- **The strip** comes to show what was asked for last, even if the last frame was
  copied while a picture was being painted: the next frame repairs it. That
  depends on a capture never finishing. Static colours are shown because
  `update()` and the copy are on one thread.
- **The wheel** is within the circle after one pass whatever was in its hue, unless
  that is not a number (section 5), and within a frame it is continuous from LED
  to LED, also where the circle closes.
- **Without a board** calls return at once, because a failing `tcsetattr` takes
  back the `is_open = true` that follows a failed `open`
  (`src/SerialPort.cpp:22`, `:54`). Without that test no call would return.
- **AmbientLight** writes to the strip only while it plays: `leds` is set by the
  first `update()`, and an effect that plays never stops.

## 4. Where the code and its README differ

**A lost byte may end the stream** (`link_drop`). README.md:22 promises "smooth
transitions even if a packet is dropped". If the frame command is lost, the
sketch remains in `WAIT_FOR_HEADER` and answers nothing; `sendData`
(`src/Pixel.cpp:136`) repeats the chunk for ever and never sends another header.
The counterexample is this loop, with the timeout of the sketch firing in
between to no effect.

**A speed key during a frame** (`link_overlap`). README.md:50-52 says that
"strict thread safety is enforced" by `std::mutex` and `std::lock_guard`. There
is none. `changeLedSpeed` writes to the port on the main thread while
`queuePuller` is inside `sendData`. In the counterexample the second header
lands where the sketch expects a frame, its answer is consumed by the other
thread, and `sendData` returns although the device shows something else.

**Two threads adding effects** (`effects_two`). The same lines of the README
promise that a client cannot crash the serial thread. When a key and a client
add an effect at once, one `push` overwrites the end that the other has moved;
`front()` then returns an element that was never written, and `update()` is
called on it.

**A client that is not accepted** (`ws_accept`). README.md:30 has "any client
device on the local network" control the hardware "seamlessly". The listening
socket is edge-triggered (`src/WebSocketServer.cpp:132`) and one `accept` is made
per event (`:145`). Of two clients that connect before `epoll_wait` returns, one
waits until a third one connects.

## 5. Other observations

Met while modelling; not runs of their own.

- A fade upwards stops once `gap * lerpSpeed` no longer adds a whole unit,
  because the cast truncates (`arduino/arduino.ino:50-53`): at the speed of key
  `q` up to 127 of 255 below the colour asked for, at the initial speed about 10.
  A fade downwards always arrives. `FadeSettles` states exactly this.
- `on_process` tests `data != NULL || initialized`
  (`src/Effects/AmbientLight.cpp:121`) and then uses both. An AmbientLight that
  waits in a queue behind an effect that never ends, or was refused, captures
  pictures before its first `update()`, and `leds` is still null. `ambient`
  reaches these states (`crashed`); its properties say what holds until then.
- `start_pipewire` returns with the loop locked when it cannot connect
  (`src/Effects/AmbientLight.cpp:180`). Nothing else takes that lock afterwards,
  except the destructor, which is never run.
- `start_pipewire` builds five formats and offers three (`params, 3` at
  `src/Effects/AmbientLight.cpp:226`). RGBx, RGB and the branch for an unhandled
  format, after which `bpp` would keep an older value, are never negotiated.
- `main.cpp` passes `LEFT_LEDS` and `RIGHT_LEDS` to a constructor that declares
  them in the other order. Both are 14.
- A call that is under way when the board is unplugged does not return, not even
  when the board is plugged in again: the descriptor is dead, `is_open` stays
  TRUE, and `sendData` has no way out of its loops (`src/Pixel.cpp:88`, `:136`).
  Later frames are never sent, and after a speed key `main` hangs as well, until
  the server is restarted. `link_faulty` reaches these states; `FreshStart` says
  that the restart helps.
- A ColorWheel whose uninitialised `_hue` is NaN
  (`include/Effects/ColorWheel.h:10`) keeps it, since no comparison holds: the
  strip stands still at 229, 22, 0.
- Of a command whose frame TCP cuts in two, the first piece is decoded at once,
  with stale bytes of the buffer in place of those to come
  (`src/WebSocketServer.cpp:165`, `:176`), so the effect added may have a colour
  mixed from two commands. The second piece is taken for a frame of its own. The
  next whole frame is understood again.
- `getPayloadData` allocates `payloadLength` bytes (`src/WebSocketServer.cpp:244`)
  and writes a terminating zero behind them (`:259`), one byte beyond the
  allocation, for every frame that is decoded. No text of the repository is
  contradicted, and what the byte belonged to is the allocator's affair;
  section 7 says how it is modelled.
- Once a chunk has been repeated although its answer was only late, there are more
  answers than calls wait for, and a later call may take one for its own
  (`src/Pixel.cpp:117`, `:139`). The code has no numbering that could tell.
  `FrameShown` and `NothingGarbled` say nothing of such a line until the server is
  restarted; `ChunkInFrame` holds all the same.
- README.md:24 and :95 describe a GET command, :24 brightness, :98 `ID_DELAY`, and
  :34 JSON; the code has the fade speed as its only setting, and binary commands.

## 6. The proofs

Every safety property that a run checks on a small instance is proved for all
values of the constants; so are the safety parts of both refinements. `tlapm` checks all of it down to the last leaf,
without further axioms. What is assumed of the constants is in the named `ASSUME`
of each module, which TLC evaluates in the runs, or stands as a hypothesis in the
theorem and is discussed below.

### FirmwareProofs

For every number of LEDs, chunk size, choice of protocol bytes and every
sequence of bytes, from `SizesAssumption` (an LED id and a chunk counter fit in
a byte; sizes are positive) and `ProtocolAssumption` (protocol bytes are bytes,
the two commands differ from each other and from the header):

| Theorem | States |
|---|---|
| `FirmwareInvariant` | `FirmwareSpec => []FirmwareInv` |
| `FirmwareTypeCorrect` | `[]FirmwareTypeOK` |
| `BuffersSafe` | `[]BuffersInBounds` |
| `ChunksAligned` | `[]ChunkAligned` |
| `OnlyWholeCommands` | `WholeCommandsOnly` |

`FirmwareInv` is `FirmwareTypeOK`, `BuffersInBounds`, `ChunkAligned` and
`SettingStarted`. None of the first three is inductive alone: the type of
an answer and of the colours depends on the bounds, `BuffersInBounds` needs types
and for settings `SettingStarted`: that `READ_SET_PAYLOAD` is entered
with an empty buffer and a target length of one, so the first byte completes
the setting and `settingBuffer` never grows. `ChunkAligned` needs the bound on
the chunk, which makes a chunk copied before the frame is full exactly
`CHUNK_SIZE` long. The proof has one lemma per kind of step; the long one is
`ReadFrameByteInv`, which splits on whether the byte fills the chunk and whether
that completes the frame. `WholeCommandsOnly` follows from the invariant: the
frame that is processed is not just long enough but exactly as long as a frame,
because the buffers were in bounds one byte before.

### SerialProtocolProofs

For frames and chunks of any size, whatever is lost, late, unplugged or killed:

| Theorem | States |
|---|---|
| `LinkInvariant` | `Spec => []LinkInv` |
| `LinkTypeCorrect` | `[]TypeOK` |
| `ChunksInFrame` | `[]ChunkInFrame` |
| `StartsFresh` | `FreshStart`, if `SleepOutlasts` |

`LinkInv` contains `FirmwareInv`: what the sketch does with its buffers under an
arbitrary environment it also does at the end of this line. `ChunkInFrame` needs
to know that each thread makes its own kind of call (`OwnCalls`), or a counter
could be read by a thread that is not sending a frame, and that both threads
start and end together. `FreshStart` needs an account of time while a new server
sleeps (`Patience`): of the ticks that have passed since the port was opened, all
but the slack have either emptied the line or lengthened the silence that the
sketch counts. `SleepOutlasts` says that the sleep of the constructor, less that
slack, is longer than the sketch's timeout: 2 s against 1 s in the code.

Proving `FreshStart` corrected the model. In an earlier form a board that was
reset by the opening of the port could still read, after three seconds of
deafness, what a killed server had sent before.

### SoundLineProofs

Under `SleepOutlasts`, and with no call on one thread during a call on the other
(`~OVERLAP`):

| Theorem | States |
|---|---|
| `HealthyInvariant` | `Spec => []HealthyInv` |
| `TheEndsAgree` | `[]EndsAgree` |
| `FramesShown` | `FrameShown` |
| `NoneGarbled` | `NothingGarbled` |
| `SoundLineIsChannel` | `Spec => Channel!Safety`, also if `SoundLine`: nothing is lost, late or unplugged |

`EndsAgree` compares how much of a frame the device has with how much was sent.
To be inductive it has to say what every byte under way will do. There can be
any number of them, left over from repeated headers or from a killed server. So
`HealthyInv` speaks of a *walk*: a function that gives the mode the device is in
before each byte under way, consistent with what each byte does to it (`Leads`),
from the mode it is in to the mode that the host's label expects (`Phase`). A
frame is under way behind such a walk (`Before`), or the device is inside it and
buffers and line together hold its first bytes (`Inside`); answers under way are
those to headers followed by consecutive counters (`Answers`). Reading takes a
walk's first step off, writing appends one, and the lemmas on walks are all the
proof needs to know about sequences of commands. That an answer to a header is
never the last counter of a chunk (`AckAssumption`), that the two commands differ
from the header, and that a header byte leaves the sketch receptive, are used
where section 3 says that they matter.

Neither hypothesis can be dropped: `link_overlap` shows what a second thread does
to `FrameShown`, and without the sleep a new server would find the device inside
a frame.

### LedControllerProofs

For any number of effects and any limit, if at most one thread adds effects
(`OneProducer`):

| Theorem | States |
|---|---|
| `QueueInvariant` | `Spec => []QueueInv` |
| `QueueTypeCorrect` | `[]TypeOK` |
| `EffectsAlive` | `[]PlaysLiveEffects` |
| `LimitHolds` | `[]LimitKept` |
| `EffectsOwnedOnce` | `[]OneOwner` |
| `QueueIsFifo` | `Spec => Fifo!Safety` |

The queue's safety rests on stale values that are stale in the right direction,
and `AddingInv` says so: after the test of the size there is room until the push,
because only the other thread moves the front; the end that was read is still the
end at `Publish`, because nobody else moves it. `SlotsInv` makes each effect enter
once, `PlayingInv` ties the current effect to the slot just left and the deleted
ones to the slots before. That there are slots enough follows by counting: the
slots used are an injection into the effects. The hypothesis is needed:
`effects_two` is the counterexample.

`QueueIsFifo` has one step per action of the code: `Publish` maps to the
abstract addition, `TakeFront` and `Pop` to the abstract pull, all others to a
stutter or to the end of an effect. The mapped queue is the sequence of the
slots between the ends, whose first element and tail need lemmas of their own.

### WebSocketServerProofs

For any number of clients, messages and descriptors, and any size of buffer:

| Theorem | States |
|---|---|
| `ServerInvariant` | `Spec => []ServerInv` |
| `ServerTypeCorrect` | `[]TypeOK` |
| `HandshakeFirst` | `[]CommandsAfterHandshake` |
| `NothingLost` | `[]NothingLeftBehind` |

`CommandsAfterHandshake` needs `EntriesInv`: an entry of the map whose handshake is
done belongs to the client who has the descriptor now, however often it was
reused. `NothingLeftBehind` (data unread implies an edge, an event or a read that
will get to it) is not inductive without knowing that a descriptor is reported
once per `epoll_wait` (`EventsInv`), or handling one event could take away the
reason for another; and type correctness needs `BacklogInv`: when `accept` is
called there is somebody to accept.

### WebSocketFrameProofs

For every buffer of 14 to 65 535 bytes (the code's has 4 096), every mask, every
payload, every piece and whatever follows in the same read (`FrameAssumption`):

| Theorem | States |
|---|---|
| `FrameInvariant` | `Spec => []FrameInv` |
| `FrameTypeCorrect` | `[]TypeOK` |
| `FramesAreObeyed` | `[]ObeysTheFrame` |
| `OnlyWholeCommands` | `[]NeedsWholeCommand` |

`FrameInv` is the conjunction of the three others. The two properties are about
the latest read alone, and need of the state before it only that the buffer holds
bytes: that is what makes them true of whatever earlier reads have left. The work
is in the client's and the server's arithmetic being inverse. A byte is taken to
be its eight bits (`ByteIsBits`, `BitsOfByte`), with which `Xor` undoes itself
(`XorTwice`). `EncodeLaidOut` says where in a frame each of its parts stands, and
`Overwrite` leaves it there because the frame fits. What the server then reads is
compared part by part: the mask bit and the short length (`SecondByteRead`), the
length in each of its three codings (`LengthRead`), the bytes under the mask
(`PayloadRead`), the command in them, and the reserved bits (`ReservedBits`). No
induction over the payload is needed, since its bytes are masked each by itself.
Eight bytes of `EightBytes` are more than the prover's arithmetic likes to see at
once; that the upper six are zero, because what fits the buffer is short, is used
first.

The lower bound on the buffer is the longest header with its mask. Without it the
fixed places at which the server reads a length would not be in the buffer at
all. Proving the type invariant corrected the model: a read used to bring all
that had arrived, however long, while `read()` is given the size of the buffer.

### AmbientLightProofs

For any number of effects and any strip:

| Theorem | States |
|---|---|
| `LightInvariant` | `Spec => []LightInv` |
| `LightTypeCorrect` | `[]TypeOK` |
| `CurrentAlonePaints` | `OnlyCurrentPaints` |
| `InsideThePicture` | `[]ReadsInsidePicture`, if `PicturesFit` |
| `FitIsExact` | `ZonesSound(picture) <=> ZonesFit(picture)`, for offered formats and sides that fit 16 bits |
| `RoundTheScreen` | `[]StripFollowsEdge`, if `PicturesFit` and `CornerReached` |

`on_process` does not ask whether its effect plays. `LightInv` adds to the types
why it need not: only `update()` hands out the leds, so an effect that has them
has been started, and since it never ends it is still the current one
(`StartedPlays`).

The zones are arithmetic over every picture. `PicturesFit` demands that each zone
has a pixel and at most 65 535, which is what a `uint16_t` counts, that the sides
are `int16_t` and the bytes of a picture `int`. The hypothesis is met:
`ScreensFit` proves, for the strip of `include/stdafx.h`, that every picture from
100 x 100 to 22 541 x 9 267 in each offered format satisfies it, and that
`CornerReached` holds: dividing the top edge among its LEDs leaves fewer pixels
over than the right zones are wide.

The hypothesis is no stronger than it must be: by `FitIsExact` a picture that
violates it has a zone without pixels, outside the picture, with more pixels than
the counter holds, or with bytes that an `int` cannot count. The first zone of
each edge suffices to show it, also for pictures so narrow that the conversion to
`int16_t` changes a sign (`Wrapped`).

Formulating the hypothesis corrected the model: the parameters of
`getColorFromArea` are `int16_t`, and the byte offsets are computed in an `int`,
neither of which an earlier form of `ScreenZones` had.

### StripProofs

For every queue, strip, wheel and set of colours:

| Theorem | States |
|---|---|
| `FadeTypeCorrect` | `Spec => []TypeOK`, of a fade by itself: what an LED shows is a byte |
| `FadeNeverOvershoots` | `Spec => NoOvershoot`, of a fade by itself |
| `StripInvariant` | `StripSpec => []StripInv` |
| `StripTypeCorrect` | `[]StripTypeOK` |
| `LatestEffectWins` | `[]LatestWins` |
| `WheelHasNoSeam` | `[]WheelSmooth` |
| `StripNeverOvershoots` | `StripSpec => NoOvershoot` |

The first two hold for all colours and speeds above zero (`FadeAssumption`),
whichever way floats round. `TypeOK` is inductive. Both rest on `LerpBetween`:
every result of `Lerp` lies between what is shown and what is asked for. Its only
non-linear part is isolated in `ShareBounds` (a share of a difference is at most
the difference, less than it unless the share is the whole, and not nothing), the
division in `DivisionBounds`; the rest is linear arithmetic. The share that is not
nothing is what allows for the rounding down at whole numbers when fading upwards,
and the share that is not everything when fading downwards.

`LatestWins` speaks of a moment without effects and is inductive only with what
leads up to it: a call under way has the current effect's frame (`CallsInv`), and
the effect asked for last is the last of the queue or, when that is empty, the
current one (`LatestInv`). Every step of the strip is a step of the fade or
leaves it alone (`StripStepIsFadeStep`), so the lemmas on the fade apply.

`WheelSmooth` speaks of a step, `SendFrame`, in which an LED and the next one get
their colours. It needs an induction, but over the LEDs of a pass, which
brings any hue into the circle (`HueAfterInCircle`). The induction theorems of the
library are parameterised by an operator, which the provers cannot instantiate;
`SetInduction` is stated for a set of numbers instead and follows from the
well-foundedness of their order. With it the recursion in `HueAfter` is shown to
have a solution (`PassExists`) that goes on LED by LED (`HueAfterStep`). Then the
six sectors of `HSVtoRGB` are shown to be three ramps (`SharesAreRamps`), whose
slope is one. Where the next hue is brought back to the other end of the circle,
its colour is that of a hue one step on (`CircleCloses`). Last, bytes: two shares a
step apart, each with the error of its floats, are cut off to bytes no farther
apart than `WheelSlack` (`ByteSlope`). The error costs nothing: either the
slope of `WheelSlack`, 207 instead of the exact 206.55, makes up for it, or the step
is so small that the whole difference is below one byte (`SlackIsEnough`).

Nothing is assumed of the speed but that it is above zero and not beyond the
circle, and of the floats only `ROUNDING`. For the program's own wheel, `DEGREE` =
2^149, 0.05 degrees and floats at most 2^-16 degrees off, `WheelSlack` is 1.
The proof corrected the model, too: the sectors were cases that overlapped, of which
TLC took the first, but TLA+ any.

### Checked only

Liveness (`SilenceRecovers`, `CallsReturn`, `SpeedInForce`, `EveryEffectEnds`,
`EverythingIsRead`, `LeaversAreClosed`, `FadeSettles`, `StripFollows`,
`CurrentPaints`, the fairness in `SoundChannel` and `BoundedFifo`) needs
`ENABLED`, which the prover does not support here. It is all that is only checked.

## 7. What is abstracted, and what is left out

- **Memory.** Steps of one thread are seen by the others in program order. The
  code has data races, for which C++ promises nothing; on an x86 host this is
  the order of a build that keeps `push`'s two stores as they are written. A
  weaker machine could show an element after the end that counts it.
- **The terminating zero** that `getPayloadData` writes one byte beyond its
  allocation has a cell of its own. That is what happens when the allocator
  rounds sizes up; C++ does not promise it.
- **The cast to a byte.** `frameData` is of type `char`, and casting a float above
  127 to it is undefined in C++, as is casting NaN. The models take the low byte
  of the whole part, and 0 for NaN, which is what compilers for x86 make of it.
- **Time.** In ticks of 100 ms. The 10 ms between header and answer, and the
  16 ms of a frame, are steps without a duration.
- **Frames on the line** carry the colours as bytes; the conversion of floats to
  bytes in `sendData` is part of the colours of effects.
- **Write errors** and short writes of the serial port are ignored by the code.
  The model has no step for them; to both ends a short write is the loss of the
  last bytes of a write, and the runs lose one byte, anywhere.
- **Messages** of web socket clients are whole, or cut in two by TCP. A frame
  longer than the buffer, or a piece whose first bytes read as such a length, is
  not followed.
- **The handshake's answer** is text that nothing in the server depends on. It is
  left out, with SHA-1 and base64.
- **Signals, `stop()` and the end of `main`**: `main` loops for ever, so the code
  that ends the server in good order is never reached. `Exit` is the way the
  server ends.
- **AmbientLight's destructor** is never reached: its `update()` always returns
  false and the program deletes no other effect.
- **FastLED, PipeWire, the portal, the kernel** appear as far as the code relies
  on them.
- **`clearBuffer`, `closeSerial`, `fadeToBlack`** are called by nobody.
- **`windows/*`** is not built, and no longer fits the rest: its `SerialPort` has
  another constructor than `main.cpp` calls, and the call that would have obeyed
  a command is commented out (`windows/WebSocketServer_windows.cpp:339`). What it
  would do in this program is not defined by the source.
- **`utils/FunctionQueue.h`** is included by no file. **`libs/*`** is third-party
  code.

## 8. Plan

In the order of importance:

1. *Done.* Every part that is built and carries the program's own logic: the
   sketch, the line with its faults and its abstract channel, the effect queue
   with its abstract specification, the epoll loop and the frames, the colours,
   AmbientLight, and the way of a colour from request to light. The type and
   safety theorems of sketch and fade.
2. *Done.* The safety properties of the line, the queue, the epoll loop, the
   screen capture and the strip, and the safety parts of both refinements.
   The decoding of a frame, for payloads and masks of every kind; that the
   condition on pictures is necessary as well as sufficient.
3. *Model, if the code grows.* A composition of clients with the queue would add
   nothing that its parts do not show, as long as a client's thread does no more
   than `addEffect`.
4. The runs of the violations are kept as long as the code has them; a run whose
   question a stronger one answers gives way to it.
