-------------------------- MODULE MCSerialProtocol --------------------------
(* The serial line with small frames.  A colour is the plain 3 or the value *)
(* of the header byte, and the LED ids have the values of the commands.     *)
EXTENDS SerialProtocol

Plain == <<3, 3, 3>>
Like(byte) == <<byte, byte, byte>>

\* Two LEDs, two frames: one the other way round.
TwoFrames == {[id \in Led |-> IF id = 0 THEN Plain ELSE Like(HEADER_BYTE)],
              [id \in Led |-> IF id = 0 THEN Like(HEADER_BYTE) ELSE Plain]}

\* A single frame, whose bytes read like a whole setting and a header.
OneFrame == {[id \in Led |-> <<SET_ID_LERP, 3, HEADER_BYTE>>]}
=============================================================================
