-------------------------- MODULE MCWebSocketFrame --------------------------
(* Payloads around the length a command needs and the lengths at which the  *)
(* coding of the length changes.                                            *)
EXTENDS WebSocketFrame

Command == <<239, 1, 10, 200, 30>>
Start(length) == SubSeq(Command \o [n \in 1 .. length |-> n], 1, length)

SomePayloads == {Start(length) : length \in {0, 1, 4, 5, 125, 126, 260}} \cup {<<239, 2, 1, 2, 3>>}
\* Text and close frames, and a frame of each reserved bit.
SomeFirstBytes == {129, 136, 193, 161, 145}
SomeMasks == {<<170, 85, 255, 1>>}
\* Nothing, or the next command's frame.
SomeFollowing == {<<>>, Encode(Frame(130, TRUE, <<0, 0, 0, 0>>, 5, Command))}

\* Commands with a short and with a long coded length, cut anywhere.
CutFrames == {Encode(Frame(130, TRUE, <<1, 2, 3, 4>>, form, Command)) : form \in {5, 126}}
SomePieces ==
  UNION {{SubSeq(bytes, 1, n), SubSeq(bytes, n + 1, Len(bytes))} :
           <<bytes, n>> \in {<<bytes, n>> \in CutFrames \X (1 .. 12) : n < Len(bytes)}}
=============================================================================
