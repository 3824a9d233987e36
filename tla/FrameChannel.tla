---------------------------- MODULE FrameChannel ----------------------------
(***************************************************************************)
(* What the serial line promises the effects as long as it is sound: a     *)
(* frame that is offered gets shown, whole and before the call returns, and *)
(* between two offers nothing else is shown, whatever happens to the        *)
(* server.  Only a board that restarts goes dark, which it does when a      *)
(* server opens the port.                                                   *)
(***************************************************************************)
CONSTANTS
  Frames,      \* what may be offered
  Dark         \* what a board shows that has just been powered

VARIABLES
  offered,     \* the latest frame
  calling,     \* sendData is at work on it
  showing      \* what the LEDs fade to

channelVars == <<offered, calling, showing>>

Init == offered = Dark /\ calling = FALSE /\ showing = Dark

Offer(f) == ~calling /\ calling' = TRUE /\ offered' = f /\ UNCHANGED showing

\* A server that is killed may have sent it all: then it is shown later.
Show == showing' = offered /\ UNCHANGED <<offered, calling>>

Return == calling /\ showing = offered /\ calling' = FALSE /\ UNCHANGED <<offered, showing>>

Abandon == calling /\ calling' = FALSE /\ UNCHANGED <<offered, showing>>

GoDark == ~calling /\ showing' = Dark /\ UNCHANGED <<offered, calling>>

Next == Show \/ Return \/ Abandon \/ GoDark \/ \E f \in Frames : Offer(f)

\* What the channel never does.
Safety == Init /\ [][Next]_channelVars

Spec ==
  /\ Safety
  /\ WF_channelVars(calling /\ Show)
  /\ WF_channelVars(Return)
=============================================================================
