------------------------ MODULE MCWebSocketServer ------------------------
(* The network thread with a few clients and fewer descriptors.             *)
EXTENDS WebSocketServer
=============================================================================
