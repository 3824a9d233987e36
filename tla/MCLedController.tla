-------------------------- MODULE MCLedController --------------------------
(* The effect queue with a few effects and a queue limit of two.            *)
EXTENDS LedController
=============================================================================
