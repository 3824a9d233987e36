----------------------------- MODULE MCFirmware -----------------------------
(* The firmware at the end of a line that carries arbitrary bytes.          *)
EXTENDS Firmware
=============================================================================
