------------------------------- MODULE MCStrip -------------------------------
(* A strip with the wheel of key 5: 0.05 degrees per LED.                    *)
EXTENDS Strip

Bytes == 0 .. 255

\* Below the circle, and not a number.
Hues == {-60000, NAN}

\* Floats are the farther apart the larger they are: here by 1/20 of a degree up to
\* 8 degrees, twice that from there on, and again from 16 and 32.  That is farther
\* than in the code, and they are rounded up.
Coarse(n) ==
  IF n <= 160 THEN n
  ELSE IF n <= 320 THEN n + (n % 2)
  ELSE IF n <= 640 THEN n + ((-n) % 4) ELSE n + ((-n) % 8)
=============================================================================
