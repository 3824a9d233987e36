-------------------------- MODULE MCAmbientLight --------------------------
(* Two effects and pictures from the smallest that works to the largest.    *)
EXTENDS AmbientLight

Picture(w, h, form) == [width |-> w, height |-> h, format |-> form]

\* The smallest, one that 14 and 34 do not divide, wide, upright, and the
\* largest of which a zone's number of pixels fits in 16 bits.
SomePictures ==
  {Picture(100, 100, "BGRA"), Picture(1366, 768, "RGBA"), Picture(1920, 1080, "BGRx"),
   Picture(3440, 1440, "BGRA"), Picture(2160, 3840, "RGBA"), Picture(22541, 9267, "BGRx")}
=============================================================================
