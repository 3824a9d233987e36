\* The strip of stdafx.h; room for one waiting effect.  The user may stop
\* pressing keys, and the program may crash.
CONSTANTS
  TOP_LEDS = 34
  LEFT_LEDS = 14
  RIGHT_LEDS = 14
  PADDING = 100
  a1 = a1
  a2 = a2
  LIGHTS = {a1, a2}
  QUEUE_LIMIT = 1
  NONE = NONE
  WHEEL = WHEEL
  PICTURES <- SomePictures
SPECIFICATION Spec
INVARIANTS TypeOK ReadsInsidePicture StripFollowsEdge
PROPERTIES OnlyCurrentPaints CurrentPaints
CHECK_DEADLOCK FALSE
