\* The speeds are those of the keys q and w.
CONSTANTS
  COLOURS <- Bytes
  SPEEDS = {2, 255}
  DEGREE = 20
  WHEEL_SPEED = 1
  Float <- Coarse
  ROUNDING = 7
  NAN = NAN
  NUM_LEDS = 163
  LED = 12
  PART = 3
  STATICS = {0, 255}
  WHEEL = WHEEL
  AMBIENT = AMBIENT
  NONE = NONE
  QUEUE_LIMIT = 1
  START_HUES <- Hues
  MAX_REQUESTS = 3
SPECIFICATION StripSpec
INVARIANTS TypeOK StripTypeOK LatestWins
PROPERTIES WheelSmooth NoOvershoot FadeSettles StripFollows
