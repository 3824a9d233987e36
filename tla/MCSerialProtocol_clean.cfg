\* A line that loses nothing and an end that is never 100 ms late.
CONSTANTS
  NUM_LEDS = 2
  CHUNK_SIZE = 5
  MAX_BYTE = 6
  HEADER_BYTE = 6
  CMD_FRAME_DATA = 1
  CMD_SET_SETTINGS = 0
  SET_ID_LERP = 1
  HEADER_ACK = 4
  DEVICE_TIMEOUT = 2
  ARRIVING = {}
  MAX_LINE = 16
  MAX_HEADERS = 3
  FRAMES <- TwoFrames
  SPEEDS = {1, 6}
  OPEN_SLEEP = 4
  OVERLAP = FALSE
  MAX_LOSS = 0
  MAX_SLACK = 0
  MAX_UNPLUG = 0
SPECIFICATION Spec
INVARIANTS EndsAgree
PROPERTIES SoundChannel CallsReturn SpeedInForce
