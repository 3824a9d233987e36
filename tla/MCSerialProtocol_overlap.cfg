\* A speed key may be pressed while a frame is being sent.
CONSTANTS
  NUM_LEDS = 1
  CHUNK_SIZE = 3
  MAX_BYTE = 4
  HEADER_BYTE = 4
  CMD_FRAME_DATA = 1
  CMD_SET_SETTINGS = 0
  SET_ID_LERP = 1
  HEADER_ACK = 2
  DEVICE_TIMEOUT = 2
  ARRIVING = {}
  MAX_LINE = 12
  MAX_HEADERS = 2
  FRAMES <- OneFrame
  SPEEDS = {4}
  OPEN_SLEEP = 4
  OVERLAP = TRUE
  MAX_LOSS = 0
  MAX_SLACK = 0
  MAX_UNPLUG = 0
SPECIFICATION Spec
PROPERTY FrameShown
