\* One LED: a frame of 4 bytes, sent as a chunk of 3 and a chunk of 1.
CONSTANTS
  NUM_LEDS = 1
  CHUNK_SIZE = 3
  MAX_BYTE = 3
  HEADER_BYTE = 3
  CMD_FRAME_DATA = 1
  CMD_SET_SETTINGS = 0
  SET_ID_LERP = 1
  HEADER_ACK = 2
  DEVICE_TIMEOUT = 1
  ARRIVING = {0, 1, 3}
  MAX_LINE = 1
SPECIFICATION FirmwareSpec
INVARIANTS FirmwareTypeOK BuffersInBounds ChunkAligned
PROPERTIES WholeCommandsOnly SilenceRecovers
