\* Two reads into one buffer, which the longest frame and the next one do not fit.  A client may stop sending.
CONSTANTS
  BUFFER_SIZE = 280
  FIRST_BYTES <- SomeFirstBytes
  MASKS <- SomeMasks
  PAYLOADS <- SomePayloads
  FOLLOWING <- SomeFollowing
  PIECES <- SomePieces
  CUT = CUT
  MAX_READS = 2
SPECIFICATION Spec
INVARIANTS TypeOK ObeysTheFrame NeedsWholeCommand
CHECK_DEADLOCK FALSE
