\* Two clients that connect at the same time.
CONSTANTS
  c1 = c1
  c2 = c2
  CLIENTS = {c1, c2}
  FDS = {5, 6}
  LISTENER = 3
  MAX_READ = 2
  MAX_SENT = 1
SPECIFICATION Spec
PROPERTY EveryClientAccepted
CHECK_DEADLOCK FALSE
