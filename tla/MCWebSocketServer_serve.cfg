\* Three clients, two descriptors, a buffer that one message fills.  Clients
\* connect at most once, so the system comes to rest.
CONSTANTS
  c1 = c1
  c2 = c2
  c3 = c3
  CLIENTS = {c1, c2, c3}
  FDS = {5, 6}
  LISTENER = 3
  MAX_READ = 1
  MAX_SENT = 2
SPECIFICATION Spec
INVARIANTS TypeOK CommandsAfterHandshake NothingLeftBehind
PROPERTIES EverythingIsRead LeaversAreClosed
CHECK_DEADLOCK FALSE
