\* Two threads add effects at the same time: the keys and a web socket client.
CONSTANTS
  e1 = e1
  e2 = e2
  e3 = e3
  EFFECTS = {e1, e2, e3}
  ENDLESS = {}
  QUEUE_LIMIT = 2
  NONE = NONE
  GARBAGE = GARBAGE
  PRODUCERS = {main, ws}
  main = main
  ws = ws
SPECIFICATION Spec
INVARIANT PlaysLiveEffects
