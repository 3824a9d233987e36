\* One thread adds effects; e5 never ends, the others end after one frame.
CONSTANTS
  e1 = e1
  e2 = e2
  e3 = e3
  e4 = e4
  e5 = e5
  EFFECTS = {e1, e2, e3, e4, e5}
  ENDLESS = {e5}
  QUEUE_LIMIT = 2
  NONE = NONE
  GARBAGE = GARBAGE
  PRODUCERS = {ws}
  ws = ws
SPECIFICATION Spec
INVARIANTS TypeOK PlaysLiveEffects OneOwner LimitKept
PROPERTIES BoundedFifo EveryEffectEnds
