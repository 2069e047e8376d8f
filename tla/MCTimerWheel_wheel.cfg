\* three timers, set and moved by callbacks; the clock goes round the wheels
CONSTANTS
  Timers = {t1, t2, t3}
  SOON_WHEEL_SIZE = 4
  LATER_WHEEL_SIZE = 4
  SCNT_SLOTS = 2
  CLKTCKS_WEEK = 9
  MAX_CLKTCKS = 64
  YIELD_LIMIT = 2
  COST_SLOT = 1
  COST_SLOT_MOVE = 1
  COST_TIMEOUT = 2
  SKEW = 0
  MaxTime = 6
  MaxTpos = 14
  MaxDelay = 2
  Env = {"at_once", "hl"}
SYMMETRY Symmetric
SPECIFICATION Spec
CONSTRAINT FewPositions
INVARIANTS CountersExact SlotsAhead LaterInReach
PROPERTIES NeverEarly BumpComplete
