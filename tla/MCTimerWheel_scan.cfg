\* three timers, system calls that fail, the Erlang clock ahead of CLOCK_MONOTONIC
CONSTANTS
  Timers = {t1, t2, t3}
  SOON_WHEEL_SIZE = 4
  LATER_WHEEL_SIZE = 4
  SCNT_SLOTS = 2
  CLKTCKS_WEEK = 9
  MAX_CLKTCKS = 64
  YIELD_LIMIT = 2
  COST_SLOT = 1
  COST_SLOT_MOVE = 1
  COST_TIMEOUT = 2
  SKEW <- Behind
  MaxTime = 4
  MaxTpos = 12
  MaxDelay = 2
  Env = {"at_once", "faults"}
SYMMETRY Symmetric
SPECIFICATION Spec
CONSTRAINT EarlyOrFar
INVARIANTS NeverLate ScanAllowed
