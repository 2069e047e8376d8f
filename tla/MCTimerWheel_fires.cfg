\* the clock can reach every timer that is set; system calls fail, the Erlang clock
\* is ahead of CLOCK_MONOTONIC, auxiliary work sets and cancels timers
CONSTANTS
  Timers = {t1, t2}
  SOON_WHEEL_SIZE = 4
  LATER_WHEEL_SIZE = 4
  SCNT_SLOTS = 2
  CLKTCKS_WEEK = 9
  MAX_CLKTCKS = 64
  YIELD_LIMIT = 2
  COST_SLOT = 1
  COST_SLOT_MOVE = 1
  COST_TIMEOUT = 2
  SKEW <- Behind
  MaxTime = 4
  MaxTpos = 4
  MaxDelay = 1
  Env = {"aux", "faults"}
SPECIFICATION FairSpec
PROPERTIES TimersFire
