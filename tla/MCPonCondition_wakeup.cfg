\* the smallest instance in which a wakeup is lost
CONSTANTS
  Process = {p1, p2}
  Notifier = {n1}
  Consumer = {c1}
  NULL = NULL
  MaxNotify = 2
SPECIFICATION CondSpec
INVARIANTS NoLostWakeup
