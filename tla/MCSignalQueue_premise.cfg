\* two senders, one receive
SPECIFICATION Spec
CONSTANTS
  a = a
  b = b
  Senders = {a, b}
  Receiver = Receiver
  NoOne = NoOne
  Slots = {0, 1}
  SlotOf <- MCSlotOf
  Quota <- MCQuota
  Receives <- ReceiveAB
  Ops = {}
  CONTENTION_INSTALL_LIMIT = 0
  MIN_FLUSH_ALL_OPS_BEFORE_CHANGE = 2
  MIN_NO_ENQUEUES_TO_KEEP = 1
INVARIANT PremiseMessageQueued
CHECK_DEADLOCK FALSE
