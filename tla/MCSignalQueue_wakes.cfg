\* a message each, two kinds of receive, one with a wrong time; the process may change to on-heap messages
SPECIFICATION FairSpec
CONSTANTS
  a = a
  b = b
  Senders = {a, b}
  Receiver = Receiver
  NoOne = NoOne
  Slots = {0, 1}
  SlotOf <- MCSlotOf
  Quota <- OneEach
  Receives <- OneIsWrong
  Ops = {"on_heap"}
  CONTENTION_INSTALL_LIMIT = 0
  MIN_FLUSH_ALL_OPS_BEFORE_CHANGE = 2
  MIN_NO_ENQUEUES_TO_KEEP = 1
PROPERTIES Wakes SendReturns
CHECK_DEADLOCK FALSE
