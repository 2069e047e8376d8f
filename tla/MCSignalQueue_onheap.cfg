\* a message each; the process changes to on-heap messages
SPECIFICATION Spec
CONSTANTS
  a = a
  b = b
  Senders = {a, b}
  Receiver = Receiver
  NoOne = NoOne
  Slots = {0, 1}
  SlotOf <- MCSlotOf
  Quota <- OneEach
  Receives <- ReceiveAB
  Ops = {"on_heap"}
  CONTENTION_INSTALL_LIMIT = 0
  MIN_FLUSH_ALL_OPS_BEFORE_CHANGE = 2
  MIN_NO_ENQUEUES_TO_KEEP = 1
INVARIANT OnHeapUnbuffered
CHECK_DEADLOCK FALSE
