\* three messages, two kinds of receive, the process may exit at any time
SPECIFICATION Spec
CONSTANTS
  a = a
  b = b
  Senders = {a, b}
  Receiver = Receiver
  NoOne = NoOne
  Slots = {0, 1}
  SlotOf <- MCSlotOf
  Quota <- MCQuota
  Receives <- MCReceives
  Ops = {"exit"}
  CONTENTION_INSTALL_LIMIT = 0
  MIN_FLUSH_ALL_OPS_BEFORE_CHANGE = 4
  MIN_NO_ENQUEUES_TO_KEEP = 1
INVARIANTS SlotsAnnounced FlagCovers NotForgotten ZeroSees TimerOwned DeadStaysDead
PROPERTY ImplementsMailbox
CHECK_DEADLOCK FALSE
