\* one scheduler, two notifying threads, two notifications in all; two soon and two
\* later ranges; two keys in one bucket; three timers, two per epoll_wait
CONSTANTS
  Process = {p1, p2}
  Notifier = {n1, n2}
  Consumer = {c1}
  NULL = NULL
  MaxNotify = 2
  SOON_WHEEL_SIZE = 8
  LATER_WHEEL_SIZE = 8
  SCNT_SLOTS = 4
  Tables = {"t"}
  Keys = {"k1", "k2", "k3"}
  Processes = {p, q}
  PON_ETS_WATCHER_BUCKETS = 2
  pon_ets_watcher_bucket <- MCBucket
  Insts = {i1, i2, i3}
  Fds = {3, 4, 5}
  NoFd = NoFd
  PON_TIMER_MAX_EVENTS = 2
SPECIFICATION PartsSpec
INVARIANTS
  ListIntact ExactlyOnce NeverDeaf
  FindsNextSlot RangeOfSlot
  LinkedOnce CountExact SweptClean
  FdsOwned FiredWhenRead
PROPERTIES
  ImplementsReadyQueue NotifyWakesSleeper SleepsWhenQuiet
  Terminates ImplementsWatcherSet
