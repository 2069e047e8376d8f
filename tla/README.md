# PON-BEAM: a TLA+ verification project

PON-BEAM is a fork of the Erlang runtime system (ERTS, OTP 30) that replaces
polling by notification: scheduler wakeup, timers, selective receive, ETS reads
and a collector of registered objects. This directory models the C code of the
fork, and the parts of ERTS that the fork hooks into, in TLA+, checks small
instances with TLC and proves the central theorems with TLAPS. Paths below are
relative to `src/otp/erts/emulator/beam/`.

## 1. The system

| Part | Code | State | Operations | Interacts with |
|---|---|---|---|---|
| Condition | `pon_condition.c` | lock-free stack `ready_list`, plain int `satisfied`, an eventfd in an epoll set, two counters; one per scheduler (`erl_process.h:758`) | create, notify, wait, try_dequeue, is_satisfied, destroy | notifying threads, the scheduler, the kernel |
| Message passing | `erl_message.c`, `erl_proc_sig_queue.c/.h`, `emu/msg_instrs.tab`, `erl_process.c`, `erl_hl_timer.c` | per process: state flags, outer queue, an array of buffers, inner queue and save pointer, the timer of a receive | send, receive with and without a time limit, flush, install and remove buffers, exit, change to on-heap messages | senders on other schedulers, timers, the run queue, Premises |
| Premises | `pon_premise.c` | list of patterns per process | register, unregister, notify, advance, note_consumed (notify and advance return at once in this tree) | senders, `receive` |
| PON-GC | `pon_gc.c`, BIFs in `bif.c:3888-4110` | per process: nodes with colours and references, roots, a gray queue, counters | register_objects, add_root, add_ref, collect, dump; in C only: remove_ref, mark, step, sweep, reset | the process that owns it |
| Timer wheel | `time.c` | per scheduler: at-once slot, soon wheel, later wheel, counts per range of slots, cached next timeout, state of a bump that yielded | set, cancel, check_next_timeout, bump | `erl_hl_timer.c`, timeout callbacks, the clock, `scheduler_wait` |
| Canary | `time.c` (`pon_timer_wheel_*`) | a timerfd and the deadline it is armed for | arm, can_skip_scan | the wheel, CLOCK_MONOTONIC |
| Instigations | `pon_timer.c` | a timerfd per timer, an epoll set | init, create, cancel, fire, process_expirations, destroy | the kernel; no caller in this tree |
| ETS watchers | `pon_ets.c` | hash buckets of watchers, a count | add, remove, notify, remove_process | no caller in this tree |
| Statistics | `pon_stats.h` | thread-local counters | increment, report | everything |

What is hard here: notifiers and a scheduler interleave between any two memory
accesses of the Condition; a wakeup can be lost between a flag, a list and a
descriptor. Senders put messages into buffers without the lock of the queue,
while the receiver clears the very flags that announce them and goes to sleep. A
collection depends on colours that earlier calls left. Timeout callbacks set and
move timers in the very lists a bump is walking; a bump yields half-way and
other calls run before it resumes; the cached next timeout goes stale when
timers are cancelled; the canary answers from a second clock and its system
calls can fail.

## 2. The modules

* **PonCondition** (`pon_condition.c`). Every load, store, CAS and system call
  of notify, wait, try_dequeue and is_satisfied is an action; `npc`/`cpc` are the
  program counters, `nold`, `chead`, `cnext` the C locals, `cond` the struct and
  `next[p]` the first word of a process, through which the list is linked.
  `notify_count++` is a load and a store. `queue` and `batch` are history
  variables: what the pointers should stand for. `idle` is the caller's side: a
  process is not notified again until its notification was consumed.
  **ReadyQueue** is what a Condition promises: a LIFO queue, taken whole or one
  by one, each process delivered once.
* **SignalQueue**: the way of a message from `queue_messages` to `receive`.
  `snd[s]` holds where a sender is and its locals, `rcv` the receiving process
  with the receive it is in, `buf` the buffer array (`queue` the slots,
  `nonempty` and `msgs` the atomics `nonempty_slots` and `msgs_in_slots`), `fl`
  the flush that the owner of the message queue lock is in, `timer` and `tpc`
  the timer of a receive and the thread it fires on. Every atomic access is an
  action; so is every critical section into which no other thread can look. The
  flush runs for whoever holds the lock: a sender before it links its message,
  the receiver before it fetches, a process that exits or changes to on-heap
  messages. `due` is a history variable: what a receive with `after 0` must
  find. The hooks of PON are where the code has them: the block at the end of
  `queue_messages` (`NotifyPremises`) and the calls in `receive`, which return at
  once. **Mailbox** is what message passing promises a process, and
  **SignalQueueRefinement** the mapping.
* **PonGc** (`pon_gc.c` and the BIFs). A node is its id. The loops of
  `pon_gc_mark` and `propagate` run one iteration per step, so that the
  tri-colour argument is stated of every iteration. `Next` is what the BIFs can
  do; `ApiNext` adds what `pon_gc.h` offers to C code: marks without a sweep,
  reset, remove_ref. **ObjectGraph** is a graph in which a collection removes
  exactly the objects no path from a root reaches.
* **WheelSlots** (`time.c:241-481`): the geometry of the wheels, and
  `scnt_wheel_next` in closed form. **ScntScan** is the loop of that function,
  one iteration per step; that it computes the closed form is checked and proved.
* **TimerWheel** (`time.c`). `tiw` is `struct ErtsTimerWheel_` with its timers,
  `b` the locals of `erts_bump_timers`, `now` the clock in ticks. The helpers of
  `time.c` are operators from wheels to wheels under their C names; the canary's
  are sets of possible outcomes, since a system call may fail. A bump is `Top`,
  `Bump`, `Slot`, `Take`, `List`, `CallbackReturns`, one loop iteration each;
  between `Take` and `CallbackReturns` a callback may set timers (`SetTimer`) or
  move the service timer (`AdvanceTimer`, `erl_hl_timer.c:1317-1328`).
  `AsksForTimeout` is the place of `scheduler_wait` at which the next timeout
  is asked for. The search of `find_next_timeout` in the soon wheel is in closed
  form (`SearchSoon`): the first non-empty slot of those that the loop inspects.
* **PonEts** (`pon_ets.c`): a bucket is a sequence, the hash any function from
  tables and keys to buckets, and the loop of `remove_process` takes one watcher
  per step. **WatcherSet**: a set of watchers from which a dying process is
  removed at once.
* **Instigations** (`pon_timer.c`), with the part of the kernel that it uses:
  timerfds that are armed, expire and are read, and an epoll instance that
  reports a bounded number of them at a time. Descriptors are reused.
* **MC\*** instantiate these for TLC. MCParts holds four parts that share no
  state (the Condition, the scan, the watchers, the instigations), one per behaviour.
* **PonConditionProofs**, **PonGcProofs**, **SmallPartsProofs** (the scan, the
  instigations and the watchers), **TimerWheelFacts**, **TimerWheelProofs**,
  **SignalQueueSteps** and **SignalQueueProofs** hold the theorems,
  **SequenceFacts** the facts about sequences they share. **Lists** is the
  unlinking of an element that `pon_ets.c` and `time.c` have in common.

An operator named `X_Something` before `X` is `X` with a plausible bug: with it
in place of `X`, the property it belongs to is violated.

## 3. The runs

| Run | Instance | Properties | What it shows |
|---|---|---|---|
| `condition_lost_wakeup` | one scheduler, one notifying thread, two processes, two notifications in all | NoLostWakeup (violated) | a notification can stay in the list with the scheduler asleep |
| `gc` | three objects, two references each, two roots, two collections | NoDangling, TriColor, GrayQueue, LiveExact, NeverCollectsReachable, ImplementsObjectGraph, CollectTerminates | through the BIFs a collection removes exactly the unreachable objects |
| `gc_stale_black` | two objects, the C interface | NeverCollectsReachable (violated) | a mark without a sweep leaves colours that mislead the next collection |
| `wheel` | three timers, four soon slots, four later slots of two ticks, a scheduler up to two ticks late, callbacks that move the service timer | CountersExact, SlotsAhead, LaterInReach, NeverEarly, BumpComplete | counts and slots are exact, no timer is early, none is left behind by a bump, also after the scan of `wheel_yielded` |
| `wheel_scan` | three timers, failing system calls, CLOCK_MONOTONIC behind; the service timer is not moved and there is no auxiliary work | NeverLate, ScanAllowed | the cached timeout is never late, whatever the canary does, and the wheel is scanned only where the asserts allow it |
| `wheel_fires` | two timers, failing system calls, CLOCK_MONOTONIC behind, auxiliary work | TimersFire | the canary never makes the scheduler miss a timer |
| `wheel_yielded` | three timers, callbacks that move the service timer | NeverLate (violated) | a bump that has yielded can be scanned, and the cached timeout passes timers that are due |
| `mailbox` | two senders, three messages, receives with a time limit and with `after 0`, exit at any time | SlotsAnnounced, FlagCovers, NotForgotten, ZeroSees, TimerOwned, DeadStaysDead, ImplementsMailbox | nothing sent is lost, doubled or reordered; no sleeper is forgotten |
| `mailbox_wakes` | two senders, one message each, a receive without limit and one with a wrong time, change to on-heap | Wakes, SendReturns | a message that is waited for ends the receive; sends return |
| `mailbox_premise` | two senders, one receive | PremiseMessageQueued (violated) | the Premise block may read a message that is gone |
| `mailbox_on_heap` | two senders, one message each, change to on-heap | OnHeapUnbuffered (violated) | a send can meet the buffers after the change to on-heap has flushed them |
| `parts` | one scheduler, two notifying threads, two processes, two notifications in all; wheels of eight slots with ranges of four; two buckets, three keys, two processes; three instigations, three descriptors, two events per call | ListIntact, ExactlyOnce, NeverDeaf, ImplementsReadyQueue, NotifyWakesSleeper, SleepsWhenQuiet; FindsNextSlot, RangeOfSlot, Terminates; LinkedOnce, CountExact, SweptClean, ImplementsWatcherSet; FdsOwned, FiredWhenRead | the list of a Condition never tears, loses or doubles a process, a sleeper that is notified wakes and a scheduler without work sleeps; the scan computes its closed form; the watchers implement a set; descriptors and expirations are not lost |

### The violations

* **Lost wakeup** (`pon_condition.c:166`). `notify` pushes, then tests and sets the
  plain flag `satisfied`, then writes the eventfd. A notifier whose process was
  taken before it set the flag has its write drained by that `wait`; the flag
  stays set, the next `notify` skips its write, and `wait` clears the flag and
  sleeps over a list that is not empty. NeverDeaf, which holds, says how far the
  code is right: asleep on an empty eventfd, the flag is clear or a write is on
  its way.
* **Stale black** (`pon_gc.c:41`). `enqueue_gray` ignores what is not WHITE. After a
  mark without a sweep, a reference from a BLACK node is never followed. The BIFs
  always sweep, so only the C interface reaches this.
* **Scan of a half-bumped wheel** (`time.c:757`). A callback moves the service timer
  (`erl_hl_timer.c:1317-1328`) out of the later slot for which `later.min_tpos` is
  stale. `yield_slot` is still inactive while the bump runs, so
  `true_next_timeout_time` is cleared. The bump then yields (`time.c:1025-1029`), and
  the next question of the scheduler scans: against the assert at `time.c:505`, and
  with the cached deadline past timers that are due, against the comment at
  `time.c:1211-1220`, which calls it a valid lower bound. It takes three timers. The same
  clearing on the evidence of a stale `later.min_tpos` can hide an at-once timer, against
  the assert at `time.c:503`, when auxiliary work sets and cancels timers between the
  scheduler's bump test and its question: ScanAllowed fails with two timers, a clock to
  3, positions to 12 and `Env = {"aux"}`.
* **Premise block** (`erl_message.c:470`). After the unlock and the notification the
  receiver can take and free the message before the block reads it.
* **Buffers of an on-heap process** (`erl_message.c:1081`). The change to on-heap
  messages flushes and removes the buffers under the lock, releases it, and clears
  OFF_HEAP_MSGQ only then (1089). A contended send in between installs and fills
  buffers again, although the comment at 1071-1074 guarantees that there are no
  messages in buffers while FS_ON_HEAP_MSGQ is set and the lock is held. No message is
  lost or reordered by it: the properties of `mailbox` hold with this change as well.

### Also met while modelling

Modelled as the code is, but not the subject of a property: these have no caller in
the tree, are defects of a single call, or change nothing that another part reads.

* `notify_count` loses increments, being neither locked nor atomic; with a second
  consumer `try_dequeue` has an ABA problem (hence the assumption SingleConsumer).
* `pon_gc_collect/0` always reports `live => 0`, because the sweep clears `live_nodes`
  (`pon_gc.c:371`) before `bif.c:4065` reads it, and adds the same notifications to its
  statistics again. `pon_gc_remove_ref` starts its shift at the flag `found` instead of
  the index (`pon_gc.c:255`), and so can remove the wrong reference.
* The canary's deadline is set on CLOCK_MONOTONIC to a value of Erlang monotonic time
  (`time.c:1270`, against the comment at 1214-1216), which costs scans and loses no
  timer. A scheduler late by a whole revolution of the later wheel can leave the cached
  timeout late (section 4).
* `pon_timer.c` creates an instigation that can never fire when there is no epoll
  instance, calls a relative time absolute, and leaves a cancelled instigation `fired`
  when it is created again.

### Bounds, and why they are enough

* Condition: two notifications in all. They let a process be notified again
  while its earlier notification is being consumed, or two notifiers race on the
  flag and on the list head. Three (1.5 million states) show no more, and the
  theorems have no such bound.
* PonGc: three objects give cycles, chains, sharing and an object reachable only
  through one that is collected; two references fill a reference array past its
  first slot; two collections make the second one meet what the first left.
* TimerWheel: `SOON_WHEEL_SIZE = 4` makes later slots of two ticks, and four of them
  let a timer lie one revolution ahead in the slot that is being bumped.
  `MaxDelay = 2` is `(LATER_WHEEL_SIZE - 3) * LATER_WHEEL_SLOT_SIZE`, the most that
  the code tolerates with these sizes. `YIELD_LIMIT = 2` makes bumps yield after
  every kind of work. In `wheel` the clock runs to 6 and timers to 14, so that the
  later wheel goes round. Three timers are affordable when they are set to a few
  positions only: `FewPositions` has two that share a later slot (6 and 7), one a
  revolution after (14), one in the slot before that (12), and two that start in the
  soon wheel; the scan of `wheel_yielded` is reached within it. `EarlyOrFar` of `wheel_scan` has
  every position of the soon wheel and one far ahead. In `wheel_fires` every timer
  must be within reach of the clock, so positions end at 4; the scan that hides an
  at-once timer needs more and is not met there.
* SignalQueue: `CONTENTION_INSTALL_LIMIT = 0` and few flushes per decision make
  one contended send install an array. Four flushes before it may be removed let
  an array outlive the message it was installed for, so that two more can meet in
  it. The receive without limit and the one with a wrong time are in `mailbox_wakes`.
* The other parts: two keys in one bucket and one in the other; one more
  instigation than `epoll_wait` reports at a time; two ranges per wheel.

TLC checks for deadlock except with PonGc (a graph on which every bound is
reached allows no further call) and MCSignalQueue (all messages sent and received,
or the process gone).

### Fairness

* Condition: each thread takes its next step (WF); `SF` of the load that starts
  a wait says that the scheduler loop always comes back to `pon_condition_wait`.
* PonGc: a collection that has begun goes on (WF); BIFs are not forced.
* TimerWheel: callbacks return and the loops of a bump go on (WF of `Step`), the
  scheduler bumps when it sees that the time has come (WF), and time passes (SF,
  since a tick is only taken between calls).
* SignalQueue: `SF` of the steps of a sender, of the receiver, of the timer and of
  a flush, because they wait for ERTS locks, which serve waiters in turn, and a
  process that is scheduled in has reductions to spend; `WF` of the scheduler.
* ScntScan: its loop goes on (WF). Instigations and ETS watchers have no caller
  in the tree, so nothing is assumed and no liveness is claimed.

## 4. What is proved

TLAPS proves the following for every value of the constants, that is, for any
number of threads, objects, messages, timers and slots. The assumptions on the
constants are named ASSUMEs of the components' modules, and TLC evaluates them in
every run. All proofs are inductive invariants; the modules say at their head
what had to be added to the property to make it inductive.

* **PonConditionProofs.** The theorems assume `SingleConsumer`, which the one
  Condition per scheduler gives. `ListInv` adds to ListIntact and ExactlyOnce that a
  node linked by a notifier still points at the head it read (LinksFresh), and that
  the head `try_dequeue` read is still queued with its successor unchanged when the CAS
  compares it (HeadFresh): this is where a second consumer would break it.
  `ListCorrect`, `NothingLostOrDoubled` and `RefinesReadyQueue` follow; `SleeperHears`
  needs the types only. The proofs are about interleavings of the accesses in
  program order, as the models are.
* **PonGcProofs.** `GcInv` adds MarkExact to the tri-colour invariant and the gray
  queue: what is coloured belongs to every set that holds the roots and is closed
  under references, and no node is coloured before a mark. At the sweep the
  coloured nodes are closed themselves, so they are the reachable ones:
  `CollectSafe`, `LiveCountExact` and `RefinesObjectGraph` follow.
* **SignalQueueSteps, SignalQueueProofs.** `QueueInv` has a part for each question
  that the code answers without the message queue lock: who owns it (LockInv),
  which buffers are alive (BufferInv), what is announced although the flush clears
  both announcements (AnnounceInv), what MSG_SIG_IN_Q covers (FlagInv), who will
  wake the receiver (SleepInv), the scheduling flags (RunInv), whose the timer is
  (TimerInv), what the save pointer has passed (ScanInv), and where the messages
  are that `after 0` must find (DueInv). Six theorems about the run `mailbox` follow.
  SignalQueueSteps holds the effect of every step on every variable.
* **SmallPartsProofs.** `LoopInv` of the scan: the ranges passed are empty, and the
  slot is as many slots ahead as were passed; `PassesNoTimer` is the closed form
  that WheelSlots uses. `TiInv` of the instigations: a timerfd has one owner and the
  owner's `fired` says whether it was read. `EtsInv` of the watchers: none is linked
  twice, each is in the bucket its hash selects, and the count follows.
  `RefinesWatcherSet` maps a half-swept registry to the set from which the process
  has gone already.
* **TimerWheelFacts, TimerWheelProofs.** `WInv` is about the wheel in the middle of any helper:
  `Good(tw, cur, extra, L)` says that every active timer outside `L` is in
  exactly one list, the one of its slot or the one being bumped (then its slot is
  `cur`), that the counts are exact for those timers, with `extra` more in `nto`,
  and that at-once timers are due. A timer on its way from one list to another is
  the one in `L`: `TakeOut` and `PutIn` move it out of and into the lists, `Forget`
  lets an inactive one go, `Frame` covers the changes of everything else.
  `CountsExact` is CountersExact; `FiresOnTime` is NeverEarly, and needs that
  `pos` and `bump_to` never pass the clock and that at-once timers are due.
* **SequenceFacts**: the facts about sequences that the others share.

The type invariants are part of the inductive invariants and proved with them.

**Only model-checked.** Liveness (TimersFire, Wakes, SendReturns,
NotifyWakesSleeper, SleepsWhenQuiet, CollectTerminates, Terminates), which this prover
does not do. `ImplementsMailbox`: its mapping selects the messages of each sender out
of four queues with SelectSeq, whose facts need induction over sequences.
SlotsAhead, NeverLate, ScanAllowed, LaterInReach and BumpComplete of the wheel: they
hold for a scheduler that is not too late, and are not theorems about all constants.
With `MaxDelay = 6`, a clock to 9 and timers to 14, TLC finds each of the five
violated with two timers. NeverLate and ScanAllowed also fail when auxiliary work sets
timers (section 3) or callbacks move the service timer (`wheel_yielded`), which
is why `wheel_scan` has neither.

## 5. What is not modelled

* Weak memory: the models interleave the accesses in program order. The atomics of
  the code carry barriers where another thread relies on an order; the plain
  `satisfied` and `notify_count` do not, and get no more than this.
* `pon_condition_destroy`; `pon_gc_step` (the same mark in portions, no caller);
  `pon_gc_dump/0` and `pon_gc_stats`, which only read; the 16-bit capacity of a
  reference array.
* The list that `pon_premise.c` keeps: only its own process writes it, and notify and
  advance return at once in this tree, so nothing reads a match.
* Signals other than messages, receive markers, tracing, distribution and the change
  to off-heap messages; the red-black trees and BIF tables of `erl_hl_timer.c`.
* `pon_stats.h`: thread-local counters that no decision reads; the hook of the
  process GC, which only counts; `erts_pon_schedule_notify`, which only counts.
* Allocation failure, which aborts the emulator.
* Everything else of Erlang/OTP, which is nearly all of the source tree: the
  compiler, the libraries, the JIT and the rest of the runtime are unchanged by the
  fork, and a model of them would say nothing about it. The definitions here
  therefore cover well under one percent of the lines of the repository, but the
  state-changing code of the PON parts almost completely.
