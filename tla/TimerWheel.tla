----------------------------- MODULE TimerWheel -----------------------------
(***************************************************************************)
(* The timer wheel of one scheduler (time.c) with the timerfd "canary"     *)
(* that PON-Timer adds to it.  A wheel belongs to one scheduler thread:    *)
(* what interleaves with a bump are the timeout callbacks it runs, the     *)
(* other calls of the thread between two halves of a bump that yielded,    *)
(* and the clock.                                                          *)
(*                                                                         *)
(* The wheel and its timers are one record, tiw, with the fields of        *)
(* struct ErtsTimerWheel_; the circular list of a slot is the sequence     *)
(* w[s], the list being bumped is the sequence sentinel.  The helpers of   *)
(* time.c are operators from wheels to wheels, under the names they have   *)
(* there.  Time is counted in clock ticks: next_timeout_time is always     *)
(* next_timeout_pos converted, so only the position is kept.               *)
(***************************************************************************)
EXTENDS WheelSlots, Lists, Functions

CONSTANTS
  Timers,            \* the ErtsTWheelTimer structures of the thread
  CLKTCKS_WEEK,      \* the largest timeout exposed to the scheduler
  MAX_CLKTCKS,       \* "no timeout"
  YIELD_LIMIT, COST_SLOT, COST_SLOT_MOVE, COST_TIMEOUT,
  SKEW,              \* CLOCK_MONOTONIC minus Erlang monotonic time
  MaxTime,           \* bound on the clock
  MaxTpos,           \* bound on the timeout positions that are set
  MaxDelay,          \* bound on how late the scheduler is, in ticks
  Env                \* what the environment does; see EnvAssumption

\* "at_once": callbacks set timers that are due already; "hl": callbacks start
\* timers of more than a revolution of the later wheel; "aux": auxiliary work
\* sets and cancels timers right before the scheduler asks for its next
\* timeout; "faults": timerfd system calls fail.
ASSUME EnvAssumption == Env \subseteq {"at_once", "hl", "aux", "faults"}

ASSUME TimersFinite == IsFiniteSet(Timers)

ASSUME Horizons ==
  /\ CLKTCKS_WEEK \in Nat /\ MAX_CLKTCKS \in Nat
  /\ MaxTime \in Nat /\ MaxTpos \in Nat /\ MaxDelay \in Nat
  /\ CLKTCKS_WEEK > (SOON_WHEEL_SIZE \div 2) * LATER_WHEEL_SIZE
  /\ MAX_CLKTCKS > MaxTime + MaxTpos + 3 * CLKTCKS_WEEK

VARIABLES
  tiw,   \* the wheel and its timers
  b,     \* the locals of the erts_bump_timers call in progress
  now    \* erts_get_monotonic_time(), in ticks

vars == <<tiw, b, now>>

INACTIVE == -2
AT_ONCE == -1
Slots == AT_ONCE .. (END_SLOT - 1)

scnt_inc_Soon(tw, slot) ==
  IF IsSoon(slot) THEN [tw EXCEPT !.scnt[scnt_get_ix(slot)] = @ + 1] ELSE tw

scnt_inc(tw, slot) == [tw EXCEPT !.scnt[scnt_get_ix(slot)] = @ + 1]

scnt_dec(tw, slot) == [tw EXCEPT !.scnt[scnt_get_ix(slot)] = @ - 1]

Without(list, p) ==
  IF p \in Range(list) THEN Unlink(list, CHOOSE i \in DOMAIN list : list[i] = p)
  ELSE list

Lower_First(min, tpos) == IF min = MAX_CLKTCKS THEN tpos ELSE min

Lower(min, tpos) == IF min > tpos THEN tpos ELSE min

(***************************************************************************)
(* Slots.                                                                  *)
(***************************************************************************)
insert_timer_into_slot(tw, s, p) ==
  LET tpos == tw.timeout_pos[p]
      in == [tw EXCEPT !.slot[p] = s, !.w[s] = Append(@, p)]
      counted == scnt_inc(in, s)
  IN  CASE s = AT_ONCE -> [in EXCEPT !.at_once_nto = @ + 1]
        [] IsSoon(s) -> [counted EXCEPT !.soon_nto = @ + 1,
                                        !.soon_min_tpos = Lower(@, tpos)]
        [] IsLater(s) -> [counted EXCEPT
                            !.later_nto = @ + 1,
                            !.later_min_tpos = Lower(@, tpos),
                            !.later_min_tpos_slot =
                               IF tw.later_min_tpos > tpos THEN s ELSE @]

\* A timer leaves its wheel's count; the last one resets the minimum.
DropSoon(tw) ==
  [tw EXCEPT !.soon_nto = @ - 1,
             !.soon_min_tpos = IF tw.soon_nto = 1 THEN MAX_CLKTCKS ELSE @]

DropLater(tw) ==
  [tw EXCEPT !.later_nto = @ - 1,
             !.later_min_tpos = IF tw.later_nto = 1 THEN MAX_CLKTCKS ELSE @,
             !.later_min_tpos_slot = IF tw.later_nto = 1 THEN END_SLOT ELSE @]

Deactivate(tw, p) ==
  [tw EXCEPT !.slot[p] = INACTIVE, !.timeout_pos[p] = 0]

\* Losing the timer that next_timeout_pos stands for makes that position a mere
\* lower bound.
LosesNextTimeout_Yielded(tw, p) ==
  LET s == tw.slot[p]
  IN  /\ tw.w[s] = <<p>> /\ tw.true_next_timeout_time
      /\ \/ IsSoon(s) /\ tw.timeout_pos[p] = tw.next_timeout_pos
         \/ IsLater(s) /\ tw.later_min_tpos_slot = s

LosesNextTimeout(tw, p) ==
  LET s == tw.slot[p]
  IN  /\ tw.w[s] = <<p>> /\ tw.true_next_timeout_time /\ tw.yield_slot = INACTIVE
      /\ \/ IsSoon(s) /\ tw.timeout_pos[p] = tw.next_timeout_pos
         \/ /\ IsLater(s) /\ tw.later_min_tpos_slot = s
            /\ PosMask(tw.later_min_tpos) - LATER_WHEEL_SLOT_SIZE = tw.next_timeout_pos

\* Out of the slot's list or of the list being bumped.
remove_timer(tw, p) ==
  LET s == tw.slot[p]
      out == [Deactivate(tw, p) EXCEPT
                !.w[s] = Without(@, p),
                !.sentinel = Without(@, p),
                !.true_next_timeout_time = @ /\ ~LosesNextTimeout(tw, p)]
      counted == scnt_dec(out, s)
  IN  CASE s = AT_ONCE -> [out EXCEPT !.at_once_nto = @ - 1]
        [] IsSoon(s) -> DropSoon(counted)
        [] IsLater(s) -> DropLater(counted)

(***************************************************************************)
(* The canary.  The timerfd holds the deadline pon_armed_deadline; it is   *)
(* set on CLOCK_MONOTONIC to a value of Erlang monotonic time.  What the   *)
(* system calls may answer, and the part of the current tick that has      *)
(* passed, are choices: the operator is the set of possible outcomes.      *)
(***************************************************************************)
pon_timer_wheel_arm(tw) ==
  LET fd == [tw EXCEPT !.pon_fd = TRUE]
      deadline == tw.next_timeout_pos
      disarmed == [fd EXCEPT !.pon_armed_deadline = -1]
      armed == [fd EXCEPT !.pon_armed_deadline = deadline]
      failed(x) == IF "faults" \in Env THEN {x} ELSE {}
  IN  (IF tw.pon_fd THEN {} ELSE failed([tw EXCEPT !.pon_armed_deadline = -1]))
      \cup
      (IF deadline = tw.pon_armed_deadline THEN {fd}
       ELSE failed(fd)
            \cup (IF deadline - now <= 1 THEN {disarmed} ELSE {})
            \cup (IF deadline - now >= 1 THEN {armed} ELSE {}))

\* timerfd_gettime may fail, in which case the caller scans.
CanaryPending ==
  tiw.pon_fd /\ tiw.pon_armed_deadline # -1 /\ now + SKEW < tiw.pon_armed_deadline

pon_timer_wheel_can_skip_scan ==
  {CanaryPending} \cup (IF "faults" \in Env THEN {FALSE} ELSE {})

(***************************************************************************)
(* The next timeout.                                                       *)
(***************************************************************************)
\* label done: of find_next_timeout
Expose(tw, min, exact) ==
  LET limit == tw.pos + CLKTCKS_WEEK
  IN  [tw EXCEPT !.next_timeout_pos = Min({min, limit}),
                 !.true_next_timeout_time = exact /\ min <= limit]

LaterPosAt(pos) == PosMask(pos + SOON_WHEEL_SIZE)

SearchLater(tw) ==
  LET min == PosMask(tw.later_min_tpos)
      ahead == IF min <= tw.later_pos THEN 0
               ELSE (min - tw.later_pos) \div LATER_WHEEL_SLOT_SIZE
      from == Max({min, tw.later_pos})
      hit == tw.w[later_slot(from)] # <<>>
      nxt == scnt_wheel_next(later_slot(from), LATER_WHEEL_SIZE - ahead, tw.scnt)
      tpos == IF hit THEN from ELSE from + LATER_WHEEL_SLOT_SIZE * nxt.steps
      slot == IF hit THEN later_slot(from) ELSE nxt.slot
  IN  IF ahead >= LATER_WHEEL_SIZE
      THEN Expose(tw, min - LATER_WHEEL_SLOT_SIZE, FALSE)
      ELSE Expose([tw EXCEPT !.later_min_tpos = tpos, !.later_min_tpos_slot = slot],
                  tpos - LATER_WHEEL_SLOT_SIZE, hit)

\* Two slots of the later wheel may need a bump before the soon wheel does.
LaterLimit_None(tw) == tw.pos + SOON_WHEEL_SIZE

LaterLimit(tw) ==
  LET bound == tw.pos + SOON_WHEEL_SIZE
      near == tw.later_min_tpos <= tw.later_pos + 2 * LATER_WHEEL_SLOT_SIZE
      used(tpos) == near /\ tw.w[later_slot(tpos)] # <<>>
  IN  CASE used(tw.later_pos) -> tw.later_pos - LATER_WHEEL_SLOT_SIZE
        [] /\ ~used(tw.later_pos) /\ tw.later_pos < bound
           /\ used(tw.later_pos + LATER_WHEEL_SLOT_SIZE) -> tw.later_pos
        [] OTHER -> bound

\* The first timer from soon.min_tpos on: after its first slot the loop inspects
\* the slots that scnt_wheel_next gives it, those of ranges with timers.
SearchSoon(tw) ==
  LET limit == LaterLimit(tw)
      from == Max({tw.soon_min_tpos, tw.pos})
      inspected(tpos) ==
        tpos = from \/ tw.scnt[scnt_get_ix(soon_slot(tpos))] # 0
      found == {tpos \in from .. (limit - 1) :
                  inspected(tpos) /\ tw.w[soon_slot(tpos)] # <<>>}
      min == Min(found \cup {limit})
  IN  Expose([tw EXCEPT !.soon_min_tpos = min], min, TRUE)

find_next_timeout(tw) ==
  CASE tw.nto = 0 ->
         Expose([tw EXCEPT !.pos = now, !.later_pos = LaterPosAt(now)],
                now + CLKTCKS_WEEK, FALSE)
    [] tw.nto # 0 /\ tw.soon_nto = 0 -> SearchLater(tw)
    [] tw.nto # 0 /\ tw.soon_nto # 0 -> SearchSoon(tw)

\* erts_check_next_timeout_time, called before the scheduler sleeps: it sleeps
\* until the next_timeout_pos that this leaves.  schedule() has bumped the wheel
\* if its time had come, and that bump may have yielded; but handle_aux_work
\* runs between that test and this call.
KnownTimeout ==
  tiw.true_next_timeout_time \/ tiw.next_timeout_pos > tiw.pos + SOON_WHEEL_SIZE

AsksForTimeout ==
  /\ b.pc = "idle"
  /\ now < tiw.next_timeout_pos \/ tiw.yield_slot # INACTIVE \/ "aux" \in Env

erts_check_next_timeout_time ==
  /\ AsksForTimeout
  /\ ~KnownTimeout
  /\ \E skip \in pon_timer_wheel_can_skip_scan :
        tiw' = IF skip THEN tiw ELSE find_next_timeout(tiw)
  /\ UNCHANGED <<b, now>>

(***************************************************************************)
(* Setting and cancelling.                                                 *)
(***************************************************************************)
\* The position at which the wheel must be bumped for a timer: later timers
\* are moved to the soon wheel one later slot ahead of their timeout.
BumpPos(slot, tpos) ==
  IF IsLater(slot) THEN PosMask(tpos) - LATER_WHEEL_SLOT_SIZE ELSE tpos

\* A timer that needs a bump at due changes what is known of the next timeout.
LowerTimeout_Known(tw, due) ==
  IF tw.true_next_timeout_time THEN {tw}
  ELSE pon_timer_wheel_arm([tw EXCEPT !.true_next_timeout_time = TRUE,
                                      !.next_timeout_pos = Min({@, due})])

LowerTimeout(tw, due) ==
  LET known == [tw EXCEPT !.true_next_timeout_time = TRUE]
  IN  IF due > tw.next_timeout_pos THEN {tw}
      ELSE IF due = tw.next_timeout_pos THEN {known}
      ELSE pon_timer_wheel_arm([known EXCEPT !.next_timeout_pos = due])

erts_twheel_set_timer(tw, p, timeout_pos) ==
  LET tpos == Max({timeout_pos, tw.pos})
      slot == CASE tpos = tw.pos -> AT_ONCE
                [] tpos > tw.pos /\ tpos < tw.pos + SOON_WHEEL_SIZE -> soon_slot(tpos)
                [] tpos >= tw.pos + SOON_WHEEL_SIZE -> later_slot(tpos)
      in == insert_timer_into_slot(
              [tw EXCEPT !.nto = @ + 1, !.timeout_pos[p] = tpos], slot, p)
  IN  LowerTimeout(in, BumpPos(slot, tpos))

erts_twheel_cancel_timer(tw, p) == [remove_timer(tw, p) EXCEPT !.nto = @ - 1]

Active(p) == tiw.slot[p] # INACTIVE

\* A process, or a timeout callback, starts a timer.  The position was computed
\* earlier or given as an absolute time, so it may lie behind the clock; what
\* lies behind pos, which may be older still, is set to pos.
SetTimer(p) ==
  /\ b.pc \in {"idle", "callback"}
  /\ ~Active(p)
  /\ \E timeout_pos \in tiw.pos .. MaxTpos :
       /\ timeout_pos = tiw.pos \/ timeout_pos >= now - MaxDelay
       /\ b.pc = "callback" /\ timeout_pos = tiw.pos => "at_once" \in Env
       /\ tiw' \in erts_twheel_set_timer(tiw, p, timeout_pos)
  /\ UNCHANGED <<b, now>>

CancelTimer(p) ==
  /\ b.pc = "idle" /\ Active(p)
  /\ tiw' = erts_twheel_cancel_timer(tiw, p)
  /\ UNCHANGED <<b, now>>

\* A callback starts a timer of more than a revolution of the later wheel, and
\* create_hl_timer moves the service timer p of the scheduler to that earlier
\* timeout: the one cancellation that a callback can make.
AdvanceTimer(p) ==
  /\ "hl" \in Env /\ b.pc = "callback" /\ Active(p)
  /\ \E timeout_pos \in (now + LATER_WHEEL_SIZE * LATER_WHEEL_SLOT_SIZE)
                          .. (tiw.timeout_pos[p] - 1) :
       tiw' \in erts_twheel_set_timer(erts_twheel_cancel_timer(tiw, p), p, timeout_pos)
  /\ UNCHANGED <<b, now>>

(***************************************************************************)
(* erts_bump_timers, one iteration of its loops at a time.  pc says where  *)
(* the call is: "top" of the inner loop, "bump" after the at-once slot,    *)
(* "slot" about to inspect a slot, about to "take" the next timer of the   *)
(* list being bumped, at the "list" restart label, in a "callback", or     *)
(* "idle".  The kind of the slot (at once, soon, later) tells the three    *)
(* copies of the list loop apart.                                          *)
(***************************************************************************)
Idle == [pc |-> "idle", slot |-> INACTIVE, slots |-> 0, bump_to |-> 0,
         restarted |-> FALSE, yield_count |-> 0, curr_time |-> 0]

\* the head of the outer do loop
NewBump(tw, curr_time, yield_count) ==
  /\ tiw' = [tw EXCEPT !.true_next_timeout_time = TRUE,
                       !.next_timeout_pos = curr_time]
  /\ b' = [pc |-> "top", slot |-> INACTIVE, slots |-> 0, bump_to |-> curr_time,
           restarted |-> FALSE, yield_count |-> yield_count, curr_time |-> curr_time]

\* The scheduler bumps when its clock has reached next_timeout_time.  (It may
\* read an old value of the clock; that is the same as bumping earlier.)
erts_bump_timers ==
  /\ b.pc = "idle"
  /\ now >= tiw.next_timeout_pos
  /\ \/ tiw.yield_slot = INACTIVE /\ NewBump(tiw, now, YIELD_LIMIT)
     \/ /\ tiw.yield_slot # INACTIVE
        /\ tiw' = [tiw EXCEPT !.yield_slot = INACTIVE, !.yield_slots_left = 0]
        /\ b' = [pc |-> "list", slot |-> tiw.yield_slot,
                 slots |-> tiw.yield_slots_left, bump_to |-> tiw.pos,
                 restarted |-> TRUE, yield_count |-> YIELD_LIMIT,
                 curr_time |-> now]
  /\ UNCHANGED now

NoCounts == [ix \in ScntIxs |-> 0]

EmptyWheel ==
  LET tw == [tiw EXCEPT !.true_next_timeout_time = FALSE,
                        !.next_timeout_pos = b.bump_to + CLKTCKS_WEEK,
                        !.pos = b.bump_to,
                        !.later_pos = LaterPosAt(b.bump_to),
                        !.bump_scnt = NoCounts,
                        !.yield_slot = INACTIVE]
  IN  tiw' \in pon_timer_wheel_arm(tw) /\ b' = Idle

\* The budget left after some work; how far it is overdrawn does not matter.
Spend(cost) == Max({-1, b.yield_count - cost})

\* scnt_ix_dec on the counts of the bump
BumpCounted(tw) == [tw EXCEPT !.bump_scnt[scnt_get_ix(b.slot)] = @ - 1]

\* p has left the list of b.slot that is being bumped.
BumpAtOnce(tw, p) ==
  /\ tiw' = [Deactivate(tw, p) EXCEPT !.nto = @ - 1, !.at_once_nto = @ - 1]
  /\ b' = [b EXCEPT !.pc = "callback"]

BumpSoon(tw, p) ==
  LET taken == scnt_dec(DropSoon(tw), b.slot)
  IN  IF tw.timeout_pos[p] <= b.bump_to
      THEN /\ tiw' = Deactivate(taken, p)
           /\ b' = [b EXCEPT !.pc = "callback"]
      ELSE /\ tiw' = insert_timer_into_slot(taken, b.slot, p)
           /\ b' = [b EXCEPT !.pc = "list", !.yield_count = Spend(COST_SLOT_MOVE)]

BumpLater_AllDue(tw, p) ==
  /\ tiw' = Deactivate(scnt_dec(DropLater(tw), b.slot), p)
  /\ b' = [b EXCEPT !.pc = "callback"]

BumpLater(tw, p) ==
  LET tpos == tw.timeout_pos[p]
      taken == scnt_dec(DropLater(tw), b.slot)
      kept == tpos >= tw.later_pos + LATER_WHEEL_SLOT_SIZE
  IN  IF ~kept /\ tpos <= tw.pos
      THEN /\ tiw' = BumpCounted(Deactivate(taken, p))
           /\ b' = [b EXCEPT !.pc = "callback"]
      ELSE /\ tiw' = IF kept THEN insert_timer_into_slot(taken, b.slot, p)
                     ELSE insert_timer_into_slot(BumpCounted(taken), soon_slot(tpos), p)
           /\ b' = [b EXCEPT !.pc = "list", !.yield_count = Spend(COST_SLOT_MOVE)]

BumpTimer(tw, p) ==
  \/ b.slot = AT_ONCE /\ BumpAtOnce(tw, p)
  \/ IsSoon(b.slot) /\ BumpSoon(tw, p)
  \/ IsLater(b.slot) /\ BumpLater(tw, p)

Detach(slot) == [tiw EXCEPT !.sentinel = tiw.w[slot], !.w[slot] = <<>>]

Top ==
  /\ b.pc = "top"
  /\ \/ tiw.nto = 0 /\ EmptyWheel
     \/ /\ tiw.nto # 0 /\ tiw.w[AT_ONCE] # <<>>
        /\ tiw' = Detach(AT_ONCE)
        /\ b' = [b EXCEPT !.pc = "take", !.slot = AT_ONCE]
     \/ /\ tiw.nto # 0 /\ tiw.w[AT_ONCE] = <<>>
        /\ b' = [b EXCEPT !.pc = "bump"]
        /\ UNCHANGED tiw
  /\ UNCHANGED now

\* The wheel is where it should be: start over after a yield, or finish.
Finish ==
  IF b.restarted THEN NewBump(tiw, b.curr_time, b.yield_count)
  ELSE /\ tiw' \in pon_timer_wheel_arm(find_next_timeout(
                     [tiw EXCEPT !.true_next_timeout_time = FALSE,
                                 !.bump_scnt = NoCounts]))
       /\ b' = Idle

BumpSoonWheel_OneShort ==
  /\ tiw' = [tiw EXCEPT !.bump_scnt = tiw.scnt, !.pos = b.bump_to,
                        !.next_timeout_pos = b.bump_to]
  /\ b' = [b EXCEPT !.pc = "slot", !.slot = soon_slot(tiw.pos + 1),
                    !.slots = Min({b.bump_to - tiw.pos - 1, SOON_WHEEL_SIZE})]

\* The slots of the soon wheel from pos (or from where it may hold a timer) to
\* bump_to, which becomes pos before any callback runs.
BumpSoonWheel ==
  LET skip == Min({tiw.soon_min_tpos, b.bump_to}) - 1
      from == IF tiw.soon_min_tpos > tiw.pos THEN Max({skip, tiw.pos}) ELSE tiw.pos
  IN  /\ tiw' = [tiw EXCEPT !.bump_scnt = tiw.scnt,
                            !.pos = b.bump_to,
                            !.next_timeout_pos = b.bump_to]
      /\ b' = [b EXCEPT !.pc = "slot", !.slot = soon_slot(from + 1),
                        !.slots = Min({b.bump_to - from, SOON_WHEEL_SIZE})]

Bump ==
  /\ b.pc = "bump"
  /\ \/ /\ tiw.pos >= b.bump_to /\ tiw.at_once_nto # 0
        /\ b' = [b EXCEPT !.pc = "top"]
        /\ UNCHANGED tiw
     \/ tiw.pos >= b.bump_to /\ tiw.at_once_nto = 0 /\ Finish
     \/ tiw.pos < b.bump_to /\ tiw.nto = 0 /\ EmptyWheel
     \/ tiw.pos < b.bump_to /\ tiw.nto # 0 /\ BumpSoonWheel
  /\ UNCHANGED now

BUMP_LATER_WHEEL == tiw.pos + LATER_WHEEL_SLOT_SIZE >= tiw.later_pos

bump_later_wheel_TooFar ==
  LET end == LaterPosAt(tiw.pos) + LATER_WHEEL_SLOT_SIZE
      from == Max({PosMask(tiw.later_min_tpos), tiw.later_pos})
  IN  /\ tiw' = [tiw EXCEPT !.later_pos = end]
      /\ b' = [b EXCEPT !.slot = later_slot(from),
                        !.slots = Min({(end - from) \div LATER_WHEEL_SLOT_SIZE,
                                       LATER_WHEEL_SIZE})]

\* The slots of the later wheel whose timers come within reach of the soon one.
bump_later_wheel ==
  LET min == PosMask(tiw.later_min_tpos)
      end == LaterPosAt(tiw.pos)
      from == Max({min, tiw.later_pos})
  IN  /\ tiw' = [tiw EXCEPT !.later_pos = end]
      /\ b' = IF min > tiw.later_pos /\ min > end
              THEN [b EXCEPT !.pc = "top"]
              ELSE [b EXCEPT !.slot = later_slot(from),
                             !.slots = Min({(end - from) \div LATER_WHEEL_SLOT_SIZE,
                                            LATER_WHEEL_SIZE})]

NextSlot(yield_count) ==
  LET nxt == scnt_wheel_next(b.slot, b.slots, tiw.bump_scnt)
  IN  b' = [b EXCEPT !.pc = "slot", !.slot = nxt.slot, !.slots = nxt.left,
                     !.yield_count = yield_count]

Slot ==
  /\ b.pc = "slot"
  /\ \/ /\ b.slots > 0 /\ tiw.w[b.slot] # <<>>
        /\ tiw' = Detach(b.slot)
        /\ b' = [b EXCEPT !.pc = "take", !.yield_count = Spend(COST_SLOT)]
     \/ /\ b.slots > 0 /\ tiw.w[b.slot] = <<>>
        /\ NextSlot(Spend(COST_SLOT))
        /\ UNCHANGED tiw
     \/ b.slots <= 0 /\ IsSoon(b.slot) /\ BUMP_LATER_WHEEL /\ bump_later_wheel
     \/ /\ b.slots <= 0 /\ (IsLater(b.slot) \/ ~BUMP_LATER_WHEEL)
        /\ b' = [b EXCEPT !.pc = "top"]
        /\ UNCHANGED tiw
  /\ UNCHANGED now

Take ==
  /\ b.pc = "take"
  /\ BumpTimer([tiw EXCEPT !.sentinel = Tail(@)], Head(tiw.sentinel))
  /\ UNCHANGED now

\* the later wheel yields on < 0, the other two on <= 0
MustYield == b.yield_count < IF IsLater(b.slot) THEN 0 ELSE 1

List ==
  /\ b.pc = "list"
  /\ \/ /\ tiw.sentinel = <<>> /\ b.slot = AT_ONCE
        /\ b' = [b EXCEPT !.pc = "bump"]
        /\ UNCHANGED tiw
     \/ /\ tiw.sentinel = <<>> /\ b.slot # AT_ONCE
        /\ NextSlot(b.yield_count)
        /\ UNCHANGED tiw
     \/ /\ tiw.sentinel # <<>> /\ MustYield
        /\ tiw' = [tiw EXCEPT !.yield_slot = b.slot, !.yield_slots_left = b.slots]
        /\ b' = Idle
     \/ /\ tiw.sentinel # <<>> /\ ~MustYield
        /\ b' = [b EXCEPT !.pc = "take"]
        /\ UNCHANGED tiw
  /\ UNCHANGED now

\* What the callback of a timer of a wheel left counted is counted off now.
CallbackReturns ==
  /\ b.pc = "callback"
  /\ b' = [b EXCEPT !.pc = "list", !.yield_count = Spend(COST_TIMEOUT)]
  /\ tiw' = CASE b.slot = AT_ONCE -> tiw
              [] IsSoon(b.slot) -> BumpCounted([tiw EXCEPT !.nto = @ - 1])
              [] IsLater(b.slot) -> [tiw EXCEPT !.nto = @ - 1]
  /\ UNCHANGED now

\* Inside a bump the clock is only read once it is over, so it is enough that
\* it moves between calls and during callbacks.
Tick ==
  /\ b.pc \in {"idle", "callback"}
  /\ now < MaxTime /\ now < tiw.next_timeout_pos + MaxDelay
  /\ now' = now + 1
  /\ UNCHANGED <<tiw, b>>

Step == Top \/ Bump \/ Slot \/ Take \/ List \/ CallbackReturns

erts_create_timer_wheel ==
  LET empty == [w |-> [s \in Slots |-> <<>>],
                slot |-> [p \in Timers |-> INACTIVE],
                timeout_pos |-> [p \in Timers |-> 0],
                scnt |-> NoCounts, bump_scnt |-> NoCounts,
                pos |-> now, nto |-> 0, at_once_nto |-> 0,
                soon_min_tpos |-> MAX_CLKTCKS, soon_nto |-> 0,
                later_min_tpos |-> MAX_CLKTCKS, later_min_tpos_slot |-> END_SLOT,
                later_pos |-> LaterPosAt(now), later_nto |-> 0,
                yield_slot |-> INACTIVE, yield_slots_left |-> 0, sentinel |-> <<>>,
                true_next_timeout_time |-> FALSE,
                next_timeout_pos |-> now + CLKTCKS_WEEK,
                pon_fd |-> FALSE, pon_armed_deadline |-> -1]
  IN  pon_timer_wheel_arm(empty)

Init == now = 0 /\ tiw \in erts_create_timer_wheel /\ b = Idle

Next ==
  \/ Tick
  \/ erts_check_next_timeout_time
  \/ erts_bump_timers
  \/ Step
  \/ \E p \in Timers : SetTimer(p) \/ CancelTimer(p) \/ AdvanceTimer(p)

Spec == Init /\ [][Next]_vars

\* The thread runs and callbacks return, the scheduler bumps when it sees that
\* the time has come, and time passes whatever the thread does.
FairSpec ==
  Spec /\ SF_vars(Tick) /\ WF_vars(erts_bump_timers) /\ WF_vars(Step)

(***************************************************************************)
(* Properties.                                                             *)
(***************************************************************************)
Pos == 0 .. MAX_CLKTCKS
AllSlots == INACTIVE .. END_SLOT

\* Every field of struct ErtsTimerWheel_ and every local of erts_bump_timers
\* keeps its range; the timers set stay below MAX_CLKTCKS.
TypeOK ==
  /\ now \in 0 .. MaxTime
  /\ \A s \in Slots : tiw.w[s] \in Seq(Timers)
  /\ tiw.sentinel \in Seq(Timers)
  /\ tiw.slot \in [Timers -> AllSlots] /\ tiw.timeout_pos \in [Timers -> Pos]
  /\ tiw.scnt \in [ScntIxs -> Nat] /\ tiw.bump_scnt \in [ScntIxs -> Nat]
  /\ {tiw.nto, tiw.at_once_nto, tiw.soon_nto, tiw.later_nto} \subseteq Nat
  /\ {tiw.pos, tiw.soon_min_tpos, tiw.later_min_tpos, tiw.later_pos,
      tiw.next_timeout_pos} \subseteq Pos
  /\ {tiw.later_min_tpos_slot, tiw.yield_slot, b.slot} \subseteq AllSlots
  /\ {tiw.true_next_timeout_time, tiw.pon_fd, b.restarted} \subseteq BOOLEAN
  /\ tiw.pon_armed_deadline \in Pos \cup {-1}
  /\ b.pc \in {"idle", "top", "bump", "slot", "take", "list", "callback"}

AtRest == b.pc = "idle" /\ tiw.yield_slot = INACTIVE

\* hrd_dbg_check_wheels, at every step and not only where it is called: each
\* active timer is in exactly one list, the one of its slot or the one being
\* bumped, and nto, the three counts of the wheels and every scnt range count
\* exactly those timers (nto counts a timer of a wheel until its callback
\* returns).  A drift would hide a timer from the scans for ever.
Count(S) == Cardinality({p \in Timers : tiw.slot[p] \in S})

CountersExact ==
  /\ \A s \in Slots :
       /\ IsInjective(tiw.w[s]) /\ IsInjective(tiw.sentinel)
       /\ \A p \in Range(tiw.w[s]) : tiw.slot[p] = s /\ p \notin Range(tiw.sentinel)
  /\ \A p \in Timers :
       Active(p) <=> \/ p \in Range(tiw.sentinel)
                     \/ \E s \in Slots : p \in Range(tiw.w[s])
  /\ tiw.at_once_nto = Count({AT_ONCE})
  /\ tiw.soon_nto = Count(0 .. (SOON_WHEEL_SIZE - 1))
  /\ tiw.later_nto = Count(SOON_WHEEL_SIZE .. (END_SLOT - 1))
  /\ tiw.nto = Count(Slots)
                 + (IF b.pc = "callback" /\ b.slot # AT_ONCE THEN 1 ELSE 0)
  /\ \A ix \in ScntIxs : tiw.scnt[ix] = Count({s \in 0 .. (END_SLOT - 1) : scnt_get_ix(s) = ix})

\* Between bumps a timer is in the slot its timeout maps to, ahead of the
\* hand of its wheel, and no recorded minimum is above a timer: the slots
\* that find_next_timeout and erts_bump_timers skip as known to be empty are.
SlotsAhead ==
  AtRest =>
    /\ tiw.pos + LATER_WHEEL_SLOT_SIZE < tiw.later_pos
    /\ tiw.later_pos <= tiw.pos + SOON_WHEEL_SIZE
    /\ \A p \in Timers :
         LET s == tiw.slot[p]
             tpos == tiw.timeout_pos[p]
         IN  /\ IsSoon(s) => /\ s = soon_slot(tpos)
                             /\ tiw.pos < tpos /\ tpos < tiw.pos + SOON_WHEEL_SIZE
                             /\ tiw.soon_min_tpos <= tpos
             /\ IsLater(s) => /\ s = later_slot(tpos)
                              /\ tiw.later_pos <= tpos
                              /\ tiw.later_min_tpos <= tpos

\* The promise of next_timeout_time to the scheduler, and the claim by which
\* PON-Timer skips the scan: the cached position is never above the position
\* at which some timer needs a bump, whether it was found by a scan, kept by
\* the canary or updated by erts_twheel_set_timer.  Between the two halves of
\* a bump that yielded it is a time that has come.  It fails once a callback has
\* moved the service timer in a bump that then yields, or auxiliary work has
\* hidden an at-once timer.
NeverLate ==
  b.pc = "idle" =>
    IF tiw.yield_slot # INACTIVE THEN tiw.next_timeout_pos <= now
    ELSE \A p \in Timers :
           Active(p) => tiw.next_timeout_pos <= BumpPos(tiw.slot[p], tiw.timeout_pos[p])

\* find_next_timeout is only called where its ERTS_TW_ASSERTs hold: never on a
\* wheel whose bump has yielded, never with at-once timers, although a timer
\* may be cancelled, and true_next_timeout_time cleared, at any time.  The same
\* two inputs as for NeverLate break it.
ScanAllowed ==
  AsksForTimeout /\ ~KnownTimeout =>
    /\ tiw.yield_slot = INACTIVE
    /\ tiw.at_once_nto = 0 /\ tiw.nto = tiw.soon_nto + tiw.later_nto

\* No timer fires before its time.
Fires(p) == b.pc = "take" /\ Active(p) /\ ~Active(p)'
NeverEarly == [][\A p \in Timers : Fires(p) => tiw.timeout_pos[p] <= now]_vars

\* A bump that returns without yielding has fired every timer that was due
\* at the time it was called with, whatever its callbacks did.
BumpComplete ==
  [][b.pc # "idle" /\ b'.pc = "idle" /\ tiw'.yield_slot = INACTIVE
       => \A p \in Timers : Active(p)' => tiw'.timeout_pos[p] > b.curr_time]_vars

\* Every timer that is set fires or is cancelled.
TimersFire == \A p \in Timers : Active(p) ~> ~Active(p)

\* bump_later_wheel asserts of each timer it moves to the soon wheel or fires
\* that it is within reach of the soon wheel (tpos < cpos + SOON_WHEEL_SIZE).
LaterInReach ==
  b.pc = "take" /\ IsLater(b.slot) =>
    LET tpos == tiw.timeout_pos[Head(tiw.sentinel)]
    IN  tpos >= tiw.later_pos + LATER_WHEEL_SLOT_SIZE \/ tpos < tiw.pos + SOON_WHEEL_SIZE

=============================================================================
