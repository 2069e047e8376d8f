-------------------------- MODULE TimerWheelProofs --------------------------
(***************************************************************************)
(* Proofs about the timer wheel, for wheels of any size and any set of     *)
(* timers: its lists and its counts stay exact through every call, and no  *)
(* timer fires before its time.  WInv is the invariant, with one lemma per *)
(* action.                                                                 *)
(***************************************************************************)
EXTENDS TimerWheelFacts

(***************************************************************************)
(* The steps.                                                              *)
(***************************************************************************)
\* What the first timer of the list comes to: it fires (and may be counted until
\* its callback returns), or it stays active.
Outcome(x, c, p) ==
  \/ /\ c = [b EXCEPT !.pc = "callback"]
     /\ tiw.timeout_pos[p] <= now /\ Gone(tiw, x, p)
     /\ Good(x, b.slot, IF b.slot = AT_ONCE THEN 0 ELSE 1, {})
  \/ /\ \E n : c = [b EXCEPT !.pc = "list", !.yield_count = n]
     /\ Stay(tiw, x) /\ Good(x, b.slot, 0, {})

(* The at-once timers are due. *)
LEMMA AtOnceOutcome ==
  ASSUME WInv, b.pc = "take", NEW p, p = Head(tiw.sentinel), b.slot = AT_ONCE,
         BumpAtOnce([tiw EXCEPT !.sentinel = Tail(@)], p)
  PROVE  p \in Timers /\ Outcome(tiw', b', p)
<1> DEFINE y == [tiw EXCEPT !.sentinel = Tail(@)]
           u == [y EXCEPT !.at_once_nto = @ - 1]
           s == b.slot
<1>1. /\ Good(tiw, s, 0, {}) /\ tiw.pos <= now /\ now \in Nat
      /\ tiw.sentinel # <<>> /\ s \in Slots
  BY DEF WInv, Cur, Extra, Call
<1>2. DOMAIN tiw = Fields /\ tiw.pos \in Int /\ tiw.timeout_pos \in [Timers -> Int]
      /\ tiw.nto \in Int
  BY <1>1 DEF Good, Typed
<1>3. Taking(tiw, s, p, u)  BY <1>1 DEF Taking, Uncounted
<1>4. tiw' = [Deactivate(y, p) EXCEPT !.nto = @ - 1, !.at_once_nto = @ - 1]
      /\ b' = [b EXCEPT !.pc = "callback"]
  BY Zenon DEF BumpAtOnce
<1>5. DOMAIN y = Fields /\ DOMAIN u = Fields /\ u.nto = tiw.nto  BY <1>2, Zenon DEF Fields
<1>6. Keeps(u, tiw', {"slot", "timeout_pos", "nto", "bump_scnt"})
  BY <1>4, <1>5, Zenon DEF Keeps, Fields, Deactivate
<1>7. /\ tiw'.slot = [u.slot EXCEPT ![p] = INACTIVE]
      /\ tiw'.timeout_pos = [u.timeout_pos EXCEPT ![p] = 0]
      /\ tiw'.nto = u.nto - 1
  BY <1>4, <1>5, Zenon DEF Fields, Deactivate
<1> HIDE DEF y, u, s
<1>8. -1 \in Int /\ tiw'.nto = u.nto + -1 /\ 1 + -1 = 0  BY <1>2, <1>5, <1>7
<1>9. p \in Timers /\ tiw.slot[p] = s /\ Good(tiw', s, 1 + -1, {}) /\ Gone(tiw, tiw', p)
  <2>1. Off(u, tiw', p)  BY <1>6, <1>7 DEF Off
  <2> QED BY <1>1, <1>3, <1>8, <2>1, FireGood, Zenon
<1>10. Good(tiw', s, 0, {})  BY <1>8, <1>9
<1>11. tiw.timeout_pos[p] <= now
  <2>1. tiw.slot[p] = AT_ONCE /\ p \in Timers  BY <1>9 DEF s
  <2>2. Due(tiw, {})  BY <1>1 DEF Good
  <2>3. tiw.timeout_pos[p] <= tiw.pos /\ tiw.timeout_pos[p] \in Int
    BY <1>2, <2>1, <2>2 DEF Due
  <2> QED BY <1>1, <1>2, <2>3
<1> QED BY <1>4, <1>9, <1>10, <1>11, Zenon DEF Outcome, s

(* A timer of the soon wheel fires or, set for a later revolution, is put back. *)
LEMMA SoonOutcome ==
  ASSUME WInv, b.pc = "take", NEW p, p = Head(tiw.sentinel), IsSoon(b.slot),
         BumpSoon([tiw EXCEPT !.sentinel = Tail(@)], p)
  PROVE  p \in Timers /\ Outcome(tiw', b', p)
<1> DEFINE y == [tiw EXCEPT !.sentinel = Tail(@)]
           u == scnt_dec(DropSoon(y), b.slot)
           s == b.slot
<1>1. /\ Good(tiw, s, 0, {}) /\ tiw.pos <= now /\ now \in Nat
      /\ tiw.sentinel # <<>> /\ s \in Slots /\ b.bump_to \in Int /\ b.bump_to <= now
  BY DEF WInv, Cur, Extra, Call
<1>2. DOMAIN tiw = Fields /\ tiw.timeout_pos \in [Timers -> Int]  BY <1>1 DEF Good, Typed
<1>3. Taking(tiw, s, p, u)  BY <1>1 DEF Taking, Uncounted
<1>4. \/ /\ y.timeout_pos[p] <= b.bump_to /\ tiw' = Deactivate(u, p)
         /\ b' = [b EXCEPT !.pc = "callback"]
      \/ /\ tiw' = insert_timer_into_slot(u, s, p)
         /\ b' = [b EXCEPT !.pc = "list", !.yield_count = Spend(COST_SLOT_MOVE)]
  BY Zenon DEF BumpSoon
<1>5. y.timeout_pos = tiw.timeout_pos  BY <1>2, Zenon DEF Fields
<1> HIDE DEF y, u
<1>6. 0 \in Int /\ 1 \in Int  OBVIOUS
<1>7. /\ p \in Timers /\ Good(u, s, 0 + 1, {p}) /\ SameTimers(tiw, u)
  BY <1>1, <1>3, <1>6, TakeGood, Zenon
<1>8. s # AT_ONCE  BY <1>1, SlotKinds
<1>9. DOMAIN u = Fields /\ u.nto \in Int
  BY <1>7 DEF Good, Typed
<1>10. CASE /\ y.timeout_pos[p] <= b.bump_to /\ tiw' = Deactivate(u, p)
            /\ b' = [b EXCEPT !.pc = "callback"]
  <2>1. /\ Keeps(u, tiw', {"slot", "timeout_pos"})
        /\ tiw'.slot = [u.slot EXCEPT ![p] = INACTIVE]
        /\ tiw'.timeout_pos = [u.timeout_pos EXCEPT ![p] = 0]
    BY <1>9, <1>10, SmallEffects
  <2>2. Keeps(u, tiw', {"slot", "timeout_pos", "nto", "bump_scnt"}) /\ tiw'.nto = u.nto
    BY <2>1, Zenon DEF Keeps, Fields
  <2>3. tiw'.nto = u.nto + 0 /\ 1 + 0 = 1  BY <1>9, <2>2
  <2>4. Good(tiw', s, 1 + 0, {}) /\ Gone(tiw, tiw', p)
    <3>1. Off(u, tiw', p)  BY <2>1, <2>2 DEF Off
    <3> QED BY <1>1, <1>3, <1>6, <2>3, <3>1, FireGood, Zenon
  <2>5. Good(tiw', s, 1, {})  BY <2>3, <2>4
  <2>6. tiw.timeout_pos[p] <= now  BY <1>1, <1>2, <1>5, <1>7, <1>10
  <2> QED BY <1>7, <1>8, <1>10, <2>4, <2>5, <2>6, Zenon DEF Outcome
<1>11. CASE /\ tiw' = insert_timer_into_slot(u, s, p)
            /\ b' = [b EXCEPT !.pc = "list", !.yield_count = Spend(COST_SLOT_MOVE)]
  <2>1. Keeps(u, u, {"bump_scnt"})  BY <1>9 DEF Keeps
  <2>2. Good(tiw', s, 0, {}) /\ Stay(tiw, tiw')
    BY <1>1, <1>3, <1>8, <1>11, <2>1, MoveGood, Zenon
  <2> QED BY <1>7, <1>11, <2>2, Zenon DEF Outcome
<1> QED BY <1>4, <1>10, <1>11

(* The counts of the bump are not those of the wheel. *)
LEMMA BumpCountedEffect ==
  ASSUME NEW tw, DOMAIN tw = Fields
  PROVE  Keeps(tw, BumpCounted(tw), {"bump_scnt"})
BY Zenon DEF BumpCounted, Keeps, Fields

(* A timer of the later wheel fires, moves to the soon wheel or is put back. *)
LEMMA LaterOutcome ==
  ASSUME WInv, b.pc = "take", NEW p, p = Head(tiw.sentinel), IsLater(b.slot),
         BumpLater([tiw EXCEPT !.sentinel = Tail(@)], p)
  PROVE  p \in Timers /\ Outcome(tiw', b', p)
<1> DEFINE y == [tiw EXCEPT !.sentinel = Tail(@)]
           u == scnt_dec(DropLater(y), b.slot)
           s == b.slot
           r == soon_slot(y.timeout_pos[p])
           fires == /\ y.timeout_pos[p] <= y.pos /\ tiw' = BumpCounted(Deactivate(u, p))
                    /\ b' = [b EXCEPT !.pc = "callback"]
           moves == /\ \/ tiw' = insert_timer_into_slot(u, s, p)
                       \/ tiw' = insert_timer_into_slot(BumpCounted(u), r, p)
                    /\ b' = [b EXCEPT !.pc = "list", !.yield_count = Spend(COST_SLOT_MOVE)]
<1>1. /\ Good(tiw, s, 0, {}) /\ tiw.pos <= now /\ now \in Nat
      /\ tiw.sentinel # <<>> /\ s \in Slots
  BY DEF WInv, Cur, Extra, Call
<1>2. DOMAIN tiw = Fields /\ tiw.timeout_pos \in [Timers -> Int] /\ tiw.pos \in Int
  BY <1>1 DEF Good, Typed
<1>3. Taking(tiw, s, p, u)  BY <1>1 DEF Taking, Uncounted
<1>4. fires \/ moves  BY Zenon DEF BumpLater
<1>5. y.timeout_pos = tiw.timeout_pos /\ y.pos = tiw.pos  BY <1>2, Zenon DEF Fields
<1> HIDE DEF y, u
<1>6. 0 \in Int /\ 1 \in Int  OBVIOUS
<1>7. /\ p \in Timers /\ Good(u, s, 0 + 1, {p}) /\ SameTimers(tiw, u)
  BY <1>1, <1>3, <1>6, TakeGood, Zenon
<1>8. s # AT_ONCE  BY <1>1, SlotKinds
<1>9. DOMAIN u = Fields /\ u.nto \in Int
  BY <1>7 DEF Good, Typed
<1>10. CASE fires
  <2> DEFINE z == Deactivate(u, p)
  <2>1. /\ Keeps(u, z, {"slot", "timeout_pos"})
        /\ z.slot = [u.slot EXCEPT ![p] = INACTIVE]
        /\ z.timeout_pos = [u.timeout_pos EXCEPT ![p] = 0]
    BY <1>9, SmallEffects
  <2>2. tiw' = BumpCounted(z)  BY <1>10
  <2> HIDE DEF z
  <2>3. Keeps(z, tiw', {"bump_scnt"})
    <3>1. DOMAIN z = Fields  BY <2>1 DEF Keeps
    <3> QED BY <2>2, <3>1, BumpCountedEffect
  <2>4. Keeps(u, tiw', {"slot", "timeout_pos", "nto", "bump_scnt"}) /\ tiw'.nto = u.nto
        /\ tiw'.slot = z.slot /\ tiw'.timeout_pos = z.timeout_pos
    BY <2>1, <2>3, Zenon DEF Keeps, Fields
  <2>5. tiw'.nto = u.nto + 0 /\ 1 + 0 = 1  BY <1>9, <2>4
  <2>6. Good(tiw', s, 1 + 0, {}) /\ Gone(tiw, tiw', p)
    <3>1. Off(u, tiw', p)  BY <2>1, <2>4 DEF Off
    <3> QED BY <1>1, <1>3, <1>6, <2>5, <3>1, FireGood, Zenon
  <2>7. Good(tiw', s, 1, {})  BY <2>5, <2>6
  <2>8. tiw.timeout_pos[p] <= now  BY <1>1, <1>2, <1>5, <1>7, <1>10
  <2>9. b' = [b EXCEPT !.pc = "callback"]  BY <1>10
  <2> QED BY <1>7, <1>8, <2>6, <2>7, <2>8, <2>9, Zenon DEF Outcome
<1>11. CASE moves
  <2>1. Keeps(u, u, {"bump_scnt"})  BY <1>9 DEF Keeps
  <2>2. Keeps(u, BumpCounted(u), {"bump_scnt"})  BY <1>9, BumpCountedEffect
  <2>3. r \in Slots /\ r # AT_ONCE
    <3>1. y.timeout_pos[p] \in Int  BY <1>2, <1>5, <1>7
    <3>2. r \in 0 .. (SOON_WHEEL_SIZE - 1)  BY <3>1, SlotOfPos
    <3> HIDE DEF r
    <3> QED BY <3>2, Sizes DEF Slots, AT_ONCE
  <2> HIDE DEF r
  <2>4. Good(tiw', s, 0, {}) /\ Stay(tiw, tiw')
    <3>1. CASE tiw' = insert_timer_into_slot(u, s, p)
      BY <1>1, <1>3, <1>8, <2>1, <3>1, MoveGood, Zenon
    <3>2. CASE tiw' = insert_timer_into_slot(BumpCounted(u), r, p)
      BY <1>1, <1>3, <2>2, <2>3, <3>2, MoveGood, Zenon
    <3> QED BY <1>11, <3>1, <3>2
  <2>5. b' = [b EXCEPT !.pc = "list", !.yield_count = Spend(COST_SLOT_MOVE)]  BY <1>11
  <2> QED BY <1>7, <2>4, <2>5, Zenon DEF Outcome
<1> QED BY <1>4, <1>10, <1>11

(* A timer of the list is bumped: the wheel stays sound, and what fires is due. *)
LEMMA TakeStep ==
  ASSUME WInv, Take
  PROVE  /\ WInv'
         /\ \A q \in Timers : Active(q) /\ ~Active(q)' => tiw.timeout_pos[q] <= now
<1> DEFINE p == Head(tiw.sentinel)
<1>1. b.pc = "take" /\ now' = now /\ BumpTimer([tiw EXCEPT !.sentinel = Tail(@)], p)
  BY Zenon DEF Take
<1>2. p = Head(tiw.sentinel)  OBVIOUS
<1> HIDE DEF p
<1>3. p \in Timers /\ Outcome(tiw', b', p)
  BY <1>1, <1>2, AtOnceOutcome, SoonOutcome, LaterOutcome, Zenon DEF BumpTimer
<1>4. now \in Nat /\ tiw.pos <= now /\ Call(b, tiw.sentinel, now)  BY DEF WInv
<1>5. b.slot \in Slots  BY <1>1, <1>4 DEF Call
<1>6. CASE /\ b' = [b EXCEPT !.pc = "callback"]
           /\ tiw.timeout_pos[p] <= now /\ Gone(tiw, tiw', p)
           /\ Good(tiw', b.slot, IF b.slot = AT_ONCE THEN 0 ELSE 1, {})
  <2>1. /\ DOMAIN b' = DOMAIN Idle /\ b'.pc = "callback" /\ b'.slot = b.slot
        /\ b'.slots = b.slots /\ b'.bump_to = b.bump_to /\ b'.curr_time = b.curr_time
    BY <1>4, <1>6 DEF Call, Idle
  <2>2. Call(b', tiw'.sentinel, now)  BY <1>4, <1>5, <2>1 DEF Call
  <2>3. Cur(b', tiw') = b.slot /\ Extra(b') = IF b.slot = AT_ONCE THEN 0 ELSE 1
    BY <2>1 DEF Cur, Extra
  <2>4. Good(tiw', Cur(b', tiw'), Extra(b'), {})  BY <1>6, <2>3
  <2>5. /\ tiw'.pos = tiw.pos
        /\ \A q \in Timers \ {p} : tiw'.slot[q] = tiw.slot[q]
    BY <1>6 DEF Gone
  <2>6. WInv'  BY <1>1, <1>4, <2>2, <2>4, <2>5 DEF WInv
  <2> QED BY <1>6, <2>5, <2>6 DEF Active
<1>7. CASE /\ \E n : b' = [b EXCEPT !.pc = "list", !.yield_count = n]
           /\ Stay(tiw, tiw') /\ Good(tiw', b.slot, 0, {})
  <2>1. /\ DOMAIN b' = DOMAIN Idle /\ b'.pc = "list" /\ b'.slot = b.slot
        /\ b'.slots = b.slots /\ b'.bump_to = b.bump_to /\ b'.curr_time = b.curr_time
    BY <1>4, <1>7 DEF Call, Idle
  <2>2. Call(b', tiw'.sentinel, now)  BY <1>4, <1>5, <2>1 DEF Call
  <2>3. Cur(b', tiw') = b.slot /\ Extra(b') = 0
    BY <2>1 DEF Cur, Extra
  <2>4. Good(tiw', Cur(b', tiw'), Extra(b'), {})  BY <1>7, <2>3
  <2>5. /\ tiw'.pos = tiw.pos
        /\ \A q \in Timers : tiw.slot[q] # INACTIVE => tiw'.slot[q] # INACTIVE
    BY <1>7 DEF Stay
  <2>6. WInv'  BY <1>1, <1>4, <2>2, <2>4, <2>5 DEF WInv
  <2> QED BY <2>5, <2>6 DEF Active
<1> QED BY <1>3, <1>6, <1>7, Zenon DEF Outcome

(* No call in progress. *)
LEMMA IdleCall ==
  ASSUME now \in Nat, NEW list
  PROVE  /\ Call(Idle, list, now) /\ Extra(Idle) = 0 /\ Idle.pc = "idle"
         /\ \A tw : Cur(Idle, tw) = tw.yield_slot
BY DEF Call, Idle, Extra, Cur

(* A bump starts, or starts over after a yield. *)
LEMMA NewBumpStep ==
  ASSUME now \in Nat, NEW cur, Good(tiw, cur, 0, {}), tiw.sentinel = <<>>, tiw.pos <= now,
         NEW t \in Int, t <= now, NEW n, NewBump(tiw, t, n), now' = now
  PROVE  WInv'
<1>1. DOMAIN tiw = Fields  BY DEF Good, Typed
<1>2. /\ tiw' = [tiw EXCEPT !.true_next_timeout_time = TRUE, !.next_timeout_pos = t]
      /\ b' = [pc |-> "top", slot |-> INACTIVE, slots |-> 0, bump_to |-> t,
               restarted |-> FALSE, yield_count |-> n, curr_time |-> t]
  BY Zenon DEF NewBump
<1>3. Keeps(tiw, tiw', Cached) /\ tiw'.sentinel = tiw.sentinel /\ tiw'.pos = tiw.pos
  BY <1>1, <1>2, Zenon DEF Keeps, Fields, Cached
<1>4. Good(tiw', cur, 0, {})
  <2>1. 0 \in Int  OBVIOUS
  <2>2. Keeps(tiw, tiw', Cached)  BY <1>3
  <2> QED BY <2>1, <2>2, CachedGood, Zenon
<1>5. tiw'.sentinel = <<>>  BY <1>3
<1>6. Good(tiw', INACTIVE, 0, {})  BY <1>4, <1>5, AnyCur, Zenon
<1>7. Call(b', tiw'.sentinel, now)  BY <1>2, <1>5 DEF Call, Idle
<1>8. Cur(b', tiw') = INACTIVE /\ Extra(b') = 0  BY <1>2 DEF Cur, Extra
<1>9. Good(tiw', Cur(b', tiw'), Extra(b'), {})  BY <1>6, <1>8
<1>10. tiw'.pos <= now  BY <1>3
<1> QED BY <1>7, <1>9, <1>10 DEF WInv

(* A bump finds the wheel empty. *)
LEMMA EmptyWheelStep ==
  ASSUME WInv, b.pc \in {"top", "bump"}, tiw.nto = 0, EmptyWheel, now' = now
  PROVE  WInv'
<1> DEFINE tw == [tiw EXCEPT !.true_next_timeout_time = FALSE,
                             !.next_timeout_pos = b.bump_to + CLKTCKS_WEEK,
                             !.pos = b.bump_to,
                             !.later_pos = LaterPosAt(b.bump_to),
                             !.bump_scnt = NoCounts,
                             !.yield_slot = INACTIVE]
<1>1. /\ now \in Nat /\ Good(tiw, b.slot, 0, {}) /\ tiw.sentinel = <<>>
      /\ b.bump_to \in Int /\ b.bump_to <= now
  BY DEF WInv, Cur, Extra, Call
<1>2. /\ DOMAIN tiw = Fields /\ tiw.soon_min_tpos \in Int /\ tiw.later_min_tpos \in Int
      /\ tiw.yield_slots_left \in Int
  BY <1>1 DEF Good, Typed
<1>3. tiw' \in pon_timer_wheel_arm(tw) /\ b' = Idle  BY Zenon DEF EmptyWheel
<1>4. /\ Keeps(tiw, tw, Side) /\ tw.pos = b.bump_to /\ tw.later_pos = LaterPosAt(b.bump_to)
      /\ tw.yield_slot = INACTIVE /\ tw.soon_min_tpos = tiw.soon_min_tpos
      /\ tw.later_min_tpos = tiw.later_min_tpos
      /\ tw.yield_slots_left = tiw.yield_slots_left
  BY <1>2, Zenon DEF Keeps, Fields, Side
<1> HIDE DEF tw
<1>5. LaterPosAt(b.bump_to) \in Int
  <2>1. b.bump_to + SOON_WHEEL_SIZE \in Int  BY <1>1, Sizes
  <2> QED BY <2>1, SlotOfPos DEF LaterPosAt
<1>6. SideTyped(tw)  BY <1>1, <1>2, <1>4, <1>5 DEF SideTyped
<1>7. 0 \in Int /\ (tw.pos >= tiw.pos \/ (tiw.nto = 0 /\ 0 = 0))  OBVIOUS
<1>8. Good(tw, b.slot, 0, {}) /\ tw.sentinel = tiw.sentinel
  <2>1. Keeps(tiw, tw, Side)  BY <1>4
  <2> QED BY <1>1, <1>6, <1>7, <2>1, SideGood, Zenon
<1>9. tw.pos <= now  BY <1>1, <1>4
<1>10. Good(tiw', b.slot, 0, {}) /\ Rests(tw, tiw')
  BY <1>3, <1>7, <1>8, <1>9, ArmGood, Zenon
<1>11. tiw'.pos <= now /\ tiw'.sentinel = <<>>  BY <1>1, <1>8, <1>10 DEF Rests
<1>12. Good(tiw', tiw'.yield_slot, 0, {})  BY <1>10, <1>11, AnyCur, Zenon
<1>13. Cur(b', tiw') = tiw'.yield_slot /\ Extra(b') = 0 /\ Call(b', tiw'.sentinel, now)
  BY <1>1, <1>3, IdleCall
<1>14. Good(tiw', Cur(b', tiw'), Extra(b'), {})  BY <1>12, <1>13
<1> QED BY <1>1, <1>11, <1>13, <1>14 DEF WInv

(* The wheel is where it should be. *)
LEMMA FinishStep ==
  ASSUME WInv, b.pc = "bump", Finish, now' = now
  PROVE  WInv'
<1> DEFINE tw == [tiw EXCEPT !.true_next_timeout_time = FALSE, !.bump_scnt = NoCounts]
           f == find_next_timeout(tw)
<1>1. /\ now \in Nat /\ Good(tiw, b.slot, 0, {}) /\ tiw.sentinel = <<>> /\ tiw.pos <= now
      /\ b.curr_time \in Int /\ b.curr_time <= now
  BY DEF WInv, Cur, Extra, Call
<1>2. DOMAIN tiw = Fields /\ tiw.pos \in Int  BY <1>1 DEF Good, Typed
<1>3. NewBump(tiw, b.curr_time, b.yield_count) \/ (tiw' \in pon_timer_wheel_arm(f) /\ b' = Idle)
  BY Zenon DEF Finish
<1>4. CASE NewBump(tiw, b.curr_time, b.yield_count)  BY <1>1, <1>4, NewBumpStep, Zenon
<1>5. CASE tiw' \in pon_timer_wheel_arm(f) /\ b' = Idle
  <2>1. Keeps(tiw, tw, Cached) /\ tw.sentinel = tiw.sentinel /\ tw.pos = tiw.pos
    BY <1>2, Zenon DEF Keeps, Fields, Cached
  <2>2. f = find_next_timeout(tw)  OBVIOUS
  <2> HIDE DEF tw, f
  <2>3. 0 \in Int /\ Keeps(tiw, tw, Cached) /\ tw.pos <= now /\ now \in Int
    BY <1>1, <2>1
  <2>4. Good(tw, b.slot, 0, {})  BY <1>1, <2>3, CachedGood, Zenon
  <2>5. Good(f, b.slot, 0, {}) /\ Rests(tw, f)  BY <2>2, <2>3, <2>4, FindGood, Zenon
  <2>6. f.pos <= now /\ f.sentinel = <<>>  BY <1>1, <2>1, <2>5 DEF Rests
  <2>7. Good(tiw', b.slot, 0, {}) /\ Rests(f, tiw')
    BY <1>5, <2>3, <2>5, <2>6, ArmGood, Zenon
  <2>8. tiw'.pos <= now /\ tiw'.sentinel = <<>>  BY <2>6, <2>7 DEF Rests
  <2>9. Good(tiw', tiw'.yield_slot, 0, {})  BY <2>7, <2>8, AnyCur, Zenon
  <2>10. Cur(b', tiw') = tiw'.yield_slot /\ Extra(b') = 0 /\ Call(b', tiw'.sentinel, now)
    BY <1>1, <1>5, IdleCall
  <2>11. Good(tiw', Cur(b', tiw'), Extra(b'), {})  BY <2>9, <2>10
  <2> QED BY <1>1, <2>8, <2>10, <2>11 DEF WInv
<1> QED BY <1>3, <1>4, <1>5

(* With no list being bumped, no slot is being bumped either. *)
LEMMA EmptyList ==
  ASSUME now \in Nat, now' = now, tiw'.pos <= now, Call(b', tiw'.sentinel, now),
         NEW cur, Good(tiw', cur, 0, {}), tiw'.sentinel = <<>>, Extra(b') = 0
  PROVE  WInv'
<1>1. Good(tiw', Cur(b', tiw'), 0, {})  BY AnyCur, Zenon
<1> QED BY <1>1 DEF WInv

(* The list of a slot is detached. *)
LEMMA DetachStep ==
  ASSUME NEW cur, Good(tiw, cur, 0, {}), tiw.sentinel = <<>>,
         NEW s \in Slots, tiw.w[s] # <<>>, tiw' = Detach(s)
  PROVE  Good(tiw', s, 0, {}) /\ tiw'.sentinel # <<>> /\ tiw'.pos = tiw.pos
<1>1. DOMAIN tiw = Fields  BY DEF Good, Typed
<1>2. /\ Keeps(tiw, tiw', {"w", "sentinel"}) /\ tiw'.pos = tiw.pos
      /\ tiw'.sentinel = tiw.w[s] /\ tiw'.w = [tiw.w EXCEPT ![s] = <<>>]
  BY <1>1, Zenon DEF Keeps, Fields, Detach
<1>3. 0 \in Int  OBVIOUS
<1>4. Good(tiw', s, 0, {})  BY <1>2, <1>3, DetachGood, Zenon
<1> QED BY <1>2, <1>4

(* The top of the inner loop: the at-once timers are taken. *)
LEMMA TopStep ==
  ASSUME WInv, Top
  PROVE  WInv'
<1>1. b.pc = "top" /\ now' = now  BY DEF Top
<1>2. /\ now \in Nat /\ Good(tiw, b.slot, 0, {}) /\ tiw.sentinel = <<>> /\ tiw.pos <= now
      /\ Call(b, tiw.sentinel, now)
  BY <1>1 DEF WInv, Cur, Extra, Call
<1>3. AT_ONCE \in Slots  BY Sizes DEF AT_ONCE, Slots
<1>4. CASE tiw.nto = 0 /\ EmptyWheel  BY <1>1, <1>4, EmptyWheelStep
<1>5. CASE /\ tiw.w[AT_ONCE] # <<>> /\ tiw' = Detach(AT_ONCE)
           /\ b' = [b EXCEPT !.pc = "take", !.slot = AT_ONCE]
  <2>1. Good(tiw', AT_ONCE, 0, {}) /\ tiw'.sentinel # <<>> /\ tiw'.pos = tiw.pos
    BY <1>2, <1>3, <1>5, DetachStep, Zenon
  <2>2. /\ DOMAIN b' = DOMAIN Idle /\ b'.pc = "take" /\ b'.slot = AT_ONCE
        /\ b'.slots = b.slots /\ b'.bump_to = b.bump_to /\ b'.curr_time = b.curr_time
    BY <1>2, <1>5 DEF Call, Idle
  <2>3. Call(b', tiw'.sentinel, now)  BY <1>2, <1>3, <2>1, <2>2 DEF Call
  <2>4. Cur(b', tiw') = AT_ONCE /\ Extra(b') = 0  BY <2>2 DEF Cur, Extra
  <2>5. Good(tiw', Cur(b', tiw'), Extra(b'), {})  BY <2>1, <2>4
  <2> QED BY <1>1, <1>2, <2>1, <2>3, <2>5 DEF WInv
<1>6. CASE b' = [b EXCEPT !.pc = "bump"] /\ tiw' = tiw
  <2>1. /\ DOMAIN b' = DOMAIN Idle /\ b'.pc = "bump" /\ b'.slot = b.slot
        /\ b'.slots = b.slots /\ b'.bump_to = b.bump_to /\ b'.curr_time = b.curr_time
    BY <1>2, <1>6 DEF Call, Idle
  <2>2. Call(b', tiw'.sentinel, now)  BY <1>2, <1>6, <2>1 DEF Call
  <2>3. Cur(b', tiw') = b.slot /\ Extra(b') = 0  BY <2>1 DEF Cur, Extra
  <2>4. Good(tiw', Cur(b', tiw'), Extra(b'), {})  BY <1>2, <1>6, <2>3
  <2> QED BY <1>1, <1>2, <1>6, <2>2, <2>4 DEF WInv
<1> QED BY <1>4, <1>5, <1>6 DEF Top

(* The soon wheel is bumped up to bump_to. *)
LEMMA BumpSoonWheelStep ==
  ASSUME WInv, b.pc = "bump", tiw.pos < b.bump_to, BumpSoonWheel, now' = now
  PROVE  WInv'
<1> DEFINE skip == Min({tiw.soon_min_tpos, b.bump_to}) - 1
           from == IF tiw.soon_min_tpos > tiw.pos THEN Max({skip, tiw.pos}) ELSE tiw.pos
           n == Min({b.bump_to - from, SOON_WHEEL_SIZE})
<1>1. /\ now \in Nat /\ Good(tiw, b.slot, 0, {}) /\ tiw.sentinel = <<>> /\ tiw.pos <= now
      /\ Call(b, tiw.sentinel, now) /\ b.bump_to \in Int /\ b.bump_to <= now
  BY DEF WInv, Cur, Extra, Call
<1>2. Typed(tiw)  BY <1>1 DEF Good
<1>3. /\ DOMAIN tiw = Fields /\ tiw.soon_min_tpos \in Int /\ tiw.later_min_tpos \in Int
      /\ tiw.yield_slots_left \in Int /\ tiw.later_pos \in Int /\ tiw.pos \in Int
      /\ tiw.yield_slot \in Slots \cup {INACTIVE}
  BY <1>2 DEF Typed
<1>4. /\ tiw' = [tiw EXCEPT !.bump_scnt = tiw.scnt, !.pos = b.bump_to,
                            !.next_timeout_pos = b.bump_to]
      /\ b' = [b EXCEPT !.pc = "slot", !.slot = soon_slot(from + 1), !.slots = n]
  BY Zenon DEF BumpSoonWheel
<1>5. skip \in Int
  <2> DEFINE m == Min({tiw.soon_min_tpos, b.bump_to})
  <2>1. m = IF tiw.soon_min_tpos <= b.bump_to THEN tiw.soon_min_tpos ELSE b.bump_to
    BY <1>1, <1>3, MaxMin
  <2>2. skip = m - 1  OBVIOUS
  <2> HIDE DEF m, skip
  <2> QED BY <1>1, <1>3, <2>1, <2>2
<1> HIDE DEF skip
<1>6. from \in Int  BY <1>3, <1>5, MaxMin
<1> HIDE DEF from
<1>7. n \in Int
  <2>1. b.bump_to - from \in Int /\ SOON_WHEEL_SIZE \in Int  BY <1>1, <1>6, Sizes
  <2> QED BY <2>1, MaxMin
<1>8. soon_slot(from + 1) \in 0 .. (END_SLOT - 1)
  <2>1. from + 1 \in Int  BY <1>6
  <2>2. soon_slot(from + 1) \in 0 .. (SOON_WHEEL_SIZE - 1)  BY <2>1, SlotOfPos
  <2> QED BY <2>2, Sizes
<1> HIDE DEF n
<1>9. /\ DOMAIN b' = DOMAIN Idle /\ b'.pc = "slot" /\ b'.slot = soon_slot(from + 1)
      /\ b'.slots = n /\ b'.bump_to = b.bump_to /\ b'.curr_time = b.curr_time
  BY <1>1, <1>4 DEF Call, Idle
<1>10. /\ Keeps(tiw, tiw', Side) /\ tiw'.pos = b.bump_to /\ tiw'.later_pos = tiw.later_pos
       /\ tiw'.yield_slot = tiw.yield_slot /\ tiw'.soon_min_tpos = tiw.soon_min_tpos
       /\ tiw'.later_min_tpos = tiw.later_min_tpos
       /\ tiw'.yield_slots_left = tiw.yield_slots_left
  BY <1>3, <1>4, Zenon DEF Keeps, Fields, Side
<1>11. SideTyped(tiw')  BY <1>1, <1>3, <1>10 DEF SideTyped
<1>12. tiw'.pos >= tiw.pos /\ 0 \in Int  BY <1>1, <1>3, <1>10
<1>13. Good(tiw', b.slot, 0, {}) /\ tiw'.sentinel = tiw.sentinel
  <2>1. Keeps(tiw, tiw', Side)  BY <1>10
  <2> QED BY <1>1, <1>11, <1>12, <2>1, SideGood, Zenon
<1>14. tiw'.sentinel = <<>> /\ tiw'.pos <= now  BY <1>1, <1>10, <1>13
<1>15. Call(b', tiw'.sentinel, now)  BY <1>1, <1>7, <1>8, <1>9, <1>14 DEF Call
<1>16. Extra(b') = 0  BY <1>9 DEF Extra
<1> QED BY <1>1, <1>13, <1>14, <1>15, <1>16, EmptyList, Zenon

(* After the at-once slot. *)
LEMMA BumpStep ==
  ASSUME WInv, Bump
  PROVE  WInv'
<1>1. b.pc = "bump" /\ now' = now  BY DEF Bump
<1>2. /\ now \in Nat /\ Good(tiw, b.slot, 0, {}) /\ tiw.sentinel = <<>> /\ tiw.pos <= now
      /\ Call(b, tiw.sentinel, now)
  BY <1>1 DEF WInv, Cur, Extra, Call
<1>3. CASE b' = [b EXCEPT !.pc = "top"] /\ tiw' = tiw
  <2>1. /\ DOMAIN b' = DOMAIN Idle /\ b'.pc = "top" /\ b'.slot = b.slot
        /\ b'.slots = b.slots /\ b'.bump_to = b.bump_to /\ b'.curr_time = b.curr_time
    BY <1>2, <1>3 DEF Call, Idle
  <2>2. Call(b', tiw'.sentinel, now)  BY <1>2, <1>3, <2>1 DEF Call
  <2>3. Cur(b', tiw') = b.slot /\ Extra(b') = 0  BY <2>1 DEF Cur, Extra
  <2>4. Good(tiw', Cur(b', tiw'), Extra(b'), {})  BY <1>2, <1>3, <2>3
  <2> QED BY <1>1, <1>2, <1>3, <2>2, <2>4 DEF WInv
<1>4. CASE Finish  BY <1>1, <1>4, FinishStep
<1>5. CASE tiw.nto = 0 /\ EmptyWheel  BY <1>1, <1>5, EmptyWheelStep
<1>6. CASE tiw.pos < b.bump_to /\ BumpSoonWheel  BY <1>1, <1>6, BumpSoonWheelStep
<1> QED BY <1>3, <1>4, <1>5, <1>6 DEF Bump

(* The slots of the later wheel that come within reach are bumped. *)
LEMMA BumpLaterWheelStep ==
  ASSUME WInv, b.pc = "slot", bump_later_wheel, now' = now
  PROVE  WInv'
<1> DEFINE min == PosMask(tiw.later_min_tpos)
           end == LaterPosAt(tiw.pos)
           from == Max({min, tiw.later_pos})
           n == Min({(end - from) \div LATER_WHEEL_SLOT_SIZE, LATER_WHEEL_SIZE})
<1>1. /\ now \in Nat /\ Good(tiw, b.slot, 0, {}) /\ tiw.sentinel = <<>> /\ tiw.pos <= now
      /\ Call(b, tiw.sentinel, now)
  BY DEF WInv, Cur, Extra, Call
<1>2. Typed(tiw)  BY <1>1 DEF Good
<1>3. /\ DOMAIN tiw = Fields /\ tiw.soon_min_tpos \in Int /\ tiw.later_min_tpos \in Int
      /\ tiw.yield_slots_left \in Int /\ tiw.later_pos \in Int /\ tiw.pos \in Int
      /\ tiw.yield_slot \in Slots \cup {INACTIVE}
  BY <1>2 DEF Typed
<1>4. /\ tiw' = [tiw EXCEPT !.later_pos = end]
      /\ \/ b' = [b EXCEPT !.pc = "top"]
         \/ b' = [b EXCEPT !.slot = later_slot(from), !.slots = n]
  BY Zenon DEF bump_later_wheel
<1>5. end \in Int
  <2>1. tiw.pos + SOON_WHEEL_SIZE \in Int  BY <1>3, Sizes
  <2> QED BY <2>1, SlotOfPos DEF LaterPosAt
<1>6. min \in Int  BY <1>3, SlotOfPos
<1> HIDE DEF end, min
<1>7. from \in Int  BY <1>3, <1>6, MaxMin
<1> HIDE DEF from
<1>8. n \in Int
  <2> DEFINE m == (end - from) \div LATER_WHEEL_SLOT_SIZE
  <2>1. \A i \in Int, k \in Nat : k > 0 => i \div k \in Int  OBVIOUS
  <2>2. end - from \in Int  BY <1>5, <1>7
  <2>3. m \in Int  BY <2>1, <2>2, Sizes
  <2>4. LATER_WHEEL_SIZE \in Int  BY Sizes
  <2> HIDE DEF m
  <2>5. Min({m, LATER_WHEEL_SIZE}) \in Int  BY <2>3, <2>4, MaxMin
  <2> QED BY <2>5 DEF m
<1> HIDE DEF n
<1>9. later_slot(from) \in 0 .. (END_SLOT - 1)
  <2>1. later_slot(from) \in SOON_WHEEL_SIZE .. (END_SLOT - 1)  BY <1>7, SlotOfPos
  <2> QED BY <2>1, Sizes
<1>10. /\ DOMAIN b' = DOMAIN Idle /\ b'.pc \in {"top", "slot"}
       /\ b'.pc = "slot" => b'.slot = later_slot(from)
       /\ b'.slots \in Int /\ b'.bump_to = b.bump_to /\ b'.curr_time = b.curr_time
  BY <1>1, <1>4, <1>8 DEF Call, Idle
<1>11. /\ Keeps(tiw, tiw', Side) /\ tiw'.pos = tiw.pos /\ tiw'.later_pos = end
       /\ tiw'.yield_slot = tiw.yield_slot /\ tiw'.soon_min_tpos = tiw.soon_min_tpos
       /\ tiw'.later_min_tpos = tiw.later_min_tpos
       /\ tiw'.yield_slots_left = tiw.yield_slots_left
  BY <1>3, <1>4, Zenon DEF Keeps, Fields, Side
<1>12. SideTyped(tiw')  BY <1>3, <1>5, <1>11 DEF SideTyped
<1>13. tiw'.pos >= tiw.pos /\ 0 \in Int  BY <1>3, <1>11
<1>14. Good(tiw', b.slot, 0, {}) /\ tiw'.sentinel = tiw.sentinel
  <2>1. Keeps(tiw, tiw', Side)  BY <1>11
  <2> QED BY <1>1, <1>12, <1>13, <2>1, SideGood, Zenon
<1>15. tiw'.sentinel = <<>> /\ tiw'.pos <= now  BY <1>1, <1>11, <1>14
<1>16. Call(b', tiw'.sentinel, now)  BY <1>1, <1>9, <1>10, <1>15 DEF Call
<1>17. Extra(b') = 0  BY <1>10 DEF Extra
<1> QED BY <1>1, <1>14, <1>15, <1>16, <1>17, EmptyList, Zenon

(* On to the next slot of the wheel. *)
LEMMA NextSlotStep ==
  ASSUME WInv, now' = now, tiw' = tiw, tiw.sentinel = <<>>, Extra(b) = 0,
         b.slot \in 0 .. (END_SLOT - 1), NEW n, NextSlot(n)
  PROVE  WInv'
<1> DEFINE nxt == scnt_wheel_next(b.slot, b.slots, tiw.bump_scnt)
<1>1. /\ now \in Nat /\ Good(tiw, Cur(b, tiw), 0, {}) /\ tiw.pos <= now
      /\ Call(b, tiw.sentinel, now) /\ b.slots \in Int
  BY DEF WInv, Call
<1>2. nxt.slot \in 0 .. (END_SLOT - 1) /\ nxt.left \in Int  BY <1>1, NextWithin
<1>3. b' = [b EXCEPT !.pc = "slot", !.slot = nxt.slot, !.slots = nxt.left, !.yield_count = n]
  BY Zenon DEF NextSlot
<1> HIDE DEF nxt
<1>4. /\ DOMAIN b' = DOMAIN Idle /\ b'.pc = "slot" /\ b'.slot = nxt.slot
      /\ b'.slots = nxt.left /\ b'.bump_to = b.bump_to /\ b'.curr_time = b.curr_time
  BY <1>1, <1>3 DEF Call, Idle
<1>5. Call(b', tiw'.sentinel, now)  BY <1>1, <1>2, <1>4 DEF Call
<1>6. Extra(b') = 0  BY <1>4 DEF Extra
<1>7. tiw'.pos <= now /\ tiw'.sentinel = <<>> /\ Good(tiw', Cur(b, tiw), 0, {})
  BY <1>1
<1> QED BY <1>1, <1>5, <1>6, <1>7, EmptyList, Zenon

(* A slot is inspected. *)
LEMMA SlotStep ==
  ASSUME WInv, Slot
  PROVE  WInv'
<1>1. b.pc = "slot" /\ now' = now  BY DEF Slot
<1>2. /\ now \in Nat /\ Good(tiw, b.slot, 0, {}) /\ tiw.sentinel = <<>> /\ tiw.pos <= now
      /\ Call(b, tiw.sentinel, now) /\ b.slot \in 0 .. (END_SLOT - 1) /\ Extra(b) = 0
  BY <1>1 DEF WInv, Cur, Extra, Call
<1>3. b.slot \in Slots  BY <1>2, Sizes DEF Slots, AT_ONCE
<1>4. CASE /\ tiw.w[b.slot] # <<>> /\ tiw' = Detach(b.slot)
           /\ b' = [b EXCEPT !.pc = "take", !.yield_count = Spend(COST_SLOT)]
  <2>1. Good(tiw', b.slot, 0, {}) /\ tiw'.sentinel # <<>> /\ tiw'.pos = tiw.pos
    BY <1>2, <1>3, <1>4, DetachStep, Zenon
  <2>2. /\ DOMAIN b' = DOMAIN Idle /\ b'.pc = "take" /\ b'.slot = b.slot
        /\ b'.slots = b.slots /\ b'.bump_to = b.bump_to /\ b'.curr_time = b.curr_time
    BY <1>2, <1>4 DEF Call, Idle
  <2>3. Call(b', tiw'.sentinel, now)  BY <1>2, <1>3, <2>1, <2>2 DEF Call
  <2>4. Cur(b', tiw') = b.slot /\ Extra(b') = 0  BY <2>2 DEF Cur, Extra
  <2>5. Good(tiw', Cur(b', tiw'), Extra(b'), {})  BY <2>1, <2>4
  <2> QED BY <1>1, <1>2, <2>1, <2>3, <2>5 DEF WInv
<1>5. CASE NextSlot(Spend(COST_SLOT)) /\ tiw' = tiw  BY <1>1, <1>2, <1>5, NextSlotStep, Zenon
<1>6. CASE bump_later_wheel  BY <1>1, <1>6, BumpLaterWheelStep
<1>7. CASE b' = [b EXCEPT !.pc = "top"] /\ tiw' = tiw
  <2>1. /\ DOMAIN b' = DOMAIN Idle /\ b'.pc = "top" /\ b'.slot = b.slot
        /\ b'.slots = b.slots /\ b'.bump_to = b.bump_to /\ b'.curr_time = b.curr_time
    BY <1>2, <1>7 DEF Call, Idle
  <2>2. Call(b', tiw'.sentinel, now)  BY <1>2, <1>7, <2>1 DEF Call
  <2>3. Cur(b', tiw') = b.slot /\ Extra(b') = 0  BY <2>1 DEF Cur, Extra
  <2>4. Good(tiw', Cur(b', tiw'), Extra(b'), {})  BY <1>2, <1>7, <2>3
  <2> QED BY <1>1, <1>2, <1>7, <2>2, <2>4 DEF WInv
<1> QED BY <1>4, <1>5, <1>6, <1>7 DEF Slot

(* The restart label of the list loops: the bump goes on, yields or moves on. *)
LEMMA ListStep ==
  ASSUME WInv, List
  PROVE  WInv'
<1>1. b.pc = "list" /\ now' = now  BY DEF List
<1>2. /\ now \in Nat /\ Good(tiw, b.slot, 0, {}) /\ tiw.pos <= now
      /\ Call(b, tiw.sentinel, now) /\ b.slot \in Slots /\ b.slots \in Int /\ Extra(b) = 0
  BY <1>1 DEF WInv, Cur, Extra, Call
<1>3. Typed(tiw)  BY <1>2 DEF Good
<1>4. /\ DOMAIN tiw = Fields /\ tiw.soon_min_tpos \in Int /\ tiw.later_min_tpos \in Int
      /\ tiw.later_pos \in Int /\ tiw.pos \in Int
  BY <1>3 DEF Typed
<1>5. CASE tiw.sentinel = <<>> /\ b' = [b EXCEPT !.pc = "bump"] /\ tiw' = tiw
  <2>1. /\ DOMAIN b' = DOMAIN Idle /\ b'.pc = "bump" /\ b'.slot = b.slot
        /\ b'.slots = b.slots /\ b'.bump_to = b.bump_to /\ b'.curr_time = b.curr_time
    BY <1>2, <1>5 DEF Call, Idle
  <2>2. Call(b', tiw'.sentinel, now)  BY <1>2, <1>5, <2>1 DEF Call
  <2>3. Cur(b', tiw') = b.slot /\ Extra(b') = 0  BY <2>1 DEF Cur, Extra
  <2>4. Good(tiw', Cur(b', tiw'), Extra(b'), {})  BY <1>2, <1>5, <2>3
  <2> QED BY <1>1, <1>2, <1>5, <2>2, <2>4 DEF WInv
<1>6. CASE /\ tiw.sentinel = <<>> /\ b.slot # AT_ONCE /\ NextSlot(b.yield_count)
           /\ tiw' = tiw
  <2>1. b.slot \in 0 .. (END_SLOT - 1)  BY <1>2, <1>6, SlotKinds
  <2> QED BY <1>1, <1>2, <1>6, <2>1, NextSlotStep, Zenon
<1>7. CASE /\ tiw' = [tiw EXCEPT !.yield_slot = b.slot, !.yield_slots_left = b.slots]
           /\ b' = Idle
  <2>1. /\ Keeps(tiw, tiw', Side) /\ tiw'.pos = tiw.pos /\ tiw'.later_pos = tiw.later_pos
        /\ tiw'.yield_slot = b.slot /\ tiw'.soon_min_tpos = tiw.soon_min_tpos
        /\ tiw'.later_min_tpos = tiw.later_min_tpos /\ tiw'.yield_slots_left = b.slots
    BY <1>4, <1>7, Zenon DEF Keeps, Fields, Side
  <2>2. SideTyped(tiw')  BY <1>2, <1>4, <2>1 DEF SideTyped
  <2>3. tiw'.pos >= tiw.pos /\ 0 \in Int  BY <1>4, <2>1
  <2>4. Good(tiw', b.slot, 0, {})
    <3>1. Keeps(tiw, tiw', Side)  BY <2>1
    <3> QED BY <1>2, <2>2, <2>3, <3>1, SideGood, Zenon
  <2>5. Cur(b', tiw') = b.slot /\ Extra(b') = 0 /\ Call(b', tiw'.sentinel, now)
    BY <1>2, <1>7, <2>1, IdleCall
  <2>6. Good(tiw', Cur(b', tiw'), Extra(b'), {})  BY <2>4, <2>5
  <2> QED BY <1>1, <1>2, <2>1, <2>5, <2>6 DEF WInv
<1>8. CASE tiw.sentinel # <<>> /\ b' = [b EXCEPT !.pc = "take"] /\ tiw' = tiw
  <2>1. /\ DOMAIN b' = DOMAIN Idle /\ b'.pc = "take" /\ b'.slot = b.slot
        /\ b'.slots = b.slots /\ b'.bump_to = b.bump_to /\ b'.curr_time = b.curr_time
    BY <1>2, <1>8 DEF Call, Idle
  <2>2. Call(b', tiw'.sentinel, now)  BY <1>2, <1>8, <2>1 DEF Call
  <2>3. Cur(b', tiw') = b.slot /\ Extra(b') = 0  BY <2>1 DEF Cur, Extra
  <2>4. Good(tiw', Cur(b', tiw'), Extra(b'), {})  BY <1>2, <1>8, <2>3
  <2> QED BY <1>1, <1>2, <1>8, <2>2, <2>4 DEF WInv
<1> QED BY <1>5, <1>6, <1>7, <1>8 DEF List

(* A callback returns, and its timer is counted off. *)
LEMMA CallbackStep ==
  ASSUME WInv, CallbackReturns
  PROVE  WInv'
<1>1. /\ b.pc = "callback" /\ now' = now
      /\ b' = [b EXCEPT !.pc = "list", !.yield_count = Spend(COST_TIMEOUT)]
  BY DEF CallbackReturns
<1>2. /\ now \in Nat /\ tiw.pos <= now /\ Call(b, tiw.sentinel, now) /\ b.slot \in Slots
      /\ Good(tiw, b.slot, IF b.slot = AT_ONCE THEN 0 ELSE 1, {})
  BY <1>1 DEF WInv, Cur, Extra, Call
<1>3. /\ DOMAIN b' = DOMAIN Idle /\ b'.pc = "list" /\ b'.slot = b.slot
      /\ b'.slots = b.slots /\ b'.bump_to = b.bump_to /\ b'.curr_time = b.curr_time
  BY <1>1, <1>2 DEF Call, Idle
<1>4. Call(b', tiw'.sentinel, now)  BY <1>2, <1>3 DEF Call
<1>5. Cur(b', tiw') = b.slot /\ Extra(b') = 0  BY <1>3 DEF Cur, Extra
<1>6. Good(tiw', b.slot, 0, {}) /\ tiw'.pos = tiw.pos
  <2>1. CASE b.slot = AT_ONCE
    <3>1. tiw' = tiw  BY <1>2, <2>1, SlotKinds DEF CallbackReturns
    <3> QED BY <1>2, <2>1, <3>1
  <2>2. CASE b.slot # AT_ONCE
    <3> DEFINE y == [tiw EXCEPT !.nto = @ - 1]
    <3>1. Good(tiw, b.slot, 1, {})  BY <1>2, <2>2
    <3>2. Typed(tiw)  BY <3>1 DEF Good
    <3>3. DOMAIN tiw = Fields /\ tiw.nto \in Int  BY <3>2 DEF Typed
    <3>4. tiw' = BumpCounted(y) \/ tiw' = y
      BY <1>2, <2>2, SlotKinds DEF CallbackReturns
    <3>5. Keeps(tiw, y, {"nto"}) /\ y.nto = tiw.nto - 1  BY <3>3, Zenon DEF Keeps, Fields
    <3> HIDE DEF y
    <3>6. Keeps(y, tiw', {"bump_scnt"})
      <4>1. DOMAIN y = Fields  BY <3>5 DEF Keeps
      <4>2. Keeps(y, y, {"bump_scnt"})  BY <4>1 DEF Keeps
      <4> QED BY <3>4, <4>1, <4>2, BumpCountedEffect
    <3>7. Keeps(tiw, tiw', {"nto", "bump_scnt"}) /\ tiw'.nto = y.nto
      BY <3>5, <3>6, Zenon DEF Keeps, Fields
    <3>8. tiw'.nto = tiw.nto + -1 /\ -1 \in Int /\ 1 \in Int /\ 1 + -1 = 0 /\ tiw'.nto \in Int
      BY <3>3, <3>5, <3>7
    <3>9. Typed(tiw')  BY <3>2, <3>7, <3>8, Zenon DEF Typed, Keeps, Fields
    <3>10. Alike(tiw, tiw', {}) /\ tiw'.pos = tiw.pos  BY <3>7, Zenon DEF Alike, Keeps, Fields
    <3>11. Good(tiw', b.slot, 1 + -1, {})
      BY <3>1, <3>8, <3>9, <3>10, Frame, Zenon
    <3> QED BY <3>8, <3>10, <3>11
  <2> QED BY <2>1, <2>2
<1>7. Good(tiw', Cur(b', tiw'), Extra(b'), {})  BY <1>5, <1>6
<1> QED BY <1>1, <1>2, <1>4, <1>6, <1>7 DEF WInv

(* Without a bump that yielded, no list is being bumped. *)
LEMMA NoList ==
  ASSUME NEW tw, NEW extra, Good(tw, INACTIVE, extra, {})
  PROVE  tw.sentinel = <<>>
<1> SUFFICES ASSUME tw.sentinel # <<>>  PROVE FALSE  OBVIOUS
<1>1. tw.sentinel \in Seq(Timers)  BY DEF Good, Typed
<1>2. tw.sentinel[1] \in Range(tw.sentinel)  BY <1>1, TailSeq
<1>3. Linked(tw, INACTIVE, {})  BY DEF Good
<1>4. INACTIVE \in Slots  BY <1>2, <1>3 DEF Linked
<1> QED BY <1>4, SlotKinds

(* The scheduler starts a bump, or goes on with one that yielded. *)
LEMMA StartStep ==
  ASSUME WInv, erts_bump_timers
  PROVE  WInv'
<1>1. b.pc = "idle" /\ now' = now  BY DEF erts_bump_timers
<1>2. /\ now \in Nat /\ tiw.pos <= now /\ Good(tiw, tiw.yield_slot, 0, {})
  BY <1>1 DEF WInv, Cur, Extra
<1>3. Typed(tiw)  BY <1>2 DEF Good
<1>4. /\ DOMAIN tiw = Fields /\ tiw.soon_min_tpos \in Int /\ tiw.later_min_tpos \in Int
      /\ tiw.later_pos \in Int /\ tiw.pos \in Int
      /\ tiw.yield_slot \in Slots \cup {INACTIVE} /\ tiw.yield_slots_left \in Int
  BY <1>3 DEF Typed
<1>5. CASE tiw.yield_slot = INACTIVE /\ NewBump(tiw, now, YIELD_LIMIT)
  <2>1. Good(tiw, INACTIVE, 0, {})  BY <1>2, <1>5
  <2>2. tiw.sentinel = <<>>  BY <2>1, NoList
  <2>3. now \in Int /\ now <= now  BY <1>2
  <2> QED BY <1>1, <1>2, <1>5, <2>1, <2>2, <2>3, NewBumpStep, Zenon
<1>6. CASE /\ tiw.yield_slot # INACTIVE
           /\ tiw' = [tiw EXCEPT !.yield_slot = INACTIVE, !.yield_slots_left = 0]
           /\ b' = [pc |-> "list", slot |-> tiw.yield_slot,
                    slots |-> tiw.yield_slots_left, bump_to |-> tiw.pos,
                    restarted |-> TRUE, yield_count |-> YIELD_LIMIT, curr_time |-> now]
  <2>1. /\ Keeps(tiw, tiw', Side) /\ tiw'.pos = tiw.pos /\ tiw'.later_pos = tiw.later_pos
        /\ tiw'.yield_slot = INACTIVE /\ tiw'.soon_min_tpos = tiw.soon_min_tpos
        /\ tiw'.later_min_tpos = tiw.later_min_tpos /\ tiw'.yield_slots_left = 0
    BY <1>4, <1>6, Zenon DEF Keeps, Fields, Side
  <2>2. SideTyped(tiw')  BY <1>4, <2>1 DEF SideTyped
  <2>3. tiw'.pos >= tiw.pos /\ 0 \in Int  BY <1>4, <2>1
  <2>4. Good(tiw', tiw.yield_slot, 0, {})
    <3>1. Keeps(tiw, tiw', Side)  BY <2>1
    <3> QED BY <1>2, <2>2, <2>3, <3>1, SideGood, Zenon
  <2>5. tiw.yield_slot \in Slots  BY <1>4, <1>6
  <2>6. Call(b', tiw'.sentinel, now)  BY <1>2, <1>4, <1>6, <2>5 DEF Call, Idle
  <2>7. Cur(b', tiw') = tiw.yield_slot /\ Extra(b') = 0  BY <1>6 DEF Cur, Extra
  <2>8. Good(tiw', Cur(b', tiw'), Extra(b'), {})  BY <2>4, <2>7
  <2> QED BY <1>1, <1>2, <2>1, <2>6, <2>8 DEF WInv
<1> QED BY <1>5, <1>6 DEF erts_bump_timers

(* Between calls and in a callback the list being bumped may change. *)
LEMMA SameCall ==
  ASSUME WInv, b.pc \in {"idle", "callback"}, b' = b, now' = now,
         Good(tiw', Cur(b, tiw), Extra(b), {}),
         tiw'.pos <= now, tiw'.yield_slot = tiw.yield_slot
  PROVE  WInv'
<1>1. now \in Nat /\ Call(b, tiw.sentinel, now)  BY DEF WInv
<1>2. Call(b', tiw'.sentinel, now)  BY <1>1 DEF Call
<1>3. Cur(b', tiw') = Cur(b, tiw) /\ Extra(b') = Extra(b)  BY DEF Cur, Extra
<1>4. Good(tiw', Cur(b', tiw'), Extra(b'), {})  BY <1>3
<1> QED BY <1>1, <1>2, <1>4 DEF WInv

(* The scheduler asks for its next timeout. *)
LEMMA CheckStep ==
  ASSUME WInv, erts_check_next_timeout_time
  PROVE  WInv'
<1>1. /\ b.pc = "idle" /\ b' = b /\ now' = now
      /\ tiw' = tiw \/ tiw' = find_next_timeout(tiw)
  BY DEF erts_check_next_timeout_time, AsksForTimeout
<1>2. /\ now \in Nat /\ now \in Int /\ tiw.pos <= now /\ Good(tiw, Cur(b, tiw), 0, {})
      /\ Extra(b) = 0
  BY <1>1 DEF WInv, Extra
<1>3. CASE tiw' = tiw
  <2>1. Good(tiw', Cur(b, tiw), Extra(b), {}) /\ tiw'.pos <= now
        /\ tiw'.yield_slot = tiw.yield_slot
    BY <1>2, <1>3
  <2> QED BY <1>1, <2>1, SameCall
<1>4. CASE tiw' = find_next_timeout(tiw)
  <2>1. Good(tiw', Cur(b, tiw), 0, {}) /\ Rests(tiw, tiw')
    BY <1>2, <1>4, FindGood, Zenon
  <2>2. Good(tiw', Cur(b, tiw), Extra(b), {}) /\ tiw'.pos <= now
        /\ tiw'.yield_slot = tiw.yield_slot
    BY <1>2, <2>1 DEF Rests
  <2> QED BY <1>1, <2>2, SameCall
<1> QED BY <1>1, <1>3, <1>4

(* A timer is set, by a process or by a callback. *)
LEMMA SetStep ==
  ASSUME WInv, NEW p \in Timers, SetTimer(p)
  PROVE  WInv'
<1>1. b.pc \in {"idle", "callback"} /\ tiw.slot[p] = INACTIVE /\ b' = b /\ now' = now
  BY DEF SetTimer, Active
<1>2. Good(tiw, Cur(b, tiw), Extra(b), {}) /\ tiw.pos <= now  BY DEF WInv
<1>3. tiw.pos \in Int  BY <1>2 DEF Good, Typed
<1>4. Extra(b) \in Int  BY DEF Extra
<1>5. PICK t \in tiw.pos .. MaxTpos : tiw' \in erts_twheel_set_timer(tiw, p, t)
  BY DEF SetTimer
<1>6. t \in Int  BY <1>3, Horizons
<1>7. Good(tiw', Cur(b, tiw), Extra(b), {}) /\ OnlyTimer(tiw, tiw', p)
  BY <1>1, <1>2, <1>4, <1>5, <1>6, SetGood, Zenon
<1>8. tiw'.pos <= now /\ tiw'.yield_slot = tiw.yield_slot  BY <1>2, <1>7 DEF OnlyTimer
<1> QED BY <1>1, <1>7, <1>8, SameCall

(* A timer is cancelled, also one of the list being bumped. *)
LEMMA CancelStep ==
  ASSUME WInv, NEW p \in Timers, CancelTimer(p)
  PROVE  WInv'
<1>1. /\ b.pc = "idle" /\ tiw.slot[p] # INACTIVE /\ b' = b /\ now' = now
      /\ tiw' = erts_twheel_cancel_timer(tiw, p)
  BY DEF CancelTimer, Active
<1>2. Good(tiw, Cur(b, tiw), Extra(b), {}) /\ tiw.pos <= now  BY DEF WInv
<1>3. tiw.slot \in [Timers -> Slots \cup {INACTIVE}]  BY <1>2 DEF Good, Typed
<1>4. Extra(b) \in Int  BY DEF Extra
<1>5. tiw.slot[p] \in Slots  BY <1>1, <1>3
<1>6. Good(tiw', Cur(b, tiw), Extra(b), {}) /\ Gone(tiw, tiw', p)
  BY <1>1, <1>2, <1>4, <1>5, CancelGood, Zenon
<1>7. tiw'.pos <= now /\ tiw'.yield_slot = tiw.yield_slot  BY <1>2, <1>6 DEF Gone
<1> QED BY <1>1, <1>6, <1>7, SameCall

(* A callback moves the service timer of the scheduler. *)
LEMMA AdvanceStep ==
  ASSUME WInv, NEW p \in Timers, AdvanceTimer(p)
  PROVE  WInv'
<1> DEFINE y == erts_twheel_cancel_timer(tiw, p)
           lo == now + LATER_WHEEL_SIZE * LATER_WHEEL_SLOT_SIZE
           hi == tiw.timeout_pos[p] - 1
<1>1. b.pc = "callback" /\ tiw.slot[p] # INACTIVE /\ b' = b /\ now' = now
  BY DEF AdvanceTimer, Active
<1>2. Good(tiw, Cur(b, tiw), Extra(b), {}) /\ tiw.pos <= now /\ now \in Nat  BY DEF WInv
<1>3. /\ tiw.slot \in [Timers -> Slots \cup {INACTIVE}]
      /\ tiw.timeout_pos \in [Timers -> Int]
  BY <1>2 DEF Good, Typed
<1>4. Extra(b) \in Int  BY DEF Extra
<1>5. tiw.slot[p] \in Slots  BY <1>1, <1>3
<1>6. PICK t \in lo .. hi : tiw' \in erts_twheel_set_timer(y, p, t)
  BY Zenon DEF AdvanceTimer
<1>7. lo \in Int /\ hi \in Int
  <2>1. \A i, j \in Nat : i * j \in Nat  OBVIOUS
  <2>2. LATER_WHEEL_SIZE * LATER_WHEEL_SLOT_SIZE \in Nat  BY <2>1, Sizes
  <2> QED BY <1>2, <1>3, <2>2
<1> HIDE DEF lo, hi
<1>8. t \in Int  BY <1>7
<1>9. y = erts_twheel_cancel_timer(tiw, p)  OBVIOUS
<1> HIDE DEF y
<1>10. Good(y, Cur(b, tiw), Extra(b), {}) /\ Gone(tiw, y, p)
  BY <1>2, <1>4, <1>5, <1>9, CancelGood, Zenon
<1>11. y.slot[p] = INACTIVE /\ y.pos = tiw.pos /\ y.yield_slot = tiw.yield_slot
  BY <1>10 DEF Gone
<1>12. Good(tiw', Cur(b, tiw), Extra(b), {}) /\ OnlyTimer(y, tiw', p)
  BY <1>4, <1>6, <1>8, <1>10, <1>11, SetGood, Zenon
<1>13. tiw'.pos <= now /\ tiw'.yield_slot = tiw.yield_slot
  BY <1>2, <1>11, <1>12 DEF OnlyTimer
<1> QED BY <1>1, <1>12, <1>13, SameCall

(* Time passes. *)
LEMMA TickStep ==
  ASSUME WInv, Tick
  PROVE  WInv'
<1>1. now' = now + 1 /\ tiw' = tiw /\ b' = b  BY DEF Tick
<1>2. /\ now \in Nat /\ tiw.pos <= now /\ Call(b, tiw.sentinel, now)
      /\ Good(tiw, Cur(b, tiw), Extra(b), {})
  BY DEF WInv
<1>3. tiw.pos \in Int  BY <1>2 DEF Good, Typed
<1>4. now + 1 \in Nat /\ tiw.pos <= now + 1  BY <1>2, <1>3
<1>5. Call(b, tiw.sentinel, now + 1)  BY <1>2 DEF Call
<1>6. Cur(b', tiw') = Cur(b, tiw) /\ Extra(b') = Extra(b)  BY <1>1 DEF Cur, Extra
<1>7. Good(tiw', Cur(b', tiw'), Extra(b'), {})  BY <1>1, <1>2, <1>6
<1>8. Call(b', tiw'.sentinel, now')  BY <1>1, <1>5
<1> QED BY <1>1, <1>4, <1>7, <1>8 DEF WInv

(* A new wheel is sound. *)
LEMMA InitSound ==
  ASSUME Init
  PROVE  WInv
<1> DEFINE e == [w |-> [s \in Slots |-> <<>>],
                 slot |-> [p \in Timers |-> INACTIVE],
                 timeout_pos |-> [p \in Timers |-> 0],
                 scnt |-> NoCounts, bump_scnt |-> NoCounts,
                 pos |-> now, nto |-> 0, at_once_nto |-> 0,
                 soon_min_tpos |-> MAX_CLKTCKS, soon_nto |-> 0,
                 later_min_tpos |-> MAX_CLKTCKS, later_min_tpos_slot |-> END_SLOT,
                 later_pos |-> LaterPosAt(now), later_nto |-> 0,
                 yield_slot |-> INACTIVE, yield_slots_left |-> 0, sentinel |-> <<>>,
                 true_next_timeout_time |-> FALSE,
                 next_timeout_pos |-> now + CLKTCKS_WEEK,
                 pon_fd |-> FALSE, pon_armed_deadline |-> -1]
<1>1. now = 0 /\ b = Idle /\ tiw \in pon_timer_wheel_arm(e)
  BY Zenon DEF Init, erts_create_timer_wheel
<1>2. /\ DOMAIN e = Fields /\ e.w = [s \in Slots |-> <<>>] /\ e.sentinel = <<>>
      /\ e.slot = [p \in Timers |-> INACTIVE] /\ e.timeout_pos = [p \in Timers |-> 0]
      /\ e.scnt = NoCounts /\ e.pos = now /\ e.nto = 0 /\ e.at_once_nto = 0
      /\ e.soon_min_tpos = MAX_CLKTCKS /\ e.soon_nto = 0
      /\ e.later_min_tpos = MAX_CLKTCKS /\ e.later_pos = LaterPosAt(now)
      /\ e.later_nto = 0 /\ e.yield_slot = INACTIVE /\ e.yield_slots_left = 0
  BY DEF Fields
<1> HIDE DEF e
<1>3. LaterPosAt(now) \in Int
  <2>1. now + SOON_WHEEL_SIZE \in Int  BY <1>1, Sizes
  <2> QED BY <2>1, SlotOfPos DEF LaterPosAt
<1>4. Typed(e)
  <2>1. e.w \in [Slots -> Seq(Timers)] /\ e.sentinel \in Seq(Timers)  BY <1>2
  <2>2. e.slot \in [Timers -> Slots \cup {INACTIVE}] /\ e.timeout_pos \in [Timers -> Int]
    BY <1>2
  <2>3. e.scnt \in [ScntIxs -> Int]  BY <1>2 DEF NoCounts
  <2>4. /\ e.nto \in Int /\ e.at_once_nto \in Int /\ e.soon_nto \in Int
        /\ e.soon_min_tpos \in Int /\ e.later_nto \in Int /\ e.later_min_tpos \in Int
        /\ e.pos \in Int /\ e.later_pos \in Int /\ e.yield_slots_left \in Int
    BY <1>1, <1>2, <1>3, Horizons
  <2> QED BY <1>2, <2>1, <2>2, <2>3, <2>4, Zenon DEF Typed
<1>5. \A q \in Timers : e.slot[q] = INACTIVE  BY <1>2
<1>6. Linked(e, INACTIVE, {})
  <2>1. \A s \in Slots : e.w[s] = <<>>  BY <1>2
  <2> QED BY <1>2, <1>5, <2>1, EmptyHasNone DEF Linked
<1>7. ASSUME NEW S, S \subseteq Slots  PROVE Size(e, S, {}) = 0
  <2>1. INACTIVE \notin S  BY <1>7, SlotKinds
  <2>2. {q \in Timers \ {} : e.slot[q] \in S} = {}  BY <1>5, <2>1
  <2> QED BY <2>2, FS_EmptySet DEF Size
<1>8. Counted(e, 0, {})
  <2>1. /\ {AT_ONCE} \subseteq Slots /\ SoonSlots \subseteq Slots
        /\ LaterSlots \subseteq Slots /\ Slots \subseteq Slots
    BY Sizes DEF Slots, AT_ONCE, SoonSlots, LaterSlots
  <2>2. \A ix \in ScntIxs : RangeSlots(ix) \subseteq Slots
    BY Sizes DEF Slots, AT_ONCE, RangeSlots
  <2>3. \A ix \in ScntIxs : e.scnt[ix] = 0  BY <1>2 DEF NoCounts
  <2>4. /\ Size(e, {AT_ONCE}, {}) = 0 /\ Size(e, SoonSlots, {}) = 0
        /\ Size(e, LaterSlots, {}) = 0 /\ Size(e, Slots, {}) = 0
    BY <1>7, <2>1, Zenon
  <2>5. \A ix \in ScntIxs : Size(e, RangeSlots(ix), {}) = 0  BY <1>7, <2>2, Zenon
  <2>6. e.nto = Size(e, Slots, {}) + 0  BY <1>2, <2>4
  <2> QED BY <1>2, <2>3, <2>4, <2>5, <2>6, Zenon DEF Counted
<1>9. Due(e, {})
  <2>1. INACTIVE # AT_ONCE  BY DEF INACTIVE, AT_ONCE
  <2> QED BY <1>5, <2>1 DEF Due
<1>10. Good(e, INACTIVE, 0, {})  BY <1>4, <1>6, <1>8, <1>9 DEF Good
<1>11. 0 \in Int /\ e.pos <= now /\ now \in Nat  BY <1>1, <1>2
<1>12. Good(tiw, INACTIVE, 0, {}) /\ Rests(e, tiw)  BY <1>1, <1>10, <1>11, ArmGood, Zenon
<1>13. tiw.yield_slot = INACTIVE /\ tiw.pos <= now  BY <1>2, <1>12 DEF Rests
<1>14. Call(b, tiw.sentinel, now) /\ Cur(b, tiw) = INACTIVE /\ Extra(b) = 0
  BY <1>1, <1>11, <1>13, IdleCall
<1>15. Good(tiw, Cur(b, tiw), Extra(b), {})  BY <1>12, <1>14
<1> QED BY <1>11, <1>13, <1>14, <1>15 DEF WInv

(* The invariant says what hrd_dbg_check_wheels checks. *)
LEMMA SoundIsExact ==
  ASSUME WInv
  PROVE  CountersExact
<1> DEFINE cur == Cur(b, tiw)
           extra == Extra(b)
<1>1. Typed(tiw) /\ Linked(tiw, cur, {}) /\ Counted(tiw, extra, {})  BY DEF WInv, Good
<1> HIDE DEF cur
<1>2. tiw.slot \in [Timers -> Slots \cup {INACTIVE}]  BY <1>1 DEF Typed
<1>3. /\ tiw.sentinel \in Seq(Timers) /\ \A s \in Slots : tiw.w[s] \in Seq(Timers)
  BY <1>1 DEF Typed
<1>4. \A s \in Slots :
        /\ IsInjective(tiw.w[s]) /\ IsInjective(tiw.sentinel)
        /\ \A p \in Range(tiw.w[s]) : tiw.slot[p] = s /\ p \notin Range(tiw.sentinel)
  BY <1>1, Zenon DEF Linked
<1>5. ASSUME NEW p \in Timers
      PROVE  Active(p) <=> \/ p \in Range(tiw.sentinel)
                           \/ \E s \in Slots : p \in Range(tiw.w[s])
  <2>1. ASSUME Active(p)
        PROVE  p \in Range(tiw.sentinel) \/ \E s \in Slots : p \in Range(tiw.w[s])
    <3>1. tiw.slot[p] # INACTIVE /\ tiw.slot[p] \in Slots  BY <1>2, <2>1 DEF Active
    <3>2. p \in Range(tiw.sentinel) \/ p \in Range(tiw.w[tiw.slot[p]])
      BY <1>1, <3>1 DEF Linked
    <3> QED BY <3>1, <3>2
  <2>2. ASSUME p \in Range(tiw.sentinel)  PROVE Active(p)
    <3>1. tiw.slot[p] \in Slots  BY <1>1, <2>2 DEF Linked
    <3> QED BY <3>1, SlotKinds DEF Active
  <2>3. ASSUME NEW s \in Slots, p \in Range(tiw.w[s])  PROVE Active(p)
    <3>1. tiw.slot[p] = s  BY <1>4, <2>3
    <3> QED BY <3>1, SlotKinds DEF Active
  <2> QED BY <2>1, <2>2, <2>3
<1>6. ASSUME NEW S  PROVE Size(tiw, S, {}) = Count(S)
  <2>1. {q \in Timers \ {} : tiw.slot[q] \in S} = {q \in Timers : tiw.slot[q] \in S}
    OBVIOUS
  <2> QED BY <2>1 DEF Size, Count
<1>7. /\ tiw.at_once_nto = Size(tiw, {AT_ONCE}, {})
      /\ tiw.soon_nto = Size(tiw, SoonSlots, {})
      /\ tiw.later_nto = Size(tiw, LaterSlots, {})
      /\ tiw.nto = Size(tiw, Slots, {}) + extra
      /\ \A ix \in ScntIxs : tiw.scnt[ix] = Size(tiw, RangeSlots(ix), {})
  BY <1>1, Zenon DEF Counted
<1> HIDE DEF extra
<1>8. /\ tiw.at_once_nto = Count({AT_ONCE}) /\ tiw.soon_nto = Count(SoonSlots)
      /\ tiw.later_nto = Count(LaterSlots) /\ tiw.nto = Count(Slots) + extra
      /\ \A ix \in ScntIxs : tiw.scnt[ix] = Count(RangeSlots(ix))
  BY <1>6, <1>7, Zenon
<1> QED BY <1>4, <1>5, <1>8, Zenon
     DEF CountersExact, SoonSlots, LaterSlots, RangeSlots, extra, Extra

(* The wheel is sound at every step. *)
THEOREM WheelSound == Spec => []WInv
<1>1. Init => WInv  BY InitSound
<1>2. WInv /\ [Next]_vars => WInv'
  <2> SUFFICES ASSUME WInv, [Next]_vars  PROVE WInv'  OBVIOUS
  <2>1. CASE Step  BY <2>1, TopStep, BumpStep, SlotStep, TakeStep, ListStep, CallbackStep DEF Step
  <2>2. CASE \E p \in Timers : SetTimer(p) \/ CancelTimer(p) \/ AdvanceTimer(p)
    BY <2>2, SetStep, CancelStep, AdvanceStep
  <2>3. CASE UNCHANGED vars
    <3>1. tiw' = tiw /\ b' = b /\ now' = now  BY <2>3 DEF vars
    <3> QED BY <3>1 DEF WInv, Cur, Extra
  <2> QED BY <2>1, <2>2, <2>3, TickStep, CheckStep, StartStep DEF Next
<1> QED BY <1>1, <1>2, PTL DEF Spec

(* CountersExact: at every step each active timer is in exactly one list, and   *)
(* nto, the counts of the wheels and every scnt range count exactly the timers  *)
(* they stand for, whatever callbacks, cancellations and yields interleave.     *)
THEOREM CountsExact == Spec => []CountersExact
BY WheelSound, SoundIsExact, PTL

(* NeverEarly: erts_bump_timers fires a timer only when its time has come. *)
THEOREM FiresOnTime == Spec => NeverEarly
<1> DEFINE OnTime == \A p \in Timers : Fires(p) => tiw.timeout_pos[p] <= now
<1>1. WInv /\ [Next]_vars => [OnTime]_vars
  <2> SUFFICES ASSUME WInv, [Next]_vars, b.pc = "take"
               PROVE  [OnTime]_vars
    BY DEF Fires
  <2>1. CASE UNCHANGED vars  BY <2>1
  <2>2. CASE Next
    <3>1. Take
      BY <2>2 DEF Next, Step, Tick, erts_check_next_timeout_time, AsksForTimeout,
           erts_bump_timers, Top, Bump, Slot, List, CallbackReturns, SetTimer,
           CancelTimer, AdvanceTimer
    <3>2. \A q \in Timers : Active(q) /\ ~Active(q)' => tiw.timeout_pos[q] <= now
      BY <3>1, TakeStep
    <3>3. OnTime  BY <3>2 DEF Fires
    <3> QED BY <3>3
  <2> QED BY <2>1, <2>2
<1>2. Spec => [][OnTime]_vars  BY <1>1, WheelSound, PTL DEF Spec
<1> QED BY <1>2 DEF NeverEarly
=============================================================================
