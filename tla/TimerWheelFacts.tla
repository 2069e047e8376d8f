--------------------------- MODULE TimerWheelFacts ---------------------------
(***************************************************************************)
(* Lemmas about the timer wheel, for wheels of any size and any set of     *)
(* timers.  The helpers of time.c are operators from wheels to wheels, and *)
(* so are the lemmas.  Good says of a wheel that its lists and counts are  *)
(* exact when some timers are in none of them; TakeOut and PutIn are the   *)
(* two moves of a timer, Frame is what does not touch a list.  WInv says   *)
(* it of the wheel at every step, together with what erts_bump_timers      *)
(* keeps in its locals.                                                    *)
(***************************************************************************)
EXTENDS TimerWheel, SequenceFacts, FiniteSetTheorems

(***************************************************************************)
(* The geometry of the wheels.                                             *)
(***************************************************************************)
(* The sizes of time.c: a later slot is at least a tick. *)
LEMMA Sizes ==
  /\ SOON_WHEEL_SIZE \in Nat /\ LATER_WHEEL_SIZE \in Nat /\ SCNT_SLOTS \in Nat
  /\ SOON_WHEEL_SIZE > 0 /\ LATER_WHEEL_SIZE > 0 /\ SCNT_SLOTS > 0
  /\ LATER_WHEEL_SLOT_SIZE \in Nat /\ LATER_WHEEL_SLOT_SIZE > 0
  /\ END_SLOT = SOON_WHEEL_SIZE + LATER_WHEEL_SIZE
<1> USE WheelSizes
<1>1. ~(SOON_WHEEL_SIZE = 1)
  <2> SUFFICES ASSUME SOON_WHEEL_SIZE = 1 PROVE FALSE  OBVIOUS
  <2> DEFINE n == 2 * SCNT_SLOTS
  <2>1. n \in Nat /\ n > 1 /\ 1 % n = 0  OBVIOUS
  <2> HIDE DEF n
  <2>2. 1 % n = 1  BY <2>1
  <2> QED BY <2>1, <2>2
<1>2. SOON_WHEEL_SIZE \div 2 \in Nat /\ SOON_WHEEL_SIZE \div 2 > 0  BY <1>1
<1> QED BY <1>2 DEF LATER_WHEEL_SLOT_SIZE, END_SLOT

(* A position has a slot in each wheel. *)
LEMMA SlotOfPos ==
  ASSUME NEW x \in Int
  PROVE  /\ soon_slot(x) \in 0 .. (SOON_WHEEL_SIZE - 1)
         /\ later_slot(x) \in SOON_WHEEL_SIZE .. (END_SLOT - 1)
         /\ PosMask(x) \in Int
<1>1. \A y \in Int, n \in Nat : n > 0 => y % n \in 0 .. (n - 1) /\ y \div n \in Int
  OBVIOUS
<1>2. soon_slot(x) \in 0 .. (SOON_WHEEL_SIZE - 1)  BY <1>1, Sizes DEF soon_slot
<1>3. x \div LATER_WHEEL_SLOT_SIZE \in Int /\ x % LATER_WHEEL_SLOT_SIZE \in Int
  BY <1>1, Sizes
<1>4. (x \div LATER_WHEEL_SLOT_SIZE) % LATER_WHEEL_SIZE \in 0 .. (LATER_WHEEL_SIZE - 1)
  BY <1>1, <1>3, Sizes
<1>5. later_slot(x) \in SOON_WHEEL_SIZE .. (END_SLOT - 1)
  BY <1>4, Sizes DEF later_slot
<1> QED BY <1>2, <1>3, <1>5 DEF PosMask

(* A slot is the at-once slot or belongs to one of the wheels. *)
LEMMA SlotKinds ==
  ASSUME NEW s \in Slots
  PROVE  /\ s \in Int /\ s # INACTIVE
         /\ \/ s = AT_ONCE /\ ~IsSoon(s) /\ ~IsLater(s)
            \/ s # AT_ONCE /\ IsSoon(s) /\ ~IsLater(s)
            \/ s # AT_ONCE /\ ~IsSoon(s) /\ IsLater(s)
         /\ s = AT_ONCE \/ s \in 0 .. (END_SLOT - 1)
         /\ IsSoon(s) <=> s \in 0 .. (SOON_WHEEL_SIZE - 1)
         /\ IsLater(s) <=> s \in SOON_WHEEL_SIZE .. (END_SLOT - 1)
BY Sizes DEF Slots, AT_ONCE, INACTIVE, IsSoon, IsLater

(* A slot of a wheel has a range of scnt. *)
LEMMA RangeOf ==
  ASSUME NEW s \in 0 .. (END_SLOT - 1)
  PROVE  scnt_get_ix(s) \in ScntIxs
<1> DEFINE n == SCNT_SLOTS
           e == END_SLOT - 1
<1>1. n \in Nat /\ n > 0 /\ e \in Nat /\ s \in Nat /\ s <= e  BY Sizes
<1> HIDE DEF n, e
<1>2. s \div n \in Nat /\ s \div n <= e \div n
  <2> DEFINE q == s \div n
             r == e \div n
  <2>1. q \in Int /\ r \in Int /\ s % n \in 0 .. (n - 1) /\ e % n \in 0 .. (n - 1)
        /\ s = q * n + (s % n) /\ e = r * n + (e % n)
    BY <1>1
  <2>2. 0 <= q  BY <1>1
  <2> HIDE DEF q, r
  <2>3. ASSUME r < q PROVE FALSE
    <3>1. (q - r - 1) * n >= 0  BY <1>1, <2>1, <2>3, SMT
    <3>2. q * n >= r * n + n  BY <1>1, <2>1, <3>1, SMT
    <3> QED BY <1>1, <2>1, <3>2
  <2> QED BY <2>1, <2>2, <2>3 DEF q, r
<1> QED BY <1>2 DEF scnt_get_ix, ScntIxs, n, e

(* The greater and the smaller of two numbers. *)
LEMMA MaxMin ==
  ASSUME NEW m \in Int, NEW n \in Int
  PROVE  /\ Max({m, n}) = IF m >= n THEN m ELSE n
         /\ Min({m, n}) = IF m <= n THEN m ELSE n
BY DEF Max, Min

(* A set of integers that is bounded below has a least element. *)
LEMMA Least ==
  ASSUME NEW S \in SUBSET Int, NEW a \in Int, \A x \in S : a <= x, S # {}
  PROVE  Min(S) \in S /\ \A x \in S : Min(S) <= x
<1> DEFINE R == {ss \in Nat \X Nat : ss[1] < ss[2]}
           T == {n \in Nat : a + n \in S}
<1>1. IsWellFoundedOn(R, Nat)
  <2>1. OpToRel(<, Nat) = R  BY DEF OpToRel
  <2> QED BY <2>1, NatLessThanWellFounded, Zenon
<1>2. T \subseteq Nat /\ T # {}
  <2>1. PICK x \in S : TRUE  OBVIOUS
  <2>2. x - a \in Nat /\ a + (x - a) = x  BY <2>1
  <2> QED BY <2>1, <2>2
<1>3. \A m, n \in Nat : <<m, n>> \in R <=> m < n  OBVIOUS
<1>4. \A n \in Nat : n \in T <=> a + n \in S  OBVIOUS
<1> HIDE DEF R, T
<1>5. PICK n \in T : \A m \in T : ~(<<m, n>> \in R)  BY <1>1, <1>2, WFMin
<1>6. ASSUME NEW x \in S  PROVE a + n <= x
  <2>1. x - a \in Nat /\ a + (x - a) = x  OBVIOUS
  <2>2. x - a \in T  BY <1>4, <2>1
  <2>3. ~(x - a < n)  BY <1>2, <1>3, <1>5, <2>1, <2>2
  <2> QED BY <1>2, <2>1, <2>3
<1>7. a + n \in S  BY <1>2, <1>4, <1>5
<1>8. \E y \in S : \A x \in S : y <= x  BY <1>6, <1>7
<1> QED BY <1>8 DEF Min

(* scnt_wheel_next stays within the wheels, whatever the counts. *)
LEMMA NextWithin ==
  ASSUME NEW s \in 0 .. (END_SLOT - 1), NEW left \in Int, NEW c
  PROVE  LET nxt == scnt_wheel_next(s, left, c)
         IN  /\ nxt.slot \in 0 .. (END_SLOT - 1)
             /\ nxt.left \in Int /\ nxt.steps \in Int
<1> DEFINE first == IF IsSoon(s) THEN 0 ELSE SOON_WHEEL_SIZE
           size == IF IsSoon(s) THEN SOON_WHEEL_SIZE ELSE LATER_WHEEL_SIZE
           at(k) == first + ((s - first + k) % size)
           K == {k \in 1 .. Max({1, left}) : k >= left \/ c[scnt_get_ix(at(k))] # 0}
           steps == Min(K)
<1>1. scnt_wheel_next(s, left, c) = [slot |-> at(steps), left |-> left - steps, steps |-> steps]
  BY DEF scnt_wheel_next
<1>2. /\ first \in Nat /\ size \in Nat /\ size > 0 /\ first + size <= END_SLOT
  BY Sizes
<1>3. K \in SUBSET Int /\ (\A k \in K : 1 <= k) /\ K # {}
  <2> DEFINE m == Max({1, left})
  <2>1. m = IF 1 >= left THEN 1 ELSE left  BY MaxMin
  <2> HIDE DEF m
  <2>2. m \in 1 .. m /\ m >= left  BY <2>1
  <2>3. m \in K  BY <2>2 DEF m
  <2> QED BY <2>3
<1>4. steps \in Int
  <2> HIDE DEF K
  <2>1. Min(K) \in K  BY <1>3, Least
  <2> QED BY <1>3, <2>1
<1> HIDE DEF steps, K
<1>5. \A k \in Int : at(k) \in 0 .. (END_SLOT - 1)
  <2> TAKE k \in Int
  <2> HIDE DEF first, size
  <2>1. (s - first + k) % size \in 0 .. (size - 1)  BY <1>2
  <2> DEFINE d == (s - first + k) % size
  <2>2. at(k) = first + d  OBVIOUS
  <2>3. d \in 0 .. (size - 1)  BY <2>1
  <2> HIDE DEF d, at
  <2> QED BY <1>2, <2>2, <2>3, Sizes
<1> HIDE DEF at
<1> QED BY <1>1, <1>4, <1>5

(***************************************************************************)
(* What the helpers of time.c do to the fields of a wheel.                 *)
(***************************************************************************)
Fields ==
  {"w", "slot", "timeout_pos", "scnt", "bump_scnt", "pos", "nto", "at_once_nto",
   "soon_min_tpos", "soon_nto", "later_min_tpos", "later_min_tpos_slot",
   "later_pos", "later_nto", "yield_slot", "yield_slots_left", "sentinel",
   "true_next_timeout_time", "next_timeout_pos", "pon_fd", "pon_armed_deadline"}

\* x is wheel tw but for the fields of F.
Keeps(tw, x, F) == DOMAIN x = Fields /\ \A f \in Fields \ F : x[f] = tw[f]

Typed(tw) ==
  /\ DOMAIN tw = Fields
  /\ tw.w \in [Slots -> Seq(Timers)] /\ tw.sentinel \in Seq(Timers)
  /\ tw.slot \in [Timers -> Slots \cup {INACTIVE}]
  /\ tw.timeout_pos \in [Timers -> Int]
  /\ tw.scnt \in [ScntIxs -> Int]
  /\ tw.nto \in Int /\ tw.at_once_nto \in Int
  /\ tw.soon_nto \in Int /\ tw.soon_min_tpos \in Int
  /\ tw.later_nto \in Int /\ tw.later_min_tpos \in Int
  /\ tw.pos \in Int /\ tw.later_pos \in Int
  /\ tw.yield_slot \in Slots \cup {INACTIVE} /\ tw.yield_slots_left \in Int

\* The counts of x are those of tw with d more timers in slot s.
CountedBy(tw, x, s, d) ==
  /\ x.at_once_nto = tw.at_once_nto + IF s = AT_ONCE THEN d ELSE 0
  /\ x.soon_nto = tw.soon_nto + IF IsSoon(s) THEN d ELSE 0
  /\ x.later_nto = tw.later_nto + IF IsLater(s) THEN d ELSE 0
  /\ x.scnt \in [ScntIxs -> Int]
  /\ \A ix \in ScntIxs :
       x.scnt[ix] = tw.scnt[ix] + IF s # AT_ONCE /\ scnt_get_ix(s) = ix THEN d ELSE 0

(* insert_timer_into_slot links p into the list of slot s and counts it there. *)
LEMMA InsertEffect ==
  ASSUME NEW tw, Typed(tw), NEW s \in Slots, NEW p \in Timers,
         NEW x, x = insert_timer_into_slot(tw, s, p)
  PROVE  /\ Keeps(tw, x, {"w", "slot", "scnt", "at_once_nto", "soon_nto",
                          "soon_min_tpos", "later_nto", "later_min_tpos",
                          "later_min_tpos_slot"})
         /\ x.w = [tw.w EXCEPT ![s] = Append(@, p)]
         /\ x.slot = [tw.slot EXCEPT ![p] = s]
         /\ CountedBy(tw, x, s, 1)
         /\ x.soon_min_tpos \in Int /\ x.later_min_tpos \in Int
<1> DEFINE tpos == tw.timeout_pos[p]
           in == [tw EXCEPT !.slot[p] = s, !.w[s] = Append(@, p)]
           counted == scnt_inc(in, s)
           F == {"w", "slot", "scnt", "at_once_nto", "soon_nto", "soon_min_tpos",
                 "later_nto", "later_min_tpos", "later_min_tpos_slot"}
<1>1. DOMAIN tw = Fields  BY DEF Typed
<1>2. /\ Keeps(tw, in, {"w", "slot"})
      /\ in.w = [tw.w EXCEPT ![s] = Append(@, p)]
      /\ in.slot = [tw.slot EXCEPT ![p] = s]
  BY <1>1, Zenon DEF Keeps, Fields
<1>3. /\ Keeps(in, counted, {"scnt"})
      /\ counted.scnt = [in.scnt EXCEPT ![scnt_get_ix(s)] = @ + 1]
  BY <1>2, Zenon DEF Keeps, Fields, scnt_inc
<1>t. /\ tw.scnt \in [ScntIxs -> Int] /\ tw.at_once_nto \in Int /\ tw.soon_nto \in Int
      /\ tw.later_nto \in Int /\ tw.soon_min_tpos \in Int /\ tw.later_min_tpos \in Int
      /\ tpos \in Int
  BY DEF Typed
<1> HIDE DEF in, counted
<1>4. CASE s = AT_ONCE
  <2>1. x = [in EXCEPT !.at_once_nto = @ + 1]
    BY <1>4, SlotKinds DEF insert_timer_into_slot, in
  <2>2. Keeps(in, x, {"at_once_nto"}) /\ x.at_once_nto = in.at_once_nto + 1
    BY <1>2, <2>1, Zenon DEF Keeps, Fields
  <2>3. Keeps(tw, x, F)  BY <1>2, <2>2, Zenon DEF Keeps, Fields
  <2>4. /\ x.w = in.w /\ x.slot = in.slot /\ x.at_once_nto = tw.at_once_nto + 1
        /\ x.soon_nto = tw.soon_nto /\ x.later_nto = tw.later_nto /\ x.scnt = tw.scnt
        /\ x.soon_min_tpos = tw.soon_min_tpos /\ x.later_min_tpos = tw.later_min_tpos
    BY <1>2, <2>2, Zenon DEF Keeps, Fields
  <2>5. CountedBy(tw, x, s, 1)  BY <1>4, <1>t, <2>4, SlotKinds DEF CountedBy
  <2> QED BY <1>2, <1>t, <2>3, <2>4, <2>5
<1>5. ASSUME s # AT_ONCE
      PROVE  /\ counted.scnt \in [ScntIxs -> Int]
             /\ \A ix \in ScntIxs :
                  counted.scnt[ix] = tw.scnt[ix] + IF scnt_get_ix(s) = ix THEN 1 ELSE 0
  <2>1. scnt_get_ix(s) \in ScntIxs  BY <1>5, SlotKinds, RangeOf
  <2>2. in.scnt = tw.scnt  BY <1>2, Zenon DEF Keeps, Fields
  <2> QED BY <1>3, <1>t, <2>1, <2>2
<1>6. CASE s # AT_ONCE /\ IsSoon(s)
  <2>1. x = [counted EXCEPT !.soon_nto = @ + 1, !.soon_min_tpos = Lower(@, tpos)]
    BY <1>6, SlotKinds DEF insert_timer_into_slot, in, counted
  <2>2. /\ Keeps(counted, x, {"soon_nto", "soon_min_tpos"})
        /\ x.soon_nto = counted.soon_nto + 1
        /\ x.soon_min_tpos = Lower(counted.soon_min_tpos, tpos)
    BY <1>3, <2>1, Zenon DEF Keeps, Fields
  <2>3. Keeps(tw, x, F)  BY <1>2, <1>3, <2>2, Zenon DEF Keeps, Fields
  <2>4. /\ x.w = in.w /\ x.slot = in.slot /\ x.at_once_nto = tw.at_once_nto
        /\ x.soon_nto = tw.soon_nto + 1 /\ x.later_nto = tw.later_nto
        /\ x.scnt = counted.scnt /\ x.later_min_tpos = tw.later_min_tpos
        /\ x.soon_min_tpos = Lower(tw.soon_min_tpos, tpos)
    BY <1>2, <1>3, <2>2, Zenon DEF Keeps, Fields
  <2>5. CountedBy(tw, x, s, 1)  BY <1>5, <1>6, <1>t, <2>4, SlotKinds DEF CountedBy
  <2> QED BY <1>2, <1>t, <2>3, <2>4, <2>5 DEF Lower
<1>7. CASE s # AT_ONCE /\ IsLater(s)
  <2>1. x = [counted EXCEPT !.later_nto = @ + 1, !.later_min_tpos = Lower(@, tpos),
               !.later_min_tpos_slot = IF tw.later_min_tpos > tpos THEN s ELSE @]
    BY <1>7, SlotKinds DEF insert_timer_into_slot, in, counted
  <2>2. /\ Keeps(counted, x, {"later_nto", "later_min_tpos", "later_min_tpos_slot"})
        /\ x.later_nto = counted.later_nto + 1
        /\ x.later_min_tpos = Lower(counted.later_min_tpos, tpos)
    BY <1>3, <2>1, Zenon DEF Keeps, Fields
  <2>3. Keeps(tw, x, F)  BY <1>2, <1>3, <2>2, Zenon DEF Keeps, Fields
  <2>4. /\ x.w = in.w /\ x.slot = in.slot /\ x.at_once_nto = tw.at_once_nto
        /\ x.later_nto = tw.later_nto + 1 /\ x.soon_nto = tw.soon_nto
        /\ x.scnt = counted.scnt /\ x.soon_min_tpos = tw.soon_min_tpos
        /\ x.later_min_tpos = Lower(tw.later_min_tpos, tpos)
    BY <1>2, <1>3, <2>2, Zenon DEF Keeps, Fields
  <2>5. CountedBy(tw, x, s, 1)  BY <1>5, <1>7, <1>t, <2>4, SlotKinds DEF CountedBy
  <2> QED BY <1>2, <1>t, <2>3, <2>4, <2>5 DEF Lower
<1> QED BY <1>4, <1>6, <1>7, SlotKinds

(***************************************************************************)
(* A sound wheel.  The timers of L are in no list and in no count; cur is  *)
(* the slot whose list is being bumped, extra what nto counts beyond the   *)
(* timers in the lists.                                                    *)
(***************************************************************************)
Linked(tw, cur, L) ==
  /\ \A s \in Slots :
       /\ IsInjective(tw.w[s])
       /\ \A q \in Range(tw.w[s]) :
            tw.slot[q] = s /\ q \notin Range(tw.sentinel) /\ q \notin L
  /\ IsInjective(tw.sentinel)
  /\ \A q \in Range(tw.sentinel) : tw.slot[q] = cur /\ cur \in Slots /\ q \notin L
  /\ \A q \in Timers \ L :
       tw.slot[q] # INACTIVE => \/ q \in Range(tw.sentinel)
                                \/ q \in Range(tw.w[tw.slot[q]])

Size(tw, S, L) == Cardinality({q \in Timers \ L : tw.slot[q] \in S})

SoonSlots == 0 .. (SOON_WHEEL_SIZE - 1)
LaterSlots == SOON_WHEEL_SIZE .. (END_SLOT - 1)
RangeSlots(ix) == {s \in 0 .. (END_SLOT - 1) : scnt_get_ix(s) = ix}

Counted(tw, extra, L) ==
  /\ tw.at_once_nto = Size(tw, {AT_ONCE}, L)
  /\ tw.soon_nto = Size(tw, SoonSlots, L)
  /\ tw.later_nto = Size(tw, LaterSlots, L)
  /\ tw.nto = Size(tw, Slots, L) + extra
  /\ \A ix \in ScntIxs : tw.scnt[ix] = Size(tw, RangeSlots(ix), L)

\* The timers of the at-once slot are due.
Due(tw, L) ==
  \A q \in Timers \ L : tw.slot[q] = AT_ONCE => tw.timeout_pos[q] <= tw.pos

Good(tw, cur, extra, L) ==
  Typed(tw) /\ Linked(tw, cur, L) /\ Counted(tw, extra, L) /\ Due(tw, L)

(* The number of timers in some slots, with and without one timer. *)
LEMMA Recount ==
  ASSUME NEW tw, NEW S, NEW p \in Timers
  PROVE  /\ Size(tw, S, {p}) \in Nat /\ Size(tw, S, {}) \in Nat
         /\ tw.slot[p] \in S => Size(tw, S, {}) = Size(tw, S, {p}) + 1
         /\ tw.slot[p] \notin S => Size(tw, S, {}) = Size(tw, S, {p})
<1> DEFINE A == {q \in Timers \ {} : tw.slot[q] \in S}
           B == {q \in Timers \ {p} : tw.slot[q] \in S}
<1>1. IsFiniteSet(A) /\ IsFiniteSet(B)
  <2>1. A \subseteq Timers /\ B \subseteq Timers  OBVIOUS
  <2> QED BY <2>1, TimersFinite, FS_Subset
<1>2. Cardinality(A) \in Nat /\ Cardinality(B) \in Nat  BY <1>1, FS_CardinalityType
<1>3. CASE tw.slot[p] \in S
  <2>1. A = B \cup {p} /\ p \notin B  BY <1>3
  <2>2. Cardinality(A) = Cardinality(B) + 1  BY <1>1, <2>1, FS_AddElement
  <2> QED BY <1>2, <1>3, <2>2 DEF Size
<1>4. CASE tw.slot[p] \notin S
  <2>1. A = B  BY <1>4
  <2> QED BY <1>2, <1>4, <2>1 DEF Size
<1> QED BY <1>3, <1>4

\* From tw to x timer p has left its list.
Unlinked(tw, x, p) ==
  /\ \A q \in Timers \ {p} : /\ x.slot[q] = tw.slot[q]
                              /\ x.timeout_pos[q] = tw.timeout_pos[q]
  /\ x.pos = tw.pos
  /\ \A r \in Slots : IsInjective(x.w[r]) /\ Range(x.w[r]) = Range(tw.w[r]) \ {p}
  /\ IsInjective(x.sentinel) /\ Range(x.sentinel) = Range(tw.sentinel) \ {p}

(* An active timer that leaves its list and its counts. *)
LEMMA TakeOut ==
  ASSUME NEW tw, NEW cur, NEW extra \in Int, Good(tw, cur, extra, {}),
         NEW p \in Timers, NEW s \in Slots, tw.slot[p] = s,
         NEW x, NEW d \in Int, Typed(x), CountedBy(tw, x, s, -1), x.nto = tw.nto + d,
         Unlinked(tw, x, p)
  PROVE  Good(x, cur, extra + d + 1, {p})
<1>1. Typed(tw) /\ Linked(tw, cur, {}) /\ Counted(tw, extra, {}) /\ Due(tw, {})
  BY DEF Good
<1>0. /\ \A q \in Timers \ {p} : /\ x.slot[q] = tw.slot[q]
                                 /\ x.timeout_pos[q] = tw.timeout_pos[q]
      /\ x.pos = tw.pos
      /\ \A r \in Slots : IsInjective(x.w[r]) /\ Range(x.w[r]) = Range(tw.w[r]) \ {p}
      /\ IsInjective(x.sentinel) /\ Range(x.sentinel) = Range(tw.sentinel) \ {p}
  BY DEF Unlinked
<1>2. \A r \in Slots : Range(tw.w[r]) \subseteq Timers
  <2> TAKE r \in Slots
  <2>1. tw.w[r] \in Seq(Timers)  BY <1>1 DEF Typed
  <2> QED BY <2>1, RangeSeq
<1>3. Range(tw.sentinel) \subseteq Timers
  <2>1. tw.sentinel \in Seq(Timers)  BY <1>1 DEF Typed
  <2> QED BY <2>1, RangeSeq
<1>4. Linked(x, cur, {p})
  <2>1. ASSUME NEW r \in Slots, NEW q \in Range(x.w[r])
        PROVE  x.slot[q] = r /\ q \notin Range(x.sentinel) /\ q \notin {p}
    <3>1. q \in Range(tw.w[r]) /\ q # p /\ q \in Timers  BY <1>0, <1>2
    <3>2. tw.slot[q] = r /\ q \notin Range(tw.sentinel)  BY <1>1, <3>1 DEF Linked
    <3> QED BY <1>0, <3>1, <3>2
  <2>2. ASSUME NEW q \in Range(x.sentinel)
        PROVE  x.slot[q] = cur /\ cur \in Slots /\ q \notin {p}
    <3>1. q \in Range(tw.sentinel) /\ q # p /\ q \in Timers  BY <1>0, <1>3
    <3>2. tw.slot[q] = cur /\ cur \in Slots  BY <1>1, <3>1 DEF Linked
    <3> QED BY <1>0, <3>1, <3>2
  <2>3. ASSUME NEW q \in Timers \ {p}, x.slot[q] # INACTIVE
        PROVE  q \in Range(x.sentinel) \/ q \in Range(x.w[x.slot[q]])
    <3>1. x.slot[q] = tw.slot[q]  BY <1>0
    <3>2. x.slot[q] \in Slots  BY <2>3 DEF Typed
    <3>3. q \in Range(tw.sentinel) \/ q \in Range(tw.w[tw.slot[q]])
      BY <1>1, <2>3, <3>1 DEF Linked
    <3> QED BY <1>0, <3>1, <3>2, <3>3
  <2> QED BY <1>0, <2>1, <2>2, <2>3, Zenon DEF Linked
<1>5. ASSUME NEW S
      PROVE  /\ Size(x, S, {p}) \in Nat
             /\ s \in S => Size(tw, S, {}) = Size(x, S, {p}) + 1
             /\ s \notin S => Size(tw, S, {}) = Size(x, S, {p})
  <2>1. Size(x, S, {p}) = Size(tw, S, {p})
    <3>1. {q \in Timers \ {p} : x.slot[q] \in S} = {q \in Timers \ {p} : tw.slot[q] \in S}
      BY <1>0
    <3> QED BY <3>1 DEF Size
  <2>2. /\ Size(tw, S, {p}) \in Nat
        /\ tw.slot[p] \in S => Size(tw, S, {}) = Size(tw, S, {p}) + 1
        /\ tw.slot[p] \notin S => Size(tw, S, {}) = Size(tw, S, {p})
    BY Recount, Zenon
  <2> QED BY <2>1, <2>2, Zenon
<1>6. Counted(x, extra + d + 1, {p})
  <2>1. x.at_once_nto = Size(x, {AT_ONCE}, {p})
    <3>1. tw.at_once_nto = Size(tw, {AT_ONCE}, {})  BY <1>1 DEF Counted
    <3>9. /\ Size(x, {AT_ONCE}, {p}) \in Nat
          /\ s \in {AT_ONCE} => Size(tw, {AT_ONCE}, {}) = Size(x, {AT_ONCE}, {p}) + 1
          /\ s \notin {AT_ONCE} => Size(tw, {AT_ONCE}, {}) = Size(x, {AT_ONCE}, {p})
      BY <1>5, Zenon
    <3> QED BY <3>9, <3>1 DEF CountedBy
  <2>2. x.soon_nto = Size(x, SoonSlots, {p})
    <3>1. tw.soon_nto = Size(tw, SoonSlots, {})  BY <1>1 DEF Counted
    <3>2. IsSoon(s) <=> s \in SoonSlots  BY SlotKinds DEF SoonSlots
    <3>9. /\ Size(x, SoonSlots, {p}) \in Nat
          /\ s \in SoonSlots => Size(tw, SoonSlots, {}) = Size(x, SoonSlots, {p}) + 1
          /\ s \notin SoonSlots => Size(tw, SoonSlots, {}) = Size(x, SoonSlots, {p})
      BY <1>5, Zenon
    <3> QED BY <3>9, <3>1, <3>2 DEF CountedBy
  <2>3. x.later_nto = Size(x, LaterSlots, {p})
    <3>1. tw.later_nto = Size(tw, LaterSlots, {})  BY <1>1 DEF Counted
    <3>2. IsLater(s) <=> s \in LaterSlots  BY SlotKinds DEF LaterSlots
    <3>9. /\ Size(x, LaterSlots, {p}) \in Nat
          /\ s \in LaterSlots => Size(tw, LaterSlots, {}) = Size(x, LaterSlots, {p}) + 1
          /\ s \notin LaterSlots => Size(tw, LaterSlots, {}) = Size(x, LaterSlots, {p})
      BY <1>5, Zenon
    <3> QED BY <3>9, <3>1, <3>2 DEF CountedBy
  <2>4. x.nto = Size(x, Slots, {p}) + (extra + d + 1)
    <3>1. tw.nto = Size(tw, Slots, {}) + extra  BY <1>1 DEF Counted
    <3>9. /\ Size(x, Slots, {p}) \in Nat
          /\ s \in Slots => Size(tw, Slots, {}) = Size(x, Slots, {p}) + 1
          /\ s \notin Slots => Size(tw, Slots, {}) = Size(x, Slots, {p})
      BY <1>5, Zenon
    <3> QED BY <3>9, <3>1
  <2>5. ASSUME NEW ix \in ScntIxs  PROVE x.scnt[ix] = Size(x, RangeSlots(ix), {p})
    <3>1. s \in RangeSlots(ix) <=> s # AT_ONCE /\ scnt_get_ix(s) = ix
      BY SlotKinds DEF RangeSlots, AT_ONCE
    <3>2. tw.scnt[ix] = Size(tw, RangeSlots(ix), {})  BY <1>1 DEF Counted
    <3>9. /\ Size(x, RangeSlots(ix), {p}) \in Nat
          /\ s \in RangeSlots(ix) => Size(tw, RangeSlots(ix), {}) = Size(x, RangeSlots(ix), {p}) + 1
          /\ s \notin RangeSlots(ix) => Size(tw, RangeSlots(ix), {}) = Size(x, RangeSlots(ix), {p})
      BY <1>5, Zenon
    <3> QED BY <3>9, <3>1, <3>2 DEF CountedBy
  <2> QED BY <2>1, <2>2, <2>3, <2>4, <2>5, Zenon DEF Counted
<1>7. Due(x, {p})  BY <1>0, <1>1 DEF Due
<1> QED BY <1>4, <1>6, <1>7, Zenon DEF Good

(* x is tw with timer p appended to the list of slot s. *)
Listed(tw, x, s, p) ==
  /\ x.slot[p] = s
  /\ \A q \in Timers \ {p} : x.slot[q] = tw.slot[q]
  /\ x.w[s] = Append(tw.w[s], p)
  /\ \A r \in Slots \ {s} : x.w[r] = tw.w[r]

(* The number of timers in the slots S grows by one when s is one of them. *)
Grows(tw, x, s, p, S) ==
  /\ Size(tw, S, {p}) \in Nat
  /\ s \in S => Size(x, S, {}) = Size(tw, S, {p}) + 1
  /\ s \notin S => Size(x, S, {}) = Size(tw, S, {p})

(* The counts with p in slot s, from those without p. *)
LEMMA ListedSize ==
  ASSUME NEW tw, NEW x, NEW s, NEW p \in Timers, Listed(tw, x, s, p), NEW S
  PROVE  Grows(tw, x, s, p, S)
<1>1. {q \in Timers \ {p} : x.slot[q] \in S} = {q \in Timers \ {p} : tw.slot[q] \in S}
  BY DEF Listed
<1>2. Size(x, S, {p}) = Size(tw, S, {p})  BY <1>1, Zenon DEF Size
<1>3. x.slot[p] = s  BY Zenon DEF Listed
<1> QED BY <1>2, <1>3, Recount, Zenon DEF Grows

(* A timer that enters the list and the counts of slot s. *)
LEMMA PutIn ==
  ASSUME NEW tw, NEW cur, NEW extra \in Int, NEW p \in Timers, NEW s \in Slots,
         Good(tw, cur, extra, {p}),
         NEW x, NEW d \in Int, Typed(x), CountedBy(tw, x, s, 1), x.nto = tw.nto + d,
         Listed(tw, x, s, p), x.timeout_pos = tw.timeout_pos,
         x.pos = tw.pos, x.sentinel = tw.sentinel,
         s = AT_ONCE => tw.timeout_pos[p] <= tw.pos
  PROVE  Good(x, cur, extra + d - 1, {})
<1>1. Typed(tw) /\ Linked(tw, cur, {p}) /\ Counted(tw, extra, {p}) /\ Due(tw, {p})
  BY DEF Good
<1>2. /\ tw.w \in [Slots -> Seq(Timers)] /\ tw.slot \in [Timers -> Slots \cup {INACTIVE}]
      /\ tw.sentinel \in Seq(Timers)
  BY <1>1 DEF Typed
<1>3. /\ x.slot[p] = s
      /\ \A q \in Timers \ {p} : x.slot[q] = tw.slot[q]
      /\ x.w[s] = Append(tw.w[s], p)
      /\ \A r \in Slots \ {s} : x.w[r] = tw.w[r]
  BY Zenon DEF Listed
<1>4. /\ p \notin Range(tw.sentinel)
      /\ \A r \in Slots : p \notin Range(tw.w[r])
      /\ Range(tw.sentinel) \subseteq Timers
      /\ \A r \in Slots : Range(tw.w[r]) \subseteq Timers
      /\ \A r \in Slots : IsInjective(tw.w[r])
  <2>1. p \notin Range(tw.sentinel) /\ \A r \in Slots : p \notin Range(tw.w[r])
    BY <1>1, Zenon DEF Linked
  <2>2. Range(tw.sentinel) \subseteq Timers  BY <1>2, RangeSeq
  <2>3. ASSUME NEW r \in Slots  PROVE Range(tw.w[r]) \subseteq Timers
    <3>1. tw.w[r] \in Seq(Timers)  BY <1>2
    <3> QED BY <3>1, RangeSeq
  <2> QED BY <1>1, <2>1, <2>2, <2>3, Zenon DEF Linked
<1>5. Range(x.w[s]) = Range(tw.w[s]) \cup {p} /\ IsInjective(x.w[s])
  <2>1. tw.w[s] \in Seq(Timers)  BY <1>2
  <2> QED BY <1>3, <1>4, <2>1, AppendSeq
<1>6. Linked(x, cur, {})
  <2>1. ASSUME NEW r \in Slots
        PROVE  /\ IsInjective(x.w[r])
               /\ \A q \in Range(x.w[r]) :
                    x.slot[q] = r /\ q \notin Range(x.sentinel) /\ q \notin {}
    <3>1. \A q \in Range(tw.w[r]) :
            tw.slot[q] = r /\ q \notin Range(tw.sentinel) /\ q \in Timers \ {p}
      BY <1>1, <1>4, Zenon DEF Linked
    <3>2. CASE r = s  BY <1>3, <1>4, <1>5, <3>1, <3>2
    <3>3. CASE r # s  BY <1>3, <1>4, <3>1, <3>3
    <3> QED BY <3>2, <3>3
  <2>2. IsInjective(x.sentinel)  BY <1>1, Zenon DEF Linked
  <2>3. ASSUME NEW q \in Range(x.sentinel)
        PROVE  x.slot[q] = cur /\ cur \in Slots /\ q \notin {}
    <3>1. tw.slot[q] = cur /\ cur \in Slots  BY <1>1, Zenon DEF Linked
    <3>2. q \in Timers \ {p}  BY <1>4
    <3> QED BY <1>3, <3>1, <3>2
  <2>4. ASSUME NEW q \in Timers \ {}, x.slot[q] # INACTIVE
        PROVE  q \in Range(x.sentinel) \/ q \in Range(x.w[x.slot[q]])
    <3>1. CASE q = p  BY <1>3, <1>5, <3>1
    <3>2. CASE q # p
      <4>1. q \in Timers \ {p} /\ x.slot[q] = tw.slot[q]  BY <1>3, <3>2
      <4>2. q \in Range(tw.sentinel) \/ q \in Range(tw.w[tw.slot[q]])
        BY <1>1, <2>4, <4>1, Zenon DEF Linked
      <4>3. tw.slot[q] \in Slots  BY <1>2, <2>4, <4>1
      <4>4. CASE tw.slot[q] = s  BY <1>5, <4>1, <4>2, <4>4
      <4>5. CASE tw.slot[q] # s  BY <1>3, <4>1, <4>2, <4>3, <4>5
      <4> QED BY <4>4, <4>5
    <3> QED BY <3>1, <3>2
  <2> QED BY <2>1, <2>2, <2>3, <2>4, Zenon DEF Linked
<1>7. ASSUME NEW S  PROVE Grows(tw, x, s, p, S)  BY ListedSize, Zenon
<1>8. Counted(x, extra + d - 1, {})
  <2>1. x.at_once_nto = Size(x, {AT_ONCE}, {})
    <3>1. tw.at_once_nto = Size(tw, {AT_ONCE}, {p})  BY <1>1 DEF Counted
    <3>2. /\ Size(tw, {AT_ONCE}, {p}) \in Nat
          /\ s \in {AT_ONCE} => Size(x, {AT_ONCE}, {}) = Size(tw, {AT_ONCE}, {p}) + 1
          /\ s \notin {AT_ONCE} => Size(x, {AT_ONCE}, {}) = Size(tw, {AT_ONCE}, {p})
      BY <1>7, Zenon DEF Grows
    <3> QED BY <3>1, <3>2 DEF CountedBy
  <2>2. x.soon_nto = Size(x, SoonSlots, {})
    <3>1. tw.soon_nto = Size(tw, SoonSlots, {p})  BY <1>1 DEF Counted
    <3>2. /\ Size(tw, SoonSlots, {p}) \in Nat
          /\ s \in SoonSlots => Size(x, SoonSlots, {}) = Size(tw, SoonSlots, {p}) + 1
          /\ s \notin SoonSlots => Size(x, SoonSlots, {}) = Size(tw, SoonSlots, {p})
      BY <1>7, Zenon DEF Grows
    <3>3. IsSoon(s) <=> s \in SoonSlots  BY SlotKinds DEF SoonSlots
    <3> QED BY <3>1, <3>2, <3>3 DEF CountedBy
  <2>3. x.later_nto = Size(x, LaterSlots, {})
    <3>1. tw.later_nto = Size(tw, LaterSlots, {p})  BY <1>1 DEF Counted
    <3>2. /\ Size(tw, LaterSlots, {p}) \in Nat
          /\ s \in LaterSlots => Size(x, LaterSlots, {}) = Size(tw, LaterSlots, {p}) + 1
          /\ s \notin LaterSlots => Size(x, LaterSlots, {}) = Size(tw, LaterSlots, {p})
      BY <1>7, Zenon DEF Grows
    <3>3. IsLater(s) <=> s \in LaterSlots  BY SlotKinds DEF LaterSlots
    <3> QED BY <3>1, <3>2, <3>3 DEF CountedBy
  <2>4. x.nto = Size(x, Slots, {}) + (extra + d - 1)
    <3>1. tw.nto = Size(tw, Slots, {p}) + extra  BY <1>1 DEF Counted
    <3>2. /\ Size(tw, Slots, {p}) \in Nat
          /\ s \in Slots => Size(x, Slots, {}) = Size(tw, Slots, {p}) + 1
      BY <1>7, Zenon DEF Grows
    <3> QED BY <3>1, <3>2
  <2>5. ASSUME NEW ix \in ScntIxs  PROVE x.scnt[ix] = Size(x, RangeSlots(ix), {})
    <3> DEFINE R == RangeSlots(ix)
    <3>1. s \in R <=> s # AT_ONCE /\ scnt_get_ix(s) = ix
      BY SlotKinds DEF RangeSlots, AT_ONCE
    <3>2. tw.scnt[ix] = Size(tw, R, {p})  BY <1>1 DEF Counted
    <3>3. /\ Size(tw, R, {p}) \in Nat
          /\ s \in R => Size(x, R, {}) = Size(tw, R, {p}) + 1
          /\ s \notin R => Size(x, R, {}) = Size(tw, R, {p})
      BY <1>7, Zenon DEF Grows
    <3> HIDE DEF R
    <3>4. x.scnt[ix] = Size(x, R, {})  BY <3>1, <3>2, <3>3 DEF CountedBy
    <3> QED BY <3>4 DEF R
  <2> QED BY <2>1, <2>2, <2>3, <2>4, <2>5, Zenon DEF Counted
<1>9. Due(x, {})
  <2> SUFFICES ASSUME NEW q \in Timers, x.slot[q] = AT_ONCE
               PROVE  x.timeout_pos[q] <= x.pos
    BY DEF Due
  <2>1. CASE q = p  BY <1>3, <2>1
  <2>2. CASE q # p  BY <1>1, <1>3, <2>2 DEF Due
  <2> QED BY <2>1, <2>2
<1> QED BY <1>6, <1>8, <1>9, Zenon DEF Good

(* An inactive timer is in no list and in no count. *)
LEMMA Forget ==
  ASSUME NEW tw, NEW cur, NEW extra \in Int, NEW p \in Timers, tw.slot[p] = INACTIVE
  PROVE  Good(tw, cur, extra, {}) <=> Good(tw, cur, extra, {p})
<1>1. ASSUME NEW S, S \subseteq Slots  PROVE Size(tw, S, {}) = Size(tw, S, {p})
  <2>1. INACTIVE \notin S  BY <1>1 DEF INACTIVE, Slots, AT_ONCE
  <2> QED BY <2>1, Recount, Zenon
<1>2. /\ {AT_ONCE} \subseteq Slots /\ SoonSlots \subseteq Slots
      /\ LaterSlots \subseteq Slots /\ \A ix \in ScntIxs : RangeSlots(ix) \subseteq Slots
  BY Sizes DEF Slots, AT_ONCE, SoonSlots, LaterSlots, RangeSlots
<1>3. /\ Size(tw, {AT_ONCE}, {}) = Size(tw, {AT_ONCE}, {p})
      /\ Size(tw, SoonSlots, {}) = Size(tw, SoonSlots, {p})
      /\ Size(tw, LaterSlots, {}) = Size(tw, LaterSlots, {p})
      /\ Size(tw, Slots, {}) = Size(tw, Slots, {p})
      /\ \A ix \in ScntIxs : Size(tw, RangeSlots(ix), {}) = Size(tw, RangeSlots(ix), {p})
  BY <1>1, <1>2, Zenon
<1>4. Counted(tw, extra, {}) <=> Counted(tw, extra, {p})  BY <1>3 DEF Counted
<1>5. INACTIVE \notin Slots /\ INACTIVE # AT_ONCE  BY DEF INACTIVE, Slots, AT_ONCE
<1>6. Linked(tw, cur, {}) <=> Linked(tw, cur, {p})
  <2>1. ASSUME Linked(tw, cur, {})  PROVE Linked(tw, cur, {p})
    <3>1. \A s \in Slots : \A q \in Range(tw.w[s]) : q \notin {p}  BY <1>5, <2>1 DEF Linked
    <3>2. \A q \in Range(tw.sentinel) : q \notin {p}  BY <1>5, <2>1 DEF Linked
    <3> QED BY <2>1, <3>1, <3>2 DEF Linked
  <2>2. ASSUME Linked(tw, cur, {p})  PROVE Linked(tw, cur, {})
    BY <2>2 DEF Linked
  <2> QED BY <2>1, <2>2
<1>7. Due(tw, {}) <=> Due(tw, {p})  BY <1>5 DEF Due
<1> QED BY <1>4, <1>6, <1>7, Zenon DEF Good

\* x has the lists and the counts of tw; what timers are due still are.
Alike(tw, x, L) ==
  /\ x.w = tw.w /\ x.sentinel = tw.sentinel /\ x.scnt = tw.scnt
  /\ x.at_once_nto = tw.at_once_nto /\ x.soon_nto = tw.soon_nto
  /\ x.later_nto = tw.later_nto
  /\ \A q \in Timers \ L : x.slot[q] = tw.slot[q] /\ x.timeout_pos[q] = tw.timeout_pos[q]
  /\ \/ x.pos = tw.pos
     \/ x.pos >= tw.pos
     \/ \A q \in Timers \ L : tw.slot[q] = INACTIVE

(* What the lists and the counts say does not depend on the other fields. *)
LEMMA Frame ==
  ASSUME NEW tw, NEW cur, NEW extra \in Int, NEW L, Good(tw, cur, extra, L),
         NEW x, NEW d \in Int, Typed(x), x.nto = tw.nto + d, Alike(tw, x, L)
  PROVE  Good(x, cur, extra + d, L)
<1>0. /\ x.w = tw.w /\ x.sentinel = tw.sentinel /\ x.scnt = tw.scnt
      /\ x.at_once_nto = tw.at_once_nto /\ x.soon_nto = tw.soon_nto
      /\ x.later_nto = tw.later_nto
      /\ \A q \in Timers \ L : x.slot[q] = tw.slot[q] /\ x.timeout_pos[q] = tw.timeout_pos[q]
      /\ \/ x.pos = tw.pos
         \/ x.pos >= tw.pos
         \/ \A q \in Timers \ L : tw.slot[q] = INACTIVE
  BY DEF Alike
<1>1. Typed(tw) /\ Linked(tw, cur, L) /\ Counted(tw, extra, L) /\ Due(tw, L)
  BY DEF Good
<1>2. \A S : Size(x, S, L) = Size(tw, S, L)
  <2> TAKE S
  <2>1. {q \in Timers \ L : x.slot[q] \in S} = {q \in Timers \ L : tw.slot[q] \in S}
    BY <1>0
  <2> QED BY <2>1 DEF Size
<1>3. Counted(x, extra + d, L)
  <2>1. x.nto = Size(x, Slots, L) + (extra + d)
    <3>1. tw.nto = Size(tw, Slots, L) + extra  BY <1>1 DEF Counted
    <3>2. Size(x, Slots, L) = Size(tw, Slots, L)  BY <1>2, Zenon
    <3>3. {q \in Timers \ L : tw.slot[q] \in Slots} \subseteq Timers  OBVIOUS
    <3>4. Size(tw, Slots, L) \in Nat
      BY <3>3, TimersFinite, FS_Subset, FS_CardinalityType DEF Size
    <3> QED BY <3>1, <3>2, <3>4
  <2>2. /\ x.at_once_nto = Size(x, {AT_ONCE}, L) /\ x.soon_nto = Size(x, SoonSlots, L)
        /\ x.later_nto = Size(x, LaterSlots, L)
        /\ \A ix \in ScntIxs : x.scnt[ix] = Size(x, RangeSlots(ix), L)
    BY <1>0, <1>1, <1>2, Zenon DEF Counted
  <2> QED BY <2>1, <2>2, Zenon DEF Counted
<1>4. Linked(x, cur, L)
  <2>1. \A r \in Slots : \A q \in Range(tw.w[r]) : q \in Timers
    <3> SUFFICES ASSUME NEW r \in Slots, NEW q \in Range(tw.w[r])  PROVE q \in Timers
      OBVIOUS
    <3>1. tw.w[r] \in Seq(Timers)  BY <1>1 DEF Typed
    <3> QED BY <3>1, RangeSeq
  <2>2. \A q \in Range(tw.sentinel) : q \in Timers
    <3>1. tw.sentinel \in Seq(Timers)  BY <1>1 DEF Typed
    <3> QED BY <3>1, RangeSeq
  <2>3. ASSUME NEW r \in Slots
        PROVE  /\ IsInjective(x.w[r])
               /\ \A q \in Range(x.w[r]) :
                    x.slot[q] = r /\ q \notin Range(x.sentinel) /\ q \notin L
    BY <1>0, <1>1, <2>1, Zenon DEF Linked
  <2>4. ASSUME NEW q \in Range(x.sentinel)
        PROVE  x.slot[q] = cur /\ cur \in Slots /\ q \notin L
    BY <1>0, <1>1, <2>2, Zenon DEF Linked
  <2>5. IsInjective(x.sentinel)  BY <1>0, <1>1, Zenon DEF Linked
  <2>6. ASSUME NEW q \in Timers \ L, x.slot[q] # INACTIVE
        PROVE  q \in Range(x.sentinel) \/ q \in Range(x.w[x.slot[q]])
    BY <1>0, <1>1, <2>6, Zenon DEF Linked
  <2> QED BY <2>3, <2>4, <2>5, <2>6, Zenon DEF Linked
<1>5. Due(x, L)
  <2> SUFFICES ASSUME NEW q \in Timers \ L, x.slot[q] = AT_ONCE
               PROVE  x.timeout_pos[q] <= x.pos
    BY DEF Due
  <2>1. tw.slot[q] = AT_ONCE /\ x.timeout_pos[q] = tw.timeout_pos[q]  BY <1>0
  <2>2. tw.timeout_pos[q] <= tw.pos /\ tw.timeout_pos[q] \in Int
    BY <1>1, <2>1 DEF Due, Typed
  <2>3. tw.pos \in Int /\ x.pos \in Int  BY <1>1, Zenon DEF Typed
  <2>4. AT_ONCE # INACTIVE  BY DEF AT_ONCE, INACTIVE
  <2> QED BY <1>0, <2>1, <2>2, <2>3, <2>4
<1> QED BY <1>3, <1>4, <1>5, Zenon DEF Good

(* With nothing counted no timer is active. *)
LEMMA NoneActive ==
  ASSUME NEW tw, NEW cur, Good(tw, cur, 0, {}), tw.nto = 0
  PROVE  \A q \in Timers : tw.slot[q] = INACTIVE
<1> DEFINE A == {q \in Timers \ {} : tw.slot[q] \in Slots}
<1>1. Typed(tw) /\ Counted(tw, 0, {})  BY DEF Good
<1>2. IsFiniteSet(A)
  <2>1. A \subseteq Timers  OBVIOUS
  <2> QED BY <2>1, TimersFinite, FS_Subset
<1>3. Cardinality(A) \in Nat  BY <1>2, FS_CardinalityType
<1>4. Cardinality(A) = 0  BY <1>1, <1>3 DEF Counted, Size
<1>5. A = {}  BY <1>2, <1>4, FS_EmptySet
<1>6. tw.slot \in [Timers -> Slots \cup {INACTIVE}]  BY <1>1 DEF Typed
<1> QED BY <1>5, <1>6

(* The list of a slot becomes the one being bumped. *)
LEMMA DetachGood ==
  ASSUME NEW tw, NEW cur, NEW extra \in Int, Good(tw, cur, extra, {}),
         tw.sentinel = <<>>, NEW s \in Slots,
         NEW x, Keeps(tw, x, {"w", "sentinel"}),
         x.sentinel = tw.w[s], x.w = [tw.w EXCEPT ![s] = <<>>]
  PROVE  Good(x, s, extra, {})
<1>1. Typed(tw) /\ Linked(tw, cur, {}) /\ Counted(tw, extra, {}) /\ Due(tw, {})
  BY DEF Good
<1>2. /\ tw.w \in [Slots -> Seq(Timers)] /\ tw.w[s] \in Seq(Timers)
      /\ tw.slot \in [Timers -> Slots \cup {INACTIVE}]
  BY <1>1 DEF Typed
<1>3. x.w \in [Slots -> Seq(Timers)] /\ x.sentinel \in Seq(Timers)
  <2>1. <<>> \in Seq(Timers)  OBVIOUS
  <2> QED BY <1>2, <2>1
<1>4. x.slot = tw.slot  BY Zenon DEF Keeps, Fields
<1>5. Typed(x)  BY <1>1, <1>3, Zenon DEF Typed, Keeps, Fields
<1>6. Counted(x, extra, {})
  BY <1>1, <1>4, Zenon DEF Counted, Size, Keeps, Fields
<1>7. Due(x, {})  BY <1>1, Zenon DEF Due, Keeps, Fields
<1>8. /\ x.w[s] = <<>> /\ \A r \in Slots \ {s} : x.w[r] = tw.w[r]  BY <1>2
<1>9. Linked(x, s, {})
  <2>1. ASSUME NEW r \in Slots
        PROVE  /\ IsInjective(x.w[r])
               /\ \A q \in Range(x.w[r]) :
                    x.slot[q] = r /\ q \notin Range(x.sentinel) /\ q \notin {}
    <3>1. CASE r = s  BY <1>8, <3>1, EmptyHasNone
    <3>2. CASE r # s
      <4>1. x.w[r] = tw.w[r]  BY <1>8, <3>2
      <4>2. \A q \in Range(tw.w[r]) : tw.slot[q] = r  BY <1>1, Zenon DEF Linked
      <4>3. \A q \in Range(tw.w[s]) : tw.slot[q] = s  BY <1>1, Zenon DEF Linked
      <4>4. IsInjective(tw.w[r])  BY <1>1, Zenon DEF Linked
      <4> QED BY <1>4, <3>2, <4>1, <4>2, <4>3, <4>4
    <3> QED BY <3>1, <3>2
  <2>2. IsInjective(x.sentinel)  BY <1>1, Zenon DEF Linked
  <2>3. ASSUME NEW q \in Range(x.sentinel)
        PROVE  x.slot[q] = s /\ s \in Slots /\ q \notin {}
    BY <1>1, <1>4, Zenon DEF Linked
  <2>4. ASSUME NEW q \in Timers \ {}, x.slot[q] # INACTIVE
        PROVE  q \in Range(x.sentinel) \/ q \in Range(x.w[x.slot[q]])
    <3>1. q \in Range(tw.w[tw.slot[q]])
      BY <1>1, <1>4, <2>4, EmptyHasNone, Zenon DEF Linked
    <3>2. tw.slot[q] \in Slots  BY <1>2, <1>4, <2>4
    <3>3. CASE tw.slot[q] = s  BY <3>1, <3>3
    <3>4. CASE tw.slot[q] # s  BY <1>4, <1>8, <3>1, <3>2, <3>4
    <3> QED BY <3>3, <3>4
  <2> QED BY <2>1, <2>2, <2>3, <2>4, Zenon DEF Linked
<1> QED BY <1>5, <1>6, <1>7, <1>9, Zenon DEF Good

(* While no list is being bumped it does not matter whose it was. *)
LEMMA AnyCur ==
  ASSUME NEW tw, NEW cur, NEW extra, NEW L, Good(tw, cur, extra, L), tw.sentinel = <<>>,
         NEW c
  PROVE  Good(tw, c, extra, L)
<1>1. Linked(tw, cur, L)  BY DEF Good
<1>2. Linked(tw, c, L)  BY <1>1, EmptyHasNone, Zenon DEF Linked
<1> QED BY <1>2, Zenon DEF Good

(***************************************************************************)
(* Leaving a slot.                                                         *)
(***************************************************************************)
(* A list without one of its timers. *)
LEMMA WithoutSeq ==
  ASSUME NEW s \in Seq(Timers), IsInjective(s), NEW p
  PROVE  /\ Without(s, p) \in Seq(Timers) /\ IsInjective(Without(s, p))
         /\ Range(Without(s, p)) = Range(s) \ {p}
<1>1. CASE p \notin Range(s)
  <2>1. Without(s, p) = s  BY <1>1 DEF Without
  <2> QED BY <1>1, <2>1
<1>2. CASE p \in Range(s)
  <2> DEFINE k == CHOOSE j \in DOMAIN s : s[j] = p
  <2>1. \E j \in DOMAIN s : s[j] = p  BY <1>2 DEF Range
  <2>2. k \in DOMAIN s /\ s[k] = p  BY <2>1
  <2>3. Without(s, p) = Unlink(s, k)  BY <1>2 DEF Without
  <2> HIDE DEF k
  <2>4. k \in 1 .. Len(s)  BY <2>2
  <2> QED BY <2>2, <2>3, <2>4, UnlinkSeq
<1> QED BY <1>1, <1>2

(* The helpers that forget a timer. *)
LEMMA SmallEffects ==
  ASSUME NEW tw, DOMAIN tw = Fields, NEW s, NEW p
  PROVE  /\ Keeps(tw, DropSoon(tw), {"soon_nto", "soon_min_tpos"})
         /\ DropSoon(tw).soon_nto = tw.soon_nto - 1
         /\ DropSoon(tw).soon_min_tpos \in {MAX_CLKTCKS, tw.soon_min_tpos}
         /\ Keeps(tw, DropLater(tw), {"later_nto", "later_min_tpos", "later_min_tpos_slot"})
         /\ DropLater(tw).later_nto = tw.later_nto - 1
         /\ DropLater(tw).later_min_tpos \in {MAX_CLKTCKS, tw.later_min_tpos}
         /\ Keeps(tw, scnt_dec(tw, s), {"scnt"})
         /\ scnt_dec(tw, s).scnt = [tw.scnt EXCEPT ![scnt_get_ix(s)] = @ - 1]
         /\ Keeps(tw, Deactivate(tw, p), {"slot", "timeout_pos"})
         /\ Deactivate(tw, p).slot = [tw.slot EXCEPT ![p] = INACTIVE]
         /\ Deactivate(tw, p).timeout_pos = [tw.timeout_pos EXCEPT ![p] = 0]
<1>1. /\ Keeps(tw, DropSoon(tw), {"soon_nto", "soon_min_tpos"})
      /\ DropSoon(tw).soon_nto = tw.soon_nto - 1
      /\ DropSoon(tw).soon_min_tpos \in {MAX_CLKTCKS, tw.soon_min_tpos}
  BY Zenon DEF DropSoon, Keeps, Fields
<1>2. /\ Keeps(tw, DropLater(tw), {"later_nto", "later_min_tpos", "later_min_tpos_slot"})
      /\ DropLater(tw).later_nto = tw.later_nto - 1
      /\ DropLater(tw).later_min_tpos \in {MAX_CLKTCKS, tw.later_min_tpos}
  BY Zenon DEF DropLater, Keeps, Fields
<1>3. /\ Keeps(tw, scnt_dec(tw, s), {"scnt"})
      /\ scnt_dec(tw, s).scnt = [tw.scnt EXCEPT ![scnt_get_ix(s)] = @ - 1]
  BY Zenon DEF scnt_dec, Keeps, Fields
<1>4. /\ Keeps(tw, Deactivate(tw, p), {"slot", "timeout_pos"})
      /\ Deactivate(tw, p).slot = [tw.slot EXCEPT ![p] = INACTIVE]
      /\ Deactivate(tw, p).timeout_pos = [tw.timeout_pos EXCEPT ![p] = 0]
  BY Zenon DEF Deactivate, Keeps, Fields
<1> QED BY <1>1, <1>2, <1>3, <1>4

(* A timer leaves the counts of slot s. *)
LEMMA Uncount ==
  ASSUME NEW tw, Typed(tw), NEW s \in Slots, NEW x,
         \/ s = AT_ONCE /\ x = [tw EXCEPT !.at_once_nto = @ - 1]
         \/ IsSoon(s) /\ (x = DropSoon(scnt_dec(tw, s)) \/ x = scnt_dec(DropSoon(tw), s))
         \/ IsLater(s) /\ (x = DropLater(scnt_dec(tw, s)) \/ x = scnt_dec(DropLater(tw), s))
  PROVE  /\ Keeps(tw, x, {"scnt", "at_once_nto", "soon_nto", "soon_min_tpos", "later_nto",
                          "later_min_tpos", "later_min_tpos_slot"})
         /\ CountedBy(tw, x, s, -1)
         /\ x.soon_min_tpos \in Int /\ x.later_min_tpos \in Int
<1> DEFINE F == {"scnt", "at_once_nto", "soon_nto", "soon_min_tpos", "later_nto",
                 "later_min_tpos", "later_min_tpos_slot"}
<1>1. /\ DOMAIN tw = Fields /\ tw.scnt \in [ScntIxs -> Int] /\ tw.at_once_nto \in Int
      /\ tw.soon_nto \in Int /\ tw.later_nto \in Int
      /\ tw.soon_min_tpos \in Int /\ tw.later_min_tpos \in Int /\ MAX_CLKTCKS \in Int
  <2>1. MAX_CLKTCKS \in Int  BY Horizons
  <2> QED BY <2>1, Zenon DEF Typed
<1>2. CASE s = AT_ONCE
  <2>1. x = [tw EXCEPT !.at_once_nto = @ - 1]  BY <1>2, SlotKinds
  <2>2. Keeps(tw, x, {"at_once_nto"}) /\ x.at_once_nto = tw.at_once_nto - 1
    BY <1>1, <2>1, Zenon DEF Keeps, Fields
  <2>3. /\ x.soon_nto = tw.soon_nto /\ x.later_nto = tw.later_nto /\ x.scnt = tw.scnt
        /\ x.soon_min_tpos = tw.soon_min_tpos /\ x.later_min_tpos = tw.later_min_tpos
    BY <2>2, Zenon DEF Keeps, Fields
  <2>4. Keeps(tw, x, F)  BY <2>2, Zenon DEF Keeps
  <2>5. CountedBy(tw, x, s, -1)  BY <1>1, <1>2, <2>2, <2>3, SlotKinds DEF CountedBy
  <2> QED BY <1>1, <2>3, <2>4, <2>5
<1>3. ASSUME s # AT_ONCE, NEW c, c = [tw.scnt EXCEPT ![scnt_get_ix(s)] = @ - 1]
      PROVE  /\ c \in [ScntIxs -> Int]
             /\ \A ix \in ScntIxs :
                  c[ix] = tw.scnt[ix] + IF scnt_get_ix(s) = ix THEN -1 ELSE 0
  <2>1. scnt_get_ix(s) \in ScntIxs  BY <1>3, SlotKinds, RangeOf
  <2> QED BY <1>1, <1>3, <2>1
<1>4. CASE s # AT_ONCE /\ IsSoon(s)
  <2>0. x = DropSoon(scnt_dec(tw, s)) \/ x = scnt_dec(DropSoon(tw), s)  BY <1>4, SlotKinds
  <2>1. /\ Keeps(tw, x, {"scnt", "soon_nto", "soon_min_tpos"})
        /\ x.scnt = [tw.scnt EXCEPT ![scnt_get_ix(s)] = @ - 1]
        /\ x.soon_nto = tw.soon_nto - 1
        /\ x.soon_min_tpos \in {MAX_CLKTCKS, tw.soon_min_tpos}
    <3>1. CASE x = DropSoon(scnt_dec(tw, s))
      <4> DEFINE y == scnt_dec(tw, s)
      <4>1. /\ Keeps(tw, y, {"scnt"})
            /\ y.scnt = [tw.scnt EXCEPT ![scnt_get_ix(s)] = @ - 1]
        BY <1>1, SmallEffects
      <4>2. DOMAIN y = Fields  BY <4>1 DEF Keeps
      <4> HIDE DEF y
      <4>3. /\ Keeps(y, x, {"soon_nto", "soon_min_tpos"})
            /\ x.soon_nto = y.soon_nto - 1
            /\ x.soon_min_tpos \in {MAX_CLKTCKS, y.soon_min_tpos}
        BY <3>1, <4>2, SmallEffects DEF y
      <4> QED BY <4>1, <4>3, Zenon DEF Keeps, Fields
    <3>2. CASE x = scnt_dec(DropSoon(tw), s)
      <4> DEFINE y == DropSoon(tw)
      <4>1. /\ Keeps(tw, y, {"soon_nto", "soon_min_tpos"})
            /\ y.soon_nto = tw.soon_nto - 1
            /\ y.soon_min_tpos \in {MAX_CLKTCKS, tw.soon_min_tpos}
        BY <1>1, SmallEffects
      <4>2. DOMAIN y = Fields  BY <4>1 DEF Keeps
      <4> HIDE DEF y
      <4>3. /\ Keeps(y, x, {"scnt"})
            /\ x.scnt = [y.scnt EXCEPT ![scnt_get_ix(s)] = @ - 1]
        BY <3>2, <4>2, SmallEffects DEF y
      <4> QED BY <4>1, <4>3, Zenon DEF Keeps, Fields
    <3> QED BY <2>0, <3>1, <3>2
  <2>2. /\ x.later_nto = tw.later_nto /\ x.at_once_nto = tw.at_once_nto
        /\ x.later_min_tpos = tw.later_min_tpos
    BY <2>1, Zenon DEF Keeps, Fields
  <2>3. Keeps(tw, x, F)  BY <2>1, Zenon DEF Keeps
  <2>4. /\ x.scnt \in [ScntIxs -> Int]
        /\ \A ix \in ScntIxs :
             x.scnt[ix] = tw.scnt[ix] + IF scnt_get_ix(s) = ix THEN -1 ELSE 0
    BY <1>3, <1>4, <2>1, Zenon
  <2>5. CountedBy(tw, x, s, -1)  BY <1>1, <1>4, <2>1, <2>2, <2>4, SlotKinds DEF CountedBy
  <2> QED BY <1>1, <2>1, <2>2, <2>3, <2>5
<1>5. CASE s # AT_ONCE /\ IsLater(s)
  <2>0. x = DropLater(scnt_dec(tw, s)) \/ x = scnt_dec(DropLater(tw), s)
    BY <1>5, SlotKinds
  <2>1. /\ Keeps(tw, x, {"scnt", "later_nto", "later_min_tpos", "later_min_tpos_slot"})
        /\ x.scnt = [tw.scnt EXCEPT ![scnt_get_ix(s)] = @ - 1]
        /\ x.later_nto = tw.later_nto - 1
        /\ x.later_min_tpos \in {MAX_CLKTCKS, tw.later_min_tpos}
    <3>1. CASE x = DropLater(scnt_dec(tw, s))
      <4> DEFINE y == scnt_dec(tw, s)
      <4>1. /\ Keeps(tw, y, {"scnt"})
            /\ y.scnt = [tw.scnt EXCEPT ![scnt_get_ix(s)] = @ - 1]
        BY <1>1, SmallEffects
      <4>2. DOMAIN y = Fields  BY <4>1 DEF Keeps
      <4> HIDE DEF y
      <4>3. /\ Keeps(y, x, {"later_nto", "later_min_tpos", "later_min_tpos_slot"})
            /\ x.later_nto = y.later_nto - 1
            /\ x.later_min_tpos \in {MAX_CLKTCKS, y.later_min_tpos}
        BY <3>1, <4>2, SmallEffects DEF y
      <4> QED BY <4>1, <4>3, Zenon DEF Keeps, Fields
    <3>2. CASE x = scnt_dec(DropLater(tw), s)
      <4> DEFINE y == DropLater(tw)
      <4>1. /\ Keeps(tw, y, {"later_nto", "later_min_tpos", "later_min_tpos_slot"})
            /\ y.later_nto = tw.later_nto - 1
            /\ y.later_min_tpos \in {MAX_CLKTCKS, tw.later_min_tpos}
        BY <1>1, SmallEffects
      <4>2. DOMAIN y = Fields  BY <4>1 DEF Keeps
      <4> HIDE DEF y
      <4>3. /\ Keeps(y, x, {"scnt"})
            /\ x.scnt = [y.scnt EXCEPT ![scnt_get_ix(s)] = @ - 1]
        BY <3>2, <4>2, SmallEffects DEF y
      <4> QED BY <4>1, <4>3, Zenon DEF Keeps, Fields
    <3> QED BY <2>0, <3>1, <3>2
  <2>2. /\ x.soon_nto = tw.soon_nto /\ x.at_once_nto = tw.at_once_nto
        /\ x.soon_min_tpos = tw.soon_min_tpos
    BY <2>1, Zenon DEF Keeps, Fields
  <2>3. Keeps(tw, x, F)  BY <2>1, Zenon DEF Keeps
  <2>4. /\ x.scnt \in [ScntIxs -> Int]
        /\ \A ix \in ScntIxs :
             x.scnt[ix] = tw.scnt[ix] + IF scnt_get_ix(s) = ix THEN -1 ELSE 0
    BY <1>3, <1>5, <2>1, Zenon
  <2>5. CountedBy(tw, x, s, -1)  BY <1>1, <1>5, <2>1, <2>2, <2>4, SlotKinds DEF CountedBy
  <2> QED BY <1>1, <2>1, <2>2, <2>3, <2>5
<1> QED BY <1>2, <1>4, <1>5, SlotKinds

(***************************************************************************)
(* Whole operations.                                                       *)
(***************************************************************************)
Cached == {"bump_scnt", "true_next_timeout_time", "next_timeout_pos", "pon_fd",
           "pon_armed_deadline", "later_min_tpos_slot"}

(* What is only cached, or belongs to the canary, may change at will. *)
LEMMA CachedGood ==
  ASSUME NEW tw, NEW cur, NEW extra \in Int, NEW L, Good(tw, cur, extra, L),
         NEW x, Keeps(tw, x, Cached)
  PROVE  Good(x, cur, extra, L)
<1>1. Typed(tw)  BY DEF Good
<1>2. Typed(x)  BY <1>1, Zenon DEF Typed, Keeps, Fields, Cached
<1>3. Alike(tw, x, L)  BY Zenon DEF Alike, Keeps, Fields, Cached
<1>4. x.nto = tw.nto  BY Zenon DEF Keeps, Fields, Cached
<1>5. x.nto = tw.nto + 0 /\ 0 \in Int  BY <1>1, <1>4 DEF Typed
<1>6. Good(x, cur, extra + 0, L)  BY <1>2, <1>3, <1>5, Frame, Zenon
<1> QED BY <1>6

(* pon_timer_wheel_arm changes the canary only. *)
LEMMA ArmEffect ==
  ASSUME NEW tw, DOMAIN tw = Fields, NEW x \in pon_timer_wheel_arm(tw)
  PROVE  Keeps(tw, x, {"pon_fd", "pon_armed_deadline"})
<1> DEFINE fd == [tw EXCEPT !.pon_fd = TRUE]
           F == {"pon_fd", "pon_armed_deadline"}
<1>1. Keeps(tw, fd, F) /\ Keeps(tw, tw, F)  BY Zenon DEF Keeps, Fields
<1>2. /\ Keeps(tw, [tw EXCEPT !.pon_armed_deadline = -1], F)
      /\ Keeps(tw, [fd EXCEPT !.pon_armed_deadline = -1], F)
      /\ Keeps(tw, [fd EXCEPT !.pon_armed_deadline = tw.next_timeout_pos], F)
  BY <1>1, Zenon DEF Keeps, Fields
<1>3. x \in {[tw EXCEPT !.pon_armed_deadline = -1], fd,
             [fd EXCEPT !.pon_armed_deadline = -1],
             [fd EXCEPT !.pon_armed_deadline = tw.next_timeout_pos]}
  BY DEF pon_timer_wheel_arm
<1> HIDE DEF fd
<1> QED BY <1>1, <1>2, <1>3, Zenon

(* LowerTimeout changes the cached timeout and the canary only. *)
LEMMA LowerEffect ==
  ASSUME NEW tw, DOMAIN tw = Fields, NEW due, NEW x \in LowerTimeout(tw, due)
  PROVE  Keeps(tw, x, Cached)
<1> DEFINE known == [tw EXCEPT !.true_next_timeout_time = TRUE]
           next == [known EXCEPT !.next_timeout_pos = due]
<1>1. Keeps(tw, tw, Cached) /\ Keeps(tw, known, Cached)
  BY Zenon DEF Keeps, Fields, Cached
<1>2. Keeps(tw, next, Cached)
  <2> HIDE DEF known
  <2> QED BY <1>1, Zenon DEF Keeps, Fields, Cached
<1>3. x = tw \/ x = known \/ x \in pon_timer_wheel_arm(next)
  BY DEF LowerTimeout
<1> HIDE DEF known, next
<1>4. CASE x \in pon_timer_wheel_arm(next)
  <2>1. DOMAIN next = Fields  BY <1>2 DEF Keeps
  <2>2. Keeps(next, x, {"pon_fd", "pon_armed_deadline"})  BY <1>4, <2>1, ArmEffect
  <2> QED BY <1>2, <2>2, Zenon DEF Keeps, Cached
<1> QED BY <1>1, <1>3, <1>4

(* The counts of the wheels stay integers. *)
LEMMA CountTypes ==
  ASSUME NEW tw, Typed(tw), NEW x, NEW s, NEW d \in Int, CountedBy(tw, x, s, d)
  PROVE  x.at_once_nto \in Int /\ x.soon_nto \in Int /\ x.later_nto \in Int
<1>1. tw.at_once_nto \in Int /\ tw.soon_nto \in Int /\ tw.later_nto \in Int
  BY DEF Typed
<1>2. /\ x.at_once_nto = tw.at_once_nto + IF s = AT_ONCE THEN d ELSE 0
      /\ x.soon_nto = tw.soon_nto + IF IsSoon(s) THEN d ELSE 0
      /\ x.later_nto = tw.later_nto + IF IsLater(s) THEN d ELSE 0
  BY DEF CountedBy
<1> QED BY <1>1, <1>2

\* From tw to x only the slot of p, and its links and counts, may have changed.
OnlyTimer(tw, x, p) ==
  /\ DOMAIN x = Fields /\ x.pos = tw.pos /\ x.yield_slot = tw.yield_slot
  /\ x.sentinel = tw.sentinel /\ x.slot[p] \in Slots
  /\ \A q \in Timers \ {p} : x.slot[q] = tw.slot[q]

\* Only a timer that is due goes to the at-once list.
DueIn(tw, s, p) == s = AT_ONCE => tw.timeout_pos[p] <= tw.pos

(* A timer that is in no list is put into one. *)
LEMMA InsertGood ==
  ASSUME NEW tw, NEW cur, NEW extra \in Int, NEW p \in Timers, NEW s \in Slots,
         Good(tw, cur, extra, {p}), DueIn(tw, s, p),
         NEW x, x = insert_timer_into_slot(tw, s, p)
  PROVE  Good(x, cur, extra - 1, {}) /\ OnlyTimer(tw, x, p)
<1>0. s = AT_ONCE => tw.timeout_pos[p] <= tw.pos  BY DEF DueIn
<1>1. Typed(tw)  BY DEF Good
<1> DEFINE F == {"w", "slot", "scnt", "at_once_nto", "soon_nto", "soon_min_tpos",
                 "later_nto", "later_min_tpos", "later_min_tpos_slot"}
<1>2. /\ Keeps(tw, x, F)
      /\ x.w = [tw.w EXCEPT ![s] = Append(@, p)]
      /\ x.slot = [tw.slot EXCEPT ![p] = s]
      /\ CountedBy(tw, x, s, 1)
      /\ x.soon_min_tpos \in Int /\ x.later_min_tpos \in Int
  BY <1>1, InsertEffect
<1>3. /\ x.nto = tw.nto /\ x.timeout_pos = tw.timeout_pos /\ x.pos = tw.pos
      /\ x.sentinel = tw.sentinel /\ x.yield_slot = tw.yield_slot /\ DOMAIN x = Fields
      /\ x.later_pos = tw.later_pos /\ x.yield_slots_left = tw.yield_slots_left
  BY <1>2, Zenon DEF Keeps, Fields
<1>4. x.w \in [Slots -> Seq(Timers)] /\ x.slot \in [Timers -> Slots \cup {INACTIVE}]
  <2>1. tw.w \in [Slots -> Seq(Timers)] /\ tw.slot \in [Timers -> Slots \cup {INACTIVE}]
    BY <1>1 DEF Typed
  <2>2. Append(tw.w[s], p) \in Seq(Timers)  BY <2>1
  <2> QED BY <1>2, <2>1, <2>2
<1>5. x.at_once_nto \in Int /\ x.soon_nto \in Int /\ x.later_nto \in Int
  BY <1>1, <1>2, CountTypes
<1>6. Typed(x)  BY <1>1, <1>2, <1>3, <1>4, <1>5, Zenon DEF Typed, CountedBy
<1>7. x.nto = tw.nto + 0  BY <1>1, <1>3 DEF Typed
<1>8. 0 \in Int  OBVIOUS
<1>9. Listed(tw, x, s, p)
  <2>1. tw.w \in [Slots -> Seq(Timers)] /\ tw.slot \in [Timers -> Slots \cup {INACTIVE}]
    BY <1>1 DEF Typed
  <2> QED BY <1>2, <2>1 DEF Listed
<1>10. CountedBy(tw, x, s, 1)  BY <1>2
<1>11. Good(x, cur, extra + 0 - 1, {})
  BY <1>0, <1>3, <1>6, <1>7, <1>8, <1>9, <1>10, PutIn, Zenon
<1>12. OnlyTimer(tw, x, p)  BY <1>3, <1>9, Zenon DEF OnlyTimer, Listed
<1> QED BY <1>11, <1>12

(* erts_twheel_set_timer starts an inactive timer. *)
LEMMA SetGood ==
  ASSUME NEW tw, NEW cur, NEW extra \in Int, NEW p \in Timers, NEW t \in Int,
         Good(tw, cur, extra, {}), tw.slot[p] = INACTIVE,
         NEW x \in erts_twheel_set_timer(tw, p, t)
  PROVE  /\ Good(x, cur, extra, {})
         /\ OnlyTimer(tw, x, p)
<1> DEFINE tpos == Max({t, tw.pos})
           slot == CASE tpos = tw.pos -> AT_ONCE
                     [] tpos > tw.pos /\ tpos < tw.pos + SOON_WHEEL_SIZE -> soon_slot(tpos)
                     [] tpos >= tw.pos + SOON_WHEEL_SIZE -> later_slot(tpos)
           z == [tw EXCEPT !.nto = @ + 1, !.timeout_pos[p] = tpos]
           in == insert_timer_into_slot(z, slot, p)
<1>1. Typed(tw) /\ tw.pos \in Int /\ tw.timeout_pos \in [Timers -> Int] /\ tw.nto \in Int
      /\ DOMAIN tw = Fields /\ tw.slot \in [Timers -> Slots \cup {INACTIVE}]
  BY DEF Good, Typed
<1>2. tpos = (IF t >= tw.pos THEN t ELSE tw.pos) /\ tpos \in Int  BY <1>1, MaxMin
<1>3. x \in LowerTimeout(in, BumpPos(slot, tpos))  BY Zenon DEF erts_twheel_set_timer
<1> HIDE DEF tpos
<1>4. slot \in Slots /\ (slot = AT_ONCE => tpos <= tw.pos)
  <2>1. CASE tpos = tw.pos
    <3>1. AT_ONCE \in Slots  BY Sizes DEF AT_ONCE, Slots
    <3>2. slot = AT_ONCE  BY <1>1, <1>2, <2>1, Sizes
    <3> QED BY <1>1, <1>2, <2>1, <3>1, <3>2
  <2>2. CASE tpos > tw.pos /\ tpos < tw.pos + SOON_WHEEL_SIZE
    <3>1. slot = soon_slot(tpos)  BY <1>1, <1>2, <2>2, Sizes
    <3>2. soon_slot(tpos) \in 0 .. (SOON_WHEEL_SIZE - 1)  BY <1>2, SlotOfPos
    <3> HIDE DEF slot
    <3> QED BY <3>1, <3>2, Sizes DEF Slots, AT_ONCE
  <2>3. CASE tpos >= tw.pos + SOON_WHEEL_SIZE
    <3>1. slot = later_slot(tpos)  BY <1>1, <1>2, <2>3, Sizes
    <3>2. later_slot(tpos) \in SOON_WHEEL_SIZE .. (END_SLOT - 1)  BY <1>2, SlotOfPos
    <3> HIDE DEF slot
    <3> QED BY <3>1, <3>2, Sizes DEF Slots, AT_ONCE
  <2>4. tpos >= tw.pos  BY <1>1, <1>2
  <2> QED BY <1>1, <1>2, <2>1, <2>2, <2>3, <2>4, Sizes
<1> HIDE DEF slot
<1>5. /\ Keeps(tw, z, {"nto", "timeout_pos"}) /\ z.nto = tw.nto + 1
      /\ z.timeout_pos = [tw.timeout_pos EXCEPT ![p] = tpos]
  BY <1>1, Zenon DEF Keeps, Fields
<1> HIDE DEF z
<1>6. z.timeout_pos \in [Timers -> Int] /\ z.nto \in Int /\ z.timeout_pos[p] = tpos
      /\ \A q \in Timers \ {p} : z.timeout_pos[q] = tw.timeout_pos[q]
  BY <1>1, <1>2, <1>5
<1>7. Typed(z)  BY <1>1, <1>5, <1>6, Zenon DEF Typed, Keeps, Fields
<1>8. /\ z.w = tw.w /\ z.sentinel = tw.sentinel /\ z.scnt = tw.scnt
      /\ z.at_once_nto = tw.at_once_nto /\ z.soon_nto = tw.soon_nto
      /\ z.later_nto = tw.later_nto /\ z.slot = tw.slot /\ z.pos = tw.pos
      /\ z.yield_slot = tw.yield_slot
  BY <1>5, Zenon DEF Keeps, Fields
<1>9. Good(z, cur, extra + 1, {p})
  <2>1. Good(tw, cur, extra, {p})  BY Forget
  <2>2. Alike(tw, z, {p})  BY <1>6, <1>8 DEF Alike
  <2>3. 1 \in Int /\ z.nto = tw.nto + 1  BY <1>5
  <2> QED BY <1>7, <2>1, <2>2, <2>3, Frame, Zenon
<1>10. extra + 1 \in Int /\ (slot = AT_ONCE => z.timeout_pos[p] <= z.pos)
  BY <1>4, <1>6, <1>8
<1>e. in = insert_timer_into_slot(z, slot, p)  OBVIOUS
<1> HIDE DEF in
<1>11. Good(in, cur, (extra + 1) - 1, {}) /\ OnlyTimer(z, in, p)
  <2>1. slot \in Slots  BY <1>4
  <2>2. DueIn(z, slot, p) /\ extra + 1 \in Int  BY <1>10 DEF DueIn
  <2> QED BY <2>1, <2>2, <1>9, <1>e, InsertGood, Zenon
<1>12. Good(in, cur, extra, {})
  <2>1. (extra + 1) - 1 = extra  OBVIOUS
  <2> QED BY <1>11, <2>1
<1>c. DOMAIN in = Fields  BY <1>11 DEF OnlyTimer
<1>13. Keeps(in, x, Cached)  BY <1>3, <1>c, LowerEffect
<1>14. Good(x, cur, extra, {})  BY <1>12, <1>13, CachedGood
<1>15. /\ x.pos = in.pos /\ x.yield_slot = in.yield_slot /\ x.sentinel = in.sentinel
       /\ x.slot = in.slot /\ DOMAIN x = Fields
  BY <1>13, Zenon DEF Keeps, Fields, Cached
<1>16. OnlyTimer(tw, x, p)  BY <1>8, <1>11, <1>15, Zenon DEF OnlyTimer
<1> QED BY <1>14, <1>16

\* From tw to x timer p has become inactive; time has not moved.
Gone(tw, x, p) ==
  /\ x.slot[p] = INACTIVE /\ DOMAIN x = Fields
  /\ x.pos = tw.pos /\ x.yield_slot = tw.yield_slot
  /\ \A q \in Timers \ {p} : x.slot[q] = tw.slot[q]

(* remove_timer takes an active timer out of its list and its counts. *)
LEMMA RemoveGood ==
  ASSUME NEW tw, NEW cur, NEW extra \in Int, NEW p \in Timers,
         Good(tw, cur, extra, {}), tw.slot[p] \in Slots,
         NEW x, x = remove_timer(tw, p)
  PROVE  Good(x, cur, extra + 1, {p}) /\ Gone(tw, x, p)
<1> DEFINE s == tw.slot[p]
           off == Deactivate(tw, p)
           out == [off EXCEPT
                     !.w[s] = Without(@, p),
                     !.sentinel = Without(@, p),
                     !.true_next_timeout_time = @ /\ ~LosesNextTimeout(tw, p)]
<1>0. s \in Slots  OBVIOUS
<1>1. Typed(tw) /\ Linked(tw, cur, {})  BY DEF Good
<1>2. /\ DOMAIN tw = Fields /\ tw.w \in [Slots -> Seq(Timers)]
      /\ tw.w[s] \in Seq(Timers) /\ tw.sentinel \in Seq(Timers)
      /\ tw.slot \in [Timers -> Slots \cup {INACTIVE}]
      /\ tw.timeout_pos \in [Timers -> Int] /\ tw.nto \in Int
  BY <1>1 DEF Typed
<1>3. /\ \A r \in Slots : IsInjective(tw.w[r])
      /\ \A r \in Slots : \A q \in Range(tw.w[r]) : tw.slot[q] = r
      /\ IsInjective(tw.sentinel)
  BY <1>1, Zenon DEF Linked
<1>4. /\ Keeps(tw, off, {"slot", "timeout_pos"})
      /\ off.slot = [tw.slot EXCEPT ![p] = INACTIVE]
      /\ off.timeout_pos = [tw.timeout_pos EXCEPT ![p] = 0]
  BY <1>2, SmallEffects, Zenon
<1> HIDE DEF off
<1>5. /\ Keeps(off, out, {"w", "sentinel", "true_next_timeout_time"})
      /\ out.w = [off.w EXCEPT ![s] = Without(@, p)]
      /\ out.sentinel = Without(off.sentinel, p)
  BY <1>4, Zenon DEF Keeps, Fields
<1>6. \/ s = AT_ONCE /\ x = [out EXCEPT !.at_once_nto = @ - 1]
      \/ IsSoon(s) /\ x = DropSoon(scnt_dec(out, s))
      \/ IsLater(s) /\ x = DropLater(scnt_dec(out, s))
  <2>1. remove_timer(tw, p) =
          CASE s = AT_ONCE -> [out EXCEPT !.at_once_nto = @ - 1]
            [] IsSoon(s) -> DropSoon(scnt_dec(out, s))
            [] IsLater(s) -> DropLater(scnt_dec(out, s))
    BY Zenon DEF remove_timer, off
  <2> HIDE DEF out, s
  <2> QED BY <1>0, <2>1, SlotKinds
<1> HIDE DEF out, s
<1>7. /\ out.w = [tw.w EXCEPT ![s] = Without(@, p)]
      /\ out.sentinel = Without(tw.sentinel, p)
      /\ out.slot = [tw.slot EXCEPT ![p] = INACTIVE]
      /\ out.timeout_pos = [tw.timeout_pos EXCEPT ![p] = 0]
      /\ Keeps(tw, out, {"w", "sentinel", "true_next_timeout_time", "slot", "timeout_pos"})
  BY <1>4, <1>5, Zenon DEF Keeps, Fields
<1>8. /\ Without(tw.w[s], p) \in Seq(Timers) /\ IsInjective(Without(tw.w[s], p))
      /\ Range(Without(tw.w[s], p)) = Range(tw.w[s]) \ {p}
      /\ out.sentinel \in Seq(Timers) /\ IsInjective(out.sentinel)
      /\ Range(out.sentinel) = Range(tw.sentinel) \ {p}
  BY <1>0, <1>2, <1>3, <1>7, WithoutSeq
<1>9. /\ out.w \in [Slots -> Seq(Timers)]
      /\ out.slot \in [Timers -> Slots \cup {INACTIVE}] /\ out.slot[p] = INACTIVE
      /\ out.timeout_pos \in [Timers -> Int]
      /\ \A q \in Timers \ {p} : /\ out.slot[q] = tw.slot[q]
                                 /\ out.timeout_pos[q] = tw.timeout_pos[q]
  BY <1>0, <1>2, <1>7, <1>8
<1>10. \A r \in Slots : IsInjective(out.w[r]) /\ Range(out.w[r]) = Range(tw.w[r]) \ {p}
  <2> TAKE r \in Slots
  <2>1. CASE r = s
    <3>1. out.w[r] = Without(tw.w[s], p)  BY <1>2, <1>7, <2>1
    <3> QED BY <1>8, <2>1, <3>1
  <2>2. CASE r # s
    <3>1. out.w[r] = tw.w[r]  BY <1>2, <1>7, <2>2
    <3>2. p \notin Range(tw.w[r])  BY <1>3, <2>2 DEF s
    <3> QED BY <1>3, <3>1, <3>2
  <2> QED BY <2>1, <2>2
<1>11. Typed(out)  BY <1>1, <1>7, <1>8, <1>9, Zenon DEF Typed, Keeps, Fields
<1> DEFINE F == {"scnt", "at_once_nto", "soon_nto", "soon_min_tpos", "later_nto",
                 "later_min_tpos", "later_min_tpos_slot"}
<1>12. /\ Keeps(out, x, F) /\ CountedBy(out, x, s, -1)
       /\ x.soon_min_tpos \in Int /\ x.later_min_tpos \in Int
  BY <1>0, <1>6, <1>11, Uncount
<1>13. CountedBy(tw, x, s, -1)
  <2>1. /\ out.scnt = tw.scnt /\ out.at_once_nto = tw.at_once_nto
        /\ out.soon_nto = tw.soon_nto /\ out.later_nto = tw.later_nto
    BY <1>7, Zenon DEF Keeps, Fields
  <2> QED BY <1>12, <2>1, Zenon DEF CountedBy
<1>14. /\ x.w = out.w /\ x.sentinel = out.sentinel /\ x.slot = out.slot
       /\ x.timeout_pos = out.timeout_pos /\ x.pos = tw.pos /\ x.nto = tw.nto
       /\ x.yield_slot = tw.yield_slot /\ DOMAIN x = Fields
       /\ x.later_pos = tw.later_pos /\ x.yield_slots_left = tw.yield_slots_left
  BY <1>7, <1>12, Zenon DEF Keeps, Fields
<1>15. Typed(x)
  <2>1. x.at_once_nto \in Int /\ x.soon_nto \in Int /\ x.later_nto \in Int
    BY <1>11, <1>12, CountTypes
  <2> QED BY <1>1, <1>8, <1>9, <1>12, <1>14, <2>1, Zenon DEF Typed, CountedBy
<1>16. x.nto = tw.nto + 0 /\ 0 \in Int  BY <1>2, <1>14
<1>17. Good(x, cur, extra + 0 + 1, {p})
  <2>1. \A q \in Timers \ {p} : /\ x.slot[q] = tw.slot[q]
                                /\ x.timeout_pos[q] = tw.timeout_pos[q]
    BY <1>9, <1>14
  <2>2. \A r \in Slots : IsInjective(x.w[r]) /\ Range(x.w[r]) = Range(tw.w[r]) \ {p}
    BY <1>10, <1>14
  <2>3. IsInjective(x.sentinel) /\ Range(x.sentinel) = Range(tw.sentinel) \ {p}
    BY <1>8, <1>14
  <2> HIDE DEF s
  <2>4. tw.slot[p] = s  BY DEF s
  <2>5. Unlinked(tw, x, p)  BY <1>14, <2>1, <2>2, <2>3 DEF Unlinked
  <2> QED BY <1>0, <1>13, <1>15, <1>16, <2>4, <2>5, TakeOut, Zenon
<1>18. Gone(tw, x, p)  BY <1>9, <1>14, Zenon DEF Gone
<1> QED BY <1>17, <1>18

(***************************************************************************)
(* Fields that neither the lists nor the counts depend on.                 *)
(***************************************************************************)
Side == {"bump_scnt", "pos", "soon_min_tpos", "later_min_tpos", "later_min_tpos_slot",
         "later_pos", "yield_slot", "yield_slots_left", "true_next_timeout_time",
         "next_timeout_pos", "pon_fd", "pon_armed_deadline"}

SideTyped(x) ==
  /\ x.soon_min_tpos \in Int /\ x.later_min_tpos \in Int
  /\ x.pos \in Int /\ x.later_pos \in Int
  /\ x.yield_slot \in Slots \cup {INACTIVE} /\ x.yield_slots_left \in Int

\* The slot whose list is being bumped, and what nto counts beyond the timers in
\* the lists: the one whose callback runs.
Cur(bump, tw) == IF bump.pc = "idle" THEN tw.yield_slot ELSE bump.slot
Extra(bump) == IF bump.pc = "callback" /\ bump.slot # AT_ONCE THEN 1 ELSE 0

\* The locals of erts_bump_timers at time t, with list sentinel left to bump.
Call(bump, list, t) ==
  /\ DOMAIN bump = DOMAIN Idle
  /\ bump.pc \in {"idle", "top", "bump", "slot", "take", "list", "callback"}
  /\ bump.slots \in Int /\ bump.bump_to \in Int /\ bump.curr_time \in Int
  /\ bump.bump_to <= t /\ bump.curr_time <= t
  /\ bump.pc = "slot" => bump.slot \in 0 .. (END_SLOT - 1)
  /\ bump.pc \in {"take", "list", "callback"} => bump.slot \in Slots
  /\ bump.pc \in {"top", "bump", "slot"} => list = <<>>
  /\ bump.pc = "take" => list # <<>>

\* The inductive invariant.
WInv ==
  /\ now \in Nat /\ tiw.pos <= now
  /\ Call(b, tiw.sentinel, now)
  /\ Good(tiw, Cur(b, tiw), Extra(b), {})

(* A step that changes such fields only leaves the wheel sound. *)
LEMMA SideGood ==
  ASSUME NEW tw, NEW cur, NEW extra \in Int, Good(tw, cur, extra, {}),
         NEW x, Keeps(tw, x, Side), SideTyped(x),
         x.pos >= tw.pos \/ (tw.nto = 0 /\ extra = 0)
  PROVE  Good(x, cur, extra, {}) /\ x.sentinel = tw.sentinel
<1>1. Typed(tw)  BY DEF Good
<1>2. /\ x.w = tw.w /\ x.sentinel = tw.sentinel /\ x.scnt = tw.scnt
      /\ x.at_once_nto = tw.at_once_nto /\ x.soon_nto = tw.soon_nto
      /\ x.later_nto = tw.later_nto /\ x.slot = tw.slot
      /\ x.timeout_pos = tw.timeout_pos /\ x.nto = tw.nto /\ DOMAIN x = Fields
  BY Zenon DEF Keeps, Fields, Side
<1>3. Typed(x)  BY <1>1, <1>2, Zenon DEF Typed, SideTyped
<1>4. x.pos >= tw.pos \/ \A q \in Timers : tw.slot[q] = INACTIVE
  BY NoneActive, Zenon
<1>5. Alike(tw, x, {})  BY <1>2, <1>4 DEF Alike
<1>6. x.nto = tw.nto + 0 /\ 0 \in Int  BY <1>1, <1>2 DEF Typed
<1>7. Good(x, cur, extra + 0, {})  BY <1>3, <1>5, <1>6, Frame, Zenon
<1> QED BY <1>2, <1>7

(* erts_twheel_cancel_timer leaves a sound wheel without the timer. *)
LEMMA CancelGood ==
  ASSUME NEW tw, NEW cur, NEW extra \in Int, NEW p \in Timers,
         Good(tw, cur, extra, {}), tw.slot[p] \in Slots,
         NEW x, x = erts_twheel_cancel_timer(tw, p)
  PROVE  Good(x, cur, extra, {}) /\ Gone(tw, x, p)
<1> DEFINE y == remove_timer(tw, p)
<1>1. y = remove_timer(tw, p)  OBVIOUS
<1>2. x = [y EXCEPT !.nto = @ - 1]  BY DEF erts_twheel_cancel_timer
<1> HIDE DEF y
<1>3. Good(y, cur, extra + 1, {p}) /\ Gone(tw, y, p)  BY <1>1, RemoveGood, Zenon
<1>4. /\ y.slot[p] = INACTIVE /\ y.pos = tw.pos /\ y.yield_slot = tw.yield_slot
      /\ DOMAIN y = Fields /\ \A q \in Timers \ {p} : y.slot[q] = tw.slot[q]
  BY <1>3 DEF Gone
<1>5. Keeps(y, x, {"nto"}) /\ x.nto = y.nto - 1  BY <1>2, <1>4, Zenon DEF Keeps, Fields
<1>6. Typed(y)  BY <1>3 DEF Good
<1>7. y.nto \in Int  BY <1>6 DEF Typed
<1>8. x.nto = y.nto + -1 /\ -1 \in Int /\ extra + 1 \in Int /\ x.nto \in Int
  BY <1>5, <1>7
<1>9. Typed(x)  BY <1>5, <1>6, <1>8, Zenon DEF Typed, Keeps, Fields
<1>10. Alike(y, x, {p})  BY <1>5, Zenon DEF Alike, Keeps, Fields
<1>11. x.slot[p] = INACTIVE /\ Gone(tw, x, p)
  BY <1>4, <1>5, Zenon DEF Keeps, Fields, Gone
<1>12. Good(x, cur, (extra + 1) + -1, {p})  BY <1>3, <1>8, <1>9, <1>10, Frame, Zenon
<1>13. (extra + 1) + -1 = extra  OBVIOUS
<1>14. Good(x, cur, extra, {p})  BY <1>12, <1>13
<1>15. Good(x, cur, extra, {})  BY <1>11, <1>14, Forget, Zenon
<1> QED BY <1>11, <1>15

(***************************************************************************)
(* find_next_timeout.                                                      *)
(***************************************************************************)
(* What find_next_timeout exposes is in two fields that no list depends on. *)
LEMMA ExposeEffect ==
  ASSUME NEW tw, DOMAIN tw = Fields, NEW min, NEW exact, NEW x, x = Expose(tw, min, exact)
  PROVE  Keeps(tw, x, {"next_timeout_pos", "true_next_timeout_time"})
BY Zenon DEF Expose, Keeps, Fields

(* The later wheel is searched. *)
LEMMA SearchLaterEffect ==
  ASSUME NEW tw, Typed(tw), NEW x, x = SearchLater(tw)
  PROVE  /\ Keeps(tw, x, {"next_timeout_pos", "true_next_timeout_time",
                          "later_min_tpos", "later_min_tpos_slot"})
         /\ x.later_min_tpos \in Int
<1> DEFINE min == PosMask(tw.later_min_tpos)
           ahead == IF min <= tw.later_pos THEN 0
                    ELSE (min - tw.later_pos) \div LATER_WHEEL_SLOT_SIZE
           from == Max({min, tw.later_pos})
           hit == tw.w[later_slot(from)] # <<>>
           nxt == scnt_wheel_next(later_slot(from), LATER_WHEEL_SIZE - ahead, tw.scnt)
           tpos == IF hit THEN from ELSE from + LATER_WHEEL_SLOT_SIZE * nxt.steps
           slot == IF hit THEN later_slot(from) ELSE nxt.slot
           y == [tw EXCEPT !.later_min_tpos = tpos, !.later_min_tpos_slot = slot]
           F == {"next_timeout_pos", "true_next_timeout_time",
                 "later_min_tpos", "later_min_tpos_slot"}
<1>1. DOMAIN tw = Fields /\ tw.later_min_tpos \in Int /\ tw.later_pos \in Int
  BY DEF Typed
<1>2. min \in Int  BY <1>1, SlotOfPos
<1>3. ahead \in Int
  <2> HIDE DEF min
  <2>1. \A i \in Int, n \in Nat : n > 0 => i \div n \in Int  OBVIOUS
  <2>2. min - tw.later_pos \in Int  BY <1>1, <1>2
  <2>3. (min - tw.later_pos) \div LATER_WHEEL_SLOT_SIZE \in Int  BY <2>1, <2>2, Sizes
  <2> QED BY <2>3
<1>4. from \in Int
  <2> HIDE DEF min
  <2> QED BY <1>1, <1>2, MaxMin
<1>5. nxt.steps \in Int
  <2> HIDE DEF from, ahead
  <2>1. later_slot(from) \in SOON_WHEEL_SIZE .. (END_SLOT - 1)  BY <1>4, SlotOfPos
  <2>2. later_slot(from) \in 0 .. (END_SLOT - 1)  BY <2>1, Sizes
  <2>3. LATER_WHEEL_SIZE - ahead \in Int  BY <1>3, Sizes
  <2> QED BY <2>2, <2>3, NextWithin
<1>6. tpos \in Int
  <2> HIDE DEF from, nxt, hit
  <2>1. \A i, j \in Int : i * j \in Int  OBVIOUS
  <2>2. LATER_WHEEL_SLOT_SIZE * nxt.steps \in Int  BY <1>5, <2>1, Sizes
  <2> QED BY <1>4, <2>2
<1>7. x = Expose(tw, min - LATER_WHEEL_SLOT_SIZE, FALSE)
      \/ x = Expose(y, tpos - LATER_WHEEL_SLOT_SIZE, hit)
  BY Zenon DEF SearchLater
<1> HIDE DEF tpos, slot, hit, min
<1>8. Keeps(tw, y, {"later_min_tpos", "later_min_tpos_slot"}) /\ y.later_min_tpos = tpos
  BY <1>1, Zenon DEF Keeps, Fields
<1> HIDE DEF y
<1>9. CASE x = Expose(tw, min - LATER_WHEEL_SLOT_SIZE, FALSE)
  <2>1. Keeps(tw, x, {"next_timeout_pos", "true_next_timeout_time"})
    BY <1>1, <1>9, ExposeEffect, Zenon
  <2>2. Keeps(tw, x, F)  BY <2>1, Zenon DEF Keeps, Fields
  <2>3. x.later_min_tpos = tw.later_min_tpos  BY <2>1, Zenon DEF Keeps, Fields
  <2> QED BY <1>1, <2>2, <2>3
<1>10. CASE x = Expose(y, tpos - LATER_WHEEL_SLOT_SIZE, hit)
  <2>1. DOMAIN y = Fields  BY <1>8 DEF Keeps
  <2>2. Keeps(y, x, {"next_timeout_pos", "true_next_timeout_time"})
    BY <1>10, <2>1, ExposeEffect, Zenon
  <2>3. Keeps(tw, x, F)  BY <1>8, <2>2, Zenon DEF Keeps, Fields
  <2>4. x.later_min_tpos = tpos  BY <1>8, <2>2, Zenon DEF Keeps, Fields
  <2> QED BY <1>6, <2>3, <2>4
<1> QED BY <1>7, <1>9, <1>10

(* The soon wheel is searched. *)
LEMMA SearchSoonEffect ==
  ASSUME NEW tw, Typed(tw), NEW x, x = SearchSoon(tw)
  PROVE  /\ Keeps(tw, x, {"next_timeout_pos", "true_next_timeout_time", "soon_min_tpos"})
         /\ x.soon_min_tpos \in Int
<1> DEFINE limit == LaterLimit(tw)
           from == Max({tw.soon_min_tpos, tw.pos})
           inspected(tpos) == tpos = from \/ tw.scnt[scnt_get_ix(soon_slot(tpos))] # 0
           found == {tpos \in from .. (limit - 1) :
                       inspected(tpos) /\ tw.w[soon_slot(tpos)] # <<>>}
           min == Min(found \cup {limit})
           y == [tw EXCEPT !.soon_min_tpos = min]
<1>1. DOMAIN tw = Fields /\ tw.soon_min_tpos \in Int /\ tw.later_pos \in Int /\ tw.pos \in Int
  BY DEF Typed
<1>2. limit \in {tw.later_pos - LATER_WHEEL_SLOT_SIZE, tw.later_pos,
                 tw.pos + SOON_WHEEL_SIZE}
  BY DEF LaterLimit
<1>3. limit \in Int
  <2> HIDE DEF limit
  <2> QED BY <1>1, <1>2, Sizes
<1>4. from \in Int  BY <1>1, MaxMin
<1>5. min \in Int
  <2>1. found \subseteq from .. (limit - 1)  OBVIOUS
  <2> HIDE DEF found, limit, from
  <2>2. found \cup {limit} \in SUBSET Int /\ found \cup {limit} # {}
    BY <1>3, <1>4, <2>1
  <2>3. PICK a \in Int : a <= from /\ a <= limit  BY <1>3, <1>4
  <2>4. \A k \in found \cup {limit} : a <= k  BY <1>3, <1>4, <2>1, <2>3
  <2>5. min \in found \cup {limit}  BY <2>2, <2>3, <2>4, Least
  <2> HIDE DEF min
  <2> QED BY <2>2, <2>5
<1>6. x = Expose(y, min, TRUE)  BY Zenon DEF SearchSoon
<1> HIDE DEF min
<1>7. Keeps(tw, y, {"soon_min_tpos"}) /\ y.soon_min_tpos = min
  BY <1>1, Zenon DEF Keeps, Fields
<1> HIDE DEF y
<1>8. DOMAIN y = Fields  BY <1>7 DEF Keeps
<1>9. Keeps(y, x, {"next_timeout_pos", "true_next_timeout_time"})
  BY <1>6, <1>8, ExposeEffect, Zenon
<1>10. Keeps(tw, x, {"next_timeout_pos", "true_next_timeout_time", "soon_min_tpos"})
  BY <1>7, <1>9, Zenon DEF Keeps, Fields
<1>11. x.soon_min_tpos = min  BY <1>7, <1>9, Zenon DEF Keeps, Fields
<1> QED BY <1>5, <1>10, <1>11

\* From tw to x the list being bumped is as it was, and pos is not ahead of time.
Rests(tw, x) ==
  /\ DOMAIN x = Fields /\ x.pos <= now
  /\ x.sentinel = tw.sentinel /\ x.yield_slot = tw.yield_slot

(* find_next_timeout leaves the lists and the counts as they are. *)
LEMMA FindGood ==
  ASSUME NEW tw, NEW cur, Good(tw, cur, 0, {}), now \in Int, tw.pos <= now,
         NEW x, x = find_next_timeout(tw)
  PROVE  Good(x, cur, 0, {}) /\ Rests(tw, x)
<1>1. Typed(tw)  BY DEF Good
<1>2. /\ DOMAIN tw = Fields /\ tw.pos \in Int /\ tw.soon_min_tpos \in Int
      /\ tw.later_min_tpos \in Int /\ tw.later_pos \in Int
      /\ tw.yield_slot \in Slots \cup {INACTIVE} /\ tw.yield_slots_left \in Int
  BY <1>1 DEF Typed
<1>3. /\ Keeps(tw, x, Side) /\ x.yield_slot = tw.yield_slot
      /\ x.yield_slots_left = tw.yield_slots_left
      /\ x.soon_min_tpos \in Int /\ x.later_min_tpos \in Int /\ x.later_pos \in Int
      /\ x.pos = tw.pos \/ (tw.nto = 0 /\ x.pos = now)
  <2>1. CASE tw.nto = 0
    <3> DEFINE y == [tw EXCEPT !.pos = now, !.later_pos = LaterPosAt(now)]
    <3>1. x = Expose(y, now + CLKTCKS_WEEK, FALSE)  BY <2>1 DEF find_next_timeout
    <3>2. Keeps(tw, y, {"pos", "later_pos"}) /\ y.pos = now /\ y.later_pos = LaterPosAt(now)
      BY <1>2, Zenon DEF Keeps, Fields
    <3>3. now + SOON_WHEEL_SIZE \in Int  BY Sizes
    <3>4. LaterPosAt(now) \in Int  BY <3>3, SlotOfPos DEF LaterPosAt
    <3> HIDE DEF y
    <3>5. DOMAIN y = Fields  BY <3>2 DEF Keeps
    <3>6. Keeps(y, x, {"next_timeout_pos", "true_next_timeout_time"})
      BY <3>1, <3>5, ExposeEffect, Zenon
    <3>7. Keeps(tw, x, Side)  BY <3>2, <3>6, Zenon DEF Keeps, Fields, Side
    <3>8. /\ x.yield_slot = tw.yield_slot /\ x.yield_slots_left = tw.yield_slots_left
          /\ x.soon_min_tpos = tw.soon_min_tpos /\ x.later_min_tpos = tw.later_min_tpos
          /\ x.later_pos = LaterPosAt(now) /\ x.pos = now
      BY <3>2, <3>6, Zenon DEF Keeps, Fields
    <3> QED BY <1>2, <2>1, <3>4, <3>7, <3>8
  <2>2. CASE tw.nto # 0 /\ tw.soon_nto = 0
    <3>1. x = SearchLater(tw)  BY <2>2 DEF find_next_timeout
    <3>2. /\ Keeps(tw, x, {"next_timeout_pos", "true_next_timeout_time",
                           "later_min_tpos", "later_min_tpos_slot"})
          /\ x.later_min_tpos \in Int
      BY <1>1, <3>1, SearchLaterEffect
    <3>3. Keeps(tw, x, Side)  BY <3>2, Zenon DEF Keeps, Fields, Side
    <3>4. /\ x.yield_slot = tw.yield_slot /\ x.yield_slots_left = tw.yield_slots_left
          /\ x.soon_min_tpos = tw.soon_min_tpos /\ x.later_pos = tw.later_pos
          /\ x.pos = tw.pos
      BY <3>2, Zenon DEF Keeps, Fields
    <3> QED BY <1>2, <3>2, <3>3, <3>4
  <2>3. CASE tw.nto # 0 /\ tw.soon_nto # 0
    <3>1. x = SearchSoon(tw)  BY <2>3 DEF find_next_timeout
    <3>2. /\ Keeps(tw, x, {"next_timeout_pos", "true_next_timeout_time", "soon_min_tpos"})
          /\ x.soon_min_tpos \in Int
      BY <1>1, <3>1, SearchSoonEffect
    <3>3. Keeps(tw, x, Side)  BY <3>2, Zenon DEF Keeps, Fields, Side
    <3>4. /\ x.yield_slot = tw.yield_slot /\ x.yield_slots_left = tw.yield_slots_left
          /\ x.later_min_tpos = tw.later_min_tpos /\ x.later_pos = tw.later_pos
          /\ x.pos = tw.pos
      BY <3>2, Zenon DEF Keeps, Fields
    <3> QED BY <1>2, <3>2, <3>3, <3>4
  <2> QED BY <2>1, <2>2, <2>3
<1>4. SideTyped(x)
  <2>1. x.pos \in Int  BY <1>2, <1>3
  <2> QED BY <1>2, <1>3, <2>1 DEF SideTyped
<1>5. x.pos >= tw.pos \/ (tw.nto = 0 /\ 0 = 0)  BY <1>2, <1>3
<1>6. Keeps(tw, x, Side) /\ 0 \in Int  BY <1>3
<1>7. Good(x, cur, 0, {}) /\ x.sentinel = tw.sentinel
  BY <1>4, <1>5, <1>6, SideGood, Zenon
<1>8. Rests(tw, x)
  <2>1. x.pos <= now  BY <1>2, <1>3
  <2>2. DOMAIN x = Fields  BY <1>3 DEF Keeps
  <2> QED BY <1>3, <1>7, <2>1, <2>2 DEF Rests
<1> QED BY <1>7, <1>8

(* pon_timer_wheel_arm leaves the lists, the counts and pos as they are. *)
LEMMA ArmGood ==
  ASSUME NEW tw, NEW cur, NEW extra \in Int, Good(tw, cur, extra, {}), tw.pos <= now,
         NEW x \in pon_timer_wheel_arm(tw)
  PROVE  Good(x, cur, extra, {}) /\ Rests(tw, x)
<1>1. DOMAIN tw = Fields  BY DEF Good, Typed
<1>2. Keeps(tw, x, {"pon_fd", "pon_armed_deadline"})  BY <1>1, ArmEffect
<1>3. Keeps(tw, x, Cached)  BY <1>2, Zenon DEF Keeps, Fields, Cached
<1>4. Good(x, cur, extra, {})  BY <1>3, CachedGood
<1>5. /\ DOMAIN x = Fields /\ x.pos = tw.pos
      /\ x.sentinel = tw.sentinel /\ x.yield_slot = tw.yield_slot
  BY <1>2, Zenon DEF Keeps, Fields
<1> QED BY <1>4, <1>5 DEF Rests

(***************************************************************************)
(* The next timer of the list being bumped.                                *)
(***************************************************************************)
\* From tw to x no timer has changed its slot or its timeout.
SameTimers(tw, x) ==
  /\ DOMAIN x = Fields /\ x.pos = tw.pos /\ x.yield_slot = tw.yield_slot
  /\ x.slot = tw.slot /\ x.timeout_pos = tw.timeout_pos

\* x is y with one timer less in the counts of slot s.
Uncounted(y, x, s) ==
  \/ s = AT_ONCE /\ x = [y EXCEPT !.at_once_nto = @ - 1]
  \/ IsSoon(s) /\ x = scnt_dec(DropSoon(y), s)
  \/ IsLater(s) /\ x = scnt_dec(DropLater(y), s)

\* x is tw when p, the first timer of the list of slot s, has left it.
Taking(tw, s, p, x) ==
  /\ tw.sentinel # <<>> /\ p = Head(tw.sentinel)
  /\ Uncounted([tw EXCEPT !.sentinel = Tail(@)], x, s)

(* The first timer of the list leaves it, and its counts. *)
LEMMA TakeGood ==
  ASSUME NEW tw, NEW s \in Slots, NEW extra \in Int, Good(tw, s, extra, {}),
         NEW p, NEW x, Taking(tw, s, p, x)
  PROVE  /\ p \in Timers /\ tw.slot[p] = s
         /\ Good(x, s, extra + 1, {p}) /\ SameTimers(tw, x)
<1> DEFINE y == [tw EXCEPT !.sentinel = Tail(@)]
<1>0. tw.sentinel # <<>> /\ p = Head(tw.sentinel) /\ Uncounted(y, x, s)
  BY Zenon DEF Taking
<1>1. Typed(tw) /\ Linked(tw, s, {})  BY DEF Good
<1>2. /\ DOMAIN tw = Fields /\ tw.sentinel \in Seq(Timers) /\ tw.nto \in Int
      /\ tw.w \in [Slots -> Seq(Timers)]
  BY <1>1 DEF Typed
<1>3. /\ IsInjective(tw.sentinel)
      /\ \A q \in Range(tw.sentinel) : tw.slot[q] = s
      /\ \A r \in Slots : IsInjective(tw.w[r])
                          /\ \A q \in Range(tw.w[r]) : q \notin Range(tw.sentinel)
  BY <1>1, Zenon DEF Linked
<1>4. /\ p \in Timers /\ p \in Range(tw.sentinel)
      /\ Tail(tw.sentinel) \in Seq(Timers) /\ IsInjective(Tail(tw.sentinel))
      /\ Range(Tail(tw.sentinel)) = Range(tw.sentinel) \ {p}
  BY <1>0, <1>2, <1>3, TailSeq
<1>5. tw.slot[p] = s  BY <1>3, <1>4
<1>6. Keeps(tw, y, {"sentinel"}) /\ y.sentinel = Tail(tw.sentinel)
  BY <1>2, Zenon DEF Keeps, Fields
<1> HIDE DEF y
<1>7. Typed(y)  BY <1>1, <1>4, <1>6, Zenon DEF Typed, Keeps, Fields
<1> DEFINE F == {"scnt", "at_once_nto", "soon_nto", "soon_min_tpos", "later_nto",
                 "later_min_tpos", "later_min_tpos_slot"}
<1>8. /\ Keeps(y, x, F) /\ CountedBy(y, x, s, -1)
      /\ x.soon_min_tpos \in Int /\ x.later_min_tpos \in Int
  BY <1>0, <1>7, Uncount DEF Uncounted
<1>9. /\ x.w = tw.w /\ x.sentinel = Tail(tw.sentinel) /\ x.nto = tw.nto
      /\ x.slot = tw.slot /\ x.timeout_pos = tw.timeout_pos /\ x.pos = tw.pos
      /\ x.yield_slot = tw.yield_slot /\ DOMAIN x = Fields
      /\ x.later_pos = tw.later_pos /\ x.yield_slots_left = tw.yield_slots_left
  BY <1>6, <1>8, Zenon DEF Keeps, Fields
<1>10. SameTimers(tw, x)  BY <1>9 DEF SameTimers
<1>11. /\ y.at_once_nto = tw.at_once_nto /\ y.soon_nto = tw.soon_nto
       /\ y.later_nto = tw.later_nto /\ y.scnt = tw.scnt
  BY <1>6, Zenon DEF Keeps, Fields
<1>12. CountedBy(tw, x, s, -1)  BY <1>8, <1>11, Zenon DEF CountedBy
<1>13. x.at_once_nto \in Int /\ x.soon_nto \in Int /\ x.later_nto \in Int
  <2>1. -1 \in Int  OBVIOUS
  <2> QED BY <1>1, <1>12, <2>1, CountTypes, Zenon
<1>14. Typed(x)
  <2>1. x.scnt \in [ScntIxs -> Int]  BY <1>12 DEF CountedBy
  <2> QED BY <1>1, <1>4, <1>8, <1>9, <1>13, <2>1, Zenon DEF Typed
<1>15. /\ \A q \in Timers \ {p} : /\ x.slot[q] = tw.slot[q]
                                  /\ x.timeout_pos[q] = tw.timeout_pos[q]
       /\ x.pos = tw.pos /\ x.nto = tw.nto + 0 /\ 0 \in Int
  BY <1>2, <1>9
<1>16. /\ \A r \in Slots : IsInjective(x.w[r]) /\ Range(x.w[r]) = Range(tw.w[r]) \ {p}
       /\ IsInjective(x.sentinel) /\ Range(x.sentinel) = Range(tw.sentinel) \ {p}
  BY <1>3, <1>4, <1>9
<1>17. Good(x, s, extra + 0 + 1, {p})
  <2>1. Unlinked(tw, x, p)  BY <1>15, <1>16 DEF Unlinked
  <2>2. p \in Timers  BY <1>4
  <2>3. x.nto = tw.nto + 0 /\ 0 \in Int  BY <1>15
  <2> QED BY <1>5, <1>12, <1>14, <2>1, <2>2, <2>3, TakeOut, Zenon
<1>18. extra + 0 + 1 = extra + 1  OBVIOUS
<1> QED BY <1>4, <1>5, <1>10, <1>17, <1>18

\* From tw to x timer p, which is in no list, becomes inactive.
Off(tw, x, p) ==
  /\ Keeps(tw, x, {"slot", "timeout_pos", "nto", "bump_scnt"})
  /\ x.slot = [tw.slot EXCEPT ![p] = INACTIVE]
  /\ x.timeout_pos = [tw.timeout_pos EXCEPT ![p] = 0]

(* A timer that is in no list becomes inactive. *)
LEMMA OffGood ==
  ASSUME NEW tw, NEW cur, NEW extra \in Int, NEW p \in Timers, Good(tw, cur, extra, {p}),
         NEW x, NEW d \in Int, x.nto = tw.nto + d, Off(tw, x, p)
  PROVE  Good(x, cur, extra + d, {}) /\ Gone(tw, x, p)
<1>1. Typed(tw)  BY DEF Good
<1>2. /\ tw.slot \in [Timers -> Slots \cup {INACTIVE}]
      /\ tw.timeout_pos \in [Timers -> Int] /\ tw.nto \in Int
  BY <1>1 DEF Typed
<1>3. /\ x.slot \in [Timers -> Slots \cup {INACTIVE}] /\ x.slot[p] = INACTIVE
      /\ x.timeout_pos \in [Timers -> Int] /\ x.nto \in Int
      /\ \A q \in Timers \ {p} : x.slot[q] = tw.slot[q] /\ x.timeout_pos[q] = tw.timeout_pos[q]
  BY <1>2 DEF Off
<1>4. /\ x.w = tw.w /\ x.sentinel = tw.sentinel /\ x.scnt = tw.scnt
      /\ x.at_once_nto = tw.at_once_nto /\ x.soon_nto = tw.soon_nto
      /\ x.later_nto = tw.later_nto /\ x.pos = tw.pos
      /\ x.yield_slot = tw.yield_slot /\ DOMAIN x = Fields
  BY Zenon DEF Keeps, Fields, Off
<1>5. /\ x.soon_min_tpos = tw.soon_min_tpos /\ x.later_min_tpos = tw.later_min_tpos
      /\ x.later_pos = tw.later_pos /\ x.yield_slots_left = tw.yield_slots_left
  BY Zenon DEF Keeps, Fields, Off
<1>6. Typed(x)  BY <1>1, <1>3, <1>4, <1>5, Zenon DEF Typed
<1>7. Alike(tw, x, {p})  BY <1>3, <1>4 DEF Alike
<1>8. extra + d \in Int  OBVIOUS
<1>9. Good(x, cur, extra + d, {p})  BY <1>6, <1>7, Frame, Zenon
<1>10. x.slot[p] = INACTIVE  BY <1>3
<1>11. Good(x, cur, extra + d, {})  BY <1>8, <1>9, <1>10, Forget, Zenon
<1>12. Gone(tw, x, p)  BY <1>3, <1>4 DEF Gone
<1> QED BY <1>11, <1>12

(* The first timer of the list fires: it is out of its counts (u) and inactive. *)
LEMMA FireGood ==
  ASSUME NEW tw, NEW s \in Slots, Good(tw, s, 0, {}),
         NEW p, NEW u, Taking(tw, s, p, u),
         NEW x, NEW d \in Int, x.nto = u.nto + d, Off(u, x, p)
  PROVE  p \in Timers /\ tw.slot[p] = s /\ Good(x, s, 1 + d, {}) /\ Gone(tw, x, p)
<1>1. 0 \in Int /\ 1 \in Int /\ 0 + 1 = 1  OBVIOUS
<1>2. /\ p \in Timers /\ tw.slot[p] = s
      /\ Good(u, s, 0 + 1, {p}) /\ SameTimers(tw, u)
  BY <1>1, TakeGood, Zenon
<1>3. Good(u, s, 1, {p})  BY <1>1, <1>2
<1>4. p \in Timers  BY <1>2
<1>5. Good(x, s, 1 + d, {}) /\ Gone(u, x, p)  BY <1>1, <1>3, <1>4, OffGood, Zenon
<1>6. Gone(tw, x, p)
  <2>1. u.pos = tw.pos /\ u.yield_slot = tw.yield_slot /\ u.slot = tw.slot
    BY <1>2 DEF SameTimers
  <2>2. Gone(u, x, p)  BY <1>5
  <2> QED BY <2>1, <2>2, Zenon DEF Gone
<1> QED BY <1>2, <1>5, <1>6

\* From tw to x every active timer stays active; time has not moved.
Stay(tw, x) ==
  /\ DOMAIN x = Fields /\ x.pos = tw.pos
  /\ \A q \in Timers : tw.slot[q] # INACTIVE => x.slot[q] # INACTIVE

(* The first timer of the list is put into a slot r of a wheel. *)
LEMMA MoveGood ==
  ASSUME NEW tw, NEW s \in Slots, Good(tw, s, 0, {}),
         NEW p, NEW u, Taking(tw, s, p, u),
         NEW v, Keeps(u, v, {"bump_scnt"}),
         NEW r \in Slots, r # AT_ONCE, NEW x, x = insert_timer_into_slot(v, r, p)
  PROVE  Good(x, s, 0, {}) /\ Stay(tw, x)
<1>1. 0 \in Int /\ 1 \in Int /\ 0 + 1 = 1 /\ 1 - 1 = 0  OBVIOUS
<1>2. /\ p \in Timers /\ tw.slot[p] = s
      /\ Good(u, s, 0 + 1, {p}) /\ SameTimers(tw, u)
  BY <1>1, TakeGood, Zenon
<1>3. Good(u, s, 1, {p})  BY <1>1, <1>2
<1>4. p \in Timers  BY <1>2
<1>5. Keeps(u, v, Cached)  BY Zenon DEF Keeps, Fields, Cached
<1>6. Good(v, s, 1, {p})  BY <1>1, <1>3, <1>5, CachedGood, Zenon
<1>7. DueIn(v, r, p)  BY DEF DueIn
<1>8. Good(x, s, 1 - 1, {}) /\ OnlyTimer(v, x, p)
  BY <1>1, <1>4, <1>6, <1>7, InsertGood, Zenon
<1>9. Stay(tw, x)
  <2>1. u.pos = tw.pos /\ u.slot = tw.slot  BY <1>2 DEF SameTimers
  <2>2. v.pos = u.pos /\ v.slot = u.slot  BY Zenon DEF Keeps, Fields
  <2>3. /\ DOMAIN x = Fields /\ x.pos = v.pos /\ x.slot[p] \in Slots
        /\ \A q \in Timers \ {p} : x.slot[q] = v.slot[q]
    BY <1>8 DEF OnlyTimer
  <2>4. x.slot[p] # INACTIVE  BY <2>3, SlotKinds
  <2>5. DOMAIN x = Fields /\ x.pos = tw.pos  BY <2>1, <2>2, <2>3
  <2>6. ASSUME NEW q \in Timers, tw.slot[q] # INACTIVE  PROVE x.slot[q] # INACTIVE
    BY <2>1, <2>2, <2>3, <2>4, <2>6
  <2> QED BY <2>5, <2>6 DEF Stay
<1> QED BY <1>1, <1>8, <1>9
=============================================================================
