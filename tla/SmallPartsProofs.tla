-------------------------- MODULE SmallPartsProofs --------------------------
(***************************************************************************)
(* Proofs about three parts that share nothing: the search for a range     *)
(* with timers in the wheel, the timerfd instigations, and the registry of *)
(* ETS watchers.                                                           *)
(***************************************************************************)
EXTENDS ScntScan, Instigations, PonEts, SequenceFacts, FiniteSetTheorems

(***************************************************************************)
(* scnt_wheel_next finds the slot that its definition says, for wheels and *)
(* ranges of every size: arithmetic, the wheel that is searched, and the   *)
(* invariant of the loop.                                                  *)
(***************************************************************************)

(* Products grow with their factors. *)
LEMMA Monotone ==
  ASSUME NEW n \in Nat, NEW a \in Int, NEW b \in Int, a < b
  PROVE  a * n + n <= b * n
<1>1. (b - a - 1) * n >= 0  BY SMT
<1> QED BY <1>1, SMT

(* Quotient and remainder are unique. *)
LEMMA Division ==
  ASSUME NEW n \in Nat, n > 0, NEW q \in Int, NEW r \in 0 .. (n - 1), NEW x \in Int, x = q * n + r
  PROVE  x \div n = q /\ x % n = r
<1> DEFINE d == x \div n
           m == x % n
<1>1. d \in Int /\ m \in 0 .. (n - 1) /\ x = d * n + m  BY SMT
<1> HIDE DEF d, m
<1>2. ~(d < q)  BY <1>1, Monotone
<1>3. ~(q < d)  BY <1>1, Monotone
<1>4. d = q /\ m = r  BY <1>1, <1>2, <1>3
<1> QED BY <1>4 DEF d, m

(* The greater of two numbers. *)
LEMMA MaxPair ==
  ASSUME NEW a \in Int, NEW b \in Int
  PROVE  Max({a, b}) = IF a >= b THEN a ELSE b
BY DEF Max

(* The smaller of two numbers. *)
LEMMA MinPair ==
  ASSUME NEW a \in Int, NEW b \in Int
  PROVE  Min({a, b}) = IF a <= b THEN a ELSE b
BY DEF Min

(* The smallest of a set of numbers. *)
LEMMA MinIs ==
  ASSUME NEW T \in SUBSET Int, NEW m \in T, \A x \in T : m <= x
  PROVE  Min(T) = m
<1> DEFINE v == Min(T)
<1>1. \E x \in T : \A y \in T : x <= y  OBVIOUS
<1>2. v \in T /\ \A y \in T : v <= y  BY <1>1 DEF Min
<1> HIDE DEF v
<1>3. v = m  BY <1>2
<1> QED BY <1>3 DEF v

(***************************************************************************)
(* The wheel that is searched: size slots, the first one and the last one  *)
(* on the border of a range.                                               *)
(***************************************************************************)
size == end_slot - first_slot

\* the slot k steps on
Ahead(k) == first_slot + ((call.slot - first_slot + k) % size)

Called ==
  /\ call.slot \in 0 .. (END_SLOT - 1) /\ call.left \in Nat /\ call.left <= size
  /\ call.scnt \in [ScntIxs -> {0, 1}]

(* The wheels begin and end where ranges do. *)
LEMMA Borders ==
  /\ SCNT_SLOTS \in Nat \ {0} /\ SOON_WHEEL_SIZE \in Nat \ {0} /\ LATER_WHEEL_SIZE \in Nat \ {0}
  /\ \E a \in Nat : SOON_WHEEL_SIZE = a * SCNT_SLOTS
  /\ \E c \in Nat : END_SLOT = c * SCNT_SLOTS
<1>1. SCNT_SLOTS \in Nat \ {0} /\ SOON_WHEEL_SIZE \in Nat \ {0} /\ LATER_WHEEL_SIZE \in Nat \ {0}
  BY WheelSizes
<1> DEFINE e == 2 * SCNT_SLOTS
           a == SOON_WHEEL_SIZE \div e
           b == LATER_WHEEL_SIZE \div SCNT_SLOTS
<1>2. e \in Nat \ {0} /\ SOON_WHEEL_SIZE % e = 0 /\ LATER_WHEEL_SIZE % SCNT_SLOTS = 0
  BY <1>1, WheelSizes
<1>3. a \in Nat /\ SOON_WHEEL_SIZE = a * e  BY <1>1, <1>2
<1>4. b \in Nat /\ LATER_WHEEL_SIZE = b * SCNT_SLOTS  BY <1>1, <1>2
<1>5. SOON_WHEEL_SIZE = (2 * a) * SCNT_SLOTS /\ 2 * a \in Nat  BY <1>1, <1>3
<1>6. END_SLOT = (2 * a + b) * SCNT_SLOTS /\ 2 * a + b \in Nat
  BY <1>1, <1>3, <1>4, <1>5 DEF END_SLOT
<1> QED BY <1>1, <1>5, <1>6

(* The range of a slot. *)
LEMMA RangeIs ==
  ASSUME NEW x \in Nat, NEW i \in Int, i * SCNT_SLOTS <= x, x < (i + 1) * SCNT_SLOTS
  PROVE  scnt_get_ix(x) = i
<1>1. SCNT_SLOTS \in Nat /\ SCNT_SLOTS > 0  BY Borders
<1>2. x - i * SCNT_SLOTS \in 0 .. (SCNT_SLOTS - 1)  BY <1>1
<1> QED BY <1>1, <1>2, Division DEF scnt_get_ix

(* A slot lies in its range. *)
LEMMA SlotRange ==
  ASSUME NEW x \in Nat
  PROVE  /\ scnt_get_ix(x) \in Nat
         /\ scnt_get_ix(x) * SCNT_SLOTS <= x /\ x < (scnt_get_ix(x) + 1) * SCNT_SLOTS
BY Borders DEF scnt_get_ix

(* The shape of the wheel that is searched. *)
LEMMA Wheel ==
  ASSUME Called
  PROVE  /\ first_slot \in Nat /\ end_slot \in Nat /\ size \in Nat \ {0}
         /\ end_slot = first_slot + size /\ end_slot <= END_SLOT
         /\ call.slot \in first_slot .. (end_slot - 1)
         /\ \E a \in Nat : first_slot = a * SCNT_SLOTS
         /\ \E c \in Nat : end_slot = c * SCNT_SLOTS
<1>1. CASE IsSoon(call.slot)
  <2>1. first_slot = 0 /\ end_slot = SOON_WHEEL_SIZE /\ 0 = 0 * SCNT_SLOTS
    BY <1>1, Borders DEF first_slot, end_slot
  <2>2. /\ first_slot \in Nat /\ end_slot \in Nat /\ size \in Nat \ {0}
        /\ end_slot = first_slot + size /\ end_slot <= END_SLOT
        /\ call.slot \in first_slot .. (end_slot - 1)
    BY <1>1, <2>1, Borders DEF Called, size, IsSoon, END_SLOT
  <2>3. (\E a \in Nat : first_slot = a * SCNT_SLOTS) /\ \E c \in Nat : end_slot = c * SCNT_SLOTS
    BY <2>1, Borders
  <2> QED BY <2>2, <2>3
<1>2. CASE ~IsSoon(call.slot)
  <2>1. first_slot = SOON_WHEEL_SIZE /\ end_slot = END_SLOT
    BY <1>2 DEF first_slot, end_slot
  <2>2. /\ first_slot \in Nat /\ end_slot \in Nat /\ size \in Nat \ {0}
        /\ end_slot = first_slot + size /\ end_slot <= END_SLOT
        /\ call.slot \in first_slot .. (end_slot - 1)
    BY <1>2, <2>1, Borders DEF Called, size, IsSoon, END_SLOT
  <2> QED BY <2>1, <2>2, Borders
<1> QED BY <1>1, <1>2

(* One step on, or d steps that do not go round the end. *)
LEMMA AheadSteps ==
  ASSUME Called, NEW k \in Nat, NEW d \in Nat, Ahead(k) + d <= end_slot
  PROVE  /\ Ahead(k) \in first_slot .. (end_slot - 1)
         /\ Ahead(k + d) = IF Ahead(k) + d < end_slot THEN Ahead(k) + d ELSE first_slot
<1> DEFINE x == call.slot - first_slot + k
           q == x \div size
           r == x % size
<1>1. /\ first_slot \in Nat /\ size \in Nat /\ size > 0 /\ end_slot = first_slot + size
      /\ x \in Nat
  BY Wheel
<1> HIDE DEF x
<1>2. q \in Int /\ r \in 0 .. (size - 1) /\ x = q * size + r  BY <1>1
<1>3. Ahead(k) = first_slot + r  BY DEF Ahead, x
<1>4. Ahead(k + d) = first_slot + ((x + d) % size)  BY <1>1, Wheel DEF Ahead, x
<1> HIDE DEF q, r
<1>5. CASE r + d < size
  <2>1. r + d \in 0 .. (size - 1) /\ x + d = q * size + (r + d)  BY <1>1, <1>2, <1>5
  <2>2. (x + d) % size = r + d  BY <1>1, <1>2, <2>1, Division
  <2> QED BY <1>1, <1>2, <1>3, <1>4, <1>5, <2>2
<1>6. CASE r + d >= size
  <2>1. r + d = size  BY <1>1, <1>2, <1>3, <1>6
  <2>2. x + d = (q + 1) * size + 0  BY <1>1, <1>2, <2>1
  <2>3. (x + d) % size = 0  BY <1>1, <1>2, <2>2, Division
  <2> QED BY <1>1, <1>2, <1>3, <1>4, <2>1, <2>3
<1> QED BY <1>1, <1>2, <1>5, <1>6

(* A slot of the wheel has a range with a count. *)
LEMMA Counted ==
  ASSUME Called, NEW x \in first_slot .. (end_slot - 1)
  PROVE  /\ x \in Nat /\ scnt_get_ix(x) \in ScntIxs
         /\ (scnt_get_ix(x) + 1) * SCNT_SLOTS <= end_slot
<1>1. x \in Nat /\ x <= END_SLOT - 1 /\ END_SLOT - 1 \in Nat
  BY Wheel, Borders DEF END_SLOT
<1> DEFINE i == scnt_get_ix(x)
           j == scnt_get_ix(END_SLOT - 1)
           S == SCNT_SLOTS
<1>2. i \in Nat /\ i * S <= x /\ x < (i + 1) * S /\ j \in Nat /\ END_SLOT - 1 < (j + 1) * S
  BY <1>1, SlotRange
<1>3. S \in Nat /\ S > 0  BY Borders
<1>4. PICK c \in Nat : end_slot = c * S  BY Wheel
<1> HIDE DEF i, j, S
<1>5. ~(j + 1 < i + 1)
  <2>1. SUFFICES ASSUME j + 1 < i + 1  PROVE FALSE  OBVIOUS
  <2>2. (j + 1) * S + S <= (i + 1) * S  BY <1>2, <1>3, <2>1, Monotone
  <2>3. (i + 1) * S = i * S + S  BY <1>2, <1>3
  <2> QED BY <1>1, <1>2, <1>3, <2>2, <2>3
<1>6. ~(c < i + 1)
  <2>1. SUFFICES ASSUME c < i + 1  PROVE FALSE  OBVIOUS
  <2>2. c * S + S <= (i + 1) * S  BY <1>2, <1>3, <2>1, Monotone
  <2>3. (i + 1) * S = i * S + S  BY <1>2, <1>3
  <2> QED BY <1>1, <1>2, <1>3, <1>4, <2>2, <2>3, Wheel
<1>7. (i + 1) * S <= c * S
  <2>1. CASE i + 1 = c  BY <1>2, <1>3, <2>1
  <2>2. CASE i + 1 < c
    <3>1. (i + 1) * S + S <= c * S  BY <1>2, <1>3, <2>2, Monotone
    <3> QED BY <1>2, <1>3, <3>1
  <2> QED BY <1>2, <1>6, <2>1, <2>2
<1>8. i \in 0 .. j  BY <1>2, <1>5
<1> QED BY <1>1, <1>4, <1>7, <1>8 DEF i, j, S, ScntIxs

(***************************************************************************)
(* The loop.  k = call.left - left is the number of slots passed so far.   *)
(***************************************************************************)
Passed == call.left - left

LoopInv ==
  /\ Called /\ spc \in {"enter", "loop", "done"}
  /\ spc = "enter" => slot = call.slot /\ left = call.left
  /\ spc # "enter" =>
       /\ left \in Int /\ Passed \in Nat \ {0} /\ (Passed = 1 \/ left >= 0)
       /\ slot = Ahead(Passed)
       /\ left > 0 => ix = scnt_get_ix(slot)
       /\ \A j \in 1 .. (Passed - 1) : call.scnt[scnt_get_ix(Ahead(j))] = 0
  /\ spc = "done" => left <= 0 \/ call.scnt[scnt_get_ix(slot)] # 0

(* A call begins. *)
LEMMA LoopInit == ScanInit => LoopInv
<1> SUFFICES ASSUME ScanInit  PROVE LoopInv  OBVIOUS
<1>1. Max({SOON_WHEEL_SIZE, LATER_WHEEL_SIZE}) \in Nat  BY Borders, MaxPair
<1>2. Called  BY <1>1 DEF ScanInit, Called, size
<1> QED BY <1>2 DEF ScanInit, LoopInv

(* It goes to the next slot. *)
LEMMA EnterStep == ASSUME LoopInv, Enter  PROVE LoopInv'
<1>1. Called /\ slot = call.slot /\ left = call.left /\ spc' = "loop" /\ call' = call
  BY DEF LoopInv, Enter
<1>2. Called' /\ first_slot' = first_slot /\ end_slot' = end_slot
  BY <1>1 DEF Called, size, first_slot, end_slot
<1>3. left' = call.left - 1 /\ Passed' = 1 /\ call.left \in Nat
  BY <1>1 DEF Enter, Passed, Called
<1>4. Ahead(0) = call.slot
  <2> DEFINE x == call.slot - first_slot
  <2>1. /\ x \in 0 .. (size - 1) /\ x \in Int /\ size \in Nat /\ size > 0
        /\ call.slot \in Int /\ first_slot \in Int
    BY <1>1, Wheel
  <2> HIDE DEF x
  <2>4. x = 0 * size + x  BY <2>1
  <2>5. x % size = x  BY <2>1, <2>4, Division
  <2>2. (call.slot - first_slot) % size = call.slot - first_slot  BY <2>5 DEF x
  <2>3. call.slot - first_slot + 0 = call.slot - first_slot  BY <2>1
  <2> QED BY <2>1, <2>2, <2>3 DEF Ahead
<1>5. Ahead(0) + 1 <= end_slot  BY <1>1, <1>4, Wheel
<1>6. Ahead(1) = IF call.slot + 1 < end_slot THEN call.slot + 1 ELSE first_slot
  <2>1. Ahead(0 + 1) = IF Ahead(0) + 1 < end_slot THEN Ahead(0) + 1 ELSE first_slot
    BY <1>1, <1>5, AheadSteps
  <2> QED BY <1>4, <2>1
<1>7. slot' = Ahead(1)  BY <1>1, <1>6, Wheel DEF Enter
<1>8. Ahead(1)' = Ahead(1)  BY <1>1, <1>2 DEF Ahead, size
<1>9. ix' = scnt_get_ix(slot')  BY DEF Enter
<1>10. slot' = Ahead(Passed)'  BY <1>3, <1>7, <1>8 DEF Ahead
<1> QED BY <1>1, <1>2, <1>3, <1>9, <1>10 DEF LoopInv

(* It skips a range without timers. *)
LEMMA SkipStep == ASSUME LoopInv, Loop  PROVE LoopInv'
<1> DEFINE k == Passed
           edge == (ix + 1) * SCNT_SLOTS
           diff == Min({left, edge - slot})
<1>1. /\ Called /\ spc = "loop" /\ spc' = "loop" /\ call' = call
      /\ left \in Int /\ left > 0 /\ k \in Nat \ {0} /\ slot = Ahead(k) /\ ix = scnt_get_ix(slot)
      /\ call.scnt[ix] = 0 /\ call.left \in Nat
      /\ \A j \in 1 .. (k - 1) : call.scnt[scnt_get_ix(Ahead(j))] = 0
  BY DEF LoopInv, Loop, EmptyRange, Called
<1>2. /\ Called' /\ first_slot' = first_slot /\ end_slot' = end_slot /\ size' = size
      /\ \A j : Ahead(j)' = Ahead(j)
  BY <1>1 DEF Called, size, first_slot, end_slot, Ahead
<1>3. slot \in first_slot .. (end_slot - 1)
  <2>1. CASE Ahead(k) + 0 <= end_slot  BY <1>1, <2>1, AheadSteps
  <2>2. Ahead(k) <= end_slot  BY <1>1, Wheel DEF Ahead
  <2> QED BY <1>1, <2>1, <2>2, Wheel DEF Ahead
<1>4. /\ slot \in Nat /\ ix \in Nat /\ edge \in Nat /\ edge <= end_slot
      /\ ix * SCNT_SLOTS <= slot /\ slot < edge /\ SCNT_SLOTS \in Nat \ {0}
  BY <1>1, <1>3, Counted, SlotRange, Borders
<1> HIDE DEF edge
<1>5. /\ diff = (IF left <= edge - slot THEN left ELSE edge - slot)
      /\ diff \in Nat \ {0} /\ diff <= left /\ slot + diff <= edge
  BY <1>1, <1>4, MinPair
<1>6. IF slot + diff < end_slot
      THEN slot' = slot + diff /\ left' = left - diff /\ ix' = ix + 1
      ELSE slot' = first_slot /\ left' = left - (end_slot - slot) /\ ix' = scnt_get_ix(first_slot)
  BY DEF Loop, SkipRange, edge
<1> HIDE DEF diff, k
<1>7. left' = left - diff /\ slot' = (IF slot + diff < end_slot THEN slot + diff ELSE first_slot)
  BY <1>1, <1>3, <1>4, <1>5, <1>6, Wheel
<1>8. Passed' = k + diff /\ Passed' \in Nat \ {0} /\ left' \in Int /\ left' >= 0
  BY <1>1, <1>5, <1>7 DEF Passed, k
<1>9. slot' = Ahead(k + diff)
  <2>1. diff \in Nat /\ k \in Nat /\ Ahead(k) + diff <= end_slot
    BY <1>1, <1>3, <1>4, <1>5, Wheel
  <2>2. Ahead(k + diff) = IF Ahead(k) + diff < end_slot THEN Ahead(k) + diff ELSE first_slot
    BY <1>1, <2>1, AheadSteps
  <2> QED BY <1>1, <1>7, <2>2
<1>10. ASSUME left' > 0  PROVE ix' = scnt_get_ix(slot')
  <2>1. diff = edge - slot  BY <1>1, <1>4, <1>5, <1>7, <1>10
  <2>2. CASE slot + diff < end_slot
    <3>1. slot' = edge /\ ix' = ix + 1  BY <1>4, <1>5, <1>6, <2>1, <2>2
    <3>2. edge < (ix + 2) * SCNT_SLOTS /\ (ix + 1) * SCNT_SLOTS <= edge
      BY <1>4 DEF edge
    <3>3. ix + 1 \in Int /\ (ix + 1) + 1 = ix + 2  BY <1>4
    <3> QED BY <1>4, <3>1, <3>2, <3>3, RangeIs
  <2>3. CASE ~(slot + diff < end_slot)  BY <1>6, <1>7, <2>3
  <2> QED BY <2>2, <2>3
<1>11. ASSUME NEW j \in 1 .. (k + diff - 1)  PROVE call.scnt[scnt_get_ix(Ahead(j))] = 0
  <2>1. CASE j < k  BY <1>1, <1>5, <2>1
  <2>2. CASE j >= k
    <3>1. j - k \in Nat /\ slot + (j - k) < edge /\ k + (j - k) = j
      BY <1>1, <1>4, <1>5, <2>2
    <3>2. Ahead(k) + (j - k) <= end_slot /\ Ahead(k) + (j - k) < end_slot
      BY <1>1, <1>4, <3>1, Wheel
    <3>3. Ahead(k + (j - k)) = Ahead(k) + (j - k)  BY <1>1, <3>1, <3>2, AheadSteps
    <3>4. Ahead(j) = slot + (j - k)  BY <1>1, <3>1, <3>3
    <3>5. slot + (j - k) \in Nat /\ ix * SCNT_SLOTS <= slot + (j - k) /\ ix \in Int
      BY <1>4, <3>1
    <3>6. scnt_get_ix(slot + (j - k)) = ix  BY <3>1, <3>5, RangeIs DEF edge
    <3> QED BY <1>1, <3>4, <3>6
  <2> QED BY <1>1, <2>1, <2>2
<1>12. slot' = Ahead(Passed)'  BY <1>2, <1>8, <1>9 DEF Ahead
<1>13. \A j \in 1 .. (Passed' - 1) : call'.scnt[scnt_get_ix(Ahead(j)')] = 0
  <2>1. Passed' = k + diff  BY <1>8
  <2>2. \A j \in 1 .. (k + diff - 1) : call.scnt[scnt_get_ix(Ahead(j))] = 0  BY <1>11
  <2>3. \A j : Ahead(j)' = Ahead(j)  BY <1>2
  <2>4. ASSUME NEW j \in 1 .. (Passed' - 1)  PROVE call'.scnt[scnt_get_ix(Ahead(j)')] = 0
    <3>1. j \in 1 .. (k + diff - 1)  BY <1>1, <1>5, <2>1, <2>4
    <3>2. call.scnt[scnt_get_ix(Ahead(j))] = 0  BY <2>2, <3>1
    <3>3. Ahead(j)' = Ahead(j)  BY <2>3
    <3>4. call' = call  BY <1>1
    <3> QED BY <3>2, <3>3, <3>4, Zenon
  <2> QED BY <2>4
<1> QED BY <1>1, <1>2, <1>8, <1>10, <1>12, <1>13 DEF LoopInv

(* The invariant of the loop. *)
THEOREM ScanInvariant == ScanSpec => []LoopInv
<1>1. ASSUME LoopInv, [ScanNext]_scanVars  PROVE LoopInv'
  <2>1. CASE Enter  BY <1>1, <2>1, EnterStep
  <2>2. CASE Loop  BY <1>1, <2>2, SkipStep
  <2>3. CASE Return
    <3>1. LoopInv /\ call' = call /\ slot' = slot /\ left' = left /\ ix' = ix /\ spc' = "done"
          /\ spc = "loop" /\ (left <= 0 \/ call.scnt[ix] # 0)
      BY <1>1, <2>3 DEF Return, EmptyRange, LoopInv
    <3>2. left > 0 => ix = scnt_get_ix(slot)  BY <3>1 DEF LoopInv
    <3>3. left <= 0 \/ call.scnt[scnt_get_ix(slot)] # 0  BY <3>1, <3>2 DEF LoopInv
    <3>4. Called' /\ Passed' = Passed /\ \A j : Ahead(j)' = Ahead(j)
      BY <3>1 DEF LoopInv, Called, size, first_slot, end_slot, Passed, Ahead
    <3> QED BY <3>1, <3>3, <3>4 DEF LoopInv
  <2>4. CASE UNCHANGED scanVars
    <3>1. LoopInv /\ call' = call /\ slot' = slot /\ left' = left /\ ix' = ix /\ spc' = spc
      BY <1>1, <2>4 DEF scanVars
    <3>2. Called' = Called /\ Passed' = Passed /\ \A j : Ahead(j)' = Ahead(j)
      BY <3>1 DEF Called, size, first_slot, end_slot, Passed, Ahead
    <3> QED BY <3>1, <3>2 DEF LoopInv
  <2> QED BY <1>1, <2>1, <2>2, <2>3, <2>4 DEF ScanNext
<1> QED BY <1>1, LoopInit, PTL DEF ScanSpec

(* Whenever scnt[ix] decides whether the loop goes on, ix is the range of slot. *)
THEOREM RangeRead == ScanSpec => []RangeOfSlot
<1>1. LoopInv => RangeOfSlot  BY DEF LoopInv, RangeOfSlot
<1> QED BY <1>1, ScanInvariant, PTL

(* The search ends where the definition says. *)
LEMMA Found ==
  ASSUME LoopInv, spc = "done"
  PROVE  slot = Ahead(Passed)
         /\ Passed = Min({k \in 1 .. Max({1, call.left}) :
                            k >= call.left \/ call.scnt[scnt_get_ix(Ahead(k))] # 0})
<1> DEFINE top == Max({1, call.left})
           T == {k \in 1 .. top : k >= call.left \/ call.scnt[scnt_get_ix(Ahead(k))] # 0}
<1>1. /\ call.left \in Nat /\ left \in Int /\ Passed \in Nat \ {0} /\ (Passed = 1 \/ left >= 0)
      /\ left = call.left - Passed /\ slot = Ahead(Passed)
      /\ \A j \in 1 .. (Passed - 1) : call.scnt[scnt_get_ix(Ahead(j))] = 0
      /\ (left <= 0 \/ call.scnt[scnt_get_ix(Ahead(Passed))] # 0)
  BY DEF LoopInv, Called, Passed
<1>2. top = IF 1 >= call.left THEN 1 ELSE call.left  BY <1>1, MaxPair
<1> HIDE DEF top
<1>3. Passed \in 1 .. top  BY <1>1, <1>2
<1>4. Passed >= call.left \/ call.scnt[scnt_get_ix(Ahead(Passed))] # 0  BY <1>1
<1>5. Passed \in T  BY <1>3, <1>4
<1>6. ASSUME NEW x \in T  PROVE Passed <= x
  <2>1. x \in 1 .. top /\ (x >= call.left \/ call.scnt[scnt_get_ix(Ahead(x))] # 0)  BY <1>6
  <2>2. CASE x < Passed
    <3>1. call.scnt[scnt_get_ix(Ahead(x))] = 0  BY <1>1, <1>2, <2>1, <2>2
    <3>2. x >= call.left  BY <2>1, <3>1
    <3> QED BY <1>1, <1>2, <2>1, <2>2, <3>2
  <2> QED BY <1>1, <1>2, <2>1, <2>2
<1>7. T \in SUBSET Int  BY <1>1, <1>2
<1> HIDE DEF T
<1>8. Min(T) = Passed  BY <1>5, <1>6, <1>7, MinIs
<1> QED BY <1>1, <1>8 DEF T, top

(* scnt_wheel_next passes over no range with timers, in wheels and ranges of *)
(* every size. *)
THEOREM PassesNoTimer == ScanSpec => []FindsNextSlot
<1>1. ASSUME LoopInv, spc = "done"
      PROVE  LET nxt == scnt_wheel_next(call.slot, call.left, call.scnt)
             IN  slot = nxt.slot /\ left = nxt.left
  <2>1. first_slot = (IF IsSoon(call.slot) THEN 0 ELSE SOON_WHEEL_SIZE)
        /\ size = (IF IsSoon(call.slot) THEN SOON_WHEEL_SIZE ELSE LATER_WHEEL_SIZE)
    BY Borders DEF first_slot, end_slot, size, END_SLOT
  <2> DEFINE n == Min({k \in 1 .. Max({1, call.left}) :
                         k >= call.left \/ call.scnt[scnt_get_ix(Ahead(k))] # 0})
  <2>2. scnt_wheel_next(call.slot, call.left, call.scnt)
          = [slot |-> Ahead(n), left |-> call.left - n, steps |-> n]
    BY <2>1, Zenon DEF scnt_wheel_next, Ahead
  <2>3. Passed = n /\ slot = Ahead(Passed)  BY <1>1, Found
  <2> HIDE DEF n
  <2>4. left = call.left - Passed  BY <1>1 DEF LoopInv, Passed, Called
  <2> QED BY <2>2, <2>3, <2>4
<1>2. LoopInv => FindsNextSlot  BY <1>1 DEF FindsNextSlot
<1> QED BY <1>2, ScanInvariant, PTL

(***************************************************************************)
(* The instigations, for any descriptors and number of events per          *)
(* epoll_wait.  TiInv is inductive: what epoll reports fires its           *)
(* instigation because descriptors have one owner and an owner that fired  *)
(* has read its timerfd.                                                   *)
(***************************************************************************)
TiInv ==
  /\ TiTypeOK
  /\ FdsOwned
  /\ \A i \in Insts :
       inst[i].timer_fd # NoFd => (inst[i].fired <=> tfd[inst[i].timer_fd] = "idle")

(* The fields of an instigation. *)
LEMMA InstFields ==
  ASSUME TiTypeOK, NEW i \in Insts
  PROVE  inst[i].fired \in BOOLEAN /\ inst[i].timer_fd \in Fds \cup {NoFd}
  BY Zenon DEF TiTypeOK

(* A step that rewrites one instigation leaves the others and their fields alone. *)
LEMMA InstSet ==
  ASSUME TiTypeOK, NEW i \in Insts, NEW e \in BOOLEAN, NEW f \in Fds \cup {NoFd},
         inst' = [inst EXCEPT ![i] = [fired |-> e, timer_fd |-> f]]
  PROVE  /\ inst' \in [Insts -> [fired : BOOLEAN, timer_fd : Fds \cup {NoFd}]]
         /\ inst'[i].fired = e /\ inst'[i].timer_fd = f
         /\ \A j \in Insts \ {i} : inst'[j] = inst[j]
<1> DEFINE r == [fired |-> e, timer_fd |-> f]
<1>1. r \in [fired : BOOLEAN, timer_fd : Fds \cup {NoFd}] /\ r.fired = e /\ r.timer_fd = f
  OBVIOUS
<1>2. inst' = [inst EXCEPT ![i] = r]  OBVIOUS
<1> HIDE DEF r
<1> QED BY <1>1, <1>2 DEF TiTypeOK

(* Before any call no timerfd is open and no instigation has one. *)
LEMMA TiInvInit == TiInit => TiInv
<1> SUFFICES ASSUME TiInit PROVE TiInv  OBVIOUS
<1>1. \A i \in Insts : inst[i].fired = FALSE /\ inst[i].timer_fd = NoFd
  BY Zenon DEF TiInit
<1>2. inst \in [Insts -> [fired : BOOLEAN, timer_fd : Fds \cup {NoFd}]]
  BY Zenon DEF TiInit
<1>3. TiTypeOK  BY <1>2 DEF TiInit, TiTypeOK, NoInst
<1>4. FdsOwned  BY <1>1, FdAssumption DEF TiInit, FdsOwned, NoInst
<1> QED BY <1>1, <1>3, <1>4 DEF TiInv

(* fire, for any set of instigations: the ones that have an expired timerfd and
   have not fired read it and are fired; no other changes. *)
LEMMA FireInv ==
  ASSUME TiInv, NEW S \in SUBSET Insts, FireAll(S), UNCHANGED <<epoll, watch>>
  PROVE  TiInv'
<1> USE DEF TiInv
<1>1. /\ inst' \in [Insts -> [fired : BOOLEAN, timer_fd : Fds \cup {NoFd}]]
      /\ \A i \in Insts : /\ inst'[i].timer_fd = inst[i].timer_fd
                          /\ inst'[i].fired = (inst[i].fired \/ i \in Fires(S))
  <2> DEFINE r(i) == [inst[i] EXCEPT !.fired = inst[i].fired \/ i \in Fires(S)]
  <2>1. ASSUME NEW i \in Insts
        PROVE  /\ r(i) \in [fired : BOOLEAN, timer_fd : Fds \cup {NoFd}]
               /\ r(i).timer_fd = inst[i].timer_fd
               /\ r(i).fired = (inst[i].fired \/ i \in Fires(S))
    <3> DEFINE e == inst[i].fired \/ i \in Fires(S)
    <3>1. inst[i] \in [fired : BOOLEAN, timer_fd : Fds \cup {NoFd}] /\ e \in BOOLEAN
      BY Zenon DEF TiTypeOK
    <3>2. r(i) = [inst[i] EXCEPT !.fired = e]  OBVIOUS
    <3> HIDE DEF e, r
    <3>3. /\ r(i) \in [fired : BOOLEAN, timer_fd : Fds \cup {NoFd}]
          /\ r(i).timer_fd = inst[i].timer_fd
          /\ r(i).fired = e
      BY <3>1, <3>2, Zenon
    <3> QED BY <3>3, Zenon DEF e
  <2>2. inst' = [i \in Insts |-> r(i)]  BY Zenon DEF FireAll
  <2> HIDE DEF r
  <2> QED BY <2>1, <2>2, Zenon
<1>2. \A f \in Fds : tfd'[f] = IF tfd[f] = "expired" /\ \E i \in Fires(S) : inst[i].timer_fd = f
                               THEN "idle" ELSE tfd[f]
  BY Zenon DEF FireAll
<1>3. TiTypeOK'
  <2>1. tfd' \in [Fds -> {"free", "armed", "expired", "idle"}]
    BY DEF FireAll, TiTypeOK
  <2> QED BY <1>1, <2>1 DEF TiTypeOK
<1>4. \A f \in Fds : tfd'[f] # "free" <=> tfd[f] # "free"  BY <1>2
<1>5. FdsOwned'
  <2>1. \A f \in Fds : watch'[f] # NoInst => inst'[watch'[f]].timer_fd = f
    BY <1>1 DEF FdsOwned, TiTypeOK
  <2> QED BY <1>1, <1>4, <2>1 DEF FdsOwned
<1>6. ASSUME NEW i \in Insts, inst'[i].timer_fd # NoFd
      PROVE  inst'[i].fired <=> tfd'[inst'[i].timer_fd] = "idle"
  <2> DEFINE f == inst[i].timer_fd
  <2>1. f \in Fds /\ inst'[i].timer_fd = f  BY <1>1, <1>6, InstFields
  <2>2. \A j \in Fires(S) : inst[j].timer_fd = f => j = i
    BY <2>1, FdAssumption DEF Fires, FdsOwned
  <2>3. CASE i \in Fires(S)
    <3>1. tfd[f] = "expired"  BY <2>3 DEF Fires
    <3>2. tfd'[f] = "idle"  BY <1>2, <2>1, <2>3, <3>1
    <3>3. inst'[i].fired  BY <1>1, <2>3, Zenon
    <3> QED BY <2>1, <3>2, <3>3
  <2>4. CASE i \notin Fires(S)
    <3>1. inst'[i].fired = inst[i].fired  BY <1>1, <2>4, InstFields, Zenon
    <3>2. tfd'[f] = tfd[f]  BY <1>2, <2>1, <2>2, <2>4, Zenon
    <3>3. inst[i].fired <=> tfd[f] = "idle"  BY <2>1, FdAssumption, Zenon
    <3> QED BY <2>1, <3>1, <3>2, <3>3, Zenon
  <2> QED BY <2>3, <2>4
<1> QED BY <1>3, <1>5, <1>6

(* Each call, and an expiry, preserves the invariant. *)
LEMMA TiInvStep == TiInv /\ [TiNext]_tiVars => TiInv'
<1> SUFFICES ASSUME TiInv, [TiNext]_tiVars PROVE TiInv'  OBVIOUS
<1> USE DEF TiInv
<1>1. ASSUME pon_timer_init  PROVE TiInv'
  <2>1. epoll' \in BOOLEAN  BY <1>1 DEF pon_timer_init, TiTypeOK
  <2> QED BY <1>1, <2>1 DEF pon_timer_init, TiTypeOK, FdsOwned
<1>2. ASSUME pon_timer_destroy  PROVE TiInv'
  <2>1. TiTypeOK'  BY <1>2 DEF pon_timer_destroy, TiTypeOK
  <2>2. FdsOwned'  BY <1>2 DEF pon_timer_destroy, FdsOwned
  <2> QED BY <1>2, <2>1, <2>2 DEF pon_timer_destroy
<1>3. ASSUME NEW i \in Insts, ERTS_INIT_TIMER_INSTIGATION(i)  PROVE TiInv'
  <2> USE <1>3 DEF ERTS_INIT_TIMER_INSTIGATION
  <2>1. /\ inst' \in [Insts -> [fired : BOOLEAN, timer_fd : Fds \cup {NoFd}]]
        /\ inst'[i].timer_fd = NoFd
        /\ \A j \in Insts \ {i} : inst'[j] = inst[j]
    BY InstSet
  <2>2. TiTypeOK'  BY <2>1 DEF TiTypeOK
  <2>3. \A j \in Insts : inst'[j].timer_fd = inst[j].timer_fd  BY <2>1
  <2>4. FdsOwned'  BY <2>3 DEF FdsOwned, TiTypeOK
  <2> QED BY <2>1, <2>2, <2>4
<1>4. ASSUME NEW i \in Insts, pon_timer_instigation_create(i)  PROVE TiInv'
  <2> USE <1>4 DEF pon_timer_instigation_create
  <2>1. PICK f \in Fds :
          /\ tfd[f] = "free" /\ tfd' = [tfd EXCEPT ![f] = "armed"]
          /\ inst' = [inst EXCEPT ![i].timer_fd = f]
          /\ watch' = [watch EXCEPT ![f] = IF epoll THEN i ELSE NoInst]
    OBVIOUS
  <2>2. inst[i] = [fired |-> FALSE, timer_fd |-> NoFd]  BY DEF Prepared
  <2>3. /\ inst' \in [Insts -> [fired : BOOLEAN, timer_fd : Fds \cup {NoFd}]]
        /\ inst'[i].fired = inst[i].fired /\ inst'[i].timer_fd = f
        /\ \A j \in Insts \ {i} : inst'[j] = inst[j]
    <3> DEFINE r == [inst[i] EXCEPT !.timer_fd = f]
    <3>1. inst[i] \in [fired : BOOLEAN, timer_fd : Fds \cup {NoFd}]
      BY Zenon DEF TiTypeOK
    <3>2. /\ r \in [fired : BOOLEAN, timer_fd : Fds \cup {NoFd}]
          /\ r.fired = inst[i].fired /\ r.timer_fd = f
      BY <3>1, Zenon
    <3>3. inst' = [inst EXCEPT ![i] = r]  BY <2>1, Zenon
    <3> HIDE DEF r
    <3> QED BY <3>2, <3>3 DEF TiTypeOK
  <2>4. /\ inst' \in [Insts -> [fired : BOOLEAN, timer_fd : Fds \cup {NoFd}]]
        /\ inst'[i].fired = FALSE /\ inst'[i].timer_fd = f
        /\ \A j \in Insts \ {i} : inst'[j] = inst[j]
    BY <2>2, <2>3
  <2>5. inst[i].timer_fd = NoFd  BY <2>2
  <2>6. \A j \in Insts : inst[j].timer_fd # f  BY <2>1 DEF FdsOwned
  <2>7. /\ \A g \in Fds : tfd'[g] = IF g = f THEN "armed" ELSE tfd[g]
        /\ \A g \in Fds : watch'[g] = IF g = f THEN IF epoll THEN i ELSE NoInst
                                      ELSE watch[g]
    BY <2>1 DEF TiTypeOK
  <2>8. TiTypeOK'
    <3>1. tfd' \in [Fds -> {"free", "armed", "expired", "idle"}]
      BY <2>1 DEF TiTypeOK
    <3>2. watch' \in [Fds -> Insts \cup {NoInst}]  BY <2>1 DEF TiTypeOK
    <3> QED BY <2>4, <3>1, <3>2 DEF TiTypeOK
  <2>9. FdsOwned'
    <3>1. ASSUME NEW g \in Fds
          PROVE  tfd'[g] # "free" <=> \E j \in Insts : inst'[j].timer_fd = g
      <4>1. CASE g = f  BY <2>4, <2>7, <4>1
      <4>2. CASE g # f
        <5>1. (\E j \in Insts : inst'[j].timer_fd = g) <=> \E j \in Insts : inst[j].timer_fd = g
          BY <2>4, <2>5, <4>2, FdAssumption
        <5> QED BY <2>7, <4>2, <5>1 DEF FdsOwned
      <4> QED BY <4>1, <4>2
    <3>2. ASSUME NEW j \in Insts, NEW k \in Insts, inst'[j].timer_fd # NoFd,
                 inst'[j].timer_fd = inst'[k].timer_fd
          PROVE  j = k
      BY <2>4, <2>6, <3>2 DEF FdsOwned
    <3>3. ASSUME NEW g \in Fds, watch'[g] # NoInst  PROVE inst'[watch'[g]].timer_fd = g
      <4>1. CASE g = f  BY <2>4, <2>7, <3>3, <4>1
      <4>2. CASE g # f
        <5>1. watch'[g] = watch[g] /\ watch[g] \in Insts /\ inst[watch[g]].timer_fd = g
          BY <2>7, <3>3, <4>2 DEF FdsOwned, TiTypeOK
        <5>2. watch[g] # i  BY <2>5, <5>1, FdAssumption
        <5> QED BY <2>4, <5>1, <5>2
      <4> QED BY <4>1, <4>2
    <3> QED BY <3>1, <3>2, <3>3 DEF FdsOwned
  <2>10. ASSUME NEW j \in Insts, inst'[j].timer_fd # NoFd
         PROVE  inst'[j].fired <=> tfd'[inst'[j].timer_fd] = "idle"
    <3>1. CASE j = i  BY <2>4, <2>7, <3>1
    <3>2. CASE j # i
      <4>1. inst'[j] = inst[j] /\ inst[j].timer_fd \in Fds /\ inst[j].timer_fd # f
        BY <2>4, <2>6, <2>10, <3>2, InstFields
      <4>2. tfd'[inst[j].timer_fd] = tfd[inst[j].timer_fd]  BY <2>7, <4>1
      <4>3. inst[j].fired <=> tfd[inst[j].timer_fd] = "idle"  BY <4>1, FdAssumption
      <4> QED BY <4>1, <4>2, <4>3
    <3> QED BY <3>1, <3>2
  <2> QED BY <2>8, <2>9, <2>10
<1>5. ASSUME NEW i \in Insts, CreateFails(i)  PROVE TiInv'
  <2>1. ASSUME NEW f \in Fds, NEW how, tfd[f] = "free",
               tfd' = Closed([tfd EXCEPT ![f] = how], f)
        PROVE  tfd' = tfd
    BY <2>1 DEF Closed, TiTypeOK
  <2>2. UNCHANGED tiVars
    <3>1. CASE NotCreated(i)  BY <3>1 DEF NotCreated
    <3>2. CASE NotArmed(i)  BY <2>1, <3>2 DEF NotArmed, tiVars
    <3>3. CASE NotWatched(i)  BY <2>1, <3>3 DEF NotWatched, tiVars
    <3> QED BY <1>5, <3>1, <3>2, <3>3 DEF CreateFails
  <2> QED BY <2>2 DEF tiVars, TiTypeOK, FdsOwned
<1>6. ASSUME NEW i \in Insts, pon_timer_instigation_cancel(i)  PROVE TiInv'
  <2> DEFINE f == inst[i].timer_fd
  <2>1. /\ f # NoFd /\ tfd' = [tfd EXCEPT ![f] = "free"]
        /\ watch' = [watch EXCEPT ![f] = NoInst]
        /\ inst' = [inst EXCEPT ![i] = [fired |-> TRUE, timer_fd |-> NoFd]]
        /\ UNCHANGED epoll
    BY <1>6 DEF pon_timer_instigation_cancel, Closed
  <2>2. f \in Fds  BY <2>1, InstFields
  <2>3. /\ inst' \in [Insts -> [fired : BOOLEAN, timer_fd : Fds \cup {NoFd}]]
        /\ inst'[i].timer_fd = NoFd
        /\ \A j \in Insts \ {i} : inst'[j] = inst[j]
    BY <2>1, InstSet, Zenon
  <2>4. \A j \in Insts \ {i} : inst[j].timer_fd # f  BY <2>1 DEF FdsOwned
  <2>5. inst[i].timer_fd = f  OBVIOUS
  <2> HIDE DEF f
  <2>6. /\ \A g \in Fds : tfd'[g] = IF g = f THEN "free" ELSE tfd[g]
        /\ \A g \in Fds : watch'[g] = IF g = f THEN NoInst ELSE watch[g]
    BY <2>1 DEF TiTypeOK
  <2>7. TiTypeOK'
    <3>1. tfd' \in [Fds -> {"free", "armed", "expired", "idle"}]
      BY <2>1 DEF TiTypeOK
    <3>2. watch' \in [Fds -> Insts \cup {NoInst}]  BY <2>1 DEF TiTypeOK
    <3> QED BY <2>1, <2>3, <3>1, <3>2 DEF TiTypeOK
  <2>8. FdsOwned'
    <3>1. ASSUME NEW g \in Fds
          PROVE  tfd'[g] # "free" <=> \E j \in Insts : inst'[j].timer_fd = g
      <4>1. CASE g = f  BY <2>2, <2>3, <2>4, <2>6, <4>1, FdAssumption
      <4>2. CASE g # f
        <5>1. (\E j \in Insts : inst'[j].timer_fd = g) <=> \E j \in Insts : inst[j].timer_fd = g
          BY <2>3, <2>5, <4>2, FdAssumption
        <5> QED BY <2>6, <4>2, <5>1 DEF FdsOwned
      <4> QED BY <4>1, <4>2
    <3>2. ASSUME NEW j \in Insts, NEW k \in Insts, inst'[j].timer_fd # NoFd,
                 inst'[j].timer_fd = inst'[k].timer_fd
          PROVE  j = k
      BY <2>3, <3>2 DEF FdsOwned
    <3>3. ASSUME NEW g \in Fds, watch'[g] # NoInst  PROVE inst'[watch'[g]].timer_fd = g
      <4>1. g # f /\ watch'[g] = watch[g] /\ watch[g] \in Insts /\ inst[watch[g]].timer_fd = g
        BY <2>6, <3>3 DEF FdsOwned, TiTypeOK
      <4>2. watch[g] # i  BY <2>5, <4>1
      <4> QED BY <2>3, <4>1, <4>2
    <3> QED BY <3>1, <3>2, <3>3 DEF FdsOwned
  <2>9. ASSUME NEW j \in Insts, inst'[j].timer_fd # NoFd
        PROVE  inst'[j].fired <=> tfd'[inst'[j].timer_fd] = "idle"
    <3>1. /\ j # i /\ inst'[j] = inst[j]
          /\ inst[j].timer_fd \in Fds /\ inst[j].timer_fd # f
      BY <2>3, <2>4, <2>9, InstFields
    <3> QED BY <2>6, <2>9, <3>1
  <2> QED BY <2>7, <2>8, <2>9
<1>7. ASSUME NEW i \in Insts, pon_timer_instigation_fire(i)  PROVE TiInv'
  BY <1>7, FireInv DEF pon_timer_instigation_fire
<1>8. ASSUME pon_timer_process_expirations  PROVE TiInv'
  <2>1. PICK events \in SUBSET Fds : TiEpollWait(events) /\ FireAll({watch[f] : f \in events})
    BY <1>8 DEF pon_timer_process_expirations
  <2>2. events \subseteq Readable  BY <2>1 DEF TiEpollWait
  <2>3. {watch[f] : f \in events} \in SUBSET Insts  BY <2>2 DEF Readable, TiTypeOK
  <2>4. UNCHANGED <<epoll, watch>>  BY <1>8 DEF pon_timer_process_expirations
  <2> QED BY <2>1, <2>3, <2>4, FireInv
<1>9. ASSUME NEW f \in Fds, Expire(f)  PROVE TiInv'
  <2>1. /\ tfd[f] = "armed" /\ tfd' = [tfd EXCEPT ![f] = "expired"]
        /\ UNCHANGED <<inst, epoll, watch>>
    BY <1>9 DEF Expire
  <2>2. \A g \in Fds : tfd'[g] = IF g = f THEN "expired" ELSE tfd[g]
    BY <2>1 DEF TiTypeOK
  <2>3. TiTypeOK'  BY <2>1 DEF TiTypeOK
  <2>4. FdsOwned'  BY <2>1, <2>2 DEF FdsOwned
  <2>5. ASSUME NEW j \in Insts, inst[j].timer_fd # NoFd
        PROVE  inst[j].fired <=> tfd'[inst[j].timer_fd] = "idle"
    <3>1. inst[j].timer_fd \in Fds  BY <2>5, InstFields
    <3> QED BY <2>1, <2>2, <2>5, <3>1
  <2> QED BY <2>1, <2>3, <2>4, <2>5
<1>10. CASE UNCHANGED tiVars
  BY <1>10 DEF tiVars, TiTypeOK, FdsOwned
<1> QED
  BY <1>1, <1>2, <1>3, <1>4, <1>5, <1>6, <1>7, <1>8, <1>9, <1>10 DEF TiNext

(* TiInv holds throughout. *)
LEMMA TiInvHolds == TiSpec => []TiInv
  BY TiInvInit, TiInvStep, PTL DEF TiSpec

(* The timerfds of pon_timer.c: each open one has one owner, also after a create
   that fails half-way, and what epoll reports for it is that owner. *)
THEOREM EachFdOwned == TiSpec => [](TiTypeOK /\ FdsOwned)
<1>1. TiInv => TiTypeOK /\ FdsOwned  BY DEF TiInv
<1> QED BY <1>1, TiInvHolds, PTL

(* process_expirations fires an instigation exactly when it reads its timerfd,
   however many there are for one epoll_wait: what is reported later still fires. *)
THEOREM FiredExactlyWhenRead == TiSpec => []FiredWhenRead
<1>1. TiInv => FiredWhenRead
  <2> SUFFICES ASSUME TiInv PROVE FiredWhenRead  OBVIOUS
  <2>1. ASSUME NEW f \in Readable  PROVE watch[f] \in Fires({watch[f]})
    <3> DEFINE i == watch[f]
    <3>1. f \in Fds /\ i \in Insts /\ tfd[f] = "expired" /\ inst[i].timer_fd = f
      BY DEF Readable, TiInv, TiTypeOK, FdsOwned
    <3>2. f # NoFd  BY <3>1, FdAssumption
    <3>3. inst[i].fired <=> tfd[f] = "idle"  BY <3>1, <3>2 DEF TiInv
    <3>4. ~inst[i].fired  BY <3>1, <3>3
    <3> QED BY <3>1, <3>2, <3>4 DEF Fires
  <2> QED BY <2>1 DEF TiInv, FiredWhenRead
<1> QED BY <1>1, TiInvHolds, PTL

(***************************************************************************)
(* The registry of ETS watchers, for any tables, keys, processes, number   *)
(* of buckets and hash.  EtsInv is inductive: the count is right only      *)
(* because no watcher is linked twice, and a sweep returns the right       *)
(* number only because it leaves nothing behind it.                        *)
(***************************************************************************)
EtsInv ==
  /\ EtsTypeOK
  /\ LinkedOnce
  /\ IsFiniteSet(Registered)
  /\ CountExact
  /\ SweptClean

(* A watcher can be registered only in the list that its hash selects. *)
LEMMA InOwnList ==
  ASSUME LinkedOnce, NEW w \in Registered
  PROVE  BucketOf(w) \in Buckets /\ w \in Range(buckets[BucketOf(w)])
<1>1. PICK b \in Buckets : w \in Range(buckets[b])  BY DEF Registered
<1>2. BucketOf(w) = b  BY <1>1 DEF LinkedOnce
<1> QED BY <1>1, <1>2

(* The lists after one watcher has been put in front of its list. *)
LEMMA LinkList ==
  ASSUME EtsTypeOK, LinkedOnce, NEW w \in Watcher,
         \A i \in 1..Len(buckets[BucketOf(w)]) : buckets[BucketOf(w)][i] # w,
         buckets' = [buckets EXCEPT ![BucketOf(w)] = <<w>> \o @]
  PROVE  /\ buckets' \in [Buckets -> Seq(Watcher)]
         /\ LinkedOnce'
         /\ w \notin Registered
         /\ Registered' = Registered \cup {w}
<1> DEFINE b == BucketOf(w)  s == buckets[b]
<1>1. b \in Buckets  BY BucketAssumption DEF BucketOf, Watcher
<1>2. buckets \in [Buckets -> Seq(Watcher)] /\ s \in Seq(Watcher)
  BY <1>1 DEF EtsTypeOK
<1>3. w \notin Range(s)  BY <1>2 DEF Range
<1>4. w \notin Registered  BY <1>3, InOwnList
<1>5. /\ <<w>> \o s \in Seq(Watcher) /\ Range(<<w>> \o s) = {w} \cup Range(s)
      /\ IsInjective(<<w>> \o s)
  BY <1>1, <1>2, <1>3, ConsSeq, ConsInjective DEF LinkedOnce
<1>6. /\ buckets' \in [Buckets -> Seq(Watcher)] /\ buckets'[b] = <<w>> \o s
      /\ \A c \in Buckets \ {b} : buckets'[c] = buckets[c]
  BY <1>1, <1>2, <1>5
<1> HIDE DEF b, s
<1>7. LinkedOnce'
  <2> SUFFICES ASSUME NEW c \in Buckets
               PROVE  /\ IsInjective(buckets'[c])
                      /\ \A x \in Range(buckets'[c]) : BucketOf(x) = c
    BY DEF LinkedOnce, BucketOf
  <2>1. CASE c = b  BY <1>1, <1>5, <1>6, <2>1 DEF LinkedOnce, b, s
  <2>2. CASE c # b  BY <1>6, <2>2 DEF LinkedOnce
  <2> QED BY <2>1, <2>2
<1>8. Registered' = Registered \cup {w}
  <2>1. \A c \in Buckets : Range(buckets'[c]) \subseteq Registered \cup {w}
    BY <1>1, <1>5, <1>6 DEF Registered, s
  <2>2. \A c \in Buckets : Range(buckets[c]) \subseteq Range(buckets'[c])
    BY <1>1, <1>5, <1>6 DEF s
  <2>3. w \in Range(buckets'[b])  BY <1>5, <1>6
  <2> QED BY <1>1, <2>1, <2>2, <2>3 DEF Registered
<1> QED BY <1>4, <1>6, <1>7, <1>8

(* The lists after the i-th watcher of list b has been unlinked. *)
LEMMA UnlinkList ==
  ASSUME EtsTypeOK, LinkedOnce, NEW b \in Buckets, NEW i \in 1..Len(buckets[b]),
         buckets' = [buckets EXCEPT ![b] = Unlink(buckets[b], i)]
  PROVE  /\ buckets' \in [Buckets -> Seq(Watcher)]
         /\ LinkedOnce'
         /\ buckets[b][i] \in Registered
         /\ Registered' = Registered \ {buckets[b][i]}
         /\ \A c \in Buckets \ {b} : buckets'[c] = buckets[c]
         /\ Len(buckets'[b]) = Len(buckets[b]) - 1
         /\ \A j \in 1..Len(buckets'[b]) :
              buckets'[b][j] = IF j < i THEN buckets[b][j] ELSE buckets[b][j + 1]
<1> DEFINE s == buckets[b]  w == s[i]  t == Unlink(s, i)
<1>1. buckets \in [Buckets -> Seq(Watcher)] /\ s \in Seq(Watcher)  BY DEF EtsTypeOK
<1>2. IsInjective(s) /\ \A x \in Range(s) : BucketOf(x) = b  BY DEF LinkedOnce
<1>3. /\ t \in Seq(Watcher) /\ Len(t) = Len(s) - 1
      /\ \A j \in 1..Len(t) : t[j] = IF j < i THEN s[j] ELSE s[j + 1]
      /\ IsInjective(t) /\ Range(t) = Range(s) \ {w}
  BY <1>1, <1>2, UnlinkSeq
<1>4. /\ buckets' \in [Buckets -> Seq(Watcher)] /\ buckets'[b] = t
      /\ \A c \in Buckets \ {b} : buckets'[c] = buckets[c]
  BY <1>1, <1>3
<1>5. w \in Range(s)  BY <1>1 DEF Range
<1> HIDE DEF s, t, w
<1>6. LinkedOnce'
  <2> SUFFICES ASSUME NEW c \in Buckets
               PROVE  /\ IsInjective(buckets'[c])
                      /\ \A x \in Range(buckets'[c]) : BucketOf(x) = c
    BY DEF LinkedOnce, BucketOf
  <2>1. CASE c = b  BY <1>2, <1>3, <1>4, <2>1
  <2>2. CASE c # b  BY <1>4, <2>2 DEF LinkedOnce
  <2> QED BY <2>1, <2>2
<1>7. \A c \in Buckets \ {b} : w \notin Range(buckets[c])
  BY <1>2, <1>5 DEF LinkedOnce
<1>8. Registered' = Registered \ {w}
  <2>1. \A c \in Buckets : Range(buckets'[c]) = Range(buckets[c]) \ {w}
    BY <1>3, <1>4, <1>7 DEF s
  <2> QED BY <2>1 DEF Registered
<1>9. w \in Registered  BY <1>5 DEF Registered, s
<1> QED BY <1>3, <1>4, <1>6, <1>8, <1>9 DEF s, t, w

(* What a sweep finds in the registry: its own position, and that it is not the *)
(* state outside of a sweep. *)
LEMMA SweepFields ==
  ASSUME EtsTypeOK
  PROVE  /\ Sweeping => sweep \in SweepType
         /\ ~Sweeping => sweep = NoSweep
         /\ \A x \in SweepType : x # NoSweep
<1>1. \A x \in SweepType : x.bucket # -1  BY DEF SweepType, Buckets
<1>2. NoSweep.bucket = -1  BY DEF NoSweep
<1> QED BY <1>1, <1>2 DEF EtsTypeOK, Sweeping

(* No watcher is registered at first. *)
LEMMA EtsInvInit == EtsInit => EtsInv
<1> SUFFICES ASSUME EtsInit  PROVE EtsInv  OBVIOUS
<1> USE DEF EtsInit
<1>1. Registered = {}  BY EmptyHasNone DEF Registered
<1>2. IsFiniteSet(Registered) /\ Cardinality(Registered) = 0
  BY <1>1, FS_EmptySet
<1>3. EtsTypeOK
  BY DEF EtsTypeOK, Sweeping
<1>4. LinkedOnce  BY EmptyHasNone DEF LinkedOnce
<1>5. CountExact  BY <1>2 DEF CountExact, NoSweep
<1>6. SweptClean  BY DEF SweptClean, Sweeping
<1> QED BY <1>2, <1>3, <1>4, <1>5, <1>6 DEF EtsInv

(* Every step of the registry preserves the invariant. *)
LEMMA EtsInvStep == EtsInv /\ [EtsNext]_etsVars => EtsInv'
<1> SUFFICES ASSUME EtsInv, [EtsNext]_etsVars  PROVE EtsInv'  OBVIOUS
<1> USE DEF EtsInv
<1>0. Cardinality(Registered) \in Nat  BY FS_CardinalityType
<1>1. ASSUME NEW w \in Watcher, ~Sweeping, pon_ets_watcher_add(w)  PROVE EtsInv'
  <2> USE <1>1
  <2>1. sweep' = sweep /\ sweep = NoSweep /\ sweep.removed = 0
    BY DEF pon_ets_watcher_add, Sweeping, NoSweep
  <2>2. CASE ret' = 0
    <3>1. /\ \A i \in 1..Len(buckets[BucketOf(w)]) : buckets[BucketOf(w)][i] # w
          /\ buckets' = [buckets EXCEPT ![BucketOf(w)] = <<w>> \o @]
          /\ count' = count + 1
      BY <2>2 DEF pon_ets_watcher_add
    <3>2. /\ buckets' \in [Buckets -> Seq(Watcher)] /\ LinkedOnce'
          /\ w \notin Registered /\ Registered' = Registered \cup {w}
      BY <3>1, LinkList
    <3>3. /\ IsFiniteSet(Registered')
          /\ Cardinality(Registered') = Cardinality(Registered) + 1
      BY <3>2, FS_AddElement
    <3>4. EtsTypeOK'  BY <2>1, <2>2, <3>1, <3>2 DEF EtsTypeOK, Sweeping
    <3>5. CountExact'  BY <1>0, <2>1, <3>1, <3>3 DEF CountExact
    <3>6. SweptClean'  BY <2>1 DEF SweptClean, Sweeping
    <3> QED BY <3>2, <3>3, <3>4, <3>5, <3>6
  <2>3. CASE ret' # 0
    <3>1. UNCHANGED <<buckets, count>> /\ ret' = -1  BY <2>3 DEF pon_ets_watcher_add
    <3> QED BY <2>1, <3>1
         DEF EtsTypeOK, Sweeping, LinkedOnce, Registered, CountExact, SweptClean, BucketOf
  <2> QED BY <2>2, <2>3
<1>2. ASSUME NEW w \in Watcher, ~Sweeping, pon_ets_watcher_remove(w)  PROVE EtsInv'
  <2> USE <1>2
  <2>1. sweep' = sweep /\ sweep = NoSweep /\ sweep.removed = 0
    BY DEF pon_ets_watcher_remove, Sweeping, NoSweep
  <2>2. CASE ret' = 0
    <3> DEFINE b == BucketOf(w)
    <3>1. PICK i \in 1..Len(buckets[b]) :
            /\ buckets[b][i] = w
            /\ buckets' = [buckets EXCEPT ![b] = Unlink(buckets[b], i)]
            /\ count' = count - 1
      BY <2>2 DEF pon_ets_watcher_remove
    <3>2. b \in Buckets  BY BucketAssumption DEF BucketOf, Watcher
    <3> HIDE DEF b
    <3>3. /\ buckets' \in [Buckets -> Seq(Watcher)] /\ LinkedOnce'
          /\ w \in Registered /\ Registered' = Registered \ {w}
      BY <3>1, <3>2, UnlinkList
    <3>4. /\ IsFiniteSet(Registered')
          /\ Cardinality(Registered') = Cardinality(Registered) - 1
      BY <3>3, FS_RemoveElement
    <3>5. Cardinality(Registered') \in Nat  BY <3>4, FS_CardinalityType
    <3>6. CountExact' /\ count' \in Nat
      BY <1>0, <2>1, <3>1, <3>4, <3>5 DEF CountExact
    <3>7. EtsTypeOK'  BY <2>1, <2>2, <3>3, <3>6 DEF EtsTypeOK, Sweeping
    <3>8. SweptClean'  BY <2>1 DEF SweptClean, Sweeping
    <3> QED BY <3>3, <3>4, <3>6, <3>7, <3>8
  <2>3. CASE ret' # 0
    <3>1. UNCHANGED <<buckets, count>> /\ ret' = -1
      BY <2>3 DEF pon_ets_watcher_remove
    <3> QED BY <2>1, <3>1
         DEF EtsTypeOK, Sweeping, LinkedOnce, Registered, CountExact, SweptClean, BucketOf
  <2> QED BY <2>2, <2>3
<1>3. ASSUME NEW t \in Tables, NEW k \in Keys, ~Sweeping, pon_ets_watcher_notify(t, k)
      PROVE  EtsInv'
  <2> DEFINE s == buckets[pon_ets_watcher_bucket[<<t, k>>]]
             hits == {i \in 1..Len(s) : s[i].table = t /\ s[i].key = k}
  <2>1. s \in Seq(Watcher)  BY BucketAssumption DEF EtsTypeOK
  <2>2. Len(s) \in Nat  BY <2>1
  <2> HIDE DEF s
  <2>3. IsFiniteSet(hits)
    <3>1. IsFiniteSet(1..Len(s))  BY <2>2, FS_Interval
    <3>2. hits \subseteq 1..Len(s)  OBVIOUS
    <3> HIDE DEF hits
    <3> QED BY <3>1, <3>2, FS_Subset
  <2>4. Cardinality(hits) \in Nat  BY <2>3, FS_CardinalityType
  <2>5. UNCHANGED <<buckets, count, sweep>> /\ ret' = Cardinality(hits)
    BY <1>3 DEF pon_ets_watcher_notify, s
  <2> QED BY <2>4, <2>5
       DEF EtsTypeOK, Sweeping, LinkedOnce, Registered, CountExact, SweptClean, BucketOf
<1>4. ASSUME NEW p \in Processes, ~Sweeping, pon_ets_watcher_remove_process(p)
      PROVE  EtsInv'
  <2>1. sweep.removed = 0  BY <1>4 DEF Sweeping, NoSweep
  <2>2. /\ sweep' \in SweepType /\ sweep'.removed = 0 /\ sweep'.bucket = 0
        /\ sweep'.at = 1
        /\ UNCHANGED <<buckets, count, ret>>
    BY <1>4, BucketAssumption
    DEF pon_ets_watcher_remove_process, SweepType, Buckets
  <2>3. \A b \in Buckets : Len(buckets[b]) \in Nat  BY DEF EtsTypeOK
  <2>4. 0 \in Buckets  BY BucketAssumption DEF Buckets
  <2>5. EtsTypeOK'  BY <2>2, <2>3, <2>4 DEF EtsTypeOK
  <2>6. LinkedOnce' /\ IsFiniteSet(Registered')
    BY <2>2 DEF LinkedOnce, Registered, BucketOf
  <2>7. CountExact'  BY <2>1, <2>2 DEF CountExact, Registered
  <2>8. SweptClean'
    <3>1. \A b \in Buckets : ~(b < 0)  BY DEF Buckets
    <3>2. \A b \in Buckets : \A i \in 1..Len(buckets[b]) : ~(i < 1)  BY <2>3
    <3> QED BY <2>2, <3>1, <3>2 DEF SweptClean
  <2> QED BY <2>5, <2>6, <2>7, <2>8
<1>5. ASSUME Sweeping, SweepUnlink  PROVE EtsInv'
  <2> DEFINE b == sweep.bucket  i == sweep.at  w == buckets[b][i]
  <2>1. sweep \in SweepType  BY <1>5, SweepFields
  <2>2. /\ b \in Buckets /\ i \in Nat \ {0} /\ sweep.removed \in Nat
        /\ Len(buckets[b]) \in Nat
    BY <2>1 DEF SweepType, EtsTypeOK
  <2>3. /\ i \in 1..Len(buckets[b]) /\ w.process = sweep.process
        /\ buckets' = [buckets EXCEPT ![b] = Unlink(buckets[b], i)]
        /\ sweep' = [sweep EXCEPT !.removed = @ + 1]
        /\ UNCHANGED <<count, ret>>
    BY <1>5, <2>2 DEF SweepUnlink
  <2>4. /\ sweep' \in SweepType /\ sweep'.removed = sweep.removed + 1
        /\ sweep'.bucket = b /\ sweep'.at = i /\ sweep'.process = sweep.process
    BY <2>1, <2>3 DEF SweepType
  <2> HIDE DEF b, i, w
  <2>5. /\ buckets' \in [Buckets -> Seq(Watcher)] /\ LinkedOnce'
        /\ w \in Registered /\ Registered' = Registered \ {w}
        /\ \A c \in Buckets \ {b} : buckets'[c] = buckets[c]
        /\ Len(buckets'[b]) = Len(buckets[b]) - 1
        /\ \A j \in 1..Len(buckets'[b]) :
             buckets'[b][j] = IF j < i THEN buckets[b][j] ELSE buckets[b][j + 1]
    BY <2>2, <2>3, UnlinkList DEF w
  <2>6. /\ IsFiniteSet(Registered')
        /\ Cardinality(Registered') = Cardinality(Registered) - 1
    BY <2>5, FS_RemoveElement
  <2>7. CountExact'
    <3>1. count = Cardinality(Registered) + sweep.removed  BY DEF CountExact
    <3>2. count' = Cardinality(Registered') + sweep'.removed
      BY <1>0, <2>2, <2>3, <2>4, <2>6, <3>1
    <3> QED BY <3>2 DEF CountExact
  <2>8. EtsTypeOK'  BY <2>2, <2>3, <2>4, <2>5 DEF EtsTypeOK
  <2>9. SweptClean'
    <3> SUFFICES ASSUME NEW c \in Buckets, NEW j \in 1..Len(buckets'[c]),
                        c < b \/ (c = b /\ j < i)
                 PROVE  buckets'[c][j].process # sweep.process
      BY <2>4 DEF SweptClean
    <3>1. CASE c # b
      BY <1>5, <2>5, <3>1 DEF SweptClean, b
    <3>2. CASE c = b
      <4>1. ~(c < b)  BY <2>2, <3>2 DEF Buckets
      <4>2. j < i /\ j \in 1..Len(buckets[b])  BY <2>2, <2>5, <3>2, <4>1
      <4>3. buckets'[c][j] = buckets[b][j]  BY <2>5, <3>2, <4>2
      <4> QED BY <1>5, <2>2, <4>2, <4>3 DEF SweptClean, b, i
    <3> QED BY <3>1, <3>2
  <2> QED BY <2>5, <2>6, <2>7, <2>8, <2>9
<1>6. ASSUME Sweeping, SweepNext  PROVE EtsInv'
  <2>1. sweep \in SweepType  BY <1>6, SweepFields
  <2>2. /\ sweep.bucket \in Buckets /\ sweep.at \in Nat \ {0}
        /\ Len(buckets[sweep.bucket]) \in Nat
    BY <2>1 DEF SweepType, EtsTypeOK
  <2>3. /\ sweep.at <= Len(buckets[sweep.bucket])
        /\ buckets[sweep.bucket][sweep.at].process # sweep.process
        /\ sweep' = [sweep EXCEPT !.at = @ + 1]
        /\ UNCHANGED <<buckets, count, ret>>
    BY <1>6 DEF SweepNext
  <2>4. /\ sweep' \in SweepType /\ sweep'.removed = sweep.removed
        /\ sweep'.bucket = sweep.bucket /\ sweep'.at = sweep.at + 1
        /\ sweep'.process = sweep.process
    BY <2>1, <2>3 DEF SweepType
  <2>5. EtsTypeOK'  BY <2>2, <2>3, <2>4 DEF EtsTypeOK
  <2>6. LinkedOnce' /\ IsFiniteSet(Registered')
    BY <2>3 DEF LinkedOnce, Registered, BucketOf
  <2>7. CountExact'  BY <2>3, <2>4 DEF CountExact, Registered
  <2>8. SweptClean'
    <3> SUFFICES ASSUME NEW c \in Buckets, NEW j \in 1..Len(buckets[c]),
                        c < sweep.bucket \/ (c = sweep.bucket /\ j < sweep.at + 1)
                 PROVE  buckets[c][j].process # sweep.process
      BY <2>3, <2>4 DEF SweptClean
    <3>1. CASE c = sweep.bucket /\ j = sweep.at  BY <2>3, <3>1
    <3>2. CASE c < sweep.bucket \/ (c = sweep.bucket /\ j < sweep.at)
      BY <1>6, <3>2 DEF SweptClean
    <3>3. j < sweep.at + 1 => j < sweep.at \/ j = sweep.at  BY <2>2
    <3> QED BY <3>1, <3>2, <3>3
  <2> QED BY <2>5, <2>6, <2>7, <2>8
<1>7. ASSUME Sweeping, SweepBucket  PROVE EtsInv'
  <2>1. sweep \in SweepType  BY <1>7, SweepFields
  <2>2. /\ sweep.bucket \in Buckets /\ sweep.at \in Nat \ {0}
        /\ Len(buckets[sweep.bucket]) \in Nat
        /\ \A b \in Buckets : Len(buckets[b]) \in Nat
    BY <2>1 DEF SweepType, EtsTypeOK
  <2>3. /\ sweep.at > Len(buckets[sweep.bucket])
        /\ sweep.bucket + 1 \in Buckets
        /\ sweep' = [sweep EXCEPT !.bucket = @ + 1, !.at = 1]
        /\ UNCHANGED <<buckets, count, ret>>
    BY <1>7 DEF SweepBucket
  <2>4. /\ sweep' \in SweepType /\ sweep'.removed = sweep.removed
        /\ sweep'.bucket = sweep.bucket + 1 /\ sweep'.at = 1
        /\ sweep'.process = sweep.process
    <3>1. sweep' = [bucket |-> sweep.bucket + 1, at |-> 1,
                    process |-> sweep.process, removed |-> sweep.removed]
      BY <2>1, <2>3 DEF SweepType
    <3>2. sweep.process \in Processes /\ sweep.removed \in Nat  BY <2>1 DEF SweepType
    <3> QED BY <2>3, <3>1, <3>2 DEF SweepType
  <2>5. EtsTypeOK'  BY <2>2, <2>3, <2>4 DEF EtsTypeOK
  <2>6. LinkedOnce' /\ IsFiniteSet(Registered')
    BY <2>3 DEF LinkedOnce, Registered, BucketOf
  <2>7. CountExact'  BY <2>3, <2>4 DEF CountExact, Registered
  <2>8. SweptClean'
    <3> SUFFICES ASSUME NEW c \in Buckets, NEW j \in 1..Len(buckets[c]),
                        \/ c < sweep.bucket + 1
                        \/ c = sweep.bucket + 1 /\ j < 1
                 PROVE  buckets[c][j].process # sweep.process
      BY <2>3, <2>4 DEF SweptClean
    <3>1. ~(j < 1)  BY <2>2
    <3>2. c < sweep.bucket \/ c = sweep.bucket  BY <2>2, <3>1 DEF Buckets
    <3>3. c = sweep.bucket => j < sweep.at  BY <2>2, <2>3
    <3> QED BY <1>7, <3>2, <3>3 DEF SweptClean
  <2> QED BY <2>5, <2>6, <2>7, <2>8
<1>8. ASSUME Sweeping, SweepReturn  PROVE EtsInv'
  <2>1. sweep \in SweepType  BY <1>8, SweepFields
  <2>2. sweep.removed \in Nat  BY <2>1 DEF SweepType
  <2>3. /\ sweep' = NoSweep /\ ret' = sweep.removed /\ buckets' = buckets
        /\ count' = count - sweep.removed
    BY <1>8 DEF SweepReturn
  <2>4. sweep'.removed = 0  BY <2>3 DEF NoSweep
  <2>5. CountExact' /\ count' \in Nat
    BY <1>0, <2>2, <2>3, <2>4 DEF CountExact, Registered
  <2>6. EtsTypeOK'  BY <2>2, <2>3, <2>5 DEF EtsTypeOK, Sweeping
  <2>7. LinkedOnce' /\ IsFiniteSet(Registered')
    BY <2>3 DEF LinkedOnce, Registered, BucketOf
  <2>8. SweptClean'  BY <2>3 DEF SweptClean, Sweeping
  <2> QED BY <2>5, <2>6, <2>7, <2>8
<1>9. CASE UNCHANGED etsVars
  BY <1>9
  DEF etsVars, EtsTypeOK, Sweeping, LinkedOnce, Registered, CountExact, SweptClean, BucketOf
<1> QED BY <1>1, <1>2, <1>3, <1>4, <1>5, <1>6, <1>7, <1>8, <1>9 DEF EtsNext

(* The invariant of the buckets holds throughout. *)
LEMMA EtsInvHolds == EtsSpec => []EtsInv
<1> QED BY EtsInvInit, EtsInvStep, PTL DEF EtsSpec

(* Whatever is added, removed and swept, in whatever order and with whatever *)
(* collisions, pon_ets.c keeps every watcher in the one list where it is *)
(* looked up, and never twice. *)
THEOREM EachLinkedOnce == EtsSpec => [](EtsTypeOK /\ LinkedOnce)
<1>1. EtsInv => EtsTypeOK /\ LinkedOnce  BY DEF EtsInv
<1> QED BY <1>1, EtsInvHolds, PTL

(* The count of the registry is the number of watchers in its lists, up to the *)
(* correction that remove_process makes before it returns. *)
THEOREM CountIsExact == EtsSpec => []CountExact
<1>1. EtsInv => CountExact  BY DEF EtsInv
<1> QED BY <1>1, EtsInvHolds, PTL

(* remove_process leaves no watcher of the process behind its position. *)
THEOREM SweepIsClean == EtsSpec => []SweptClean
<1>1. EtsInv => SweptClean  BY DEF EtsInv
<1> QED BY <1>1, EtsInvHolds, PTL

(* notify counts positions of one list; these are as many as the watchers of *)
(* the key, since all of them are in that list and none is there twice. *)
LEMMA NotifyCount ==
  ASSUME EtsInv, NEW t \in Tables, NEW k \in Keys
  PROVE  LET s == buckets[pon_ets_watcher_bucket[<<t, k>>]]
             hits == {i \in 1..Len(s) : s[i].table = t /\ s[i].key = k}
         IN  Cardinality(hits)
               = Cardinality({w \in Registered : w.table = t /\ w.key = k})
<1> USE DEF EtsInv
<1> DEFINE b == pon_ets_watcher_bucket[<<t, k>>]
           s == buckets[b]
           hits == {i \in 1..Len(s) : s[i].table = t /\ s[i].key = k}
           ws == {w \in Registered : w.table = t /\ w.key = k}
           f == [i \in hits |-> s[i]]
<1>1. b \in Buckets /\ s \in Seq(Watcher) /\ Len(s) \in Nat
  BY BucketAssumption DEF EtsTypeOK
<1>2. IsInjective(s) /\ DOMAIN s = 1..Len(s) /\ Range(s) \subseteq Registered
  BY <1>1 DEF LinkedOnce, Registered
<1>3. \A w \in ws : w \in Range(s)
  <2> TAKE w \in ws
  <2>1. w \in Range(buckets[BucketOf(w)])  BY InOwnList
  <2>2. BucketOf(w) = b  BY DEF BucketOf
  <2> QED BY <2>1, <2>2
<1>4. \A i \in hits : s[i] \in ws
  <2> TAKE i \in hits
  <2>1. i \in DOMAIN s  BY <1>2
  <2>2. s[i] \in Range(s)  BY <2>1 DEF Range
  <2> QED BY <1>2, <2>2
<1>5. IsFiniteSet(hits)
  <2>1. IsFiniteSet(1..Len(s))  BY <1>1, FS_Interval
  <2>2. hits \subseteq 1..Len(s)  OBVIOUS
  <2> HIDE DEF hits
  <2> QED BY <2>1, <2>2, FS_Subset
<1>6. \A w \in ws : \E i \in hits : s[i] = w
  BY <1>1, <1>3 DEF Range
<1>7. \A i, j \in hits : s[i] = s[j] => i = j
  <2> HIDE DEF s
  <2>1. \A i, j \in 1..Len(s) : s[i] = s[j] => i = j  BY <1>2 DEF IsInjective
  <2> QED BY <2>1
<1> HIDE DEF hits, ws, s
<1>8. f \in Bijection(hits, ws)
  <2>1. f \in [hits -> ws]  BY <1>4
  <2>2. f \in Injection(hits, ws)
    BY <1>7, <2>1 DEF Injection, IsInjective
  <2>3. f \in Surjection(hits, ws)
    BY <1>6, <2>1 DEF Surjection
  <2> QED BY <2>2, <2>3 DEF Bijection
<1>9. Cardinality(hits) = Cardinality(ws)
  BY <1>5, <1>8, FS_Bijection DEF ExistsBijection
<1> QED BY <1>9 DEF hits, ws, s

(* The cardinality that WatcherSet speaks of is the one of the registry. *)
LEMMA SameCardinality == \A S : W!Cardinality(S) = Cardinality(S)
BY Zenon DEF W!Cardinality, Cardinality

(* An empty table of buckets is an empty set of watchers. *)
LEMMA RefinesInit == EtsInit => W!Init
<1> SUFFICES ASSUME EtsInit  PROVE W!Init  OBVIOUS
<1>1. Registered = {}  BY EmptyHasNone DEF EtsInit, Registered
<1>2. ~Sweeping /\ ret = 0  BY DEF EtsInit, Sweeping
<1> QED BY <1>1, <1>2 DEF W!Init, Watched, Dying

(* Every step of the registry is one of the set of watchers, or changes nothing *)
(* that the set shows. *)
LEMMA RefinesStep ==
  EtsInv /\ EtsInv' /\ [EtsNext]_etsVars => [W!Next]_<<Watched, Dying, ret>>
<1> SUFFICES ASSUME EtsInv, EtsInv', [EtsNext]_etsVars
             PROVE  W!Next \/ UNCHANGED <<Watched, Dying, ret>>
  OBVIOUS
<1> USE DEF EtsInv
<1>1. ASSUME NEW w \in Watcher, ~Sweeping, pon_ets_watcher_add(w)  PROVE W!Next
  <2>1. sweep' = sweep /\ ~Sweeping'  BY <1>1 DEF pon_ets_watcher_add, Sweeping
  <2>2. Watched = Registered /\ Watched' = Registered' /\ Dying = {} /\ Dying' = {}
    BY <1>1, <2>1 DEF Watched, Dying
  <2>3. CASE ret' = 0
    <3>1. /\ \A i \in 1..Len(buckets[BucketOf(w)]) : buckets[BucketOf(w)][i] # w
          /\ buckets' = [buckets EXCEPT ![BucketOf(w)] = <<w>> \o @]
      BY <1>1, <2>3 DEF pon_ets_watcher_add
    <3>2. w \notin Registered /\ Registered' = Registered \cup {w}
      BY <3>1, LinkList
    <3>3. W!Add(w)  BY <2>2, <2>3, <3>2 DEF W!Add
    <3> QED BY <2>2, <3>3 DEF W!Next, W!Watcher, Watcher
  <2>4. CASE ret' # 0
    <3>1. buckets' = buckets /\ ret' = -1  BY <1>1, <2>4 DEF pon_ets_watcher_add
    <3>2. Registered' = Registered  BY <3>1 DEF Registered
    <3>3. W!Add(w)  BY <2>2, <3>1, <3>2 DEF W!Add
    <3> QED BY <2>2, <3>3 DEF W!Next, W!Watcher, Watcher
  <2> QED BY <2>3, <2>4
<1>2. ASSUME NEW w \in Watcher, ~Sweeping, pon_ets_watcher_remove(w)  PROVE W!Next
  <2> DEFINE b == BucketOf(w)
  <2>1. sweep' = sweep /\ ~Sweeping'  BY <1>2 DEF pon_ets_watcher_remove, Sweeping
  <2>2. Watched = Registered /\ Watched' = Registered' /\ Dying = {} /\ Dying' = {}
    BY <1>2, <2>1 DEF Watched, Dying
  <2>3. b \in Buckets  BY BucketAssumption DEF BucketOf, Watcher
  <2>4. CASE ret' = 0
    <3>1. PICK i \in 1..Len(buckets[b]) :
            buckets[b][i] = w /\ buckets' = [buckets EXCEPT ![b] = Unlink(buckets[b], i)]
      BY <1>2, <2>4 DEF pon_ets_watcher_remove
    <3> HIDE DEF b
    <3>2. w \in Registered /\ Registered' = Registered \ {w}
      BY <2>3, <3>1, UnlinkList
    <3>3. W!Remove(w)  BY <2>2, <2>4, <3>2 DEF W!Remove
    <3> QED BY <2>2, <3>3 DEF W!Next, W!Watcher, Watcher
  <2>5. CASE ret' # 0
    <3>1. /\ \A i \in 1..Len(buckets[b]) : buckets[b][i] # w
          /\ buckets' = buckets /\ ret' = -1
      BY <1>2, <2>5 DEF pon_ets_watcher_remove
    <3>2. buckets[b] \in Seq(Watcher)  BY <2>3 DEF EtsTypeOK
    <3> HIDE DEF b
    <3>3. w \notin Range(buckets[b])  BY <3>1, <3>2 DEF Range
    <3>4. w \notin Registered  BY <3>3, InOwnList DEF b
    <3>5. Registered' = Registered  BY <3>1 DEF Registered
    <3>6. Registered' = Registered \ {w}  BY <3>4, <3>5
    <3>7. W!Remove(w)  BY <2>2, <3>1, <3>4, <3>6 DEF W!Remove
    <3> QED BY <2>2, <3>7 DEF W!Next, W!Watcher, Watcher
  <2> QED BY <2>4, <2>5
<1>3. ASSUME NEW t \in Tables, NEW k \in Keys, ~Sweeping, pon_ets_watcher_notify(t, k)
      PROVE  W!Next
  <2>1. UNCHANGED <<buckets, count, sweep>> /\ ~Sweeping'
    BY <1>3 DEF pon_ets_watcher_notify, Sweeping
  <2>2. Watched = Registered /\ Watched' = Registered' /\ Dying = {} /\ Dying' = {}
    BY <1>3, <2>1 DEF Watched, Dying
  <2>3. Registered' = Registered  BY <2>1 DEF Registered
  <2>4. ret' = Cardinality({w \in Registered : w.table = t /\ w.key = k})
    BY <1>3, NotifyCount DEF pon_ets_watcher_notify
  <2>5. W!Notify(t, k)  BY <2>2, <2>3, <2>4, SameCardinality DEF W!Notify, W!Watching
  <2> QED BY <2>2, <2>5 DEF W!Next
<1>4. ASSUME NEW p \in Processes, ~Sweeping, pon_ets_watcher_remove_process(p)
      PROVE  W!Next
  <2>1. /\ sweep' = [bucket |-> 0, at |-> 1, process |-> p, removed |-> 0]
        /\ UNCHANGED <<buckets, count, ret>>
    BY <1>4 DEF pon_ets_watcher_remove_process
  <2>2. sweep'.bucket = 0 /\ sweep'.process = p /\ sweep'.removed = 0  BY <2>1
  <2>3. Sweeping'
    <3>1. NoSweep.bucket = -1  BY DEF NoSweep
    <3>2. sweep' # NoSweep  BY <2>2, <3>1
    <3> QED BY <3>2 DEF Sweeping, NoSweep
  <2>4. Watched = Registered /\ Dying = {} /\ Registered' = Registered
    BY <1>4, <2>1 DEF Watched, Dying, Registered
  <2>5. W!Of(p) = {w \in Registered : w.process = p}  BY <2>4 DEF W!Of
  <2>6. Watched' = Registered \ W!Of(p)
    BY <2>2, <2>3, <2>4, <2>5 DEF Watched
  <2>7. Remaining' = W!Of(p)  BY <2>2, <2>4, <2>5 DEF Remaining
  <2>8. IsFiniteSet(W!Of(p))
    <3>1. W!Of(p) \subseteq Registered  BY <2>5
    <3> QED BY <3>1, FS_Subset
  <2>9. Cardinality(W!Of(p)) \in Nat  BY <2>8, FS_CardinalityType
  <2>10. Dying' = {Cardinality(W!Of(p))}
    <3>1. Dying' = {0 + Cardinality(Remaining')}  BY <2>2, <2>3 DEF Dying
    <3> QED BY <2>7, <2>9, <3>1
  <2>11. W!Dies(p)  BY <2>1, <2>4, <2>6, <2>10, SameCardinality DEF W!Dies
  <2> QED BY <2>4, <2>11 DEF W!Next
<1>5. ASSUME Sweeping, SweepUnlink  PROVE UNCHANGED <<Watched, Dying, ret>>
  <2> DEFINE b == sweep.bucket  i == sweep.at  w == buckets[b][i]
  <2>1. sweep \in SweepType  BY <1>5, SweepFields
  <2>2. /\ b \in Buckets /\ i \in Nat \ {0} /\ sweep.removed \in Nat
        /\ Len(buckets[b]) \in Nat
    BY <2>1 DEF SweepType, EtsTypeOK
  <2>3. /\ i \in 1..Len(buckets[b]) /\ w.process = sweep.process
        /\ buckets' = [buckets EXCEPT ![b] = Unlink(buckets[b], i)]
        /\ sweep' = [sweep EXCEPT !.removed = @ + 1]
        /\ UNCHANGED <<count, ret>>
    BY <1>5, <2>2 DEF SweepUnlink
  <2>4. /\ sweep' \in SweepType /\ sweep'.removed = sweep.removed + 1
        /\ sweep'.process = sweep.process
    BY <2>1, <2>3 DEF SweepType
  <2> HIDE DEF b, i, w
  <2>5. w \in Registered /\ Registered' = Registered \ {w}
    BY <2>2, <2>3, UnlinkList DEF w
  <2>6. Sweeping'  BY <2>4, SweepFields DEF Sweeping, NoSweep
  <2>7. Watched' = Watched  BY <1>5, <2>3, <2>4, <2>5, <2>6 DEF Watched
  <2>8. w \in Remaining /\ Remaining' = Remaining \ {w}
    BY <2>3, <2>4, <2>5 DEF Remaining
  <2>9. IsFiniteSet(Remaining)
    <3>1. Remaining \subseteq Registered  BY DEF Remaining
    <3> QED BY <3>1, FS_Subset
  <2>10. /\ Cardinality(Remaining') = Cardinality(Remaining) - 1
         /\ Cardinality(Remaining) \in Nat
    BY <2>8, <2>9, FS_RemoveElement, FS_CardinalityType
  <2>11. Dying = {sweep.removed + Cardinality(Remaining)}  BY <1>5 DEF Dying
  <2>12. Dying' = {sweep'.removed + Cardinality(Remaining')}  BY <2>6 DEF Dying
  <2>13. sweep'.removed + Cardinality(Remaining')
           = sweep.removed + Cardinality(Remaining)
    BY <2>2, <2>4, <2>10
  <2> QED BY <2>3, <2>7, <2>11, <2>12, <2>13
<1>6. ASSUME Sweeping, SweepNext \/ SweepBucket
      PROVE  UNCHANGED <<Watched, Dying, ret>>
  <2>1. sweep \in SweepType  BY <1>6, SweepFields
  <2>2. UNCHANGED <<buckets, count, ret>>  BY <1>6 DEF SweepNext, SweepBucket
  <2>3. sweep'.removed = sweep.removed /\ sweep'.process = sweep.process
    BY <1>6, <2>1 DEF SweepNext, SweepBucket, SweepType
  <2>4. sweep' # NoSweep
    <3>1. CASE SweepNext
      <4>1. sweep'.bucket = sweep.bucket  BY <2>1, <3>1 DEF SweepNext, SweepType
      <4>2. sweep'.bucket # -1  BY <2>1, <4>1 DEF SweepType, Buckets
      <4> QED BY <4>2 DEF NoSweep
    <3>2. CASE SweepBucket
      <4>1. sweep'.at = 1  BY <2>1, <3>2 DEF SweepBucket, SweepType
      <4> QED BY <4>1 DEF NoSweep
    <3> QED BY <1>6, <3>1, <3>2
  <2>5. Sweeping'  BY <2>4 DEF Sweeping, NoSweep
  <2>6. Registered' = Registered  BY <2>2 DEF Registered
  <2>7. Watched' = Watched /\ Remaining' = Remaining
    BY <1>6, <2>3, <2>5, <2>6 DEF Watched, Remaining
  <2>8. Dying' = Dying  BY <1>6, <2>3, <2>5, <2>7 DEF Dying
  <2> QED BY <2>2, <2>7, <2>8
<1>7. ASSUME Sweeping, SweepReturn  PROVE W!Next
  <2>1. sweep \in SweepType  BY <1>7, SweepFields
  <2>2. sweep.bucket \in Buckets /\ sweep.removed \in Nat  BY <2>1 DEF SweepType
  <2>3. /\ sweep' = NoSweep /\ ret' = sweep.removed /\ buckets' = buckets
        /\ sweep.at > Len(buckets[sweep.bucket])
        /\ sweep.bucket + 1 \notin Buckets
    BY <1>7 DEF SweepReturn
  <2>4. ASSUME NEW w \in Registered  PROVE w.process # sweep.process
    <3>1. PICK b \in Buckets : w \in Range(buckets[b])  BY DEF Registered
    <3>2. buckets[b] \in Seq(Watcher)  BY DEF EtsTypeOK
    <3>3. PICK i \in 1..Len(buckets[b]) : w = buckets[b][i]
      BY <3>1, <3>2 DEF Range
    <3>4. b < sweep.bucket \/ b = sweep.bucket
      BY <2>2, <2>3, BucketAssumption DEF Buckets
    <3>5. Len(buckets[b]) \in Nat /\ sweep.at \in Nat
      BY <2>1, <3>2 DEF SweepType
    <3>6. b = sweep.bucket => i < sweep.at  BY <2>3, <3>5
    <3> QED BY <1>7, <3>3, <3>4, <3>6 DEF SweptClean
  <2>5. Remaining = {} /\ Watched = Registered  BY <2>4 DEF Remaining, Watched
  <2>6. Cardinality(Remaining) = 0  BY <2>5, FS_EmptySet
  <2>7. Dying = {sweep.removed}
    <3>1. sweep.removed + Cardinality(Remaining) = sweep.removed  BY <2>2, <2>6
    <3> QED BY <1>7, <3>1 DEF Dying
  <2>8. ~Sweeping'  BY <2>3 DEF Sweeping, NoSweep
  <2>9. Watched' = Registered /\ Dying' = {}
    BY <2>3, <2>8 DEF Watched, Registered, Dying
  <2>10. W!Return  BY <2>3, <2>5, <2>7, <2>9 DEF W!Return
  <2> QED BY <2>10 DEF W!Next
<1>8. CASE UNCHANGED etsVars
  <2>1. Registered' = Registered /\ (Sweeping' <=> Sweeping)
    BY <1>8 DEF etsVars, Registered, Sweeping, NoSweep
  <2> QED BY <1>8, <2>1 DEF etsVars, Watched, Dying, Remaining
<1> QED BY <1>1, <1>2, <1>3, <1>4, <1>5, <1>6, <1>7, <1>8 DEF EtsNext

(* The hash lists of pon_ets.c implement a set of watchers, for every hash *)
(* function: collisions never show, and the loop of remove_process, though it *)
(* takes many steps, removes the watchers of a process as if at once. *)
THEOREM RefinesWatcherSet == EtsSpec => ImplementsWatcherSet
<1>1. EtsInit => W!Init  BY RefinesInit
<1>2. EtsInv /\ EtsInv' /\ [EtsNext]_etsVars => [W!Next]_<<Watched, Dying, ret>>
  BY RefinesStep
<1> QED BY <1>1, <1>2, EtsInvHolds, PTL DEF EtsSpec, ImplementsWatcherSet, W!Spec
=============================================================================
