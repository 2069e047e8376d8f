----------------------------- MODULE WheelSlots -----------------------------
(***************************************************************************)
(* The slots of the two wheels of time.c, the ranges of slots whose timers *)
(* scnt[] counts, and the search for the next slot of a range that is not  *)
(* empty.                                                                  *)
(***************************************************************************)
EXTENDS Integers, FiniteSetsExt

CONSTANTS
  SOON_WHEEL_SIZE,   \* slots of the soon wheel, one tick each
  LATER_WHEEL_SIZE,  \* slots of the later wheel, half a soon wheel each
  SCNT_SLOTS         \* slots per scnt range (1 << ERTS_TW_SCNT_BITS)

ASSUME WheelSizes ==
  /\ SOON_WHEEL_SIZE \in Nat /\ SOON_WHEEL_SIZE % (2 * SCNT_SLOTS) = 0
  /\ LATER_WHEEL_SIZE \in Nat /\ LATER_WHEEL_SIZE % SCNT_SLOTS = 0
  /\ SCNT_SLOTS \in Nat \ {0} /\ SOON_WHEEL_SIZE > 0 /\ LATER_WHEEL_SIZE > 0

END_SLOT == SOON_WHEEL_SIZE + LATER_WHEEL_SIZE
LATER_WHEEL_SLOT_SIZE == SOON_WHEEL_SIZE \div 2
PosMask(pos) == pos - (pos % LATER_WHEEL_SLOT_SIZE)
scnt_get_ix(slot) == slot \div SCNT_SLOTS
ScntIxs == 0 .. scnt_get_ix(END_SLOT - 1)

soon_slot(pos) == pos % SOON_WHEEL_SIZE

later_slot(pos) ==
  SOON_WHEEL_SIZE + ((pos \div LATER_WHEEL_SLOT_SIZE) % LATER_WHEEL_SIZE)

IsSoon(slot) == slot \in 0 .. (SOON_WHEEL_SIZE - 1)
IsLater(slot) == slot >= SOON_WHEEL_SIZE

\* The slot reached from slot, with left more to inspect: one slot on, and
\* then over the ranges that hold no timer.  ScntScan checks this closed form
\* against the loop of the code.
scnt_wheel_next(slot, left, scnt) ==
  LET first == IF IsSoon(slot) THEN 0 ELSE SOON_WHEEL_SIZE
      size == IF IsSoon(slot) THEN SOON_WHEEL_SIZE ELSE LATER_WHEEL_SIZE
      at(k) == first + ((slot - first + k) % size)
      steps == Min({k \in 1 .. Max({1, left}) :
                      k >= left \/ scnt[scnt_get_ix(at(k))] # 0})
  IN  [slot |-> at(steps), left |-> left - steps, steps |-> steps]

=============================================================================
