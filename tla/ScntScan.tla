------------------------------ MODULE ScntScan ------------------------------
(***************************************************************************)
(* One call of scnt_wheel_next (time.c), an iteration of its loop per      *)
(* step, from every slot, number of slots left and set of empty ranges.    *)
(***************************************************************************)
EXTENDS WheelSlots

VARIABLES
  call,  \* the arguments: slot, left and scnt
  slot, left, ix,
  spc    \* "enter", "loop" or "done"

scanVars == <<call, slot, left, ix, spc>>

first_slot == IF IsSoon(call.slot) THEN 0 ELSE SOON_WHEEL_SIZE
end_slot == IF IsSoon(call.slot) THEN SOON_WHEEL_SIZE ELSE END_SLOT

ScanInit ==
  /\ call \in [slot : 0 .. (END_SLOT - 1),
               left : 0 .. Max({SOON_WHEEL_SIZE, LATER_WHEEL_SIZE}),
               scnt : [ScntIxs -> {0, 1}]]
  /\ call.left <= end_slot - first_slot
  /\ slot = call.slot /\ left = call.left /\ ix = 0 /\ spc = "enter"

Enter ==
  /\ spc = "enter" /\ spc' = "loop"
  /\ left' = left - 1
  /\ slot' = IF slot + 1 = end_slot THEN first_slot ELSE slot + 1
  /\ ix' = scnt_get_ix(slot')
  /\ UNCHANGED call

\* The code reads scnt[ix] before it tests left; see RangeOfSlot.
EmptyRange == left > 0 /\ call.scnt[ix] = 0

SkipRange_Stale ==
  LET diff == Min({left, (ix + 1) * SCNT_SLOTS - slot})
  IN  IF slot + diff < end_slot
      THEN slot' = slot + diff /\ left' = left - diff /\ ix' = ix
      ELSE slot' = first_slot /\ left' = left - (end_slot - slot)
           /\ ix' = scnt_get_ix(first_slot)

SkipRange_NoLimit ==
  LET next == (ix + 1) * SCNT_SLOTS
  IN  IF next < end_slot
      THEN slot' = next /\ left' = left - (next - slot) /\ ix' = ix + 1
      ELSE slot' = first_slot /\ left' = left - (end_slot - slot)
           /\ ix' = scnt_get_ix(first_slot)

SkipRange_NoWrap ==
  LET diff == Min({left, (ix + 1) * SCNT_SLOTS - slot})
  IN  slot' = (IF slot + diff < end_slot THEN slot + diff ELSE first_slot)
      /\ left' = left /\ ix' = scnt_get_ix(slot')

\* To the first slot of the next range, or as far as left goes, or round the end.
SkipRange ==
  LET diff == Min({left, (ix + 1) * SCNT_SLOTS - slot})
  IN  IF slot + diff < end_slot
      THEN slot' = slot + diff /\ left' = left - diff /\ ix' = ix + 1
      ELSE slot' = first_slot /\ left' = left - (end_slot - slot)
           /\ ix' = scnt_get_ix(first_slot)

Loop ==
  /\ spc = "loop" /\ EmptyRange
  /\ SkipRange
  /\ UNCHANGED <<call, spc>>

Return ==
  /\ spc = "loop" /\ ~EmptyRange
  /\ spc' = "done"
  /\ UNCHANGED <<call, slot, left, ix>>

ScanNext == Enter \/ Loop \/ Return

ScanSpec == ScanInit /\ [][ScanNext]_scanVars /\ WF_scanVars(ScanNext)

\* The call leaves the slot, and in left the number of slots passed over, that
\* the definition says: the next slot, or the first one after it that lies in a
\* range with timers, or the last one it may inspect.  Skipping whole ranges
\* passes over no timer, at the end of a wheel or of a search either.
FindsNextSlot ==
  spc = "done" =>
    LET nxt == scnt_wheel_next(call.slot, call.left, call.scnt)
    IN  slot = nxt.slot /\ left = nxt.left

\* Whenever scnt[ix] decides whether the loop goes on, ix is the range of slot.  A
\* search that ends within the last range leaves ix one past the array, and one
\* that ends within the last soon range leaves it in the later wheel: the value
\* that the code reads there must not matter.
RangeOfSlot == spc = "loop" /\ left > 0 => ix = scnt_get_ix(slot)

\* The loop of scnt_wheel_next ends, also when every range is empty.
Terminates == <>(spc = "done")

=============================================================================
