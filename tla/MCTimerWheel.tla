---------------------------- MODULE MCTimerWheel ----------------------------
(* Instances of TimerWheel for TLC. *)
EXTENDS TimerWheel, TLC

\* an Erlang clock one tick ahead of CLOCK_MONOTONIC
Behind == -1

Symmetric == Permutations(Timers)

\* Three timers are affordable when they are set to a few positions only: the
\* first ticks, positions that fall into a later slot, and positions a
\* revolution of the later wheel after these.
SetTo(positions) == \A p \in Timers : tiw.timeout_pos[p] \in positions
FewPositions == SetTo({0, 2, 6, 7, 12, 14})
EarlyOrFar == SetTo((0 .. 4) \cup {12})
=============================================================================
