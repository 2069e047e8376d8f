-------------------------------- MODULE Lists --------------------------------
(* The linked lists of pon_ets.c and time.c, as the sequences of what they link. *)
EXTENDS Integers, Sequences

\* List s without its i-th element: the pointer to it is set to the next one.
Unlink(s, i) == [j \in 1 .. (Len(s) - 1) |-> IF j < i THEN s[j] ELSE s[j + 1]]
==============================================================================
