-------------------------- MODULE MCSignalQueue --------------------------
(***************************************************************************)
(* Two senders, each with a buffer of its own.  The limits of the buffers  *)
(* are as low as they go: a single contended send installs an array.  Four *)
(* flushes before a decision let an array outlive the message that it was  *)
(* installed for, so that two more can meet in it.                         *)
(***************************************************************************)
EXTENDS SignalQueueRefinement, TLC

CONSTANTS a, b

MCSlotOf == (a :> 0) @@ (b :> 1)
MCQuota == (a :> 2) @@ (b :> 1)
MCReceives ==
  {[want |-> {b}, after |-> "finite"], [want |-> {a, b}, after |-> "zero"]}

OneEach == (a :> 1) @@ (b :> 1)
ReceiveAB == {[want |-> {a, b}, after |-> "infinity"]}
OneIsWrong == ReceiveAB \cup {[want |-> {b}, after |-> "wrong"]}

=============================================================================
