----------------------------- MODULE WatcherSet -----------------------------
(***************************************************************************)
(* What the registry of ETS watchers promises (pon_ets.h): a set of        *)
(* watchers, each one process interested in one key of one table, and the  *)
(* value that each call returns.  When a process dies all of its watchers  *)
(* go at once; the call that removes them may return later, and tells how  *)
(* many they were.                                                         *)
(***************************************************************************)
EXTENDS Integers, FiniteSets

CONSTANTS Tables, Keys, Processes

VARIABLES
  watchers,  \* the set of [table, key, process]
  dying,     \* what remove_process has still to return: a set of at most one number
  ret        \* what the last call returned

Watcher == [table : Tables, key : Keys, process : Processes]

Init == watchers = {} /\ dying = {} /\ ret = 0

Add(w) ==
  \/ /\ w \notin watchers
     /\ watchers' = watchers \cup {w} /\ ret' = 0
  \/ watchers' = watchers /\ ret' = -1  \* registered already, or no memory

Remove(w) ==
  /\ watchers' = watchers \ {w}
  /\ ret' = IF w \in watchers THEN 0 ELSE -1

Watching(t, k) == {w \in watchers : w.table = t /\ w.key = k}

Notify(t, k) == watchers' = watchers /\ ret' = Cardinality(Watching(t, k))

Of(p) == {w \in watchers : w.process = p}

Dies(p) ==
  /\ watchers' = watchers \ Of(p)
  /\ dying' = {Cardinality(Of(p))}
  /\ ret' = ret

Return == dying # {} /\ ret' \in dying /\ dying' = {} /\ watchers' = watchers

Next ==
  \/ dying = {} /\ dying' = {} /\ \E w \in Watcher : Add(w) \/ Remove(w)
  \/ dying = {} /\ dying' = {} /\ \E t \in Tables, k \in Keys : Notify(t, k)
  \/ dying = {} /\ \E p \in Processes : Dies(p)
  \/ Return

Spec == Init /\ [][Next]_<<watchers, dying, ret>>
=============================================================================
