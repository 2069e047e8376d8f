------------------------------- MODULE PonGc -------------------------------
(***************************************************************************)
(* pon_gc.c and the pon_gc_* BIFs: the collector by notification of one    *)
(* process.  A node is its id (ids are never reused); `nodes' is the list  *)
(* of all nodes and the by_id table at once.  The loops of pon_gc_mark run *)
(* one iteration per step, so that the tri-colour argument can be stated   *)
(* of every iteration; no call of the same process interleaves with them.  *)
(* Allocation does not fail: erts_alloc aborts the emulator instead.       *)
(***************************************************************************)
EXTENDS Integers, Sequences, FiniteSets, Functions

CONSTANTS MaxNodes,    \* bound on the objects a process registers
          MaxRefs,     \* bound on the references of a node
          MaxRoots,    \* bound on the roots
          MaxCycles    \* bound on the collections

ASSUME GcAssumption ==
  MaxNodes \in Nat \ {0} /\ MaxRefs \in Nat /\ MaxRoots \in Nat /\ MaxCycles \in Nat

Node == 0..(MaxNodes - 1)

VARIABLES nodes, color, refs, roots, gray, next_id,
          live_nodes, dead_nodes, notifications_sent, scan_count, cycles,
          stat,        \* pon_stats.gc_notifications_sent of the thread
          pc, cur, i,  \* the running call, its node and its loop index
          swp          \* does a sweep follow the mark

graph == <<nodes, refs, roots, next_id>>
marks == <<color, gray, live_nodes>>
counts == <<dead_nodes, notifications_sent, scan_count, cycles, stat>>
ctl == <<pc, cur, i, swp>>
vars == <<graph, marks, counts, ctl>>

(* the state pon_gc_init leaves, on first use or after pon_gc_destroy *)
pon_gc_init ==
  /\ nodes = {} /\ roots = <<>> /\ next_id = 0
  /\ color = [n \in Node |-> "WHITE"] /\ refs = [n \in Node |-> <<>>]
  /\ gray = <<>> /\ live_nodes = 0
  /\ dead_nodes = 0 /\ notifications_sent = 0 /\ scan_count = 0 /\ cycles = 0

Init == pon_gc_init /\ stat = 0 /\ pc = "idle" /\ cur = 0 /\ i = 1 /\ swp = FALSE

-----------------------------------------------------------------------------
(* The mutator.  A BIF given an id that by_id does not know changes nothing. *)

(* k nodes are created: all of the list, or those before the element that  *)
(* makes the call fail with badarg                                         *)
pon_gc_register_objects(k) ==
  /\ pc = "idle" /\ next_id + k <= MaxNodes
  /\ nodes' = nodes \cup next_id..(next_id + k - 1)
  /\ next_id' = next_id + k
  /\ UNCHANGED <<refs, roots, marks, counts, ctl>>

pon_gc_add_root(n) ==
  /\ pc = "idle" /\ n \in nodes /\ Len(roots) < MaxRoots
  /\ roots' = Append(roots, n)
  /\ UNCHANGED <<nodes, refs, next_id, marks, counts, ctl>>

pon_gc_add_ref(f, t) ==
  /\ pc = "idle" /\ f \in nodes /\ t \in nodes /\ Len(refs[f]) < MaxRefs
  /\ refs' = [refs EXCEPT ![f] = Append(@, t)]
  /\ UNCHANGED <<nodes, roots, next_id, marks, counts, ctl>>

(* the code shifts the tail down from index `found' (the value 1, not the  *)
(* position of the match), then drops the last slot                        *)
pon_gc_remove_ref(f, t) ==
  /\ pc = "idle" /\ f \in nodes /\ t \in Range(refs[f])
  /\ refs' = [refs EXCEPT ![f] =
       [j \in 1..(Len(@) - 1) |-> IF j < 2 THEN @[j] ELSE @[j + 1]]]
  /\ UNCHANGED <<nodes, roots, next_id, marks, counts, ctl>>

(* erts_pon_gc_destroy_state at process exit *)
Exit ==
  /\ pc = "idle" /\ pc' = "exited"
  /\ nodes' = {} /\ roots' = <<>> /\ next_id' = 0
  /\ color' = [n \in Node |-> "WHITE"] /\ refs' = [n \in Node |-> <<>>]
  /\ gray' = <<>> /\ live_nodes' = 0
  /\ dead_nodes' = 0 /\ notifications_sent' = 0 /\ scan_count' = 0 /\ cycles' = 0
  /\ UNCHANGED <<stat, cur, i, swp>>

-----------------------------------------------------------------------------
(* The collector *)

Goto(from, to) == pc = from /\ pc' = to

(* mutant: whatever is not BLACK is enqueued, GRAY nodes again *)
enqueue_gray_Twice(n) ==
  IF color[n] # "BLACK"
  THEN /\ color' = [color EXCEPT ![n] = "GRAY"]
       /\ gray' = Append(gray, n)
       /\ live_nodes' = live_nodes + 1
  ELSE UNCHANGED marks

enqueue_gray(n) ==
  IF color[n] = "WHITE"
  THEN /\ color' = [color EXCEPT ![n] = "GRAY"]
       /\ gray' = Append(gray, n)
       /\ live_nodes' = live_nodes + 1
  ELSE UNCHANGED marks

(* mutant: the root loop starts at the second root *)
MarkCall_SkipFirst(sweep) ==
  /\ Goto("idle", "roots") /\ cycles < MaxCycles
  /\ i' = 2 /\ swp' = sweep
  /\ UNCHANGED <<graph, marks, counts, cur>>

(* pon_gc_mark is entered, with or without a sweep to follow *)
MarkCall(sweep) ==
  /\ Goto("idle", "roots") /\ cycles < MaxCycles
  /\ i' = 1 /\ swp' = sweep
  /\ UNCHANGED <<graph, marks, counts, cur>>

(* mutant: an already coloured root does not advance the loop *)
MarkRoot_Stuck ==
  /\ pc = "roots" /\ i <= Len(roots)
  /\ enqueue_gray(roots[i])
  /\ i' = IF color[roots[i]] = "WHITE" THEN i + 1 ELSE i
  /\ UNCHANGED <<graph, counts, pc, cur, swp>>

MarkRoot ==
  /\ pc = "roots" /\ i <= Len(roots)
  /\ enqueue_gray(roots[i])
  /\ i' = i + 1
  /\ UNCHANGED <<graph, counts, pc, cur, swp>>

MarkRootsDone ==
  Goto("roots", "gray") /\ i > Len(roots) /\ UNCHANGED <<graph, marks, counts, cur, i, swp>>

dequeue_gray ==
  /\ Goto("gray", "scan") /\ gray # <<>>
  /\ cur' = Head(gray) /\ gray' = Tail(gray) /\ i' = 1
  /\ UNCHANGED <<graph, color, live_nodes, counts, swp>>

PropagateRef ==
  /\ pc = "scan" /\ i <= Len(refs[cur])
  /\ enqueue_gray(refs[cur][i])
  /\ notifications_sent' =
       notifications_sent + (IF color[refs[cur][i]] = "WHITE" THEN 1 ELSE 0)
  /\ i' = i + 1
  /\ UNCHANGED <<graph, dead_nodes, scan_count, cycles, stat, pc, cur, swp>>

(* mutant: the last reference is not visited *)
PropagateDone_Early ==
  /\ Goto("scan", "gray") /\ i >= Len(refs[cur])
  /\ color' = [color EXCEPT ![cur] = "BLACK"]
  /\ scan_count' = scan_count + 1
  /\ UNCHANGED <<graph, gray, live_nodes, dead_nodes, notifications_sent, cycles, stat,
                 cur, i, swp>>

PropagateDone ==
  /\ Goto("scan", "gray") /\ i > Len(refs[cur])
  /\ color' = [color EXCEPT ![cur] = "BLACK"]
  /\ scan_count' = scan_count + 1
  /\ UNCHANGED <<graph, gray, live_nodes, dead_nodes, notifications_sent, cycles, stat,
                 cur, i, swp>>

MarkDone ==
  /\ Goto("gray", IF swp THEN "sweep" ELSE "idle") /\ gray = <<>>
  /\ cycles' = cycles + 1
  /\ UNCHANGED <<graph, marks, dead_nodes, notifications_sent, scan_count, stat, cur, i, swp>>

White == {n \in nodes : color[n] = "WHITE"}

(* mutant: survivors keep their colour *)
pon_gc_sweep_KeepColor ==
  /\ Goto("sweep", "idle")
  /\ nodes' = nodes \ White
  /\ refs' = [n \in Node |-> IF n \in White THEN <<>> ELSE refs[n]]
  /\ UNCHANGED color
  /\ live_nodes' = 0
  /\ dead_nodes' = Cardinality(White)
  /\ stat' = stat + notifications_sent
  /\ UNCHANGED <<roots, next_id, gray, notifications_sent, scan_count, cycles, cur, i, swp>>

(* pon_gc_sweep, and the statistics pon_gc_collect/0 adds when it returns *)
pon_gc_sweep ==
  /\ Goto("sweep", "idle")
  /\ nodes' = nodes \ White
  /\ refs' = [n \in Node |-> IF n \in White THEN <<>> ELSE refs[n]]
  /\ color' = [n \in Node |-> "WHITE"]
  /\ live_nodes' = 0
  /\ dead_nodes' = Cardinality(White)
  /\ stat' = stat + notifications_sent
  /\ UNCHANGED <<roots, next_id, gray, notifications_sent, scan_count, cycles, cur, i, swp>>

(* pon_gc_reset: new colours for the same graph, and zeroed counters *)
pon_gc_reset ==
  /\ pc = "idle"
  /\ color' = [n \in Node |-> "WHITE"] /\ gray' = <<>> /\ live_nodes' = 0
  /\ dead_nodes' = 0 /\ notifications_sent' = 0 /\ scan_count' = 0
  /\ UNCHANGED <<graph, cycles, stat, ctl>>

-----------------------------------------------------------------------------
Mutate ==
  \/ \E k \in 1..MaxNodes : pon_gc_register_objects(k)
  \/ \E n \in Node : pon_gc_add_root(n)
  \/ \E f, t \in Node : pon_gc_add_ref(f, t)
  \/ Exit

Collector ==
  \/ MarkRoot \/ MarkRootsDone \/ dequeue_gray \/ PropagateRef \/ PropagateDone
  \/ MarkDone \/ pon_gc_sweep

(* What the BIFs can do: the only mark is that of pon_gc_collect/0. *)
Next == Mutate \/ MarkCall(TRUE) \/ Collector
Spec == Init /\ [][Next]_vars
FairSpec == Spec /\ WF_vars(Collector)

(* What pon_gc.h offers: marks without a sweep, as the process GC hook of  *)
(* erl_gc.c:812-816 describes them, resets, and removal of references.     *)
ApiNext ==
  \/ Next \/ MarkCall(FALSE) \/ pon_gc_reset
  \/ \E f, t \in Node : pon_gc_remove_ref(f, t)
ApiSpec == Init /\ [][ApiNext]_vars

-----------------------------------------------------------------------------
(* Properties *)

Color == {"WHITE", "GRAY", "BLACK"}

(* The state has its types. *)
TypeOK ==
  /\ nodes \in SUBSET Node /\ color \in [Node -> Color]
  /\ refs \in [Node -> Seq(Node)] /\ roots \in Seq(Node) /\ gray \in Seq(Node)
  /\ next_id \in 0..MaxNodes
  /\ live_nodes \in Nat /\ dead_nodes \in Nat /\ notifications_sent \in Nat
  /\ scan_count \in Nat /\ cycles \in Nat /\ stat \in Nat
  /\ pc \in {"idle", "roots", "gray", "scan", "sweep", "exited"}
  /\ cur \in Node /\ i \in Nat \ {0} /\ swp \in BOOLEAN

Colored(n) == color[n] # "WHITE"

(* No root and no reference of a registered object points at a freed one,  *)
(* so that the next mark follows live pointers only.                       *)
NoDangling ==
  /\ Range(roots) \subseteq nodes
  /\ \A n \in Node : Range(refs[n]) \subseteq nodes

(* The tri-colour invariant, at every iteration of pon_gc_mark: a BLACK    *)
(* node refers to no WHITE one, and of the node being scanned that holds   *)
(* for the references already passed.                                      *)
TriColor ==
  /\ \A n \in nodes : color[n] = "BLACK" => \A r \in Range(refs[n]) : Colored(r)
  /\ pc = "scan" => \A j \in 1..(i - 1) : Colored(refs[cur][j])

(* The gray queue holds every GRAY node but the one being scanned, once:   *)
(* a node is never linked twice through its single next_gray, nor lost.    *)
GrayQueue ==
  /\ IsInjective(gray)
  /\ Range(gray) = {n \in Node : color[n] = "GRAY"} \ (IF pc = "scan" THEN {cur} ELSE {})
  /\ pc = "scan" => color[cur] = "GRAY"

OG == INSTANCE ObjectGraph WITH edges <- [n \in Node |-> Range(refs[n])],
                                roots <- Range(roots)

(* Only reachable objects are coloured, roots from the first on, and none  *)
(* before the mark; ids are handed out once.                               *)
MarkExact ==
  /\ \A n \in Node : Colored(n) => n \in nodes
  /\ \A S \in SUBSET nodes : OG!Closed(S) => \A n \in Node : Colored(n) => n \in S
  /\ pc \in {"idle", "exited"} => \A n \in Node : ~Colored(n)
  /\ pc = "roots" => i <= Len(roots) + 1 /\ \A j \in 1..(i - 1) : Colored(roots[j])
  /\ pc \in {"gray", "scan", "sweep"} => \A r \in Range(roots) : Colored(r)
  /\ pc = "scan" => i <= Len(refs[cur]) + 1
  /\ pc = "sweep" => gray = <<>>
  /\ pc \in {"roots", "gray", "scan", "sweep"} => swp
  /\ \A n \in nodes : n < next_id
  /\ \A n \in Node \ nodes : refs[n] = <<>>

(* The inductive invariant behind the collector's correctness. *)
GcInv == TypeOK /\ NoDangling /\ TriColor /\ GrayQueue /\ MarkExact

(* The BIFs implement the abstract graph: pon_gc_collect/0 removes exactly *)
(* the objects no root reaches, and nothing else ever removes one.         *)
ImplementsObjectGraph == OG!OGSpec

(* What src/formal/coq/TriColorGC.v:3 claims of a finished mark, "Collected *)
(* and Reachable are disjoint": no object about to be freed is reachable.   *)
NeverCollectsReachable == pc = "sweep" => White \cap OG!Reachable = {}

(* pon_gc_mark counts as live exactly the reachable objects. *)
LiveExact == pc = "sweep" => live_nodes = Cardinality(OG!Reachable)

(* Between BIF calls, and when pon_gc_mark starts, every node is WHITE: no *)
(* BLACK survives into a cycle, where enqueue_gray would ignore it.        *)
IdleWhite == pc \in {"idle", "roots"} /\ i = 1 => \A n \in Node : ~Colored(n)

(* A collection ends: each node is enqueued at most once. *)
CollectTerminates == (pc = "roots") ~> (pc = "idle")

=============================================================================
