---------------------------- MODULE ObjectGraph ----------------------------
(***************************************************************************)
(* What the pon_gc_* BIFs promise a process, without colours, queues or    *)
(* counters: a graph of registered objects from which a collection removes *)
(* exactly the objects that no path from a root reaches.                   *)
(***************************************************************************)
CONSTANT Node

VARIABLES nodes,   \* registered and not collected
          edges,   \* edges[n]: the objects n refers to
          roots

ogVars == <<nodes, edges, roots>>

OGInit == nodes = {} /\ edges = [n \in Node |-> {}] /\ roots = {}

(* S holds the roots and whatever its members refer to *)
Closed(S) == roots \subseteq S /\ \A n \in S : edges[n] \subseteq S

(* the least closed set *)
Reachable == {n \in nodes : \A S \in SUBSET nodes : Closed(S) => n \in S}

Register(N) == nodes' = nodes \cup N /\ UNCHANGED <<edges, roots>>

AddRoot(n) == roots' = roots \cup {n} /\ UNCHANGED <<nodes, edges>>

AddEdge(f, t) ==
  edges' = [edges EXCEPT ![f] = @ \cup {t}] /\ UNCHANGED <<nodes, roots>>

Collect ==
  /\ nodes' = Reachable
  /\ edges' = [n \in Node |-> IF n \in Reachable THEN edges[n] ELSE {}]
  /\ UNCHANGED roots

Clear == nodes' = {} /\ edges' = [n \in Node |-> {}] /\ roots' = {}

OGNext ==
  \/ \E N \in SUBSET (Node \ nodes) : Register(N)
  \/ \E n \in nodes : AddRoot(n)
  \/ \E f, t \in nodes : AddEdge(f, t)
  \/ Collect \/ Clear

OGSpec == OGInit /\ [][OGNext]_ogVars
=============================================================================
