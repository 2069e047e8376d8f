---------------------------- MODULE PonGcProofs ----------------------------
(***************************************************************************)
(* Theorems about PonGc, for any number of objects, references, roots and  *)
(* collections.                                                            *)
(***************************************************************************)
EXTENDS PonGc, SequenceFacts, FiniteSetTheorems

(* Ids start at 0. *)
LEMMA NodeFacts == 0 \in Node /\ IsFiniteSet(Node) /\ \A n \in Node : n \in Nat
<1>1. 0 \in Node /\ \A n \in Node : n \in Nat  BY GcAssumption DEF Node
<1>2. IsFiniteSet(0..(MaxNodes - 1))  BY GcAssumption, FS_Interval
<1> QED BY <1>1, <1>2 DEF Node

(* The empty state of pon_gc_init satisfies the invariant. *)
LEMMA GcInit == Init => GcInv
<1> SUFFICES ASSUME Init PROVE GcInv  OBVIOUS
<1> USE DEF Init, pon_gc_init
<1>1. TypeOK  BY NodeFacts, GcAssumption, EmptySeq DEF TypeOK, Color
<1>2. \A n \in Node : ~Colored(n) /\ refs[n] = <<>>  BY DEF Colored
<1>3. NoDangling  BY <1>2, EmptyHasNone DEF NoDangling
<1>4. TriColor  BY DEF TriColor
<1>5. GrayQueue  BY EmptyHasNone DEF GrayQueue
<1>6. MarkExact  BY <1>2 DEF MarkExact
<1> QED BY <1>1, <1>3, <1>4, <1>5, <1>6 DEF GcInv

-----------------------------------------------------------------------------
(* The types *)

(* Colouring a node preserves the types. *)
LEMMA EnqueueType ==
  ASSUME TypeOK, NEW n \in Node, enqueue_gray(n)
  PROVE  /\ color' \in [Node -> Color] /\ gray' \in Seq(Node) /\ live_nodes' \in Nat
         /\ \A m \in Node \ {n} : color'[m] = color[m]
         /\ Colored(n)' /\ (Colored(n) => UNCHANGED <<color, gray>>)
         /\ ~Colored(n) => color'[n] = "GRAY" /\ gray' = Append(gray, n)
<1>1. CASE color[n] = "WHITE"
  <2>0. gray \in Seq(Node) /\ gray' = Append(gray, n)  BY <1>1 DEF TypeOK, enqueue_gray
  <2>1. gray' = Append(gray, n) /\ gray' \in Seq(Node)  BY <2>0, AppendSeq
  <2>2. color' = [color EXCEPT ![n] = "GRAY"] /\ live_nodes' \in Nat
    BY <1>1 DEF TypeOK, enqueue_gray
  <2> QED BY <1>1, <2>1, <2>2 DEF TypeOK, Color, Colored
<1>2. CASE color[n] # "WHITE"
  BY <1>2 DEF TypeOK, enqueue_gray, marks, Colored
<1> QED BY <1>1, <1>2

(* Every step preserves the types. *)
LEMMA GcType == ASSUME GcInv, [Next]_vars  PROVE TypeOK'
<1>0. TypeOK /\ NoDangling  BY DEF GcInv
<1> USE DEF TypeOK
<1>1. CASE UNCHANGED vars  BY <1>0, <1>1 DEF vars, graph, marks, counts, ctl
<1>2. ASSUME NEW k \in 1..MaxNodes, pon_gc_register_objects(k)  PROVE TypeOK'
  <2>1. next_id + k \in 0..MaxNodes  BY <1>0, <1>2, GcAssumption DEF pon_gc_register_objects
  <2>2. next_id..(next_id + k - 1) \subseteq Node
    BY <1>0, <2>1, GcAssumption DEF Node
  <2> QED BY <1>0, <1>2, <2>1, <2>2 DEF pon_gc_register_objects, marks, counts, ctl
<1>3. ASSUME NEW n \in Node, pon_gc_add_root(n)  PROVE TypeOK'
  <2>1. Append(roots, n) \in Seq(Node)  BY <1>0, AppendSeq
  <2> QED BY <1>0, <1>3, <2>1 DEF pon_gc_add_root, marks, counts, ctl
<1>4. ASSUME NEW f \in Node, NEW t \in Node, pon_gc_add_ref(f, t)  PROVE TypeOK'
  <2>1. Append(refs[f], t) \in Seq(Node)  BY <1>0, AppendSeq
  <2> QED BY <1>0, <1>4, <2>1 DEF pon_gc_add_ref, marks, counts, ctl
<1>5. CASE Exit
  BY <1>0, <1>5, EmptySeq, GcAssumption DEF Exit, Color
<1>6. CASE MarkCall(TRUE)
  BY <1>0, <1>6 DEF MarkCall, Goto, graph, marks, counts
<1>7. CASE MarkRoot
  <2>1. roots[i] \in Node  BY <1>0, <1>7 DEF MarkRoot
  <2>2. color' \in [Node -> Color] /\ gray' \in Seq(Node) /\ live_nodes' \in Nat
    BY <1>0, <1>7, <2>1, EnqueueType DEF MarkRoot
  <2> QED BY <1>0, <1>7, <2>2 DEF MarkRoot, graph, counts
<1>8. CASE MarkRootsDone
  BY <1>0, <1>8 DEF MarkRootsDone, Goto, graph, marks, counts
<1>9. CASE dequeue_gray
  <2>1. Head(gray) \in Node /\ Tail(gray) \in Seq(Node)
    BY <1>0, <1>9, TailSeq DEF dequeue_gray
  <2> QED BY <1>0, <1>9, <2>1 DEF dequeue_gray, Goto, graph, counts
<1>10. CASE PropagateRef
  <2>1. refs[cur][i] \in Node  BY <1>0, <1>10 DEF PropagateRef
  <2>2. color' \in [Node -> Color] /\ gray' \in Seq(Node) /\ live_nodes' \in Nat
    BY <1>0, <1>10, <2>1, EnqueueType DEF PropagateRef
  <2>3. notifications_sent' \in Nat  BY <1>0, <1>10 DEF PropagateRef
  <2> QED BY <1>0, <1>10, <2>2, <2>3 DEF PropagateRef, graph
<1>11. CASE PropagateDone
  BY <1>0, <1>11 DEF PropagateDone, Goto, graph, Color
<1>12. CASE MarkDone
  BY <1>0, <1>12 DEF MarkDone, Goto, graph, marks
<1>13. CASE pon_gc_sweep
  <2>1. Cardinality(White) \in Nat
    BY <1>0, NodeFacts, FS_Subset, FS_CardinalityType DEF White
  <2>2. refs' \in [Node -> Seq(Node)]  BY <1>0, <1>13, EmptySeq DEF pon_gc_sweep
  <2>3. stat + notifications_sent \in Nat  BY <1>0
  <2> QED BY <1>0, <1>13, <2>1, <2>2, <2>3 DEF pon_gc_sweep, Goto, Color
<1> QED BY <1>1, <1>2, <1>3, <1>4, <1>5, <1>6, <1>7, <1>8, <1>9, <1>10, <1>11, <1>12, <1>13
        DEF Next, Mutate, Collector

-----------------------------------------------------------------------------
(* The graph and the colours *)

Shape == NoDangling /\ TriColor /\ GrayQueue /\ MarkExact

(* The mutator runs between collections, when nothing is coloured. *)
LEMMA MutateShape == ASSUME GcInv, Mutate  PROVE Shape'
<1>0. TypeOK /\ Shape  BY DEF GcInv, Shape
<1>1. pc = "idle"
  BY DEF Mutate, pon_gc_register_objects, pon_gc_add_root, pon_gc_add_ref, Exit
<1>2. \A n \in Node : ~Colored(n)  BY <1>0, <1>1 DEF Shape, MarkExact
<1>3. gray = <<>>
  <2>1. Range(gray) = {}  BY <1>0, <1>1, <1>2 DEF Shape, GrayQueue, Colored
  <2>2. gray \in Seq(Node)  BY <1>0 DEF TypeOK
  <2> QED BY <2>1, <2>2, TailSeq
<1> DEFINE Calm ==
      /\ gray' = <<>> /\ (\A n \in Node : ~Colored(n))' /\ pc' \in {"idle", "exited"}
      /\ NoDangling'
      /\ (\A n \in nodes : n < next_id)' /\ (\A n \in Node \ nodes : refs[n] = <<>>)'
      /\ nodes' \subseteq Node
<1>4. Calm => Shape'
  <2> SUFFICES ASSUME Calm PROVE Shape'  OBVIOUS
  <2>1. TriColor'  BY DEF TriColor, Colored
  <2>2. GrayQueue'  BY EmptyHasNone DEF GrayQueue, Colored
  <2>3. MarkExact'  BY DEF MarkExact
  <2> QED BY <2>1, <2>2, <2>3 DEF Shape
<1>5. ASSUME NEW k \in 1..MaxNodes, pon_gc_register_objects(k)
      PROVE  /\ UNCHANGED <<refs, roots, color, gray, pc>>
             /\ nodes \subseteq nodes' /\ nodes' \subseteq Node
             /\ \A n \in nodes' : n < next_id'
  <2>1. /\ UNCHANGED <<refs, roots, color, gray, pc>>
        /\ nodes' = nodes \cup next_id..(next_id + k - 1) /\ next_id' = next_id + k
    BY <1>5 DEF pon_gc_register_objects, marks, ctl
  <2>2. nodes' \subseteq Node  BY <1>5, GcType DEF Next, Mutate, TypeOK
  <2>3. \A n \in nodes : n < next_id /\ n \in Nat
    BY <1>0, NodeFacts DEF Shape, MarkExact, TypeOK
  <2>4. \A n \in nodes' : n < next_id'
    BY <1>0, <2>1, <2>3 DEF TypeOK
  <2> QED BY <2>1, <2>2, <2>4
<1>6. ASSUME NEW k \in 1..MaxNodes, pon_gc_register_objects(k)  PROVE Shape'
  <2>1. NoDangling'  BY <1>0, <1>5, <1>6 DEF Shape, NoDangling
  <2>2. (\A n \in Node \ nodes : refs[n] = <<>>)'
    BY <1>0, <1>5, <1>6 DEF Shape, MarkExact
  <2>3. Calm  BY <1>1, <1>2, <1>3, <1>5, <1>6, <2>1, <2>2 DEF Colored
  <2> QED BY <1>4, <2>3
<1>7. ASSUME NEW n \in Node, pon_gc_add_root(n)  PROVE Shape'
  <2>1. /\ UNCHANGED <<nodes, refs, next_id, color, gray, pc>> /\ n \in nodes
        /\ roots' = Append(roots, n) /\ roots \in Seq(Node) /\ nodes \subseteq Node
    BY <1>0, <1>7 DEF pon_gc_add_root, marks, ctl, TypeOK
  <2>2. Range(roots') = Range(roots) \cup {n}  BY <2>1, AppendSeq
  <2>3. NoDangling'  BY <1>0, <2>1, <2>2 DEF Shape, NoDangling
  <2>4. Calm  BY <1>0, <1>1, <1>2, <1>3, <2>1, <2>3 DEF Colored, Shape, MarkExact
  <2> QED BY <1>4, <2>4
<1>8. ASSUME NEW f \in Node, NEW t \in Node, pon_gc_add_ref(f, t)  PROVE Shape'
  <2>1. /\ UNCHANGED <<nodes, roots, next_id, color, gray, pc>> /\ f \in nodes /\ t \in nodes
        /\ refs' = [refs EXCEPT ![f] = Append(refs[f], t)]
        /\ refs \in [Node -> Seq(Node)] /\ nodes \subseteq Node
    BY <1>0, <1>8 DEF pon_gc_add_ref, marks, ctl, TypeOK
  <2>2. /\ \A n \in Node \ {f} : refs'[n] = refs[n]
        /\ refs'[f] = Append(refs[f], t) /\ refs[f] \in Seq(Node)
    BY <2>1
  <2>3. Range(refs'[f]) = Range(refs[f]) \cup {t}  BY <2>2, AppendSeq
  <2>4. NoDangling'  BY <1>0, <2>1, <2>2, <2>3 DEF Shape, NoDangling
  <2>5. Calm  BY <1>0, <1>1, <1>2, <1>3, <2>1, <2>2, <2>4 DEF Colored, Shape, MarkExact
  <2> QED BY <1>4, <2>5
<1>9. CASE Exit
  <2>1. /\ nodes' = {} /\ roots' = <<>> /\ gray' = <<>> /\ pc' = "exited"
        /\ \A n \in Node : refs'[n] = <<>> /\ color'[n] = "WHITE"
    BY <1>9 DEF Exit
  <2>2. NoDangling'  BY <2>1, EmptyHasNone DEF NoDangling
  <2>3. Calm  BY <2>1, <2>2 DEF Colored
  <2> QED BY <1>4, <2>3
<1> QED BY <1>6, <1>7, <1>8, <1>9 DEF Mutate

(* Colouring a node every closed set holds keeps all but the loop positions. *)
LEMMA EnqueueShape ==
  ASSUME GcInv, NEW n \in nodes, enqueue_gray(n), UNCHANGED <<graph, pc, cur>>,
         pc \in {"roots", "scan"},
         \A S \in SUBSET nodes : OG!Closed(S) => n \in S
  PROVE  /\ NoDangling' /\ GrayQueue'
         /\ \A m \in Node : Colored(m) => Colored(m)'
         /\ \A m \in Node : Colored(m)' => Colored(m) \/ m = n
         /\ Colored(n)'
         /\ \A m \in nodes : color'[m] = "BLACK" => \A r \in Range(refs[m]) : Colored(r)'
         /\ (\A m \in Node : Colored(m) => m \in nodes)'
         /\ (\A S \in SUBSET nodes : OG!Closed(S) => \A m \in Node : Colored(m) => m \in S)'
<1>0. TypeOK /\ Shape  BY DEF GcInv, Shape
<1>1. UNCHANGED <<nodes, refs, roots, next_id, pc, cur>> /\ n \in Node
  BY <1>0 DEF graph, TypeOK
<1>2. /\ \A m \in Node \ {n} : color'[m] = color[m]
      /\ Colored(n)' /\ (Colored(n) => UNCHANGED <<color, gray>>)
      /\ ~Colored(n) => color'[n] = "GRAY" /\ gray' = Append(gray, n)
      /\ color' \in [Node -> Color]
  BY <1>0, <1>1, EnqueueType
<1>3. NoDangling'  BY <1>0, <1>1 DEF Shape, NoDangling
<1>4. GrayQueue'
  <2>1. CASE Colored(n)  BY <1>0, <1>1, <1>2, <2>1 DEF Shape, GrayQueue
  <2>2. CASE ~Colored(n)
    <3>1. n \notin Range(gray) /\ gray \in Seq(Node) /\ IsInjective(gray)
      BY <1>0, <2>2 DEF Shape, GrayQueue, Colored, TypeOK
    <3>2. Range(gray') = Range(gray) \cup {n} /\ IsInjective(gray')
      <4>1. /\ Range(Append(gray, n)) = Range(gray) \cup {n}
            /\ IsInjective(Append(gray, n))
        BY <1>1, <3>1, AppendSeq
      <4> QED BY <1>2, <2>2, <4>1
    <3>3. pc = "scan" => cur # n /\ cur \in Node
      BY <1>0, <2>2 DEF Shape, GrayQueue, Colored, TypeOK
    <3>4. {m \in Node : color'[m] = "GRAY"} = {m \in Node : color[m] = "GRAY"} \cup {n}
      BY <1>1, <1>2, <2>2
    <3> QED BY <1>0, <1>1, <1>2, <3>2, <3>3, <3>4 DEF Shape, GrayQueue
  <2> QED BY <2>1, <2>2
<1>5. \A m \in Node : Colored(m) => Colored(m)'  BY <1>2 DEF Colored
<1>6. \A m \in Node : Colored(m)' => Colored(m) \/ m = n  BY <1>2 DEF Colored
<1>7. ASSUME NEW m \in nodes, color'[m] = "BLACK", NEW r \in Range(refs[m])
      PROVE  Colored(r)'
  <2>1. color[m] = "BLACK" /\ m \in Node  BY <1>0, <1>2, <1>7 DEF TypeOK
  <2>2. Colored(r) /\ r \in Node
    BY <1>0, <1>7, <2>1 DEF Shape, TriColor, NoDangling, TypeOK
  <2> QED BY <1>5, <2>2
<1>8. (\A m \in Node : Colored(m) => m \in nodes)'
  BY <1>0, <1>1, <1>6 DEF Shape, MarkExact
<1>9. (\A S \in SUBSET nodes : OG!Closed(S) => \A m \in Node : Colored(m) => m \in S)'
  <2>1. \A S : OG!Closed(S)' <=> OG!Closed(S)  BY <1>1 DEF OG!Closed
  <2> QED BY <1>0, <1>1, <1>6, <2>1 DEF Shape, MarkExact
<1> QED BY <1>2, <1>3, <1>4, <1>5, <1>6, <1>7, <1>8, <1>9

(* Every iteration of pon_gc_mark, and the sweep, preserve the invariant. *)
LEMMA CollectorShape ==
  ASSUME GcInv, MarkCall(TRUE) \/ Collector  PROVE Shape'
<1>0. TypeOK /\ Shape  BY DEF GcInv, Shape
<1>a. /\ nodes \subseteq Node /\ refs \in [Node -> Seq(Node)] /\ roots \in Seq(Node)
      /\ gray \in Seq(Node) /\ cur \in Node /\ i \in Nat \ {0} /\ color \in [Node -> Color]
  BY <1>0 DEF TypeOK
<1>1. CASE MarkCall(TRUE)
  <2>1. /\ UNCHANGED <<nodes, refs, roots, next_id, color, gray, cur>>
        /\ pc = "idle" /\ pc' = "roots" /\ i' = 1 /\ swp' = TRUE
    BY <1>1 DEF MarkCall, Goto, graph, marks
  <2>2. NoDangling' /\ TriColor' /\ GrayQueue'
    BY <1>0, <2>1 DEF Shape, NoDangling, TriColor, GrayQueue, Colored
  <2>3. \A S : OG!Closed(S)' <=> OG!Closed(S)  BY <2>1 DEF OG!Closed
  <2>4. Len(roots) \in Nat  BY <1>a
  <2>5. MarkExact  BY <1>0 DEF Shape
  <2>6. (\A S \in SUBSET nodes : OG!Closed(S) => \A n \in Node : Colored(n) => n \in S)'
    BY <2>1, <2>3, <2>5 DEF MarkExact, Colored
  <2>7. (i <= Len(roots) + 1 /\ \A j \in 1..(i - 1) : Colored(roots[j]))'
    BY <2>1, <2>4
  <2>8. (\A n \in Node : Colored(n) => n \in nodes)'  BY <2>1, <2>5 DEF MarkExact, Colored
  <2>9. (/\ \A n \in nodes : n < next_id
         /\ \A n \in Node \ nodes : refs[n] = <<>>)'  BY <2>1, <2>5 DEF MarkExact
  <2>10. MarkExact'  BY <2>1, <2>6, <2>7, <2>8, <2>9 DEF MarkExact
  <2> QED BY <2>2, <2>10 DEF Shape
<1>2. CASE MarkRoot
  <2>1. /\ UNCHANGED <<nodes, refs, roots, next_id, pc, cur, swp>>
        /\ pc = "roots" /\ i <= Len(roots) /\ i' = i + 1 /\ enqueue_gray(roots[i])
        /\ UNCHANGED graph
    BY <1>2 DEF MarkRoot, graph
  <2>2. i \in 1..Len(roots) /\ Len(roots) \in Nat  BY <1>a, <2>1
  <2>3. roots[i] \in Range(roots)  BY <1>a, <2>2 DEF Range
  <2>4. roots[i] \in nodes  BY <1>0, <2>3 DEF Shape, NoDangling
  <2>5. \A S \in SUBSET nodes : OG!Closed(S) => roots[i] \in S
    BY <2>3 DEF OG!Closed
  <2>n. PICK n \in nodes : n = roots[i]  BY <2>4
  <2>6. /\ NoDangling' /\ GrayQueue'
        /\ \A m \in Node : Colored(m) => Colored(m)'
        /\ Colored(n)'
        /\ \A m \in nodes : color'[m] = "BLACK" => \A r \in Range(refs[m]) : Colored(r)'
        /\ (\A m \in Node : Colored(m) => m \in nodes)'
        /\ (\A S \in SUBSET nodes : OG!Closed(S) => \A m \in Node : Colored(m) => m \in S)'
    <3>1. enqueue_gray(n) /\ \A S \in SUBSET nodes : OG!Closed(S) => n \in S
      BY <2>1, <2>5, <2>n
    <3>2. UNCHANGED <<graph, pc, cur>> /\ pc \in {"roots", "scan"}  BY <2>1
    <3> QED BY <3>1, <3>2, EnqueueShape
  <2>7. TriColor'  BY <2>1, <2>6 DEF TriColor
  <2>8. i' <= Len(roots) + 1 /\ \A j \in 1..(i' - 1) : Colored(roots[j])'
    <3>1. \A j \in 1..(i' - 1) : (j \in 1..(i - 1) \/ j = i) /\ j \in 1..Len(roots)
      BY <1>a, <2>1, <2>2
    <3>2. \A j \in 1..(i - 1) : Colored(roots[j])  BY <1>0, <2>1 DEF Shape, MarkExact
    <3>3. \A j \in 1..Len(roots) : roots[j] \in Node  BY <1>a
    <3>4. i' <= Len(roots) + 1  BY <1>a, <2>1, <2>2
    <3>5. \A j \in 1..(i' - 1) : Colored(roots[j]) \/ roots[j] = n
      BY <2>n, <3>1, <3>2
    <3> QED BY <2>1, <2>6, <3>1, <3>3, <3>4, <3>5 DEF Colored
  <2>9. MarkExact'
    BY <1>0, <2>1, <2>6, <2>8 DEF Shape, MarkExact, Colored
  <2> QED BY <2>6, <2>7, <2>9 DEF Shape
<1>3. CASE MarkRootsDone
  <2>1. /\ UNCHANGED <<nodes, refs, roots, next_id, color, gray, cur, i, swp>>
        /\ pc = "roots" /\ pc' = "gray" /\ i > Len(roots)
    BY <1>3 DEF MarkRootsDone, Goto, graph, marks
  <2>2. NoDangling' /\ TriColor' /\ GrayQueue'
    BY <1>0, <2>1 DEF Shape, NoDangling, TriColor, GrayQueue, Colored
  <2>3. \A S : OG!Closed(S)' <=> OG!Closed(S)  BY <2>1 DEF OG!Closed
  <2>4. \A r \in Range(roots) : Colored(r)
    <3>1. \A j \in 1..Len(roots) : j \in 1..(i - 1)  BY <1>a, <2>1
    <3>2. \A j \in 1..(i - 1) : Colored(roots[j])  BY <1>0, <2>1 DEF Shape, MarkExact
    <3>3. DOMAIN roots = 1..Len(roots)  BY <1>a
    <3>4. \A j \in DOMAIN roots : Colored(roots[j])  BY <3>1, <3>2, <3>3, Zenon
    <3> QED BY <3>4, Zenon DEF Range
  <2>5. MarkExact'  BY <1>0, <2>1, <2>3, <2>4 DEF Shape, MarkExact, Colored
  <2> QED BY <2>2, <2>5 DEF Shape
<1>4. CASE dequeue_gray
  <2>1. /\ UNCHANGED <<nodes, refs, roots, next_id, color, swp>>
        /\ pc = "gray" /\ pc' = "scan" /\ gray # <<>>
        /\ cur' = Head(gray) /\ gray' = Tail(gray) /\ i' = 1
    BY <1>4 DEF dequeue_gray, Goto, graph
  <2>2. /\ Range(gray) = {cur'} \cup Range(gray') /\ cur' \notin Range(gray')
        /\ IsInjective(gray') /\ cur' \in Node
    <3>1. IsInjective(gray)  BY <1>0 DEF Shape, GrayQueue
    <3> QED BY <1>a, <2>1, <3>1, TailSeq
  <2>3. GrayQueue'  BY <1>0, <2>1, <2>2 DEF Shape, GrayQueue
  <2>4. NoDangling' /\ TriColor'
    BY <1>0, <2>1 DEF Shape, NoDangling, TriColor, Colored
  <2>5. \A S : OG!Closed(S)' <=> OG!Closed(S)  BY <2>1 DEF OG!Closed
  <2>6. 1 <= Len(refs[cur']) + 1  BY <1>a, <2>2
  <2>7. MarkExact'  BY <1>0, <2>1, <2>5, <2>6 DEF Shape, MarkExact, Colored
  <2> QED BY <2>3, <2>4, <2>7 DEF Shape
<1>5. CASE PropagateRef
  <2>1. /\ UNCHANGED <<nodes, refs, roots, next_id, pc, cur, swp>>
        /\ pc = "scan" /\ i <= Len(refs[cur]) /\ i' = i + 1 /\ enqueue_gray(refs[cur][i])
        /\ UNCHANGED graph
    BY <1>5 DEF PropagateRef, graph
  <2>2. i \in 1..Len(refs[cur]) /\ Len(refs[cur]) \in Nat /\ refs[cur] \in Seq(Node)
    BY <1>a, <2>1
  <2>3. refs[cur][i] \in Range(refs[cur])  BY <2>2 DEF Range
  <2>4. refs[cur][i] \in nodes  BY <1>0, <1>a, <2>3 DEF Shape, NoDangling
  <2>n. PICK n \in nodes : n = refs[cur][i]  BY <2>4
  <2>5. Colored(cur)  BY <1>0, <2>1 DEF Shape, GrayQueue, Colored
  <2>6. ASSUME NEW S \in SUBSET nodes, OG!Closed(S)  PROVE n \in S
    <3>1. cur \in S  BY <1>0, <1>a, <2>5, <2>6 DEF Shape, MarkExact
    <3>2. Range(refs[cur]) \subseteq S  BY <1>a, <2>6, <3>1 DEF OG!Closed
    <3> QED BY <2>3, <2>n, <3>2
  <2>7. /\ NoDangling' /\ GrayQueue'
        /\ \A m \in Node : Colored(m) => Colored(m)'
        /\ Colored(n)'
        /\ \A m \in nodes : color'[m] = "BLACK" => \A r \in Range(refs[m]) : Colored(r)'
        /\ (\A m \in Node : Colored(m) => m \in nodes)'
        /\ (\A S \in SUBSET nodes : OG!Closed(S) => \A m \in Node : Colored(m) => m \in S)'
    <3>1. enqueue_gray(n)  BY <2>1, <2>n
    <3>2. UNCHANGED <<graph, pc, cur>> /\ pc \in {"roots", "scan"}  BY <2>1
    <3> QED BY <2>6, <3>1, <3>2, EnqueueShape
  <2>8. i' <= Len(refs[cur]) + 1 /\ \A j \in 1..(i' - 1) : Colored(refs[cur][j])'
    <3>1. \A j \in 1..(i' - 1) : (j \in 1..(i - 1) \/ j = i) /\ j \in 1..Len(refs[cur])
      BY <1>a, <2>1, <2>2
    <3>2. \A j \in 1..(i - 1) : Colored(refs[cur][j])  BY <1>0, <2>1 DEF Shape, TriColor
    <3>3. \A j \in 1..Len(refs[cur]) : refs[cur][j] \in Node  BY <2>2
    <3>4. i' <= Len(refs[cur]) + 1  BY <1>a, <2>1, <2>2
    <3>5. \A j \in 1..(i' - 1) : Colored(refs[cur][j]) \/ refs[cur][j] = n
      BY <2>n, <3>1, <3>2
    <3> QED BY <2>1, <2>7, <3>1, <3>3, <3>4, <3>5 DEF Colored
  <2>9. TriColor'  BY <2>1, <2>7, <2>8 DEF TriColor, Colored
  <2>10. \A r \in Range(roots) : Colored(r)'
    <3>1. \A r \in Range(roots) : Colored(r) /\ r \in Node
      BY <1>0, <1>a, <2>1 DEF Shape, MarkExact, NoDangling
    <3> QED BY <2>7, <3>1
  <2>11. MarkExact'
    BY <1>0, <2>1, <2>7, <2>8, <2>10 DEF Shape, MarkExact, Colored
  <2> QED BY <2>7, <2>9, <2>11 DEF Shape
<1>6. CASE PropagateDone
  <2>1. /\ UNCHANGED <<nodes, refs, roots, next_id, gray, cur, i, swp>>
        /\ pc = "scan" /\ pc' = "gray" /\ i > Len(refs[cur])
        /\ color'[cur] = "BLACK" /\ \A m \in Node \ {cur} : color'[m] = color[m]
    BY <1>6, <1>a DEF PropagateDone, Goto, graph
  <2>2. \A m \in Node : Colored(m)' <=> Colored(m)
    BY <1>0, <2>1 DEF Shape, GrayQueue, Colored
  <2>3. \A r \in Range(refs[cur]) : Colored(r)
    <3>1. \A j \in 1..Len(refs[cur]) : j \in 1..(i - 1)  BY <1>a, <2>1
    <3>2. \A j \in 1..(i - 1) : Colored(refs[cur][j])  BY <1>0, <2>1 DEF Shape, TriColor
    <3>3. DOMAIN refs[cur] = 1..Len(refs[cur])  BY <1>a
    <3>4. \A j \in DOMAIN refs[cur] : Colored(refs[cur][j])  BY <3>1, <3>2, <3>3, Zenon
    <3> QED BY <3>4, Zenon DEF Range
  <2>4. NoDangling'  BY <1>0, <2>1 DEF Shape, NoDangling
  <2>5. TriColor'
    <3>1. \A m \in nodes : Range(refs[m]) \subseteq Node /\ m \in Node
      BY <1>0, <1>a DEF Shape, NoDangling
    <3> QED BY <1>0, <2>1, <2>2, <2>3, <3>1 DEF Shape, TriColor
  <2>6. GrayQueue'
    BY <1>0, <1>a, <2>1 DEF Shape, GrayQueue
  <2>7. \A S : OG!Closed(S)' <=> OG!Closed(S)  BY <2>1 DEF OG!Closed
  <2>8. \A r \in Range(roots) : Colored(r)'
    <3>1. \A r \in Range(roots) : Colored(r) /\ r \in Node
      BY <1>0, <1>a, <2>1 DEF Shape, MarkExact, NoDangling
    <3> QED BY <2>2, <3>1
  <2>9. MarkExact'  BY <1>0, <2>1, <2>2, <2>7, <2>8 DEF Shape, MarkExact
  <2> QED BY <2>4, <2>5, <2>6, <2>9 DEF Shape
<1>7. CASE MarkDone
  <2>1. /\ UNCHANGED <<nodes, refs, roots, next_id, color, gray, cur, i, swp>>
        /\ pc = "gray" /\ pc' = "sweep" /\ gray = <<>>
    BY <1>0, <1>7 DEF MarkDone, Goto, graph, marks, Shape, MarkExact
  <2>2. NoDangling' /\ TriColor' /\ GrayQueue'
    BY <1>0, <2>1 DEF Shape, NoDangling, TriColor, GrayQueue, Colored
  <2>3. \A S : OG!Closed(S)' <=> OG!Closed(S)  BY <2>1 DEF OG!Closed
  <2>4. MarkExact'  BY <1>0, <2>1, <2>3 DEF Shape, MarkExact, Colored
  <2> QED BY <2>2, <2>4 DEF Shape
<1>8. CASE pon_gc_sweep
  <2>1. /\ pc = "sweep" /\ pc' = "idle" /\ UNCHANGED <<roots, next_id, gray>>
        /\ nodes' = nodes \ White
        /\ \A n \in Node : refs'[n] = IF n \in White THEN <<>> ELSE refs[n]
        /\ \A n \in Node : color'[n] = "WHITE"
    BY <1>8 DEF pon_gc_sweep, Goto
  <2>2. gray = <<>>  BY <1>0, <2>1 DEF Shape, MarkExact
  <2>3. \A n \in Node : color[n] # "GRAY"
    BY <1>0, <2>1, <2>2, EmptyHasNone DEF Shape, GrayQueue
  <2>4. NoDangling'
    <3>1. Range(roots) \subseteq nodes'
      BY <1>0, <2>1 DEF Shape, NoDangling, MarkExact, White, Colored
    <3>2. ASSUME NEW n \in Node, n \notin White  PROVE Range(refs[n]) \subseteq nodes'
      <4>1. CASE n \in nodes
        <5>1. color[n] = "BLACK"  BY <1>a, <2>3, <3>2, <4>1 DEF White, Color
        <5> QED BY <1>0, <2>1, <4>1, <5>1 DEF Shape, TriColor, NoDangling, White, Colored
      <4>2. CASE n \notin nodes
        <5>1. refs[n] = <<>>  BY <1>0, <4>2 DEF Shape, MarkExact
        <5> QED BY <5>1, EmptyHasNone
      <4> QED BY <4>1, <4>2
    <3> QED BY <2>1, <3>1, <3>2, EmptyHasNone DEF NoDangling
  <2>5. TriColor'  BY <1>a, <2>1 DEF TriColor
  <2>6. GrayQueue'  BY <2>1, <2>2, EmptyHasNone DEF GrayQueue
  <2>7. \A n \in Node \ nodes' : refs'[n] = <<>>
    BY <1>0, <2>1 DEF Shape, MarkExact, White
  <2>8. MarkExact'  BY <1>0, <2>1, <2>7 DEF Shape, MarkExact, Colored
  <2> QED BY <2>4, <2>5, <2>6, <2>8 DEF Shape
<1> QED BY <1>1, <1>2, <1>3, <1>4, <1>5, <1>6, <1>7, <1>8 DEF Collector

-----------------------------------------------------------------------------
(* Theorems *)

(* The invariant is inductive. *)
LEMMA GcNext == ASSUME GcInv, [Next]_vars  PROVE GcInv'
<1>1. CASE UNCHANGED vars
  <2> USE <1>1 DEF vars, graph, marks, counts, ctl
  <2>1. TypeOK'  BY DEF GcInv, TypeOK
  <2>2. NoDangling' /\ TriColor'  BY DEF GcInv, NoDangling, TriColor, Colored
  <2>3. GrayQueue'  BY DEF GcInv, GrayQueue
  <2>4. MarkExact'
    <3>1. MarkExact /\ \A S : OG!Closed(S)' <=> OG!Closed(S)  BY DEF GcInv, OG!Closed
    <3>2. \A n : Colored(n)' <=> Colored(n)  BY DEF Colored
    <3> QED BY <3>1, <3>2 DEF MarkExact
  <2> QED BY <2>1, <2>2, <2>3, <2>4 DEF GcInv
<1>2. CASE Next
  BY <1>2, GcType, MutateShape, CollectorShape DEF Next, GcInv, Shape
<1> QED BY <1>1, <1>2

(* The tri-colour invariant holds at every iteration of pon_gc_mark, the   *)
(* gray queue holds the GRAY nodes once each, and no collection leaves a   *)
(* root or a reference to a freed object, for graphs of any size.          *)
THEOREM CollectorSafe == Spec => [](TypeOK /\ NoDangling /\ TriColor /\ GrayQueue)
<1>1. GcInv => TypeOK /\ NoDangling /\ TriColor /\ GrayQueue  BY DEF GcInv
<1> QED BY <1>1, GcInit, GcNext, PTL DEF Spec

(* At the sweep, the objects that are not WHITE are the reachable ones: they *)
(* form a closed set, and every closed set holds them.                       *)
LEMMA SweepExact == ASSUME GcInv, pc = "sweep"  PROVE OG!Reachable = nodes \ White
<1>0. TypeOK /\ Shape  BY DEF GcInv, Shape
<1>1. nodes \subseteq Node /\ color \in [Node -> Color]  BY <1>0 DEF TypeOK
<1>2. \A n \in nodes : n \notin White <=> Colored(n)  BY DEF White, Colored
<1>3. \A n \in Node : color[n] # "GRAY"
  BY <1>0, EmptyHasNone DEF Shape, MarkExact, GrayQueue
<1>4. ASSUME NEW n \in nodes \ White  PROVE Range(refs[n]) \subseteq nodes \ White
  <2>1. color[n] = "BLACK"  BY <1>1, <1>3 DEF White, Color
  <2> QED BY <1>0, <1>1, <1>2, <2>1 DEF Shape, TriColor, NoDangling
<1>5. Range(roots) \subseteq nodes \ White
  BY <1>0, <1>2 DEF Shape, MarkExact, NoDangling
<1>6. OG!Closed(nodes \ White)  BY <1>1, <1>4, <1>5 DEF OG!Closed
<1>7. \A S \in SUBSET nodes : OG!Closed(S) => \A n \in nodes \ White : n \in S
  BY <1>0, <1>1, <1>2 DEF Shape, MarkExact
<1>8. OG!Reachable \subseteq nodes \ White  BY <1>6 DEF OG!Reachable
<1>9. nodes \ White \subseteq OG!Reachable  BY <1>7 DEF OG!Reachable
<1> QED BY <1>8, <1>9

(* A collection that starts from clean colours, as pon_gc_collect/0 always *)
(* does, frees no reachable object.                                        *)
THEOREM CollectSafe == Spec => []NeverCollectsReachable
<1>1. GcInv => NeverCollectsReachable
  <2> SUFFICES ASSUME GcInv, pc = "sweep"  PROVE White \cap OG!Reachable = {}
    BY DEF NeverCollectsReachable
  <2> QED BY SweepExact
<1> QED BY <1>1, GcInit, GcNext, PTL DEF Spec

(* The graph, the colours and the counters of pon_gc_state keep their types. *)
THEOREM GcTypes == Spec => []TypeOK
<1>1. GcInv => TypeOK  BY DEF GcInv
<1> QED BY <1>1, GcInit, GcNext, PTL DEF Spec

(* A BIF finds every root and every reference it follows registered. *)
THEOREM NothingDangles == Spec => []NoDangling
<1>1. GcInv => NoDangling  BY DEF GcInv
<1> QED BY <1>1, GcInit, GcNext, PTL DEF Spec

(* enqueue_gray never links a node a second time through its one next_gray, *)
(* and no node that has been coloured is lost to the scan.                  *)
THEOREM GrayQueueIntact == Spec => []GrayQueue
<1>1. GcInv => GrayQueue  BY DEF GcInv
<1> QED BY <1>1, GcInit, GcNext, PTL DEF Spec

(* Between BIF calls, and when pon_gc_mark starts, every node is WHITE. *)
THEOREM CleanStart == Spec => []IdleWhite
<1>1. Init => IdleWhite  BY DEF Init, pon_gc_init, IdleWhite, Colored
<1>2. ASSUME GcInv, IdleWhite, [Next]_vars  PROVE IdleWhite'
  <2>1. TypeOK /\ MarkExact /\ MarkExact'  BY <1>2, GcNext DEF GcInv
  <2>2. CASE pc' = "idle"  BY <2>1, <2>2 DEF MarkExact, IdleWhite
  <2>3. CASE pc' = "roots" /\ i' = 1
    <3>1. i \in Nat \ {0}  BY <2>1 DEF TypeOK
    <3>2. ~Mutate /\ ~Collector
      <4>1. ~Mutate
        BY <2>3 DEF Mutate, pon_gc_register_objects, pon_gc_add_root, pon_gc_add_ref, Exit, ctl
      <4>2. ~MarkRoot  BY <2>3, <3>1 DEF MarkRoot
      <4>3. ~(MarkRootsDone \/ dequeue_gray \/ PropagateRef \/ PropagateDone \/ MarkDone)
        BY <2>3 DEF MarkRootsDone, dequeue_gray, PropagateRef, PropagateDone, MarkDone, Goto
      <4>4. ~pon_gc_sweep  BY <2>3 DEF pon_gc_sweep, Goto
      <4> QED BY <4>1, <4>2, <4>3, <4>4 DEF Collector
    <3>3. MarkCall(TRUE) \/ UNCHANGED vars  BY <1>2, <3>2 DEF Next
    <3> QED BY <1>2, <2>1, <2>3, <3>3
            DEF MarkExact, IdleWhite, MarkCall, Goto, Colored, vars, marks, ctl
  <2> QED BY <2>2, <2>3 DEF IdleWhite
<1> QED BY <1>1, <1>2, GcInit, GcNext, PTL DEF Spec

(* live_nodes counts the coloured nodes at every step. *)
LiveInv == live_nodes = Cardinality({n \in Node : Colored(n)})

(* enqueue_gray counts a node when it colours it. *)
LEMMA EnqueueCounts ==
  ASSUME TypeOK, LiveInv, NEW n \in Node, enqueue_gray(n)
  PROVE  LiveInv'
<1> DEFINE C == {m \in Node : Colored(m)}
<1>1. CASE color[n] = "WHITE"
  <2>1. C' = C \cup {n} /\ n \notin C
    <3>1. \A m \in Node : Colored(m)' <=> Colored(m) \/ m = n
      BY EnqueueType DEF Colored
    <3> QED BY <1>1, <3>1 DEF Colored
  <2>2. IsFiniteSet(C)  BY NodeFacts, FS_Subset
  <2> HIDE DEF C
  <2>3. Cardinality(C \cup {n}) = Cardinality(C) + 1  BY <2>1, <2>2, FS_AddElement
  <2>4. live_nodes' = live_nodes + 1  BY <1>1 DEF enqueue_gray
  <2> QED BY <2>1, <2>3, <2>4 DEF LiveInv, C
<1>2. CASE color[n] # "WHITE"  BY <1>2 DEF enqueue_gray, marks, LiveInv, Colored
<1> QED BY <1>1, <1>2

(* No step lets the count and the colours part. *)
LEMMA LiveNext == ASSUME GcInv, LiveInv, [Next]_vars  PROVE LiveInv'
<1>0. TypeOK /\ NoDangling /\ GrayQueue  BY DEF GcInv
<1>1. CASE UNCHANGED <<color, live_nodes>>  BY <1>1 DEF LiveInv, Colored
<1>2. CASE live_nodes' = 0 /\ color' = [n \in Node |-> "WHITE"]
  <2>1. {n \in Node : Colored(n)}' = {}  BY <1>2 DEF Colored
  <2> QED BY <1>2, <2>1, FS_EmptySet DEF LiveInv
<1>3. CASE MarkRoot
  <2>1. roots[i] \in Node /\ enqueue_gray(roots[i])
    BY <1>0, <1>3 DEF MarkRoot, TypeOK
  <2> QED BY <1>0, <2>1, EnqueueCounts
<1>4. CASE PropagateRef
  <2>1. refs[cur] \in Seq(Node) /\ i \in 1..Len(refs[cur])  BY <1>0, <1>4 DEF PropagateRef, TypeOK
  <2>2. refs[cur][i] \in Node /\ enqueue_gray(refs[cur][i])  BY <1>4, <2>1 DEF PropagateRef
  <2> QED BY <1>0, <2>2, EnqueueCounts
<1>5. CASE PropagateDone
  <2>1. \A n \in Node : Colored(n)' <=> Colored(n)
    BY <1>0, <1>5 DEF PropagateDone, Goto, GrayQueue, Colored, TypeOK
  <2>2. {n \in Node : Colored(n)}' = {n \in Node : Colored(n)}  BY <2>1
  <2> QED BY <1>5, <2>2 DEF PropagateDone, LiveInv
<1> QED
  BY <1>1, <1>2, <1>3, <1>4, <1>5
     DEF Next, Mutate, Collector, pon_gc_register_objects, pon_gc_add_root, pon_gc_add_ref, Exit,
         MarkCall, MarkRootsDone, dequeue_gray, MarkDone, pon_gc_sweep, vars, marks

(* When the mark ends, live_nodes is the number of the reachable objects. *)
THEOREM LiveCountExact == Spec => []LiveExact
<1>1. Init => LiveInv
  <2> SUFFICES ASSUME Init  PROVE LiveInv  OBVIOUS
  <2>1. {n \in Node : Colored(n)} = {}  BY DEF Init, pon_gc_init, Colored
  <2> QED BY <2>1, FS_EmptySet DEF Init, pon_gc_init, LiveInv
<1>2. ASSUME GcInv, LiveInv  PROVE LiveExact
  <2> SUFFICES ASSUME pc = "sweep"  PROVE live_nodes = Cardinality(OG!Reachable)
    BY DEF LiveExact
  <2>1. TypeOK /\ MarkExact  BY <1>2 DEF GcInv
  <2>2. {n \in Node : Colored(n)} = nodes \ White
    BY <2>1 DEF TypeOK, MarkExact, White, Colored
  <2>3. OG!Reachable = nodes \ White  BY <1>2, SweepExact
  <2> QED BY <1>2, <2>2, <2>3 DEF LiveInv
<1> QED BY <1>1, <1>2, GcInit, GcNext, LiveNext, PTL DEF Spec

(* The BIFs implement the abstract object graph: pon_gc_collect/0 removes  *)
(* exactly the unreachable objects, in one step as the process sees it.    *)
THEOREM RefinesObjectGraph == Spec => ImplementsObjectGraph
<1> USE DEF OG!ogVars
<1> DEFINE edges == [n \in Node |-> Range(refs[n])]
<1>1. Init => OG!OGInit
  BY EmptyHasNone DEF Init, pon_gc_init, OG!OGInit
<1>2. ASSUME GcInv, [Next]_vars  PROVE [OG!OGNext]_(OG!ogVars)
  <2>0. TypeOK /\ Shape  BY <1>2 DEF GcInv, Shape
  <2>a. /\ nodes \subseteq Node /\ refs \in [Node -> Seq(Node)] /\ roots \in Seq(Node)
        /\ next_id \in Nat
    BY <2>0, GcAssumption DEF TypeOK
  <2>1. CASE UNCHANGED graph  BY <2>1 DEF graph
  <2>2. ASSUME NEW k \in 1..MaxNodes, pon_gc_register_objects(k)  PROVE OG!OGNext
    <3> DEFINE N == next_id..(next_id + k - 1)
    <3>1. nodes' = nodes \cup N /\ UNCHANGED <<refs, roots>>
      BY <2>2 DEF pon_gc_register_objects
    <3>2. N \subseteq Node
      <4>1. next_id + k <= MaxNodes  BY <2>2 DEF pon_gc_register_objects
      <4> QED BY <2>a, <4>1, GcAssumption DEF Node
    <3>3. \A n \in nodes : n < next_id /\ n \in Nat
      BY <2>0, <2>a, NodeFacts DEF Shape, MarkExact
    <3>4. \A n \in N : n \notin nodes  BY <2>a, <3>3
    <3> HIDE DEF N
    <3>5. OG!Register(N)  BY <3>1 DEF OG!Register
    <3>6. N \in SUBSET (Node \ nodes)  BY <3>2, <3>4
    <3> QED BY <3>5, <3>6 DEF OG!OGNext
  <2>3. ASSUME NEW n \in Node, pon_gc_add_root(n)  PROVE OG!OGNext
    <3>1. /\ UNCHANGED <<nodes, refs>> /\ n \in nodes /\ roots' = Append(roots, n)
      BY <2>3 DEF pon_gc_add_root
    <3>2. Range(Append(roots, n)) = Range(roots) \cup {n}  BY <2>a, AppendSeq
    <3>3. OG!AddRoot(n)  BY <3>1, <3>2 DEF OG!AddRoot
    <3> QED BY <3>1, <3>3 DEF OG!OGNext
  <2>4. ASSUME NEW f \in Node, NEW t \in Node, pon_gc_add_ref(f, t)  PROVE OG!OGNext
    <3>1. /\ UNCHANGED <<nodes, roots>> /\ f \in nodes /\ t \in nodes
          /\ refs' = [refs EXCEPT ![f] = Append(refs[f], t)]
      BY <2>4 DEF pon_gc_add_ref
    <3>2. Range(Append(refs[f], t)) = Range(refs[f]) \cup {t}  BY <2>a, AppendSeq
    <3>3. /\ Range(refs'[f]) = Range(refs[f]) \cup {t}
          /\ \A n \in Node \ {f} : Range(refs'[n]) = Range(refs[n])
      BY <2>a, <3>1, <3>2
    <3>4. edges' = [edges EXCEPT ![f] = @ \cup {t}]  BY <3>3
    <3>5. OG!AddEdge(f, t)  BY <3>1, <3>4 DEF OG!AddEdge
    <3> QED BY <3>1, <3>5 DEF OG!OGNext
  <2>5. CASE Exit
    <3>1. OG!Clear  BY <2>5, EmptyHasNone DEF Exit, OG!Clear
    <3> QED BY <3>1 DEF OG!OGNext
  <2>6. CASE pon_gc_sweep
    <3>1. /\ pc = "sweep" /\ UNCHANGED roots /\ nodes' = nodes \ White
          /\ \A n \in Node : refs'[n] = IF n \in White THEN <<>> ELSE refs[n]
      BY <2>6 DEF pon_gc_sweep, Goto
    <3>2. OG!Reachable = nodes \ White  BY <1>2, <3>1, SweepExact
    <3>3. ASSUME NEW n \in Node
          PROVE  Range(refs'[n]) = IF n \in OG!Reachable THEN Range(refs[n]) ELSE {}
      <4>1. CASE n \in White  BY <3>1, <3>2, <4>1, EmptyHasNone
      <4>2. CASE n \notin White /\ n \in nodes  BY <3>1, <3>2, <4>2
      <4>3. CASE n \notin nodes
        <5>1. refs[n] = <<>> /\ n \notin White
          BY <2>0, <4>3 DEF Shape, MarkExact, White
        <5> QED BY <3>1, <3>2, <4>3, <5>1, EmptyHasNone
      <4> QED BY <4>1, <4>2, <4>3
    <3>4. edges' = [n \in Node |-> IF n \in OG!Reachable THEN edges[n] ELSE {}]
      BY <3>3
    <3>5. OG!Collect  BY <3>1, <3>2, <3>4 DEF OG!Collect
    <3> QED BY <3>5 DEF OG!OGNext
  <2>7. CASE MarkCall(TRUE) \/ (Collector /\ ~pon_gc_sweep)
    <3>1. UNCHANGED graph
      BY <2>7 DEF Collector, MarkCall, MarkRoot, MarkRootsDone, dequeue_gray, PropagateRef,
         PropagateDone, MarkDone
    <3> QED BY <2>1, <3>1
  <2>8. CASE UNCHANGED vars
    <3>1. UNCHANGED graph  BY <2>8 DEF vars
    <3> QED BY <2>1, <3>1
  <2> QED BY <1>2, <2>2, <2>3, <2>4, <2>5, <2>6, <2>7, <2>8 DEF Next, Mutate
<1> QED BY <1>1, <1>2, GcInit, GcNext, PTL DEF Spec, ImplementsObjectGraph, OG!OGSpec
=============================================================================
