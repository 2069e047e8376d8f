------------------------------- MODULE PonEts -------------------------------
(***************************************************************************)
(* The registry of ETS watchers (pon_ets.c, pon_ets.h): an array of linked *)
(* lists and the number of watchers in them.  A list is a sequence, its    *)
(* first watcher the first element.  The flag active is 1 in every watcher *)
(* of a list, since remove clears it only in the one it frees, so it has   *)
(* no state here.  The loop of remove_process takes a step per watcher.    *)
(***************************************************************************)
EXTENDS Lists, FiniteSets, Functions

CONSTANTS
  Tables, Keys, Processes,
  PON_ETS_WATCHER_BUCKETS,
  pon_ets_watcher_bucket  \* the bucket of a table and a key: any function will do

Buckets == 0 .. (PON_ETS_WATCHER_BUCKETS - 1)

ASSUME BucketAssumption ==
  /\ PON_ETS_WATCHER_BUCKETS \in Nat \ {0}
  /\ pon_ets_watcher_bucket \in [Tables \X Keys -> Buckets]

VARIABLES
  buckets,
  count,
  sweep,  \* the locals of remove_process, NoSweep outside of it
  ret     \* what the last call returned

etsVars == <<buckets, count, sweep, ret>>

Watcher == [table : Tables, key : Keys, process : Processes]

NoSweep == [bucket |-> -1, at |-> 0, process |-> {}, removed |-> 0]

Sweeping == sweep # NoSweep

BucketOf(w) == pon_ets_watcher_bucket[<<w.table, w.key>>]

EtsInit ==
  /\ buckets = [b \in Buckets |-> <<>>]
  /\ count = 0
  /\ sweep = NoSweep
  /\ ret = 0

\* A second watcher is put beside the first when only the head of the list is compared.
pon_ets_watcher_add_Head(w) ==
  LET s == buckets[BucketOf(w)]
  IN  /\ \/ /\ s # <<>> => s[1] # w
            /\ buckets' = [buckets EXCEPT ![BucketOf(w)] = <<w>> \o @]
            /\ count' = count + 1 /\ ret' = 0
         \/ UNCHANGED <<buckets, count>> /\ ret' = -1
      /\ UNCHANGED sweep

\* The second disjunct: the watcher is registered already, or malloc fails.
pon_ets_watcher_add(w) ==
  LET s == buckets[BucketOf(w)]
  IN  /\ \/ /\ \A i \in 1 .. Len(s) : s[i] # w
            /\ buckets' = [buckets EXCEPT ![BucketOf(w)] = <<w>> \o @]
            /\ count' = count + 1 /\ ret' = 0
         \/ UNCHANGED <<buckets, count>> /\ ret' = -1
      /\ UNCHANGED sweep

\* The first watcher of the list that is the given one, if there is one.
pon_ets_watcher_remove(w) ==
  LET s == buckets[BucketOf(w)]
  IN  /\ \/ \E i \in 1 .. Len(s) :
              /\ s[i] = w /\ \A j \in 1 .. (i - 1) : s[j] # w
              /\ buckets' = [buckets EXCEPT ![BucketOf(w)] = Unlink(s, i)]
              /\ count' = count - 1 /\ ret' = 0
         \/ /\ \A i \in 1 .. Len(s) : s[i] # w
            /\ UNCHANGED <<buckets, count>> /\ ret' = -1
      /\ UNCHANGED sweep

\* The watchers of the list are counted; a message to each is left for later.
pon_ets_watcher_notify(t, k) ==
  LET s == buckets[pon_ets_watcher_bucket[<<t, k>>]]
  IN  /\ ret' = Cardinality({i \in 1 .. Len(s) : s[i].table = t /\ s[i].key = k})
      /\ UNCHANGED <<buckets, count, sweep>>

pon_ets_watcher_remove_process(p) ==
  /\ sweep' = [bucket |-> 0, at |-> 1, process |-> p, removed |-> 0]
  /\ UNCHANGED <<buckets, count, ret>>

SweepUnlink_Skip ==
  LET b == sweep.bucket s == buckets[b] i == sweep.at
  IN  /\ i <= Len(s) /\ s[i].process = sweep.process
      /\ buckets' = [buckets EXCEPT ![b] = Unlink(s, i)]
      /\ sweep' = [sweep EXCEPT !.at = @ + 1, !.removed = @ + 1]
      /\ UNCHANGED <<count, ret>>

\* The watcher under inspection is of the process: prev stays where it is.
SweepUnlink ==
  LET b == sweep.bucket s == buckets[b] i == sweep.at
  IN  /\ i <= Len(s) /\ s[i].process = sweep.process
      /\ buckets' = [buckets EXCEPT ![b] = Unlink(s, i)]
      /\ sweep' = [sweep EXCEPT !.removed = @ + 1]
      /\ UNCHANGED <<count, ret>>

SweepNext ==
  LET s == buckets[sweep.bucket] i == sweep.at
  IN  /\ i <= Len(s) /\ s[i].process # sweep.process
      /\ sweep' = [sweep EXCEPT !.at = @ + 1]
      /\ UNCHANGED <<buckets, count, ret>>

SweepBucket ==
  /\ sweep.at > Len(buckets[sweep.bucket])
  /\ sweep.bucket + 1 \in Buckets
  /\ sweep' = [sweep EXCEPT !.bucket = @ + 1, !.at = 1]
  /\ UNCHANGED <<buckets, count, ret>>

SweepReturn_Keep ==
  /\ sweep.at > Len(buckets[sweep.bucket])
  /\ sweep.bucket + 1 \notin Buckets
  /\ sweep' = NoSweep /\ ret' = sweep.removed
  /\ UNCHANGED <<buckets, count>>

SweepReturn ==
  /\ sweep.at > Len(buckets[sweep.bucket])
  /\ sweep.bucket + 1 \notin Buckets
  /\ sweep' = NoSweep /\ ret' = sweep.removed
  /\ count' = count - sweep.removed
  /\ UNCHANGED buckets

EtsNext ==
  \/ ~Sweeping /\ \E w \in Watcher : pon_ets_watcher_add(w)
  \/ ~Sweeping /\ \E w \in Watcher : pon_ets_watcher_remove(w)
  \/ ~Sweeping /\ \E t \in Tables, k \in Keys : pon_ets_watcher_notify(t, k)
  \/ ~Sweeping /\ \E p \in Processes : pon_ets_watcher_remove_process(p)
  \/ Sweeping /\ SweepUnlink
  \/ Sweeping /\ SweepNext
  \/ Sweeping /\ SweepBucket
  \/ Sweeping /\ SweepReturn

EtsSpec == EtsInit /\ [][EtsNext]_etsVars

Registered == UNION {Range(buckets[b]) : b \in Buckets}

SweepType ==
  [bucket : Buckets, at : Nat \ {0}, process : Processes, removed : Nat]

\* The lists hold watchers, and the position of a sweep is within its list or
\* just past its end.
EtsTypeOK ==
  /\ buckets \in [Buckets -> Seq(Watcher)]
  /\ count \in Nat
  /\ ret \in Nat \cup {-1}
  /\ sweep \in SweepType \cup {NoSweep}
  /\ Sweeping => sweep.at <= Len(buckets[sweep.bucket]) + 1

\* A watcher is in one list only, once, and that is the list in which add, remove
\* and notify look for it; none of them would find it in another.
LinkedOnce ==
  \A b \in Buckets :
    /\ IsInjective(buckets[b])
    /\ \A w \in Range(buckets[b]) : BucketOf(w) = b

\* count is the number of watchers in the lists, and during remove_process, which
\* corrects it in the end, it exceeds that by the watchers removed so far.
CountExact == count = Cardinality(Registered) + sweep.removed

\* The loop of remove_process has left behind it no watcher of the process.
SweptClean ==
  Sweeping =>
    \A b \in Buckets : \A i \in 1 .. Len(buckets[b]) :
      b < sweep.bucket \/ (b = sweep.bucket /\ i < sweep.at)
        => buckets[b][i].process # sweep.process

\* A dying process watches nothing from the moment remove_process is called.
Watched == {w \in Registered : Sweeping => w.process # sweep.process}
Remaining == {w \in Registered : w.process = sweep.process}

Dying == IF Sweeping THEN {sweep.removed + Cardinality(Remaining)} ELSE {}

W == INSTANCE WatcherSet WITH watchers <- Watched, dying <- Dying

\* The lists implement a set of watchers: add and remove change one element and
\* say whether they did, notify returns how many processes watch the key, and
\* remove_process removes the watchers of the process, all of them and no other,
\* and returns their number.
ImplementsWatcherSet == W!Spec
=============================================================================
