------------------------------ MODULE MCParts ------------------------------
(***************************************************************************)
(* Four parts of the system that share no state and call neither each      *)
(* other nor the rest: the Condition, the scan of the wheel's counts, the  *)
(* registry of ETS watchers and the timerfd instigations.  One of them     *)
(* runs in each behaviour, the others rest.                                *)
(***************************************************************************)
EXTENDS PonCondition, ScntScan, PonEts, Instigations

VARIABLE part

\* k1 and k2 share a bucket, k3 has the other one.
MCBucket == [tk \in Tables \X Keys |-> IF tk[2] = "k3" THEN 1 ELSE 0]

\* A scan that is over.
NoScan ==
  /\ call = [slot |-> 0, left |-> 1, scnt |-> [r \in ScntIxs |-> 0]]
  /\ LET nxt == scnt_wheel_next(call.slot, call.left, call.scnt)
     IN  slot = nxt.slot /\ left = nxt.left
  /\ ix = 0 /\ spc = "done"

PartsInit ==
  /\ \/ part = "scan" /\ ScanInit
     \/ part \in {"condition", "watchers", "instigations"} /\ NoScan
  /\ CondInit /\ EtsInit /\ TiInit

partsVars == <<part, condVars, scanVars, etsVars, tiVars>>

PartsNext ==
  \/ /\ part = "condition" /\ CondNext
     /\ UNCHANGED <<part, scanVars, etsVars, tiVars>>
  \/ /\ part = "scan" /\ ScanNext
     /\ UNCHANGED <<part, condVars, etsVars, tiVars>>
  \/ /\ part = "watchers" /\ EtsNext
     /\ UNCHANGED <<part, condVars, scanVars, tiVars>>
  \/ /\ part = "instigations" /\ TiNext
     /\ UNCHANGED <<part, condVars, scanVars, etsVars>>
  \/ part = "scan" /\ spc = "done" /\ UNCHANGED partsVars  \* the call has returned

\* The Condition and the scan with their own fairness; a scan that is over has
\* no step left.
PartsSpec ==
  /\ PartsInit
  /\ [][PartsNext]_partsVars
  /\ part = "condition" => CondFairness
  /\ WF_scanVars(ScanNext)
=============================================================================
