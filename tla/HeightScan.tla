------------------------------ MODULE HeightScan ------------------------------
(***************************************************************************)
(* What the sync engine promises, without tasks, workers or channels: the  *)
(* heights from First upwards become known in order, and each of them is   *)
(* scanned exactly once, in batches of consecutive heights.                *)
(***************************************************************************)
EXTENDS Integers, FiniteSets

CONSTANTS
  First,      \* the first height the wallet is interested in
  BatchSize   \* the largest batch

VARIABLES
  top,        \* heights First .. top - 1 are known
  scanned     \* heights that were scanned

vars == <<top, scanned>>

Init == top = First /\ scanned = {}

\* The chain is found to be higher.
Extend ==
  /\ top' > top
  /\ UNCHANGED scanned

\* A batch of known heights, none of them scanned before, is scanned.
Scan ==
  \E lo \in First..(top - 1) : \E hi \in lo..(top - 1) :
    /\ hi - lo < BatchSize
    /\ (lo..hi) \intersect scanned = {}
    /\ scanned' = scanned \union (lo..hi)
    /\ UNCHANGED top

Next == Extend \/ Scan

Spec == Init /\ [][Next]_vars
=============================================================================
