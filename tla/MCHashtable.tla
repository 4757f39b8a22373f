----------------------------- MODULE MCHashtable -----------------------------
(* An instance of Hashtable for TLC: five keys, of which two collide in    *)
(* every table of the run and two more in all but the largest, and a       *)
(* minimum size of 2 instead of 16, so that five entries make a table grow *)
(* and shrink through every size there is.                                 *)
EXTENDS Hashtable

CONSTANTS k1, k2, k3, k4, k5

MCKeys == {k1, k2, k3, k4, k5}

MCHash ==
  [k \in MCKeys |->
     CASE k = k1 -> 1 [] k = k2 -> 17 [] k = k3 -> 9 [] k = k4 -> 3 [] k = k5 -> 6]

MCBucketCounts == {2, 4, 8, 16}

=============================================================================
