------------------------------- MODULE MCCgf -------------------------------
(* Cgf with two peers and, in turn, small spools.                             *)
EXTENDS Cgf, TLC

CONSTANTS p1, p2,
          long,     \* a file of three batches: acks come out of order
          bad,      \* a file that does not start with a record
          torn,     \* a file whose first record is cut off
          clipped,  \* a file that is cut off after its first batch
          one, uno  \* files of one batch each

MCFiles == {long, bad, torn, clipped, one, uno}

MCSpools == {{long}, {one, uno}, {bad, torn}, {clipped}}

MCBatches ==
    [f \in MCFiles |-> CASE f = long -> 3 [] f = clipped -> 2 [] OTHER -> 1]

MCWhole ==
    [f \in MCFiles |-> IF f \in {bad, torn, clipped} THEN MCBatches[f] - 1 ELSE MCBatches[f]]

MCConfigs == {<<p1, p2>>, <<p2>>}

(* Nothing but its name tells one file of one batch from the other.           *)
MCSymmetry == Permutations({one, uno})

=============================================================================
