------------------------------- MODULE MCStorage -------------------------------
(* A small instance of Storage: three disks that are copied from each other,   *)
(* and fewer versions than they could use.                                     *)
EXTENDS Storage, TLC

Symmetry == Permutations(Disks) \cup Permutations(Versions)
              \cup Permutations(Lbas) \cup Permutations(Values)
===============================================================================
