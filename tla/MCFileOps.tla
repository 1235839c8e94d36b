------------------------------- MODULE MCFileOps -------------------------------
(***************************************************************************)
(* Instances of FileOps for TLC.  Names of one slot and one hash, and one  *)
(* slot in a dentry block, so that the second name of a                    *)
(* directory opens a second level; index nodes of three blocks, so that a  *)
(* file of four needs two; and few enough nodes that they run out.         *)
(***************************************************************************)
EXTENDS FileOps, TLC

Same0 == [n \in Names |-> 0]
Same1 == [n \in Names |-> 1]

Symmetry == Permutations(Names)
===============================================================================
