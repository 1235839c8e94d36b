------------------------------ MODULE MCSegments ------------------------------
(* A small instance of Segments. *)
EXTENDS Segments, TLC

\* After GC has freed a current segment (run segments_current) the tables no
\* longer mean what the invariants are about.
CurrentKept == CurrentNotFree

Symmetry == Permutations(Nodes \ {Root}) \cup Permutations(Data)
===============================================================================
