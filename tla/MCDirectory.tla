------------------------------ MODULE MCDirectory ------------------------------
(* A small instance of Directory: names that collide on the first levels and   *)
(* part on deeper ones, and long names that need adjacent slots.               *)
EXTENDS Directory, TLC

MCNames == {"a", "b", "c", "d", "e", "g"}
MCHash == [n \in MCNames |->
    CASE n = "a" -> 0 [] n = "b" -> 0 [] n = "c" -> 1 [] n = "d" -> 2 
      [] n = "e" -> 4 [] n = "g" -> 5]
MCSlotNum == [n \in MCNames |-> IF n \in {"b", "e"} THEN 2 ELSE 1]

Symmetry == Permutations(Fids)
===============================================================================
