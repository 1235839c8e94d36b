------------------------------- MODULE FileTree --------------------------------
(***************************************************************************)
(* What the simulated file system promises to the testers: a tree of files *)
(* and directories whose operations are atomic, also under power loss.     *)
(*                                                                         *)
(* base is the tree that a power loss brings back, prev the one it brings  *)
(* back when it strikes before the last operation has reached the disk.    *)
(* Creating, removing and renaming are durable when they return; writing   *)
(* is when a later operation makes it so, and never in part.               *)
(***************************************************************************)
EXTENDS Naturals, Sequences

CONSTANTS Paths, MaxFile

VARIABLES tree, base, prev

vars == <<tree, base, prev>>

Empty == [p \in {} |-> [type |-> "file", size |-> 0]]

Init == tree = Empty /\ base = Empty /\ prev = Empty

Below(p, q) == Len(p) < Len(q) /\ SubSeq(q, 1, Len(p)) = p

\* How one operation turns tree t into tree u.
Creates(t, u, p) ==
    /\ p \notin DOMAIN t /\ DOMAIN u = DOMAIN t \cup {p}
    /\ u[p] \in [type : {"file", "dir"}, size : {0}]
    /\ \A q \in DOMAIN t : u[q] = t[q]

Removes(t, u, p) ==
    /\ p \in DOMAIN t /\ \A q \in DOMAIN t : ~Below(p, q)
    /\ u = [q \in DOMAIN t \ {p} |-> t[q]]

\* Renaming a directory takes what is below it along.
Renames(t, u, p, q) ==
    LET moved == {x \in DOMAIN t : x = p \/ Below(p, x)}
        to(x) == q \o SubSeq(x, Len(p) + 1, Len(x))
    IN  /\ p \in DOMAIN t /\ q \notin DOMAIN t /\ ~Below(p, q)
        /\ DOMAIN u = (DOMAIN t \ moved) \cup {to(x) : x \in moved}
        /\ \A x \in DOMAIN t \ moved : u[x] = t[x]
        /\ \A x \in moved : u[to(x)] = t[x]

Writes(t, u, p) ==
    /\ p \in DOMAIN t /\ t[p].type = "file" /\ DOMAIN u = DOMAIN t
    /\ u[p] \in [type : {"file"}, size : t[p].size .. MaxFile]
    /\ \A q \in DOMAIN t \ {p} : u[q] = t[q]

-------------------------------------------------------------------------------
\* The two ways an operation ends: with a checkpoint, or without.
Durable == base' = tree' /\ prev' = base
Volatile == base' = base /\ prev' = base

Change(t, u) ==
    /\ \/ \E p \in Paths : Creates(t, u, p) \/ Removes(t, u, p)
       \/ \E p, q \in Paths : Renames(t, u, p, q)
    /\ Durable

Write(t, u) == (\E p \in Paths : Writes(t, u, p)) /\ Volatile

\* Closing, unmounting, and whatever else shows no change.
Flush(t, u) == u = t /\ (Durable \/ Volatile)

PowerLoss(u) == (u = base \/ u = prev) /\ base' = u /\ prev' = u

Next ==
    \E t \in {tree}, u \in {tree'} :
        Flush(t, u) \/ Write(t, u) \/ Change(t, u) \/ PowerLoss(u)

Spec == Init /\ [][Next]_vars
===============================================================================
