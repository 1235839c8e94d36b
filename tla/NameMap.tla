-------------------------------- MODULE NameMap --------------------------------
(***************************************************************************)
(* What a directory promises: a map from names to inodes.  Creating,       *)
(* removing and renaming a name are atomic and touch no other name; a      *)
(* refused operation changes nothing.  The exception is a rename stopped   *)
(* by an exception, after which nothing is promised but that no name was   *)
(* lost.                                                                   *)
(***************************************************************************)
CONSTANTS Names, Fids, None

VARIABLES
    map,    \* the inode of every name, None for a name that does not exist
    halted  \* an exception has ended the run

vars == <<map, halted>>

Init ==
    /\ map = [n \in Names |-> None]
    /\ halted = FALSE

OnlyChanges(S) == \A n \in Names \ S : map'[n] = map[n]

Create(n) ==
    /\ map[n] = None /\ map'[n] \in Fids
    /\ OnlyChanges({n}) /\ UNCHANGED halted

Remove(n) ==
    /\ map[n] # None /\ map'[n] = None
    /\ OnlyChanges({n}) /\ UNCHANGED halted

Rename(a, b) ==
    /\ map[a] # None /\ map[b] = None
    /\ map'[a] = None /\ map'[b] = map[a]
    /\ OnlyChanges({a, b}) /\ UNCHANGED halted

\* An exception leaves the map alone, or a rename with both its names.
Throw ==
    /\ halted' = TRUE
    /\ \/ OnlyChanges({})
       \/ \E a, b \in Names :
            /\ map[a] # None /\ map[b] = None /\ map'[b] = map[a]
            /\ OnlyChanges({b})

Next ==
    /\ ~halted
    /\ map' \in [Names -> Fids \cup {None}]
    /\ \/ \E n \in Names : Create(n) \/ Remove(n)
       \/ \E a, b \in Names : Rename(a, b)
       \/ Throw

Spec == Init /\ [][Next]_vars
===============================================================================
