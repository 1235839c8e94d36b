------------------------------- MODULE WriteLog -------------------------------
(***************************************************************************)
(* What a simulated disk promises: each disk is a log of block writes of   *)
(* its own.  A write adds to the end, a power loss drops writes from the   *)
(* end, a copy starts from the log of another disk, and a block reads as   *)
(* the last write to it in the log.                                        *)
(***************************************************************************)
EXTENDS Integers, Sequences

CONSTANTS Disks, Lbas, Values

VARIABLES log, inUse

vars == <<log, inUse>>

Init ==
    /\ inUse \in {{d} : d \in Disks}
    /\ log = [d \in Disks |-> <<>>]

Write(d) ==
    /\ d \in inUse
    /\ \E l \in Lbas, v \in Values : log' = [log EXCEPT ![d] = Append(@, <<l, v>>)]
    /\ UNCHANGED inUse

DropLast(d) ==
    /\ d \in inUse /\ log[d] # <<>>
    /\ log' = [log EXCEPT ![d] = SubSeq(@, 1, Len(@) - 1)]
    /\ UNCHANGED inUse

Copy(d, from) ==
    /\ from \in inUse /\ d \notin inUse
    /\ inUse' = inUse \cup {d}
    /\ log' = [log EXCEPT ![d] = log[from]]

Discard(d) ==
    /\ d \in inUse
    /\ inUse' = inUse \ {d}
    /\ log' = [log EXCEPT ![d] = <<>>]

Next ==
    \E d \in Disks : \/ Write(d)
                     \/ DropLast(d)
                     \/ \E from \in Disks : Copy(d, from)
                     \/ Discard(d)

Spec == Init /\ [][Next]_vars
===============================================================================
