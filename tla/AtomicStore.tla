------------------------------ MODULE AtomicStore ------------------------------
(***************************************************************************)
(* What a checkpointed store promises: a live state that can change freely *)
(* and a durable one that changes only by taking over the whole live state *)
(* at once.  A power loss at any moment brings the live state back to the  *)
(* durable one.                                                            *)
(***************************************************************************)
CONSTANT States     \* the states the store can hold

VARIABLES live, durable, up

vars == <<live, durable, up>>

Init ==
    /\ live \in States
    /\ durable = live
    /\ up = TRUE

Update ==
    /\ up
    /\ live' \in States
    /\ UNCHANGED <<durable, up>>

Commit ==
    /\ up
    /\ durable' = live
    /\ UNCHANGED <<live, up>>

Crash ==
    /\ up
    /\ up' = FALSE
    /\ live' = durable
    /\ UNCHANGED durable

Restart ==
    /\ ~up
    /\ up' = TRUE
    /\ UNCHANGED <<live, durable>>

Next == Update \/ Commit \/ Crash \/ Restart

Spec == Init /\ [][Next]_vars
================================================================================
