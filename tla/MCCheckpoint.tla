----------------------------- MODULE MCCheckpoint -----------------------------
(* A small instance of Checkpoint: a NAT of two blocks (two entries and one), *)
(* a SIT of two one-entry blocks, journals of two slots, the SIT journal in   *)
(* two blocks.  Three updates overflow the NAT journal; three checkpoints     *)
(* write both copies of a block.                                              *)
EXTENDS Checkpoint, TLC

MCEntryNr == [nat |-> 3, sit |-> 2]
MCPerBlk  == [nat |-> 2, sit |-> 1]
Symmetry  == Permutations(Values)
===============================================================================
