------------------------------- MODULE Dentries --------------------------------
(***************************************************************************)
(* The format of the directory file of the F2FS simulator: what FindFile,  *)
(* add_link, unlink and GetChildNumber of CF2fsSimulator do to it, as      *)
(* operators on a directory file.                                          *)
(*                                                                         *)
(* A directory is a file of dentry blocks in levels: level l has 2^l       *)
(* blocks, and a name may only be in the block of the level that its hash  *)
(* selects.  A block has DENTRY_PER_BLOCK slots, a long name takes several *)
(* adjacent ones; the bitmap marks every slot taken, the inode number is   *)
(* in the first.  A block that loses its last name becomes a hole of the   *)
(* file, while the file keeps its size, from which the levels are counted. *)
(* A write may be refused for lack of space.                               *)
(***************************************************************************)
EXTENDS Integers, FiniteSets, FiniteSetsExt

CONSTANTS
    Names,          \* file names
    Hash,           \* FileNameHash of a name
    SlotNum,        \* the slots a name takes
    Fids,           \* inode numbers
    DentryPerBlock, \* DENTRY_PER_BLOCK
    MaxLevel,       \* MAX_DENTRY_LEVEL
    None            \* an invalid inode number, and a hole

ASSUME DirAssumption ==
    /\ Hash \in [Names -> Nat]
    /\ DentryPerBlock \in Nat \ {0} /\ MaxLevel \in Nat
    /\ SlotNum \in [Names -> 1 .. DentryPerBlock]
    /\ None \notin Names \cup Fids

\* The paths of the testers: a name in the root, or in a directory of the root.
Paths == {<<n>> : n \in Names} \cup (Names \X Names)

Slot == 0 .. DentryPerBlock - 1
BlkNr == 0 .. 2 ^ MaxLevel - 2

Entry == [name : Names, ino : Fids]
DentryBlock == [bitmap : SUBSET Slot, dentries : [Slot -> Entry \cup {None}]]

ASSUME NoneAssumption == None \notin Entry \cup DentryBlock

-------------------------------------------------------------------------------
(***************************************************************************)
(* A directory file: its size in blocks, and its blocks                    *)
(***************************************************************************)
EmptyDir == [size |-> 0, blk |-> [i \in BlkNr |-> None]]

\* AllocateDentryBlock
InitDentry == [bitmap |-> {}, dentries |-> [s \in Slot |-> None]]

\* DepthFromBlkNr: the levels that a file of nr blocks has.
DepthFromBlkNr ==
    [nr \in 0 .. 2 ^ MaxLevel - 1 |-> Min({d \in 0 .. MaxLevel : nr < 2 ^ d})]

\* The block of each level where a name may be.
BlockOf ==
    [level \in 0 .. MaxLevel - 1 |->
        [n \in Names |-> (2 ^ level - 1) + (Hash[n] % 2 ^ level)]]

\* The slots of a block that hold the name.
SlotsWith(block, n) ==
    {s \in Slot : block.dentries[s] # None /\ block.dentries[s].name = n}

\* The levels that hold the name; a hole is passed over.
LevelsWith(d, n) ==
    {l \in 0 .. DepthFromBlkNr[d.size] - 1 :
        d.blk[BlockOf[l][n]] # None /\ SlotsWith(d.blk[BlockOf[l][n]], n) # {}}

\* Mutant: the search ends at the first hole.
FindFileStopsAtHole(d, n) ==
    LET found == {l \in LevelsWith(d, n) : \A k \in 0 .. l : d.blk[BlockOf[k][n]] # None}
    IN  IF found = {} THEN None
        ELSE LET block == d.blk[BlockOf[Min(found)][n]]
             IN  block.dentries[Min(SlotsWith(block, n))].ino

\* FindFile
FindFile(d, n) ==
    LET found == LevelsWith(d, n)
    IN  IF found = {} THEN None
        ELSE LET block == d.blk[BlockOf[Min(found)][n]]
             IN  block.dentries[Min(SlotsWith(block, n))].ino

\* GetChildNumber
GetChildNumber(d) ==
    Cardinality({b \in BlkNr \X Slot :
        /\ b[1] < d.size /\ d.blk[b[1]] # None
        /\ d.blk[b[1]].dentries[b[2]] # None})

\* The first slots of the runs that have room for k slots.
RoomAt(block, k) ==
    {s \in Slot : s + k <= DentryPerBlock /\ (s .. s + k - 1) \cap block.bitmap = {}}

PutEntry(block, s, n, f) ==
    [bitmap |-> block.bitmap \cup (s .. s + SlotNum[n] - 1),
     dentries |-> [block.dentries EXCEPT ![s] = [name |-> n, ino |-> f]]]

\* The levels where the name fits: in a block, or in a hole.
LevelsOpen(d, n) ==
    {l \in 0 .. DepthFromBlkNr[d.size] - 1 :
        LET block == d.blk[BlockOf[l][n]]
        IN  block = None \/ RoomAt(block, SlotNum[n]) # {}}

\* Mutant: the file grows by the one block that is written.
PlaceOneBlock(d, n) ==
    LET depth == DepthFromBlkNr[d.size]
    IN  IF LevelsOpen(d, n) # {}
        THEN [level |-> Min(LevelsOpen(d, n)), size |-> d.size]
        ELSE [level |-> depth, size |-> BlockOf[depth][n] + 1]

(* Where add_link puts a name, and the size it gives the file: the first     *)
(* level with room, else a new one, which the size must fill.                *)
Place(d, n) ==
    LET depth == DepthFromBlkNr[d.size]
    IN  IF LevelsOpen(d, n) # {}
        THEN [level |-> Min(LevelsOpen(d, n)), size |-> d.size]
        ELSE [level |-> depth, size |-> 2 ^ (depth + 1) - 1]

HasPlace(d, n) == LevelsOpen(d, n) # {} \/ DepthFromBlkNr[d.size] < MaxLevel

\* The dentry block that add_link writes.
LinkBlock(d, n, f) ==
    LET old   == d.blk[BlockOf[Place(d, n).level][n]]
        block == IF old = None THEN InitDentry ELSE old
    IN  PutEntry(block, Min(RoomAt(block, SlotNum[n])), n, f)

(* add_link when it has a place; the new size stays when the write is        *)
(* refused.                                                                  *)
AddLink(d, n, f) ==
    [size |-> Place(d, n).size,
     blk |-> [d.blk EXCEPT ![BlockOf[Place(d, n).level][n]] = LinkBlock(d, n, f)]]

\* Mutant: a level is added before there is known to be room for it.
AddLinkRefusedGrows(d, n) == [d EXCEPT !.size = 2 ^ (DepthFromBlkNr[d.size] + 1) - 1]

AddLinkRefused(d, n) == [d EXCEPT !.size = Place(d, n).size]

\* The block and the slot where unlink finds the name of inode f.
LinkAt(d, n, f) ==
    LET match(l) == {s \in SlotsWith(d.blk[BlockOf[l][n]], n) :
                        d.blk[BlockOf[l][n]].dentries[s].ino = f}
        l == Min({k \in LevelsWith(d, n) : match(k) # {}})
    IN  [blk |-> BlockOf[l][n], slot |-> Min(match(l))]

\* The block without its entry.
UnlinkBlock(d, n, f) ==
    LET at == LinkAt(d, n, f) IN
    [bitmap |-> d.blk[at.blk].bitmap \ (at.slot .. at.slot + SlotNum[n] - 1),
     dentries |-> [d.blk[at.blk].dentries EXCEPT ![at.slot] = None]]

\* Mutant: an empty block stays.
UnlinkKeepsBlock(d, n, f) ==
    [d EXCEPT !.blk[LinkAt(d, n, f).blk] = UnlinkBlock(d, n, f)]

\* unlink: an empty block is truncated, any other written.
Unlink(d, n, f) ==
    LET block == UnlinkBlock(d, n, f)
    IN  [d EXCEPT !.blk[LinkAt(d, n, f).blk] =
            IF block.bitmap = {} THEN None ELSE block]

UnlinkWrites(d, n, f) == UnlinkBlock(d, n, f).bitmap # {}
===============================================================================
