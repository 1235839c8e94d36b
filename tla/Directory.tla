------------------------------- MODULE Directory -------------------------------
(***************************************************************************)
(* One directory of the F2FS simulator under the operations that change    *)
(* it: creating, removing and renaming a name (the parts of                *)
(* InternalCreatreFile, FileDelete, DirDelete and FileMove that work on    *)
(* the directory file).                                                    *)
(*                                                                         *)
(* A write that add_link asks for may be refused, and the operation then   *)
(* fails; when a write of unlink is refused, which counts on the reserve,  *)
(* the code throws, and the tester stops.                                  *)
(***************************************************************************)
EXTENDS Dentries

VARIABLES
    dir,    \* the directory file
    status  \* "ok", or "thrown" after an exception

vars == <<dir, status>>

TypeOK ==
    /\ dir.size \in 0 .. 2 ^ MaxLevel - 1
    /\ dir.blk \in [BlkNr -> DentryBlock \cup {None}]
    /\ status \in {"ok", "thrown"}

InUse == {FindFile(dir, n) : n \in Names} \ {None}

Init ==
    /\ dir = EmptyDir
    /\ status = "ok"

\* InternalCreatreFile: refused when the name exists, else add_link of a new inode.
Create(n, f) ==
    /\ status = "ok" /\ FindFile(dir, n) = None
    /\ f \notin InUse
    /\ HasPlace(dir, n)
    /\ dir' = AddLink(dir, n, f)
    /\ UNCHANGED status

(* The write of the dentry block is refused, for a new file or for the new   *)
(* name of a rename: the size has already grown.                             *)
LinkRefused(n) ==
    /\ status = "ok" /\ FindFile(dir, n) = None
    /\ HasPlace(dir, n)
    /\ dir' = AddLinkRefused(dir, n)
    /\ UNCHANGED status

\* FileDelete and DirDelete: unlink.
Remove(n) ==
    /\ status = "ok" /\ FindFile(dir, n) # None
    /\ dir' = Unlink(dir, n, FindFile(dir, n))
    /\ UNCHANGED status

\* unlink throws when a block that keeps other names cannot be written.
RemoveThrows(n) ==
    /\ status = "ok" /\ FindFile(dir, n) # None
    /\ UnlinkWrites(dir, n, FindFile(dir, n))
    /\ status' = "thrown"
    /\ UNCHANGED dir

\* FileMove within a directory: the new name is added, then the old one removed.
Move(a, b) ==
    LET f == FindFile(dir, a) IN
    /\ status = "ok" /\ f # None /\ FindFile(dir, b) = None
    /\ HasPlace(dir, b)
    /\ dir' = Unlink(AddLink(dir, b, f), a, f)
    /\ UNCHANGED status

\* The unlink of a rename throws: both names are there.
MoveThrows(a, b) ==
    LET f == FindFile(dir, a) IN
    /\ status = "ok" /\ f # None /\ FindFile(dir, b) = None
    /\ HasPlace(dir, b)
    /\ UnlinkWrites(AddLink(dir, b, f), a, f)
    /\ dir' = AddLink(dir, b, f)
    /\ status' = "thrown"

Next ==
    \/ \E n \in Names, f \in Fids : Create(n, f)
    \/ \E n \in Names : LinkRefused(n)
    \/ \E n \in Names : Remove(n)
    \/ \E n \in Names : RemoveThrows(n)
    \/ \E a, b \in Names : Move(a, b)
    \/ \E a, b \in Names : MoveThrows(a, b)

Spec == Init /\ [][Next]_vars

-------------------------------------------------------------------------------
(***************************************************************************)
(* Properties                                                              *)
(***************************************************************************)

(* The blocks and levels implement a map from names to inodes, as FindFile   *)
(* reads it: whatever holes and levels earlier operations left, a name is    *)
(* found from when it is created until it is removed, and creating, removing *)
(* or renaming one name never hides or changes another (add_link and unlink  *)
(* place a name by first fit, FindFile searches level by level).             *)
NM == INSTANCE NameMap WITH
        map <- [n \in Names |-> FindFile(dir, n)],
        halted <- (status = "thrown")
ImplementsNameMap == NM!Spec

(* GetChildNumber, which scans the blocks up to the file size and decides    *)
(* whether a directory may be removed, counts exactly the names that         *)
(* FindFile, which goes by hash and level, can find.                         *)
ChildrenCounted ==
    GetChildNumber(dir) = Cardinality({n \in Names : FindFile(dir, n) # None})

(* The slots of the names of a block are disjoint, and the bitmap marks them *)
(* and no others; a block without a name has been given back as a hole, so a *)
(* directory whose names are all removed holds no block.                     *)
SlotsExact ==
    \A i \in BlkNr : dir.blk[i] # None =>
        LET block == dir.blk[i]
            first == {s \in Slot : block.dentries[s] # None}
            slots(s) == s .. s + SlotNum[block.dentries[s].name] - 1
        IN  /\ first # {}
            /\ block.bitmap = UNION {slots(s) : s \in first}
            /\ \A s, t \in first : s # t => slots(s) \cap slots(t) = {}
===============================================================================
