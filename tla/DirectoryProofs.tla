---------------------------- MODULE DirectoryProofs ----------------------------
(***************************************************************************)
(* Proofs about Directory, for any names, hashes, inode numbers, block     *)
(* sizes and levels.                                                       *)
(*                                                                         *)
(* The inductive invariant is that the directory file is in order, in the  *)
(* sense of module DentriesProofs.                                         *)
(***************************************************************************)
EXTENDS Directory, DentriesProofs

\* The inductive invariant.
IInv == DirOK(dir) /\ status \in {"ok", "thrown"}

-------------------------------------------------------------------------------
(***************************************************************************)
(* Every operation keeps the directory file in order, and does to the      *)
(* names what the abstract operation does                                  *)
(***************************************************************************)
\* InternalCreatreFile adds its name and leaves the others alone.
LEMMA CreateStep ==
  ASSUME IInv, NEW n \in Names, NEW f \in Fids, Create(n, f)
  PROVE  /\ IInv' /\ status' = status
         /\ FindFile(dir, n) = None /\ FindFile(dir', n) \in Fids
         /\ \A m \in Names \ {n} : FindFile(dir', m) = FindFile(dir, m)
<1>1. /\ DirOK(dir) /\ FindFile(dir, n) = None /\ HasPlace(dir, n)
      /\ dir' = AddLink(dir, n, f) /\ status' = status
  BY DEF Create, IInv
<1>2. /\ DirOK(dir') /\ FindFile(dir', n) = f
      /\ \A m \in Names \ {n} : FindFile(dir', m) = FindFile(dir, m)
  BY <1>1, AddLinkFind
<1> QED BY <1>1, <1>2 DEF IInv

\* A refused write leaves every name alone, although the size has grown.
LEMMA LinkRefusedStep ==
  ASSUME IInv, NEW n \in Names, LinkRefused(n)
  PROVE  /\ IInv' /\ status' = status
         /\ \A m \in Names : FindFile(dir', m) = FindFile(dir, m)
<1>1. /\ DirOK(dir) /\ HasPlace(dir, n)
      /\ dir' = AddLinkRefused(dir, n) /\ status' = status
  BY DEF LinkRefused, IInv
<1>2. DirOK(dir') /\ \A m \in Names : FindFile(dir', m) = FindFile(dir, m)
  BY <1>1, AddLinkRefusedIs
<1> QED BY <1>1, <1>2 DEF IInv

\* FileDelete and DirDelete take their name away and leave the others alone.
LEMMA RemoveStep ==
  ASSUME IInv, NEW n \in Names, Remove(n)
  PROVE  /\ IInv' /\ status' = status
         /\ FindFile(dir, n) # None /\ FindFile(dir', n) = None
         /\ \A m \in Names \ {n} : FindFile(dir', m) = FindFile(dir, m)
<1>1. /\ DirOK(dir) /\ FindFile(dir, n) # None
      /\ dir' = Unlink(dir, n, FindFile(dir, n)) /\ status' = status
  BY DEF Remove, IInv
<1>2. /\ DirOK(dir') /\ FindFile(dir', n) = None
      /\ \A m \in Names \ {n} : FindFile(dir', m) = FindFile(dir, m)
  BY <1>1, UnlinkFind
<1> QED BY <1>1, <1>2 DEF IInv

\* FileMove hands the inode from one name to the other.
LEMMA MoveStep ==
  ASSUME IInv, NEW a \in Names, NEW b \in Names, Move(a, b)
  PROVE  /\ IInv' /\ status' = status
         /\ FindFile(dir, a) # None /\ FindFile(dir, b) = None
         /\ FindFile(dir', a) = None /\ FindFile(dir', b) = FindFile(dir, a)
         /\ \A m \in Names \ {a, b} : FindFile(dir', m) = FindFile(dir, m)
<1>1. PICK f : f = FindFile(dir, a)
  OBVIOUS
<1>2. PICK d : d = AddLink(dir, b, f)
  OBVIOUS
<1>3. /\ DirOK(dir) /\ f # None /\ FindFile(dir, b) = None /\ HasPlace(dir, b)
      /\ dir' = Unlink(d, a, f) /\ status' = status
  BY <1>1, <1>2 DEF Move, IInv
<1>4. a # b /\ f \in Fids
  BY <1>1, <1>3, FoundIsFid
<1>5. /\ DirOK(d) /\ FindFile(d, b) = f
      /\ \A m \in Names \ {b} : FindFile(d, m) = FindFile(dir, m)
  BY <1>2, <1>3, <1>4, AddLinkFind
<1>6. FindFile(d, a) = f
  BY <1>1, <1>4, <1>5
<1>7. /\ DirOK(dir') /\ FindFile(dir', a) = None
      /\ \A m \in Names \ {a} : FindFile(dir', m) = FindFile(d, m)
  BY <1>3, <1>5, <1>6, UnlinkFind
<1> QED BY <1>1, <1>3, <1>4, <1>5, <1>7 DEF IInv

\* When the unlink of a rename throws, the inode has both names.
LEMMA MoveThrowsStep ==
  ASSUME IInv, NEW a \in Names, NEW b \in Names, MoveThrows(a, b)
  PROVE  /\ IInv' /\ status' = "thrown"
         /\ FindFile(dir, a) # None /\ FindFile(dir, b) = None
         /\ FindFile(dir', b) = FindFile(dir, a)
         /\ \A m \in Names \ {b} : FindFile(dir', m) = FindFile(dir, m)
<1>1. PICK f : f = FindFile(dir, a)
  OBVIOUS
<1>2. /\ DirOK(dir) /\ f # None /\ FindFile(dir, b) = None /\ HasPlace(dir, b)
      /\ dir' = AddLink(dir, b, f) /\ status' = "thrown"
  BY <1>1 DEF MoveThrows, IInv
<1>3. f \in Fids
  BY <1>1, <1>2, FoundIsFid
<1>4. /\ DirOK(dir') /\ FindFile(dir', b) = f
      /\ \A m \in Names \ {b} : FindFile(dir', m) = FindFile(dir, m)
  BY <1>2, <1>3, AddLinkFind
<1> QED BY <1>1, <1>2, <1>4 DEF IInv

-------------------------------------------------------------------------------
(***************************************************************************)
(* The theorems                                                            *)
(***************************************************************************)
\* The invariant holds of the empty directory.
LEMMA InvInit == Init => IInv
BY EmptyDirIs DEF Init, IInv

\* Every operation keeps the invariant.
LEMMA InvNext == IInv /\ [Next]_vars => IInv'
<1> SUFFICES ASSUME IInv, [Next]_vars PROVE IInv'
  OBVIOUS
<1>1. ASSUME NEW n \in Names, NEW f \in Fids, Create(n, f) PROVE IInv'
  BY <1>1, CreateStep
<1>2. ASSUME NEW n \in Names, LinkRefused(n) PROVE IInv'
  BY <1>2, LinkRefusedStep
<1>3. ASSUME NEW n \in Names, Remove(n) PROVE IInv'
  BY <1>3, RemoveStep
<1>4. ASSUME NEW n \in Names, RemoveThrows(n) PROVE IInv'
  BY <1>4 DEF RemoveThrows, IInv
<1>5. ASSUME NEW a \in Names, NEW b \in Names, Move(a, b) PROVE IInv'
  BY <1>5, MoveStep
<1>6. ASSUME NEW a \in Names, NEW b \in Names, MoveThrows(a, b) PROVE IInv'
  BY <1>6, MoveThrowsStep
<1>7. CASE UNCHANGED vars
  BY <1>7 DEF vars, IInv
<1> QED BY <1>1, <1>2, <1>3, <1>4, <1>5, <1>6, <1>7 DEF Next

\* The invariant holds throughout.
LEMMA Invariant == Spec => []IInv
BY InvInit, InvNext, PTL DEF Spec

(* The size of the directory file stays within MAX_DENTRY_LEVEL levels and   *)
(* its blocks are dentry blocks or holes, whatever add_link and unlink did.  *)
THEOREM DirectoryTyped == Spec => []TypeOK
<1>1. IInv => TypeOK
  BY DEF IInv, DirOK, TypeOK
<1> QED BY <1>1, Invariant, PTL

(* The bitmap of a dentry block marks the slots of its names and no others,  *)
(* these are disjoint, and a block without a name is a hole: what add_link   *)
(* and unlink do to bitmap and dentries never drifts apart.                  *)
THEOREM DirectorySlots == Spec => []SlotsExact
<1>1. ASSUME IInv PROVE SlotsExact
  <2> SUFFICES ASSUME NEW i \in BlkNr, NEW block, block = dir.blk[i], block # None
               PROVE  LET first == {s \in Slot : block.dentries[s] # None}
                          slots(s) == s .. s + SlotNum[block.dentries[s].name] - 1
                      IN  /\ first # {}
                          /\ block.bitmap = UNION {slots(s) : s \in first}
                          /\ \A s, t \in first : s # t => slots(s) \cap slots(t) = {}
    BY DEF SlotsExact
  <2>1. /\ block \in DentryBlock /\ BlockOK(block)
        /\ {s \in Slot : block.dentries[s] # None} # {}
    BY <1>1 DEF IInv, DirOK
  <2> QED BY <2>1, BlockSlots
<1> QED BY <1>1, Invariant, PTL

(* GetChildNumber, which scans blocks, and FindFile, which follows hashes,   *)
(* agree on how many names there are: DirDelete removes a directory exactly  *)
(* when no name can be found in it.                                          *)
THEOREM DirectoryCounts == Spec => []ChildrenCounted
<1>1. ASSUME IInv PROVE ChildrenCounted
  <2> DEFINE P == {b \in BlkNr \X Slot :
                      /\ b[1] < dir.size /\ dir.blk[b[1]] # None
                      /\ dir.blk[b[1]].dentries[b[2]] # None}
             F == {n \in Names : FindFile(dir, n) # None}
             g == [b \in P |-> NameAt(dir, b[1], b[2])]
  <2>1. DirOK(dir)
    BY <1>1 DEF IInv
  <2>2. IsFiniteSet(P)
    <3>1. IsFiniteSet(BlkNr) /\ IsFiniteSet(Slot)
      <4>1. MaxLevel \in 0 .. MaxLevel + 1
        BY DirAssumption
      <4>2. 0 \in Int /\ 2 ^ MaxLevel - 2 \in Int /\ DentryPerBlock - 1 \in Int
        BY <4>1, BlkNumPos, DirAssumption
      <4> QED BY <4>2, FS_Interval DEF BlkNr, Slot
    <3>2. IsFiniteSet(BlkNr \X Slot)
      BY <3>1, FS_Product
    <3>3. P \in SUBSET (BlkNr \X Slot)
      OBVIOUS
    <3> HIDE DEF P
    <3> QED BY <3>2, <3>3, FS_Subset
  <2>3. ASSUME NEW b \in P
        PROVE  /\ b[1] \in BlkNr /\ b[2] \in Slot /\ Has(dir, b[1], b[2]) /\ b = <<b[1], b[2]>>
               /\ NameAt(dir, b[1], b[2]) \in F
    <3>1. b[1] \in BlkNr /\ b[2] \in Slot /\ Has(dir, b[1], b[2]) /\ b = <<b[1], b[2]>>
      BY DEF Has
    <3>2. NameAt(dir, b[1], b[2]) \in Names
      BY <2>1, <3>1, EntryTyped
    <3>3. FindFile(dir, NameAt(dir, b[1], b[2])) # None
      BY <2>1, <3>1, <3>2, FindFileIs
    <3> QED BY <3>1, <3>2, <3>3
  <2>4. ASSUME NEW b \in P, NEW c \in P, NameAt(dir, b[1], b[2]) = NameAt(dir, c[1], c[2])
        PROVE  b = c
    <3>1. b[1] = c[1] /\ b[2] = c[2]
      BY <2>1, <2>3, <2>4 DEF DirOK
    <3> QED BY <2>3, <3>1
  <2>5. ASSUME NEW n \in F PROVE \E b \in P : NameAt(dir, b[1], b[2]) = n
    <3>1. n \in Names /\ FindFile(dir, n) # None
      OBVIOUS
    <3>2. PICK i \in BlkNr, s \in Slot : Has(dir, i, s) /\ NameAt(dir, i, s) = n
      BY <2>1, <3>1, FindFileIs
    <3>3. i < dir.size
      BY <2>1, <3>2, EntryBelowSize
    <3>4. <<i, s>> \in P
      BY <3>2, <3>3 DEF Has
    <3> QED BY <3>2, <3>4
  <2>6. ExistsBijection(P, F)
    <3> HIDE DEF P, F
    <3>1. g \in [P -> F]
      BY <2>3
    <3>2. \A b, c \in P : g[b] = g[c] => b = c
      BY <2>4
    <3>3. \A n \in F : \E b \in P : g[b] = n
      BY <2>5
    <3> HIDE DEF g
    <3>4. g \in Bijection(P, F)
      BY <3>1, <3>2, <3>3 DEF Bijection, Injection, Surjection, IsInjective
    <3> QED BY <3>4 DEF ExistsBijection
  <2>7. Cardinality(F) = Cardinality(P)
    <3> HIDE DEF P, F
    <3> QED BY <2>2, <2>6, FS_Bijection
  <2> QED BY <2>7 DEF ChildrenCounted, GetChildNumber
<1> QED BY <1>1, Invariant, PTL

\* The empty directory is an empty map.
LEMMA MapInit == Init => NM!Init
BY EmptyDirIs DEF Init, NM!Init

\* Every step of the directory file is a step of the map, or changes nothing.
LEMMA MapNext == IInv /\ IInv' /\ [Next]_vars => [NM!Next]_NM!vars
<1> DEFINE map == [n \in Names |-> FindFile(dir, n)]
           halted == status = "thrown"
<1> SUFFICES ASSUME IInv, IInv', [Next]_vars PROVE [NM!Next]_NM!vars
  OBVIOUS
<1>1. /\ DirOK(dir) /\ DirOK(dir')
      /\ \A n \in Names : map[n] = FindFile(dir, n) /\ map'[n] = FindFile(dir', n)
  BY DEF IInv
<1>2. map' \in [Names -> Fids \cup {None}]
  BY <1>1, FindFileTyped
<1>3. ASSUME NEW n \in Names, NEW f \in Fids, Create(n, f) PROVE NM!Next
  <2>1. ~halted /\ halted' = halted
    BY <1>3 DEF Create
  <2>2. /\ FindFile(dir, n) = None /\ FindFile(dir', n) \in Fids
        /\ \A m \in Names \ {n} : FindFile(dir', m) = FindFile(dir, m)
    BY <1>3, CreateStep
  <2>3. NM!Create(n)
    BY <1>1, <2>1, <2>2 DEF NM!Create, NM!OnlyChanges
  <2> QED BY <1>2, <2>1, <2>3 DEF NM!Next
<1>4. ASSUME NEW n \in Names, LinkRefused(n) PROVE UNCHANGED NM!vars
  <2>1. status' = status /\ \A m \in Names : FindFile(dir', m) = FindFile(dir, m)
    BY <1>4, LinkRefusedStep
  <2> QED BY <2>1 DEF NM!vars
<1>5. ASSUME NEW n \in Names, Remove(n) PROVE NM!Next
  <2>1. ~halted /\ halted' = halted
    BY <1>5 DEF Remove
  <2>2. /\ FindFile(dir, n) # None /\ FindFile(dir', n) = None
        /\ \A m \in Names \ {n} : FindFile(dir', m) = FindFile(dir, m)
    BY <1>5, RemoveStep
  <2>3. NM!Remove(n)
    BY <1>1, <2>1, <2>2 DEF NM!Remove, NM!OnlyChanges
  <2> QED BY <1>2, <2>1, <2>3 DEF NM!Next
<1>6. ASSUME NEW n \in Names, RemoveThrows(n) PROVE NM!Next
  <2>1. ~halted /\ halted' = TRUE /\ dir' = dir
    BY <1>6 DEF RemoveThrows
  <2>2. NM!Throw
    BY <1>1, <2>1 DEF NM!Throw, NM!OnlyChanges
  <2> QED BY <1>2, <2>1, <2>2 DEF NM!Next
<1>7. ASSUME NEW a \in Names, NEW b \in Names, Move(a, b) PROVE NM!Next
  <2>1. ~halted /\ halted' = halted
    BY <1>7 DEF Move
  <2>2. /\ FindFile(dir, a) # None /\ FindFile(dir, b) = None
        /\ FindFile(dir', a) = None /\ FindFile(dir', b) = FindFile(dir, a)
        /\ \A m \in Names \ {a, b} : FindFile(dir', m) = FindFile(dir, m)
    BY <1>7, MoveStep
  <2>3. NM!Rename(a, b)
    BY <1>1, <2>1, <2>2 DEF NM!Rename, NM!OnlyChanges
  <2> QED BY <1>2, <2>1, <2>3 DEF NM!Next
<1>8. ASSUME NEW a \in Names, NEW b \in Names, MoveThrows(a, b) PROVE NM!Next
  <2>1. ~halted /\ halted' = TRUE
    BY <1>8 DEF MoveThrows
  <2>2. /\ FindFile(dir, a) # None /\ FindFile(dir, b) = None
        /\ FindFile(dir', b) = FindFile(dir, a)
        /\ \A m \in Names \ {b} : FindFile(dir', m) = FindFile(dir, m)
    BY <1>8, MoveThrowsStep
  <2>3. NM!Throw
    BY <1>1, <2>1, <2>2 DEF NM!Throw, NM!OnlyChanges
  <2> QED BY <1>2, <2>1, <2>3 DEF NM!Next
<1>9. CASE UNCHANGED vars
  BY <1>9 DEF vars, NM!vars
<1> QED BY <1>3, <1>4, <1>5, <1>6, <1>7, <1>8, <1>9 DEF Next

(* The levels and blocks of a directory file implement a map from names to   *)
(* inodes: whatever holes and levels earlier operations left, InternalCreatre*)
(* File, FileDelete and FileMove change the names they are given and hide or *)
(* change no other, as FindFile sees it.                                     *)
THEOREM DirectoryImplementsNameMap == Spec => ImplementsNameMap
<1>1. Init => NM!Init
  BY MapInit
<1>2. IInv /\ IInv' /\ [Next]_vars => [NM!Next]_NM!vars
  BY MapNext
<1> QED BY <1>1, <1>2, Invariant, PTL DEF Spec, ImplementsNameMap, NM!Spec
===============================================================================
