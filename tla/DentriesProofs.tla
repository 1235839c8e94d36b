----------------------------- MODULE DentriesProofs ----------------------------
(***************************************************************************)
(* What the operators of Dentries do to a directory file in order, for any *)
(* names, hashes, inode numbers, block sizes and levels.                   *)
(*                                                                         *)
(* A directory file is in order (DirOK) when its size fills whole levels,  *)
(* every name is in the block of one of these levels that its hash         *)
(* selects, no name is there twice, and the bitmap of a block is exact.    *)
(* Then FindFile reads the one entry of a name, add_link adds one entry    *)
(* and changes no other, and unlink takes one away.                        *)
(***************************************************************************)
EXTENDS Dentries, ProofFacts

-------------------------------------------------------------------------------
(***************************************************************************)
(* A directory file in order                                               *)
(***************************************************************************)
\* Slot s of block i holds an entry.
Has(d, i, s) == d.blk[i] # None /\ d.blk[i].dentries[s] # None

NameAt(d, i, s) == d.blk[i].dentries[s].name

InoAt(d, i, s) == d.blk[i].dentries[s].ino

\* The entries of a block fit into it and do not overlap, and the bitmap marks
\* their slots and no others.
BlockOK(block) ==
    LET first == {s \in Slot : block.dentries[s] # None}
        end(s) == s + SlotNum[block.dentries[s].name]
    IN  /\ \A s \in first : end(s) <= DentryPerBlock
        /\ \A x \in Slot : x \in block.bitmap <=> \E s \in first : s <= x /\ x < end(s)
        /\ \A s, t \in first : s < t => end(s) <= t

DirOK(d) ==
    /\ d \in [size : 0 .. 2 ^ MaxLevel - 1, blk : [BlkNr -> DentryBlock \cup {None}]]
    /\ \E k \in 0 .. MaxLevel : d.size = 2 ^ k - 1
    /\ \A i \in BlkNr : d.blk[i] # None =>
          BlockOK(d.blk[i]) /\ \E s \in Slot : d.blk[i].dentries[s] # None
    /\ \A i \in BlkNr, s \in Slot : Has(d, i, s) =>
          \E l \in 0 .. DepthFromBlkNr[d.size] - 1 : i = BlockOf[l][NameAt(d, i, s)]
    /\ \A i, j \in BlkNr, s, t \in Slot :
          Has(d, i, s) /\ Has(d, j, t) /\ NameAt(d, i, s) = NameAt(d, j, t) => i = j /\ s = t

-------------------------------------------------------------------------------
(***************************************************************************)
(* Levels and blocks                                                       *)
(***************************************************************************)
\* The search loops start with one block and double them at every level.
LEMMA BlkNumIs ==
  /\ 2 ^ 0 = 1
  /\ \A l \in 1 .. MaxLevel + 1 : 2 ^ l = 2 * 2 ^ (l - 1)
<1>1. \A l \in 1 .. MaxLevel + 1 : l - 1 \in Nat /\ (l - 1) + 1 = l
  BY DirAssumption
<1> QED BY <1>1, PowerIs

\* There is at least one block in every level.
LEMMA BlkNumPos == \A l \in 0 .. MaxLevel + 1 : 2 ^ l \in Nat \ {0}
<1> DEFINE S == {l \in Nat : l <= MaxLevel + 1 => 2 ^ l \in Nat \ {0}}
<1>1. 0 \in S
  BY BlkNumIs
<1>2. ASSUME NEW l \in Nat, l \in S PROVE l + 1 \in S
  <2> SUFFICES ASSUME l + 1 <= MaxLevel + 1 PROVE 2 ^ (l + 1) \in Nat \ {0}
    OBVIOUS
  <2>1. l + 1 \in 1 .. MaxLevel + 1 /\ (l + 1) - 1 = l /\ l <= MaxLevel + 1
    BY DirAssumption
  <2>2. 2 ^ (l + 1) = 2 * 2 ^ l
    BY <2>1, BlkNumIs
  <2>3. 2 ^ l \in Nat \ {0}
    BY <1>2, <2>1
  <2> QED BY <2>2, <2>3
<1>3. Nat \subseteq S
  <2> HIDE DEF S
  <2> QED BY <1>1, <1>2, Induct
<1> QED BY <1>3

\* A deeper level has at least twice as many blocks.
LEMMA BlkNumGrows ==
  \A l, k \in 0 .. MaxLevel + 1 : k < l => 2 * 2 ^ k <= 2 ^ l
<1> DEFINE S == {l \in Nat : l <= MaxLevel + 1 => \A k \in 0 .. l - 1 : 2 * 2 ^ k <= 2 ^ l}
<1>1. 0 \in S
  OBVIOUS
<1>2. ASSUME NEW l \in Nat, l \in S PROVE l + 1 \in S
  <2> SUFFICES ASSUME l + 1 <= MaxLevel + 1, NEW k \in 0 .. (l + 1) - 1
               PROVE  2 * 2 ^ k <= 2 ^ (l + 1)
    OBVIOUS
  <2>1. /\ l + 1 \in 1 .. MaxLevel + 1 /\ (l + 1) - 1 = l /\ l <= MaxLevel + 1
        /\ k \in 0 .. MaxLevel + 1 /\ l \in 0 .. MaxLevel + 1
    BY DirAssumption
  <2>2. 2 ^ (l + 1) = 2 * 2 ^ l
    BY <2>1, BlkNumIs
  <2>3. 2 ^ l \in Nat /\ 2 ^ k \in Nat
    BY <2>1, BlkNumPos
  <2>4. CASE k = l
    BY <2>2, <2>3, <2>4
  <2>5. CASE k # l
    <3>1. 2 * 2 ^ k <= 2 ^ l
      BY <1>2, <2>1, <2>5
    <3> QED BY <2>2, <2>3, <3>1
  <2> QED BY <2>4, <2>5
<1>3. Nat \subseteq S
  <2> HIDE DEF S
  <2> QED BY <1>1, <1>2, Induct
<1> SUFFICES ASSUME NEW l \in 0 .. MaxLevel + 1, NEW k \in 0 .. MaxLevel + 1, k < l
             PROVE  2 * 2 ^ k <= 2 ^ l
  OBVIOUS
<1>4. l \in S /\ k \in 0 .. l - 1
  BY <1>3
<1> QED BY <1>4

\* A least element is chosen: the loops of the code stop at the first hit.
LEMMA MinIs ==
  ASSUME NEW S \in SUBSET Nat, S # {}
  PROVE  Min(S) \in S /\ \A y \in S : Min(S) <= y
<1>1. \E x \in S : \A y \in S : x <= y
  BY Least
<1> QED BY <1>1 DEF Min

\* DepthFromBlkNr of a file that fills k levels is k.
LEMMA DepthIs ==
  ASSUME NEW k \in 0 .. MaxLevel
  PROVE  /\ 2 ^ k - 1 \in 0 .. 2 ^ MaxLevel - 1
         /\ DepthFromBlkNr[2 ^ k - 1] = k
<1>1. /\ k \in 0 .. MaxLevel + 1 /\ MaxLevel \in 0 .. MaxLevel + 1 /\ k \in Nat
      /\ \A l \in 0 .. MaxLevel : l \in 0 .. MaxLevel + 1 /\ l \in Nat
  BY DirAssumption
<1>2. 2 ^ k \in Nat \ {0} /\ 2 ^ MaxLevel \in Nat \ {0}
  BY <1>1, BlkNumPos
<1>3. 2 ^ k - 1 \in 0 .. 2 ^ MaxLevel - 1
  <2>1. CASE k = MaxLevel
    BY <1>2, <2>1
  <2>2. CASE k < MaxLevel
    <3>1. 2 * 2 ^ k <= 2 ^ MaxLevel
      BY <1>1, <2>2, BlkNumGrows
    <3> QED BY <1>2, <3>1
  <2> QED BY <2>1, <2>2, DirAssumption
<1> DEFINE T == {l \in 0 .. MaxLevel : 2 ^ k - 1 < 2 ^ l}
<1>4. T \in SUBSET Nat /\ k \in T
  BY <1>1, <1>2
<1>5. \A l \in T : ~(l < k)
  <2> SUFFICES ASSUME NEW l \in T, l < k PROVE FALSE
    OBVIOUS
  <2>1. 2 * 2 ^ l <= 2 ^ k /\ 2 ^ l \in Nat \ {0}
    BY <1>1, BlkNumGrows, BlkNumPos
  <2> QED BY <1>2, <2>1
<1>6. DepthFromBlkNr[2 ^ k - 1] = Min(T)
  BY <1>3 DEF DepthFromBlkNr
<1>7. Min(T) \in T /\ \A y \in T : Min(T) <= y
  <2> HIDE DEF T
  <2> QED BY <1>4, MinIs
<1> HIDE DEF T
<1>8. Min(T) \in Nat /\ Min(T) <= k /\ ~(Min(T) < k)
  BY <1>4, <1>5, <1>7
<1>9. Min(T) = k
  BY <1>1, <1>8
<1> QED BY <1>3, <1>6, <1>9

\* The block of a name in level l lies in that level.
LEMMA BlockOfIs ==
  ASSUME NEW l \in 0 .. MaxLevel - 1, NEW n \in Names
  PROVE  /\ BlockOf[l][n] \in BlkNr
         /\ 2 ^ l - 1 <= BlockOf[l][n] /\ BlockOf[l][n] < 2 ^ (l + 1) - 1
<1>1. l \in 0 .. MaxLevel + 1 /\ l + 1 \in 1 .. MaxLevel + 1 /\ l + 1 \in 0 .. MaxLevel + 1
      /\ (l + 1) - 1 = l /\ MaxLevel \in 0 .. MaxLevel + 1
  BY DirAssumption
<1>2. 2 ^ l \in Nat \ {0} /\ 2 ^ MaxLevel \in Nat \ {0} /\ 2 ^ (l + 1) \in Nat
  BY <1>1, BlkNumPos
<1>3. 2 ^ (l + 1) = 2 * 2 ^ l
  BY <1>1, BlkNumIs
<1>4. 2 ^ (l + 1) <= 2 ^ MaxLevel
  <2>1. CASE l + 1 = MaxLevel
    BY <1>2, <2>1
  <2>2. CASE l + 1 < MaxLevel
    BY <1>1, <1>2, <2>2, BlkNumGrows
  <2> QED BY <2>1, <2>2, DirAssumption
<1> DEFINE p == 2 ^ l
           r == Hash[n] % p
<1>5. r \in Nat /\ r < p
  <2>1. Hash[n] \in Nat
    BY DirAssumption
  <2> QED BY <1>2, <2>1
<1>6. BlockOf[l][n] = (p - 1) + r
  BY DEF BlockOf
<1> HIDE DEF p, r
<1>7. BlockOf[l][n] \in Nat /\ p - 1 <= BlockOf[l][n] /\ BlockOf[l][n] < 2 * p - 1
  <2>1. p \in Nat \ {0}
    BY <1>2 DEF p
  <2> QED BY <2>1, <1>5, <1>6
<1>8. BlockOf[l][n] \in BlkNr
  <2> DEFINE q == 2 ^ MaxLevel
  <2>1. p \in Nat \ {0} /\ q \in Nat /\ 2 * p <= q
    BY <1>2, <1>3, <1>4 DEF p
  <2>2. BlockOf[l][n] \in 0 .. q - 2
    <3> HIDE DEF q
    <3> QED BY <2>1, <1>7
  <2> QED BY <2>2 DEF BlkNr
<1> QED BY <1>3, <1>7, <1>8 DEF p

-------------------------------------------------------------------------------
(***************************************************************************)
(* Looking up a name                                                       *)
(***************************************************************************)
\* The size of the file fills its levels.
LEMMA DepthOf ==
  ASSUME NEW d, DirOK(d)
  PROVE  LET k == DepthFromBlkNr[d.size] IN k \in 0 .. MaxLevel /\ d.size = 2 ^ k - 1
<1>1. PICK k \in 0 .. MaxLevel : d.size = 2 ^ k - 1
  BY DEF DirOK
<1>2. DepthFromBlkNr[d.size] = k
  BY <1>1, DepthIs
<1> QED BY <1>1, <1>2

\* The entries of a directory file.
LEMMA EntryTyped ==
  ASSUME NEW d, DirOK(d), NEW i \in BlkNr, NEW s \in Slot, Has(d, i, s)
  PROVE  /\ d.blk[i] \in DentryBlock /\ d.blk[i].dentries[s] \in Entry
         /\ NameAt(d, i, s) \in Names /\ InoAt(d, i, s) \in Fids
<1>1. d.blk[i] \in DentryBlock
  BY DEF DirOK, Has
<1>2. d.blk[i].dentries[s] \in Entry
  BY <1>1 DEF DentryBlock, Has
<1> QED BY <1>1, <1>2 DEF Entry, NameAt, InoAt

\* FindFile reads the entry of a name, and there is none when it finds none.
LEMMA FindFileIs ==
  ASSUME NEW d, DirOK(d), NEW n \in Names
  PROVE  /\ FindFile(d, n) # None =>
              \E i \in BlkNr, s \in Slot :
                 Has(d, i, s) /\ NameAt(d, i, s) = n /\ InoAt(d, i, s) = FindFile(d, n)
         /\ \A i \in BlkNr, s \in Slot : Has(d, i, s) /\ NameAt(d, i, s) = n =>
              FindFile(d, n) = InoAt(d, i, s) /\ FindFile(d, n) # None
<1> DEFINE found == LevelsWith(d, n)
           depth == DepthFromBlkNr[d.size]
           m == Min(found)
           b == BlockOf[m][n]
           t == Min(SlotsWith(d.blk[b], n))
<1>1. depth \in 0 .. MaxLevel
  BY DepthOf
<1>2. found \in SUBSET Nat /\ found \in SUBSET (0 .. MaxLevel - 1)
  BY <1>1, DirAssumption DEF LevelsWith
<1>3. FindFile(d, n) = IF found = {} THEN None ELSE InoAt(d, b, t)
  BY DEF FindFile, InoAt
<1>4. ASSUME found # {}
      PROVE  b \in BlkNr /\ t \in Slot /\ Has(d, b, t) /\ NameAt(d, b, t) = n
  <2>1. m \in found
    <3> HIDE DEF found
    <3> QED BY <1>2, <1>4, MinIs
  <2>2. m \in 0 .. MaxLevel - 1 /\ d.blk[b] # None /\ SlotsWith(d.blk[b], n) # {}
    BY <2>1, <1>2 DEF LevelsWith
  <2>3. b \in BlkNr
    BY <2>2, BlockOfIs
  <2>4. SlotsWith(d.blk[b], n) \in SUBSET Nat
    BY DEF SlotsWith, Slot
  <2>5. t \in SlotsWith(d.blk[b], n)
    <3> HIDE DEF b
    <3> QED BY <2>2, <2>4, MinIs
  <2> HIDE DEF b, t
  <2> QED BY <2>2, <2>3, <2>5 DEF SlotsWith, Has, NameAt
<1>5. ASSUME NEW i \in BlkNr, NEW s \in Slot, Has(d, i, s), NameAt(d, i, s) = n
      PROVE  FindFile(d, n) = InoAt(d, i, s) /\ FindFile(d, n) # None
  <2>1. PICK l \in 0 .. depth - 1 : i = BlockOf[l][n]
    BY <1>5 DEF DirOK
  <2>2. s \in SlotsWith(d.blk[i], n) /\ d.blk[i] # None
    BY <1>5 DEF SlotsWith, Has, NameAt
  <2>3. l \in found
    BY <2>1, <2>2 DEF LevelsWith
  <2>4. found # {}
    BY <2>3
  <2> HIDE DEF found, b, t
  <2>5. b = i /\ t = s
    BY <1>4, <1>5, <2>4 DEF DirOK
  <2>6. InoAt(d, i, s) \in Fids
    BY <1>5, EntryTyped
  <2> QED BY <1>3, <2>4, <2>5, <2>6, DirAssumption
<1> HIDE DEF found, b, t
<1>6. FindFile(d, n) # None => found # {}
  BY <1>3
<1> QED BY <1>3, <1>4, <1>5, <1>6

\* What FindFile returns is an inode number or None.
LEMMA FindFileTyped ==
  ASSUME NEW d, DirOK(d), NEW n \in Names
  PROVE  FindFile(d, n) \in Fids \cup {None}
BY FindFileIs, EntryTyped

\* Two directory files with the same entries find the same.
LEMMA FindFileSame ==
  ASSUME NEW d, DirOK(d), NEW e, DirOK(e), NEW n \in Names,
         \A i \in BlkNr, s \in Slot :
            /\ Has(d, i, s) /\ NameAt(d, i, s) = n =>
                  Has(e, i, s) /\ NameAt(e, i, s) = n /\ InoAt(e, i, s) = InoAt(d, i, s)
            /\ Has(e, i, s) /\ NameAt(e, i, s) = n =>
                  Has(d, i, s) /\ NameAt(d, i, s) = n /\ InoAt(d, i, s) = InoAt(e, i, s)
  PROVE  FindFile(e, n) = FindFile(d, n)
<1>1. CASE FindFile(d, n) # None
  <2>1. PICK i \in BlkNr, s \in Slot :
           Has(d, i, s) /\ NameAt(d, i, s) = n /\ InoAt(d, i, s) = FindFile(d, n)
    BY <1>1, FindFileIs
  <2>2. Has(e, i, s) /\ NameAt(e, i, s) = n /\ InoAt(e, i, s) = FindFile(d, n)
    BY <2>1
  <2> QED BY <2>2, FindFileIs
<1>2. CASE FindFile(d, n) = None
  <2> SUFFICES ASSUME FindFile(e, n) # None PROVE FALSE
    BY <1>2
  <2>1. PICK i \in BlkNr, s \in Slot :
           Has(e, i, s) /\ NameAt(e, i, s) = n /\ InoAt(e, i, s) = FindFile(e, n)
    BY FindFileIs
  <2>2. Has(d, i, s) /\ NameAt(d, i, s) = n
    BY <2>1
  <2> QED BY <2>2, <1>2, FindFileIs
<1> QED BY <1>1, <1>2

-------------------------------------------------------------------------------
(***************************************************************************)
(* Adding a name                                                           *)
(***************************************************************************)
\* An entry in a run of free slots keeps the bitmap exact.
LEMMA PutEntryIs ==
  ASSUME NEW block \in DentryBlock, BlockOK(block), NEW n \in Names, NEW f \in Fids,
         NEW s \in RoomAt(block, SlotNum[n])
  PROVE  LET new == PutEntry(block, s, n, f)
         IN  /\ new \in DentryBlock /\ BlockOK(new) /\ s \in Slot /\ block.dentries[s] = None
             /\ new.dentries[s] = [name |-> n, ino |-> f]
             /\ \A t \in Slot \ {s} : new.dentries[t] = block.dentries[t]
<1> DEFINE k == SlotNum[n]
           new == PutEntry(block, s, n, f)
           N == DentryPerBlock
<1>1. /\ s \in Slot /\ s + k <= N /\ s \in Nat /\ k \in 1 .. N /\ N \in Nat
      /\ \A x \in s .. s + k - 1 : x \notin block.bitmap
  BY DirAssumption DEF RoomAt, Slot
<1>2. /\ \A x \in Slot : x \in Nat /\ x < N
      /\ \A t \in Slot : block.dentries[t] \in Entry \cup {None}
      /\ block.bitmap \subseteq Slot
  BY DirAssumption DEF DentryBlock, Slot
<1>3. \A t \in Slot : block.dentries[t] # None =>
         SlotNum[block.dentries[t].name] \in 1 .. N
  BY <1>2, DirAssumption DEF Entry
<1>4. \A t \in Slot : block.dentries[t] # None => t \in block.bitmap
  <2> SUFFICES ASSUME NEW t \in Slot, block.dentries[t] # None PROVE t \in block.bitmap
    OBVIOUS
  <2>1. t <= t /\ t < t + SlotNum[block.dentries[t].name]
    BY <1>1, <1>2, <1>3
  <2> QED BY <2>1 DEF BlockOK
<1>5. block.dentries[s] = None
  <2>1. s \in s .. s + k - 1
    BY <1>1
  <2> QED BY <2>1, <1>1, <1>4
<1>6. /\ [name |-> n, ino |-> f] \in Entry /\ [name |-> n, ino |-> f] # None
      /\ [name |-> n, ino |-> f].name = n
  BY NoneAssumption DEF Entry
<1>7. /\ new.dentries[s] = [name |-> n, ino |-> f]
      /\ \A t \in Slot \ {s} : new.dentries[t] = block.dentries[t]
      /\ new.bitmap = block.bitmap \cup (s .. s + k - 1)
  BY <1>1 DEF PutEntry, DentryBlock
<1>8. new \in DentryBlock
  <2>1. s .. s + k - 1 \subseteq Slot
    BY <1>1 DEF Slot
  <2>2. [block.dentries EXCEPT ![s] = [name |-> n, ino |-> f]] \in [Slot -> Entry \cup {None}]
    BY <1>1, <1>6 DEF DentryBlock
  <2> QED BY <1>2, <2>1, <2>2 DEF PutEntry, DentryBlock
<1>9. BlockOK(new)
  <2> DEFINE end(t) == t + SlotNum[new.dentries[t].name]
             old(t) == t + SlotNum[block.dentries[t].name]
  <2> HIDE DEF new
  <2>1. end(s) = s + k /\ \A t \in Slot \ {s} : end(t) = old(t)
    BY <1>6, <1>7
  <2>2. \A t \in Slot : new.dentries[t] # None <=> t = s \/ block.dentries[t] # None
    BY <1>6, <1>7
  <2>3. \A t \in Slot : block.dentries[t] # None => t # s /\ old(t) <= N /\ old(t) \in Nat
    BY <1>2, <1>3, <1>5, DirAssumption DEF BlockOK
  <2>4. \A t \in Slot : new.dentries[t] # None => end(t) <= N
    BY <2>1, <2>2, <2>3, <1>1
  <2>5. \A x \in Slot : x \in block.bitmap <=>
           \E t \in Slot : block.dentries[t] # None /\ t <= x /\ x < old(t)
    BY DEF BlockOK
  <2>6. \A x \in Slot : x \in new.bitmap <=> x \in block.bitmap \/ (s <= x /\ x < s + k)
    BY <1>1, <1>2, <1>7
  <2>7. ASSUME NEW x \in Slot
        PROVE  x \in new.bitmap <=>
                 \E t \in Slot : new.dentries[t] # None /\ t <= x /\ x < end(t)
    BY <2>1, <2>2, <2>3, <2>5, <2>6, <1>1
  <2>8. ASSUME NEW t \in Slot, NEW u \in Slot, new.dentries[t] # None,
               new.dentries[u] # None, t < u
        PROVE  end(t) <= u
    <3>1. CASE t # s /\ u # s
      <4>1. block.dentries[t] # None /\ block.dentries[u] # None
        BY <2>2, <2>8, <3>1
      <4> QED BY <4>1, <2>1, <2>8, <3>1 DEF BlockOK
    <3>2. CASE u = s
      <4>1. block.dentries[t] # None /\ t \in Nat /\ end(t) = old(t) /\ old(t) \in Nat
        BY <2>1, <2>2, <2>3, <2>8, <3>2, <1>1, <1>2
      <4>2. s \notin block.bitmap
        BY <1>1
      <4>3. ~(s < old(t))
        BY <4>1, <4>2, <2>5, <2>8, <3>2, <1>1
      <4> QED BY <4>1, <4>3, <3>2, <1>1
    <3>3. CASE t = s
      <4>1. block.dentries[u] # None /\ u \in Nat
        BY <2>2, <2>8, <3>3, <1>1, <1>2
      <4>2. u \in block.bitmap
        BY <4>1, <1>4
      <4>3. u \notin s .. s + k - 1
        BY <4>2, <1>1
      <4>4. s + k <= u
        BY <4>1, <4>3, <1>1, <2>8, <3>3
      <4> QED BY <4>4, <2>1, <3>3
    <3> QED BY <3>1, <3>2, <3>3
  <2> HIDE DEF end, old
  <2>9. \A x \in Slot : x \in new.bitmap <=>
           \E t \in {y \in Slot : new.dentries[y] # None} : t <= x /\ x < end(t)
    BY <2>7
  <2> QED BY <2>4, <2>8, <2>9 DEF BlockOK, end
<1> QED BY <1>1, <1>5, <1>7, <1>8, <1>9

\* A new block has room for any name.
LEMMA InitDentryIs ==
  ASSUME NEW n \in Names
  PROVE  /\ InitDentry \in DentryBlock /\ BlockOK(InitDentry)
         /\ RoomAt(InitDentry, SlotNum[n]) # {}
<1>1. InitDentry \in DentryBlock
  BY DEF InitDentry, DentryBlock
<1>2. BlockOK(InitDentry)
  BY DEF InitDentry, BlockOK
<1>3. 0 \in RoomAt(InitDentry, SlotNum[n])
  BY DirAssumption DEF RoomAt, InitDentry, Slot
<1> QED BY <1>1, <1>2, <1>3

\* add_link finds a level with room, or adds one, whose blocks are all holes.
LEMMA PlaceIs ==
  ASSUME NEW d, DirOK(d), NEW n \in Names, HasPlace(d, n)
  PROVE  LET l == Place(d, n).level
             old == d.blk[BlockOf[l][n]]
         IN  /\ l \in 0 .. MaxLevel - 1
             /\ \E k \in 0 .. MaxLevel :
                   Place(d, n).size = 2 ^ k - 1 /\ DepthFromBlkNr[d.size] <= k /\ l < k
             /\ old # None => RoomAt(old, SlotNum[n]) # {}
<1> DEFINE depth == DepthFromBlkNr[d.size]
           l == Place(d, n).level
           i == BlockOf[l][n]
<1>1. depth \in 0 .. MaxLevel /\ d.size = 2 ^ depth - 1 /\ MaxLevel \in Nat
  BY DepthOf, DirAssumption
<1>2. CASE LevelsOpen(d, n) # {}
  <2>1. LevelsOpen(d, n) \in SUBSET Nat
    BY <1>1 DEF LevelsOpen
  <2>2. l = Min(LevelsOpen(d, n)) /\ Place(d, n).size = d.size
    BY <1>2 DEF Place
  <2>3. l \in LevelsOpen(d, n)
    BY <1>2, <2>1, <2>2, MinIs
  <2>4. l \in 0 .. depth - 1 /\ (d.blk[i] = None \/ RoomAt(d.blk[i], SlotNum[n]) # {})
    <3> HIDE DEF l
    <3> QED BY <2>3 DEF LevelsOpen
  <2>5. l \in 0 .. MaxLevel - 1
    <3> HIDE DEF depth, l
    <3> QED BY <1>1, <2>4
  <2>6. \E k \in 0 .. MaxLevel : Place(d, n).size = 2 ^ k - 1 /\ depth <= k /\ l < k
    <3> HIDE DEF depth, l
    <3>1. depth <= depth /\ l < depth
      BY <1>1, <2>4
    <3> QED BY <1>1, <2>2, <3>1
  <2> QED BY <2>4, <2>5, <2>6
<1>3. CASE LevelsOpen(d, n) = {}
  <2>1. depth < MaxLevel
    BY <1>3 DEF HasPlace
  <2>2. l = depth /\ Place(d, n).size = 2 ^ (depth + 1) - 1
    BY <1>3 DEF Place
  <2>3. l \in 0 .. MaxLevel - 1 /\ depth + 1 \in 0 .. MaxLevel /\ depth \in 0 .. MaxLevel + 1
    BY <1>1, <2>1, <2>2
  <2>4. i \in BlkNr /\ 2 ^ depth - 1 <= i
    <3> HIDE DEF l, depth
    <3> QED BY <2>2, <2>3, BlockOfIs
  <2>5. d.blk[i] = None
    <3> SUFFICES ASSUME d.blk[i] # None PROVE FALSE
      OBVIOUS
    <3> HIDE DEF i
    <3>1. PICK s \in Slot : d.blk[i].dentries[s] # None
      BY <2>4 DEF DirOK
    <3>2. Has(d, i, s)
      BY <3>1 DEF Has
    <3>3. PICK m \in 0 .. depth - 1 : i = BlockOf[m][NameAt(d, i, s)]
      BY <3>2, <2>4 DEF DirOK
    <3>4. NameAt(d, i, s) \in Names
      BY <3>2, <2>4, EntryTyped
    <3>5. m \in 0 .. MaxLevel - 1 /\ m + 1 \in 0 .. MaxLevel + 1
      BY <1>1
    <3>6. i < 2 ^ (m + 1) - 1
      BY <3>3, <3>4, <3>5, BlockOfIs
    <3>7. 2 ^ (m + 1) <= 2 ^ depth
      <4>1. 2 ^ (m + 1) \in Nat \ {0} /\ 2 ^ depth \in Nat \ {0}
        BY <3>5, <2>3, BlkNumPos
      <4>2. CASE m + 1 = depth
        BY <4>1, <4>2
      <4>3. CASE m + 1 < depth
        BY <4>1, <4>3, <3>5, <2>3, BlkNumGrows
      <4> QED BY <4>2, <4>3, <1>1
    <3>8. 2 ^ (m + 1) \in Nat /\ 2 ^ depth \in Nat /\ i \in Nat
      BY <3>5, <2>3, <2>4, BlkNumPos DEF BlkNr
    <3> QED BY <2>4, <3>6, <3>7, <3>8
  <2>6. \E k \in 0 .. MaxLevel : Place(d, n).size = 2 ^ k - 1 /\ depth <= k /\ l < k
    <3> HIDE DEF depth, l
    <3>1. depth <= depth + 1 /\ l < depth + 1
      BY <1>1, <2>2
    <3> QED BY <2>2, <2>3, <3>1
  <2> QED BY <2>3, <2>5, <2>6
<1> QED BY <1>2, <1>3

\* e has one entry more than d: name n, inode f, in slot s of block i.
Adds(d, e, i, s, n, f) ==
    /\ ~Has(d, i, s) /\ Has(e, i, s) /\ NameAt(e, i, s) = n /\ InoAt(e, i, s) = f
    /\ \A j \in BlkNr, t \in Slot : j # i \/ t # s =>
          /\ Has(e, j, t) <=> Has(d, j, t)
          /\ Has(d, j, t) => NameAt(e, j, t) = NameAt(d, j, t) /\ InoAt(e, j, t) = InoAt(d, j, t)

\* add_link adds one entry, in a block where FindFile looks for it.
LEMMA AddLinkIs ==
  ASSUME NEW d, DirOK(d), NEW n \in Names, NEW f \in Fids,
         FindFile(d, n) = None, HasPlace(d, n)
  PROVE  LET e == AddLink(d, n, f)
         IN  DirOK(e) /\ \E i \in BlkNr, s \in Slot : Adds(d, e, i, s, n, f)
<1> DEFINE l == Place(d, n).level
           sz == Place(d, n).size
           old == d.blk[BlockOf[l][n]]
           block == IF old = None THEN InitDentry ELSE old
           e == AddLink(d, n, f)
<1>1. PICK i : i = BlockOf[l][n]
  OBVIOUS
<1>2. PICK k \in 0 .. MaxLevel : sz = 2 ^ k - 1 /\ DepthFromBlkNr[d.size] <= k /\ l < k
  BY PlaceIs
<1>3. l \in 0 .. MaxLevel - 1 /\ (old # None => RoomAt(old, SlotNum[n]) # {})
  BY PlaceIs
<1>4. i \in BlkNr
  <2> HIDE DEF l
  <2> QED BY <1>1, <1>3, BlockOfIs
<1>5. block \in DentryBlock /\ BlockOK(block) /\ RoomAt(block, SlotNum[n]) # {}
  <2>1. CASE old = None
    BY <2>1, InitDentryIs
  <2>2. CASE old # None
    <3> HIDE DEF l
    <3> QED BY <2>2, <1>1, <1>3, <1>4 DEF DirOK
  <2> QED BY <2>1, <2>2
<1>6. PICK s : s = Min(RoomAt(block, SlotNum[n]))
  OBVIOUS
<1>7. s \in RoomAt(block, SlotNum[n])
  <2>1. RoomAt(block, SlotNum[n]) \in SUBSET Nat
    BY DEF RoomAt, Slot
  <2> HIDE DEF block
  <2> QED BY <1>5, <1>6, <2>1, MinIs
<1>8. PICK new : new = PutEntry(block, s, n, f)
  OBVIOUS
<1>9. /\ new \in DentryBlock /\ BlockOK(new) /\ s \in Slot /\ block.dentries[s] = None
      /\ new.dentries[s] = [name |-> n, ino |-> f]
      /\ \A t \in Slot \ {s} : new.dentries[t] = block.dentries[t]
  <2> HIDE DEF block
  <2> QED BY <1>5, <1>7, <1>8, PutEntryIs
<1>10. new # None /\ new.dentries[s] # None /\ new.dentries[s].name = n /\ new.dentries[s].ino = f
  BY <1>9, NoneAssumption DEF Entry
<1>11. /\ e.size = sz /\ e.blk = [d.blk EXCEPT ![i] = new]
       /\ e = [size |-> sz, blk |-> [d.blk EXCEPT ![i] = new]]
  <2>1. LinkBlock(d, n, f) = new
    BY <1>6, <1>8 DEF LinkBlock
  <2> QED BY <1>1, <2>1 DEF AddLink
<1>12. e.blk[i] = new /\ \A j \in BlkNr \ {i} : e.blk[j] = d.blk[j]
  BY <1>4, <1>11 DEF DirOK
<1>13. \A t \in Slot : block.dentries[t] # None <=> Has(d, i, t)
  BY <1>1 DEF Has, InitDentry
<1>14. \A t \in Slot : Has(d, i, t) => block = d.blk[i]
  BY <1>1 DEF Has
<1> HIDE DEF block, e, old, l
<1>15. Adds(d, e, i, s, n, f)
  <2>1. ~Has(d, i, s)
    BY <1>9, <1>13
  <2>2. Has(e, i, s) /\ NameAt(e, i, s) = n /\ InoAt(e, i, s) = f
    BY <1>10, <1>12 DEF Has, NameAt, InoAt
  <2>3. ASSUME NEW j \in BlkNr, NEW t \in Slot, j # i \/ t # s
        PROVE  /\ Has(e, j, t) <=> Has(d, j, t)
               /\ Has(d, j, t) =>
                    NameAt(e, j, t) = NameAt(d, j, t) /\ InoAt(e, j, t) = InoAt(d, j, t)
    <3>1. CASE j # i
      BY <3>1, <1>12 DEF Has, NameAt, InoAt
    <3>2. CASE j = i
      <4>1. new.dentries[t] = block.dentries[t]
        BY <2>3, <3>2, <1>9
      <4>2. Has(e, j, t) <=> block.dentries[t] # None
        BY <4>1, <3>2, <1>10, <1>12 DEF Has
      <4> QED BY <4>1, <4>2, <3>2, <1>12, <1>13, <1>14 DEF NameAt, InoAt
    <3> QED BY <3>1, <3>2
  <2> QED BY <2>1, <2>2, <2>3 DEF Adds
<1>16. DirOK(e)
  <2>1. e \in [size : 0 .. 2 ^ MaxLevel - 1, blk : [BlkNr -> DentryBlock \cup {None}]]
    <3>1. sz \in 0 .. 2 ^ MaxLevel - 1
      BY <1>2, DepthIs
    <3>2. [d.blk EXCEPT ![i] = new] \in [BlkNr -> DentryBlock \cup {None}]
      BY <1>4, <1>9 DEF DirOK
    <3> QED BY <3>1, <3>2, <1>11
  <2>2. e.size = 2 ^ k - 1 /\ DepthFromBlkNr[e.size] = k
    BY <1>2, <1>11, DepthIs
  <2>3. ASSUME NEW j \in BlkNr, e.blk[j] # None
        PROVE  BlockOK(e.blk[j]) /\ \E t \in Slot : e.blk[j].dentries[t] # None
    <3>1. CASE j = i
      BY <3>1, <1>9, <1>10, <1>12
    <3>2. CASE j # i
      BY <3>2, <2>3, <1>12 DEF DirOK
    <3> QED BY <3>1, <3>2
  <2>4. ASSUME NEW j \in BlkNr, NEW t \in Slot, Has(e, j, t)
        PROVE  \E m \in 0 .. DepthFromBlkNr[e.size] - 1 : j = BlockOf[m][NameAt(e, j, t)]
    <3>1. CASE j = i /\ t = s
      <4>1. l \in 0 .. k - 1 /\ i = BlockOf[l][n] /\ NameAt(e, i, s) = n
        BY <1>1, <1>2, <1>3, <1>15 DEF Adds
      <4> QED BY <3>1, <4>1, <2>2
    <3>2. CASE j # i \/ t # s
      <4>1. Has(d, j, t) /\ NameAt(e, j, t) = NameAt(d, j, t)
        BY <2>4, <3>2, <1>15 DEF Adds
      <4>2. PICK m \in 0 .. DepthFromBlkNr[d.size] - 1 : j = BlockOf[m][NameAt(d, j, t)]
        BY <4>1 DEF DirOK
      <4>3. m \in 0 .. k - 1
        BY <1>2, DepthOf
      <4> QED BY <4>1, <4>2, <4>3, <2>2
    <3> QED BY <3>1, <3>2
  <2>5. ASSUME NEW j \in BlkNr, NEW t \in Slot, NEW jj \in BlkNr, NEW tt \in Slot,
               Has(e, j, t), Has(e, jj, tt), NameAt(e, j, t) = NameAt(e, jj, tt)
        PROVE  j = jj /\ t = tt
    <3>1. \A x \in BlkNr, y \in Slot : Has(d, x, y) => NameAt(d, x, y) # n
      BY FindFileIs
    <3>2. \A x \in BlkNr, y \in Slot : Has(e, x, y) /\ (x # i \/ y # s) =>
             Has(d, x, y) /\ NameAt(e, x, y) = NameAt(d, x, y) /\ NameAt(e, x, y) # n
      BY <1>15, <3>1 DEF Adds
    <3>3. NameAt(e, i, s) = n
      BY <1>15 DEF Adds
    <3>4. CASE j = i /\ t = s
      BY <2>5, <3>2, <3>3, <3>4
    <3>5. CASE jj = i /\ tt = s
      BY <2>5, <3>2, <3>3, <3>5
    <3>6. CASE ~(j = i /\ t = s) /\ ~(jj = i /\ tt = s)
      <4>1. Has(d, j, t) /\ Has(d, jj, tt) /\ NameAt(d, j, t) = NameAt(d, jj, tt)
        BY <2>5, <3>2, <3>6
      <4> QED BY <4>1 DEF DirOK
    <3> QED BY <3>4, <3>5, <3>6
  <2> QED BY <2>1, <2>2, <2>3, <2>4, <2>5 DEF DirOK
<1> QED BY <1>4, <1>9, <1>15, <1>16 DEF e

\* A refused write leaves the entries, and a size that still fills its levels.
LEMMA AddLinkRefusedIs ==
  ASSUME NEW d, DirOK(d), NEW n \in Names, HasPlace(d, n)
  PROVE  LET e == AddLinkRefused(d, n)
         IN  DirOK(e) /\ \A m \in Names : FindFile(e, m) = FindFile(d, m)
<1> DEFINE e == AddLinkRefused(d, n)
           sz == Place(d, n).size
<1>1. PICK k \in 0 .. MaxLevel : sz = 2 ^ k - 1 /\ DepthFromBlkNr[d.size] <= k
  BY PlaceIs
<1>2. sz \in 0 .. 2 ^ MaxLevel - 1 /\ DepthFromBlkNr[sz] = k
  BY <1>1, DepthIs
<1>3. /\ e.size = sz /\ e.blk = d.blk
      /\ e \in [size : 0 .. 2 ^ MaxLevel - 1, blk : [BlkNr -> DentryBlock \cup {None}]]
  <2> HIDE DEF sz
  <2>1. e = [d EXCEPT !.size = sz]
    BY DEF AddLinkRefused, sz
  <2> HIDE DEF e
  <2> QED BY <1>2, <2>1 DEF DirOK
<1> HIDE DEF e, sz
<1>4. \A i, s : /\ Has(e, i, s) <=> Has(d, i, s)
                /\ NameAt(e, i, s) = NameAt(d, i, s) /\ InoAt(e, i, s) = InoAt(d, i, s)
  BY <1>3 DEF Has, NameAt, InoAt
<1>5. DirOK(e)
  <2>1. ASSUME NEW j \in BlkNr, NEW t \in Slot, Has(e, j, t)
        PROVE  \E m \in 0 .. DepthFromBlkNr[e.size] - 1 : j = BlockOf[m][NameAt(e, j, t)]
    <3>1. Has(d, j, t) /\ NameAt(e, j, t) = NameAt(d, j, t)
      BY <2>1, <1>4
    <3>2. PICK m \in 0 .. DepthFromBlkNr[d.size] - 1 : j = BlockOf[m][NameAt(d, j, t)]
      BY <3>1 DEF DirOK
    <3>3. m \in 0 .. k - 1
      BY <1>1, DepthOf
    <3> QED BY <3>1, <3>2, <3>3, <1>2, <1>3
  <2>2. \A i \in BlkNr : e.blk[i] # None =>
           BlockOK(e.blk[i]) /\ \E s \in Slot : e.blk[i].dentries[s] # None
    BY <1>3 DEF DirOK
  <2>3. \A i, j \in BlkNr, s, t \in Slot :
           Has(e, i, s) /\ Has(e, j, t) /\ NameAt(e, i, s) = NameAt(e, j, t) => i = j /\ s = t
    BY <1>4 DEF DirOK
  <2> QED BY <1>1, <1>3, <2>1, <2>2, <2>3 DEF DirOK
<1> QED BY <1>4, <1>5, FindFileSame DEF e

-------------------------------------------------------------------------------
(***************************************************************************)
(* Removing a name                                                         *)
(***************************************************************************)
\* A block without the entry of name n at slot s.
TakeEntry(block, s, n) ==
    [bitmap |-> block.bitmap \ (s .. s + SlotNum[n] - 1),
     dentries |-> [block.dentries EXCEPT ![s] = None]]

\* Without an entry and its slots the bitmap is still exact, and empty when no
\* other entry is left.
LEMMA TakeEntryIs ==
  ASSUME NEW block \in DentryBlock, BlockOK(block), NEW s \in Slot, NEW n \in Names,
         block.dentries[s] # None, block.dentries[s].name = n,
         NEW new, new = TakeEntry(block, s, n)
  PROVE  /\ new \in DentryBlock /\ BlockOK(new)
         /\ new.dentries[s] = None
         /\ \A t \in Slot \ {s} : new.dentries[t] = block.dentries[t]
         /\ new.bitmap = {} <=> \A t \in Slot : new.dentries[t] = None
<1> DEFINE k == SlotNum[n]
           N == DentryPerBlock
           end(t) == t + SlotNum[block.dentries[t].name]
<1>1. /\ s \in Nat /\ k \in 1 .. N /\ N \in Nat
      /\ \A x \in Slot : x \in Nat /\ x < N
      /\ \A t \in Slot : block.dentries[t] # None =>
            SlotNum[block.dentries[t].name] \in 1 .. N /\ end(t) \in Nat
  BY DirAssumption DEF DentryBlock, Entry, Slot
<1>2. /\ new.bitmap = block.bitmap \ (s .. s + k - 1)
      /\ new.dentries[s] = None
      /\ \A t \in Slot \ {s} : new.dentries[t] = block.dentries[t]
  BY DEF DentryBlock, TakeEntry
<1>3. new \in DentryBlock
  BY DEF DentryBlock, TakeEntry
<1>4. /\ \A t \in Slot : block.dentries[t] # None => end(t) <= N
      /\ \A x \in Slot : x \in block.bitmap <=>
            \E t \in Slot : block.dentries[t] # None /\ t <= x /\ x < end(t)
      /\ \A t, u \in Slot : block.dentries[t] # None /\ block.dentries[u] # None /\ t < u =>
            end(t) <= u
  BY DEF BlockOK
<1>5. \A x \in Slot : x \in new.bitmap <=> x \in block.bitmap /\ ~(s <= x /\ x < s + k)
  BY <1>1, <1>2
<1>6. end(s) = s + k
  OBVIOUS
<1>7. ASSUME NEW x \in Slot
      PROVE  x \in new.bitmap <=>
               \E t \in Slot : new.dentries[t] # None /\ t <= x /\ x < end(t)
  <2>1. ASSUME x \in new.bitmap
        PROVE  \E t \in Slot : new.dentries[t] # None /\ t <= x /\ x < end(t)
    <3>1. PICK t \in Slot : block.dentries[t] # None /\ t <= x /\ x < end(t)
      BY <2>1, <1>4, <1>5
    <3>2. t # s
      BY <3>1, <2>1, <1>5, <1>6
    <3> QED BY <3>1, <3>2, <1>2
  <2>2. ASSUME NEW t \in Slot, new.dentries[t] # None, t <= x, x < end(t)
        PROVE  x \in new.bitmap
    <3>1. t # s /\ block.dentries[t] # None
      BY <2>2, <1>2
    <3>2. x \in block.bitmap
      BY <2>2, <3>1, <1>4
    <3>3. t \in Nat /\ s \in Nat /\ x \in Nat /\ end(t) \in Nat /\ k \in Nat
      <4>1. t \in Nat /\ s \in Nat /\ x \in Nat /\ k \in Nat
        BY <1>1
      <4>2. end(t) \in Nat
        BY <3>1, <1>1
      <4> QED BY <4>1, <4>2
    <3>4. t < s => end(t) <= s
      BY <3>1, <1>4
    <3>5. s < t => s + k <= t
      BY <3>1, <1>4, <1>6
    <3> HIDE DEF end, k
    <3>6. ~(s <= x /\ x < s + k)
      BY <2>2, <3>1, <3>3, <3>4, <3>5
    <3> QED BY <3>2, <3>6, <1>5
  <2> QED BY <2>1, <2>2
<1>8. \A t \in Slot : new.dentries[t] # None =>
         block.dentries[t] # None /\ t + SlotNum[new.dentries[t].name] = end(t)
  BY <1>2
<1>9. BlockOK(new)
  <2>1. \A t \in {y \in Slot : new.dentries[y] # None} :
           t + SlotNum[new.dentries[t].name] <= N
    BY <1>4, <1>8
  <2>2. \A x \in Slot : x \in new.bitmap <=>
           \E t \in {y \in Slot : new.dentries[y] # None} :
              t <= x /\ x < t + SlotNum[new.dentries[t].name]
    BY <1>7, <1>8
  <2>3. \A t, u \in {y \in Slot : new.dentries[y] # None} : t < u =>
           t + SlotNum[new.dentries[t].name] <= u
    BY <1>4, <1>8
  <2> QED BY <2>1, <2>2, <2>3 DEF BlockOK
<1>10. new.bitmap = {} <=> \A t \in Slot : new.dentries[t] = None
  <2>1. ASSUME NEW t \in Slot, new.dentries[t] # None PROVE new.bitmap # {}
    <3>1. t <= t /\ t < end(t)
      BY <2>1, <1>1, <1>8
    <3> QED BY <2>1, <3>1, <1>7
  <2>2. ASSUME NEW x \in new.bitmap PROVE \E t \in Slot : new.dentries[t] # None
    <3>1. x \in Slot
      BY <1>3 DEF DentryBlock
    <3> QED BY <3>1, <1>7
  <2> QED BY <2>1, <2>2
<1> QED BY <1>2, <1>3, <1>9, <1>10

\* unlink finds the entry of the name.
LEMMA LinkAtIs ==
  ASSUME NEW d, DirOK(d), NEW n \in Names, NEW i \in BlkNr, NEW s \in Slot,
         Has(d, i, s), NameAt(d, i, s) = n, NEW f, f = InoAt(d, i, s)
  PROVE  LinkAt(d, n, f).blk = i /\ LinkAt(d, n, f).slot = s
<1> DEFINE match(l) == {t \in SlotsWith(d.blk[BlockOf[l][n]], n) :
                          d.blk[BlockOf[l][n]].dentries[t].ino = f}
           L == {k \in LevelsWith(d, n) : match(k) # {}}
           depth == DepthFromBlkNr[d.size]
<1>1. depth \in 0 .. MaxLevel /\ MaxLevel \in Nat
  BY DepthOf, DirAssumption
<1>2. PICK l \in 0 .. depth - 1 : i = BlockOf[l][n]
  BY DEF DirOK
<1>3. s \in SlotsWith(d.blk[i], n) /\ d.blk[i] # None /\ d.blk[i].dentries[s].ino = f
  BY DEF SlotsWith, Has, NameAt, InoAt
<1>4. l \in LevelsWith(d, n) /\ s \in match(l)
  BY <1>2, <1>3 DEF LevelsWith
<1>5. L # {} /\ L \in SUBSET Nat
  BY <1>1, <1>4 DEF LevelsWith
<1>6. Min(L) \in L
  <2> HIDE DEF L
  <2> QED BY <1>5, MinIs
<1>7. PICK m : m = Min(L)
  OBVIOUS
<1>8. m \in 0 .. MaxLevel - 1 /\ d.blk[BlockOf[m][n]] # None /\ match(m) # {}
  <2>1. m \in L
    <3> HIDE DEF L
    <3> QED BY <1>6, <1>7
  <2>2. m \in LevelsWith(d, n) /\ match(m) # {}
    <3> HIDE DEF match
    <3> QED BY <2>1
  <2>3. m \in 0 .. depth - 1 /\ d.blk[BlockOf[m][n]] # None
    BY <2>2 DEF LevelsWith
  <2> QED BY <1>1, <2>2, <2>3
<1>9. match(m) \in SUBSET Nat
  BY DEF SlotsWith, Slot
<1>10. PICK t : t = Min(match(m))
  OBVIOUS
<1>11. t \in match(m)
  <2> HIDE DEF match
  <2> QED BY <1>8, <1>9, <1>10, MinIs
<1>12. t \in Slot /\ BlockOf[m][n] \in BlkNr
  BY <1>8, <1>11, BlockOfIs DEF SlotsWith
<1>13. Has(d, BlockOf[m][n], t) /\ NameAt(d, BlockOf[m][n], t) = n
  BY <1>8, <1>11 DEF SlotsWith, Has, NameAt
<1>14. BlockOf[m][n] = i /\ t = s
  BY <1>12, <1>13 DEF DirOK
<1>15. LinkAt(d, n, f) = [blk |-> BlockOf[m][n], slot |-> t]
  BY <1>7, <1>10 DEF LinkAt
<1> QED BY <1>14, <1>15

\* unlink takes one entry away, and a block that loses its last becomes a hole.
LEMMA UnlinkIs ==
  ASSUME NEW d, DirOK(d), NEW n \in Names, NEW f, f = FindFile(d, n), f # None
  PROVE  LET e == Unlink(d, n, f)
         IN  DirOK(e) /\ \E i \in BlkNr, s \in Slot : Adds(e, d, i, s, n, f)
<1> DEFINE e == Unlink(d, n, f)
<1>1. PICK i \in BlkNr, s \in Slot :
         Has(d, i, s) /\ NameAt(d, i, s) = n /\ InoAt(d, i, s) = f
  BY FindFileIs
<1>2. LinkAt(d, n, f).blk = i /\ LinkAt(d, n, f).slot = s
  BY <1>1, LinkAtIs
<1>3. PICK block : block = d.blk[i]
  OBVIOUS
<1>4. /\ block \in DentryBlock /\ BlockOK(block) /\ block # None
      /\ block.dentries[s] # None /\ block.dentries[s].name = n
  BY <1>1, <1>3 DEF DirOK, Has, NameAt
<1>5. PICK new : new = TakeEntry(block, s, n)
  OBVIOUS
<1>6. /\ new \in DentryBlock /\ BlockOK(new) /\ new.dentries[s] = None
      /\ \A t \in Slot \ {s} : new.dentries[t] = block.dentries[t]
      /\ new.bitmap = {} <=> \A t \in Slot : new.dentries[t] = None
  BY <1>4, <1>5, TakeEntryIs
<1>7. new # None
  BY <1>6, NoneAssumption
<1>8. PICK w : w = IF new.bitmap = {} THEN None ELSE new
  OBVIOUS
<1>9. e = [d EXCEPT !.blk[i] = w]
  <2>1. UnlinkBlock(d, n, f) = new
    BY <1>2, <1>3, <1>5 DEF UnlinkBlock, TakeEntry
  <2> QED BY <1>2, <1>8, <2>1 DEF Unlink
<1> HIDE DEF e
<1>10. /\ e \in [size : 0 .. 2 ^ MaxLevel - 1, blk : [BlkNr -> DentryBlock \cup {None}]]
       /\ e.size = d.size /\ e.blk[i] = w /\ \A j \in BlkNr \ {i} : e.blk[j] = d.blk[j]
  BY <1>6, <1>8, <1>9 DEF DirOK
<1>11. \A t \in Slot : Has(e, i, t) <=> t # s /\ Has(d, i, t)
  <2>1. \A t \in Slot : Has(e, i, t) <=> new.dentries[t] # None
    BY <1>6, <1>7, <1>8, <1>10 DEF Has
  <2> QED BY <2>1, <1>3, <1>4, <1>6 DEF Has
<1>12. \A t \in Slot : Has(e, i, t) => w = new
  BY <1>8, <1>10 DEF Has
<1>13. Adds(e, d, i, s, n, f)
  <2>1. ASSUME NEW j \in BlkNr, NEW t \in Slot, j # i \/ t # s
        PROVE  /\ Has(d, j, t) <=> Has(e, j, t)
               /\ Has(e, j, t) =>
                    NameAt(d, j, t) = NameAt(e, j, t) /\ InoAt(d, j, t) = InoAt(e, j, t)
    <3>1. CASE j # i
      BY <3>1, <1>10 DEF Has, NameAt, InoAt
    <3>2. CASE j = i
      <4>1. Has(d, j, t) <=> Has(e, j, t)
        BY <2>1, <3>2, <1>11
      <4>2. Has(e, j, t) => e.blk[j].dentries[t] = d.blk[j].dentries[t]
        BY <2>1, <3>2, <1>3, <1>6, <1>10, <1>12
      <4> QED BY <4>1, <4>2 DEF NameAt, InoAt
    <3> QED BY <3>1, <3>2
  <2> QED BY <1>1, <1>11, <2>1 DEF Adds
<1>14. DirOK(e)
  <2>1. ASSUME NEW j \in BlkNr, NEW t \in Slot, Has(e, j, t)
        PROVE  Has(d, j, t) /\ NameAt(e, j, t) = NameAt(d, j, t)
    BY <2>1, <1>13 DEF Adds
  <2>2. ASSUME NEW j \in BlkNr, e.blk[j] # None
        PROVE  BlockOK(e.blk[j]) /\ \E t \in Slot : e.blk[j].dentries[t] # None
    <3>1. CASE j = i
      BY <3>1, <2>2, <1>6, <1>8, <1>10
    <3>2. CASE j # i
      BY <3>2, <2>2, <1>10 DEF DirOK
    <3> QED BY <3>1, <3>2
  <2>3. \A j \in BlkNr, t \in Slot : Has(e, j, t) =>
           \E l \in 0 .. DepthFromBlkNr[e.size] - 1 : j = BlockOf[l][NameAt(e, j, t)]
    BY <2>1, <1>10 DEF DirOK
  <2>4. \A j, jj \in BlkNr, t, tt \in Slot :
           Has(e, j, t) /\ Has(e, jj, tt) /\ NameAt(e, j, t) = NameAt(e, jj, tt)
              => j = jj /\ t = tt
    BY <2>1 DEF DirOK
  <2>5. \E k \in 0 .. MaxLevel : e.size = 2 ^ k - 1
    BY <1>10 DEF DirOK
  <2> QED BY <1>10, <2>2, <2>3, <2>4, <2>5 DEF DirOK
<1> QED BY <1>13, <1>14 DEF e

-------------------------------------------------------------------------------
(***************************************************************************)
(* The operations                                                          *)
(***************************************************************************)
\* With one entry more, FindFile finds its name and every other as before.
LEMMA AddsFind ==
  ASSUME NEW d, DirOK(d), NEW e, DirOK(e), NEW i \in BlkNr, NEW s \in Slot,
         NEW n \in Names, NEW f, Adds(d, e, i, s, n, f)
  PROVE  /\ FindFile(e, n) = f /\ f # None /\ FindFile(d, n) = None
         /\ \A m \in Names \ {n} : FindFile(e, m) = FindFile(d, m)
<1>1. /\ ~Has(d, i, s) /\ Has(e, i, s) /\ NameAt(e, i, s) = n /\ InoAt(e, i, s) = f
      /\ \A j \in BlkNr, t \in Slot : j # i \/ t # s =>
            /\ Has(e, j, t) <=> Has(d, j, t)
            /\ Has(d, j, t) =>
                  NameAt(e, j, t) = NameAt(d, j, t) /\ InoAt(e, j, t) = InoAt(d, j, t)
  BY DEF Adds
<1>2. FindFile(e, n) = f /\ f # None
  BY <1>1, FindFileIs
<1>3. FindFile(d, n) = None
  <2> SUFFICES ASSUME FindFile(d, n) # None PROVE FALSE
    OBVIOUS
  <2>1. PICK j \in BlkNr, t \in Slot : Has(d, j, t) /\ NameAt(d, j, t) = n
    BY FindFileIs
  <2>2. j # i \/ t # s
    BY <1>1, <2>1
  <2>3. Has(e, j, t) /\ NameAt(e, j, t) = n
    BY <1>1, <2>1, <2>2
  <2>4. i = j /\ s = t
    BY <1>1, <2>3 DEF DirOK
  <2> QED BY <2>2, <2>4
<1>4. ASSUME NEW m \in Names \ {n} PROVE FindFile(e, m) = FindFile(d, m)
  <2>1. ASSUME NEW j \in BlkNr, NEW t \in Slot
        PROVE  /\ Has(d, j, t) /\ NameAt(d, j, t) = m =>
                    Has(e, j, t) /\ NameAt(e, j, t) = m /\ InoAt(e, j, t) = InoAt(d, j, t)
               /\ Has(e, j, t) /\ NameAt(e, j, t) = m =>
                    Has(d, j, t) /\ NameAt(d, j, t) = m /\ InoAt(d, j, t) = InoAt(e, j, t)
    <3>1. CASE j = i /\ t = s
      BY <1>1, <3>1
    <3>2. CASE j # i \/ t # s
      BY <1>1, <3>2
    <3> QED BY <3>1, <3>2
  <2> QED BY <2>1, FindFileSame
<1> QED BY <1>2, <1>3, <1>4

\* add_link, as FindFile sees it.
LEMMA AddLinkFind ==
  ASSUME NEW d, DirOK(d), NEW n \in Names, NEW f \in Fids,
         FindFile(d, n) = None, HasPlace(d, n), NEW e, e = AddLink(d, n, f)
  PROVE  /\ DirOK(e) /\ FindFile(e, n) = f /\ f # None
         /\ \A m \in Names \ {n} : FindFile(e, m) = FindFile(d, m)
<1>1. DirOK(e) /\ \E i \in BlkNr, s \in Slot : Adds(d, e, i, s, n, f)
  BY AddLinkIs
<1> QED BY <1>1, AddsFind

\* unlink, as FindFile sees it.
LEMMA UnlinkFind ==
  ASSUME NEW d, DirOK(d), NEW n \in Names, NEW f, f = FindFile(d, n), f # None,
         NEW e, e = Unlink(d, n, f)
  PROVE  /\ DirOK(e) /\ FindFile(e, n) = None
         /\ \A m \in Names \ {n} : FindFile(e, m) = FindFile(d, m)
<1>1. DirOK(e) /\ \E i \in BlkNr, s \in Slot : Adds(e, d, i, s, n, f)
  BY UnlinkIs
<1> QED BY <1>1, AddsFind

\* An empty directory file.
LEMMA EmptyDirIs ==
  DirOK(EmptyDir) /\ \A n \in Names : FindFile(EmptyDir, n) = None
<1>1. 2 ^ 0 = 1 /\ 0 \in 0 .. MaxLevel
  BY BlkNumIs, DirAssumption
<1>2. 2 ^ 0 - 1 \in 0 .. 2 ^ MaxLevel - 1
  BY <1>1, DepthIs
<1>3. EmptyDir \in [size : 0 .. 2 ^ MaxLevel - 1, blk : [BlkNr -> DentryBlock \cup {None}]]
  BY <1>1, <1>2 DEF EmptyDir
<1>4. \A i \in BlkNr : EmptyDir.blk[i] = None
  BY DEF EmptyDir
<1>5. EmptyDir.size = 2 ^ 0 - 1
  BY <1>1 DEF EmptyDir
<1>6. \A i \in BlkNr, s \in Slot : ~Has(EmptyDir, i, s)
  BY <1>4 DEF Has
<1>7. DirOK(EmptyDir)
  <2>1. \E k \in 0 .. MaxLevel : EmptyDir.size = 2 ^ k - 1
    BY <1>1, <1>5
  <2> QED BY <1>3, <1>4, <1>6, <2>1 DEF DirOK
<1> QED BY <1>6, <1>7, FindFileIs

\* An inode that FindFile finds is an inode number.
LEMMA FoundIsFid ==
  ASSUME NEW d, DirOK(d), NEW n \in Names, FindFile(d, n) # None
  PROVE  FindFile(d, n) \in Fids
BY FindFileTyped

\* A block in order has an exact bitmap.
LEMMA BlockSlots ==
  ASSUME NEW block \in DentryBlock, BlockOK(block)
  PROVE  LET first == {s \in Slot : block.dentries[s] # None}
             slots(s) == s .. s + SlotNum[block.dentries[s].name] - 1
         IN  /\ block.bitmap = UNION {slots(s) : s \in first}
             /\ \A s, t \in first : s # t => slots(s) \cap slots(t) = {}
<1> DEFINE first == {s \in Slot : block.dentries[s] # None}
           k(s) == SlotNum[block.dentries[s].name]
           slots(s) == s .. s + k(s) - 1
           N == DentryPerBlock
<1>1. /\ N \in Nat /\ block.bitmap \subseteq Slot
      /\ \A x \in Slot : x \in Nat /\ x < N
      /\ \A x \in Nat : x < N => x \in Slot
      /\ \A s \in first : s \in Slot /\ s \in Nat /\ k(s) \in Nat
  BY DirAssumption DEF DentryBlock, Entry, Slot
<1>2. /\ \A s \in first : s + k(s) <= N
      /\ \A x \in Slot : x \in block.bitmap <=> \E s \in first : s <= x /\ x < s + k(s)
      /\ \A s, t \in first : s < t => s + k(s) <= t
  BY DEF BlockOK
<1> HIDE DEF k, first
<1>3. ASSUME NEW x \in block.bitmap PROVE x \in UNION {slots(s) : s \in first}
  <2>1. PICK s \in first : s <= x /\ x < s + k(s)
    BY <1>1, <1>2
  <2>2. x \in slots(s)
    BY <2>1, <1>1
  <2> QED BY <2>2
<1>4. ASSUME NEW s \in first, NEW x \in slots(s) PROVE x \in block.bitmap
  <2>1. s <= x /\ x < s + k(s) /\ x \in Nat
    BY <1>1
  <2>2. x \in Slot
    BY <1>1, <1>2, <2>1
  <2> QED BY <1>2, <2>1, <2>2
<1>5. ASSUME NEW s \in first, NEW t \in first, s # t PROVE slots(s) \cap slots(t) = {}
  <2>1. s < t \/ t < s
    BY <1>1, <1>5
  <2> QED BY <1>1, <1>2, <2>1
<1>6. block.bitmap = UNION {slots(s) : s \in first}
  BY <1>3, <1>4
<1> QED BY <1>5, <1>6 DEF first, k

\* Every entry is in a block below the size of the file.
LEMMA EntryBelowSize ==
  ASSUME NEW d, DirOK(d), NEW i \in BlkNr, NEW s \in Slot, Has(d, i, s)
  PROVE  i < d.size
<1>1. PICK depth : depth = DepthFromBlkNr[d.size]
  OBVIOUS
<1>2. depth \in 0 .. MaxLevel /\ d.size = 2 ^ depth - 1 /\ MaxLevel \in Nat
  BY <1>1, DepthOf, DirAssumption
<1>3. PICK n \in Names : n = NameAt(d, i, s)
  BY EntryTyped
<1>4. PICK l \in 0 .. depth - 1 : i = BlockOf[l][n]
  BY <1>1, <1>3 DEF DirOK
<1>5. l \in 0 .. MaxLevel - 1 /\ l + 1 \in 0 .. MaxLevel + 1 /\ depth \in 0 .. MaxLevel + 1
  BY <1>2
<1>6. i < 2 ^ (l + 1) - 1 /\ i \in Int
  BY <1>4, <1>5, BlockOfIs, BlkNumPos DEF BlkNr
<1>7. 2 ^ (l + 1) \in Nat /\ 2 ^ depth \in Nat
  BY <1>5, BlkNumPos
<1>8. 2 ^ (l + 1) <= 2 ^ depth
  <2>1. CASE l + 1 = depth
    BY <1>7, <2>1
  <2>2. CASE l + 1 < depth
    <3>1. 2 * 2 ^ (l + 1) <= 2 ^ depth
      BY <1>5, <2>2, BlkNumGrows
    <3> QED BY <1>7, <3>1
  <2> QED BY <1>2, <2>1, <2>2
<1> QED BY <1>2, <1>6, <1>7, <1>8

-------------------------------------------------------------------------------
(***************************************************************************)
(* Blocks                                                                  *)
(***************************************************************************)
\* The greatest block of a span.
LEMMA MaxIn ==
  ASSUME NEW n \in Nat, NEW T \in SUBSET (0 .. n), T # {}
  PROVE  Max(T) \in T
<1>1. PICK k \in T : \A j \in T : j <= k  BY Greatest
<1>2. \A j \in T : k >= j  BY <1>1
<1> QED BY <1>2 DEF Max

\* The larger of two numbers.
LEMMA MaxTwo ==
  ASSUME NEW a \in Nat, NEW b \in Nat
  PROVE  Max({a, b}) = IF a >= b THEN a ELSE b
BY DEF Max

\* Where unlink finds the name, and the block that it leaves.
LEMMA UnlinkBlockIs ==
  ASSUME NEW d, DirOK(d), NEW n \in Names, NEW fid, fid = FindFile(d, n), fid # None,
         NEW b, b = LinkAt(d, n, fid).blk
  PROVE  b \in BlkNr /\ d.blk[b] # None /\ UnlinkBlock(d, n, fid) \in DentryBlock
<1>1. PICK i \in BlkNr, s \in Slot : Has(d, i, s) /\ NameAt(d, i, s) = n /\ InoAt(d, i, s) = fid
  BY FindFileIs
<1>2. LinkAt(d, n, fid).blk = i /\ LinkAt(d, n, fid).slot = s  BY <1>1, LinkAtIs
<1>3. d.blk[i] \in DentryBlock /\ d.blk[i] # None /\ BlockOK(d.blk[i])
  BY <1>1, EntryTyped DEF DirOK, Has
<1>4. PICK x : x = TakeEntry(d.blk[i], s, n)  OBVIOUS
<1>5. x \in DentryBlock
  <2>1. d.blk[i].dentries[s] # None /\ d.blk[i].dentries[s].name = n  BY <1>1 DEF Has, NameAt
  <2> QED BY <1>3, <1>4, <2>1, TakeEntryIs
<1>6. UnlinkBlock(d, n, fid) = x  BY <1>2, <1>4 DEF UnlinkBlock, TakeEntry
<1> QED BY <1>2, <1>3, <1>5, <1>6

-------------------------------------------------------------------------------
(***************************************************************************)
(* Paths: the names on the way from the root                               *)
(***************************************************************************)
\* Paths are sequences.
LEMMA PathSeq ==
  ASSUME NEW m \in Names
  PROVE  /\ <<m>> \in [1 .. 1 -> Names] /\ <<m>> \in Seq(Names)
         /\ \A n \in Names : <<m, n>> \in [1 .. 2 -> Names] /\ <<m, n>> \in Seq(Names) /\ Len(<<m, n>>) = 2
<1>1. <<m>> \in [1 .. 1 -> Names]  OBVIOUS
<1>2. ASSUME NEW n \in Names
      PROVE  <<m, n>> \in [1 .. 2 -> Names] /\ <<m, n>> \in Seq(Names) /\ Len(<<m, n>>) = 2
  <2>1. <<m, n>> \in [1 .. 2 -> Names]  OBVIOUS
  <2> QED BY <2>1, FunSeq
<1> QED BY <1>1, <1>2, FunSeq

\* The directory of a path, and its last name.
Up(p) == IF Len(p) = 1 THEN <<>> ELSE <<p[1]>>

\* A path is a name, or a name in a directory.
LEMMA PathIs ==
  ASSUME NEW p \in Paths
  PROVE  /\ Len(p) \in {1, 2} /\ p[1] \in Names /\ p[Len(p)] \in Names
         /\ Len(p) = 1 => p = <<p[1]>> /\ p \in {<<n>> : n \in Names}
         /\ Len(p) = 2 => p = <<p[1], p[2]>> /\ p[2] \in Names /\ <<p[1]>> \in Paths
         /\ p # <<>>
<1>1. CASE p \in {<<n>> : n \in Names}
  <2>1. PICK n \in Names : p = <<n>>  BY <1>1
  <2> QED BY <2>1
<1>2. CASE p \in Names \X Names
  <2>1. PICK n \in Names, m \in Names : p = <<n, m>>  BY <1>2
  <2>2. <<n>> \in Paths  BY DEF Paths
  <2> QED BY <2>1, <2>2
<1> QED BY <1>1, <1>2 DEF Paths

\* Names are appended to directories.
LEMMA AppendIs ==
  ASSUME NEW n \in Names
  PROVE  /\ Append(<<>>, n) = <<n>>
         /\ \A m \in Names : Append(<<m>>, n) = <<m, n>>
         /\ \A p \in Names \X Names : Append(p, n) \notin Paths
<1>1. Append(<<>>, n) = <<n>>  OBVIOUS
<1>2. ASSUME NEW m \in Names PROVE Append(<<m>>, n) = <<m, n>>
  <2>1. PICK w, u : w = <<m>> /\ u = <<m, n>>  OBVIOUS
  <2>2. PICK k \in Nat : k = 1 /\ k + 1 = 2  OBVIOUS
  <2>3. /\ w \in [1 .. k -> Names] /\ u \in [1 .. k + 1 -> Names]
        /\ u[k + 1] = n /\ \A i \in 1 .. k : u[i] = w[i]
    BY <2>1, <2>2, PathSeq
  <2>4. u = Append(w, n)  BY <2>3, FunAppend, Zenon
  <2> QED BY <2>1, <2>4, Zenon
<1>3. ASSUME NEW p \in Names \X Names PROVE Append(p, n) \notin Paths
  <2>1. PICK a \in Names, b \in Names : p = <<a, b>>  OBVIOUS
  <2>2. p \in Seq(Names) /\ Len(p) = 2  BY <2>1, PathSeq
  <2>3. Len(Append(p, n)) = 3
    <3>1. Len(Append(p, n)) = Len(p) + 1  BY <2>2, AppendGrows, Zenon
    <3> QED BY <2>2, <3>1
  <2>4. Len(Append(p, n)) \notin {1, 2}  BY <2>3
  <2> QED BY <2>4, PathIs
<1> QED BY <1>1, <1>2, <1>3

\* A path is a name in its directory.
LEMMA UpIs ==
  ASSUME NEW p \in Paths
  PROVE  p = Append(Up(p), p[Len(p)]) /\ (Up(p) = <<>> \/ Up(p) \in Paths)
<1>1. CASE Len(p) = 1
  BY <1>1, PathIs, AppendIs DEF Up
<1>2. CASE Len(p) = 2
  <2>1. p = <<p[1], p[2]>> /\ p[1] \in Names /\ p[2] \in Names /\ <<p[1]>> \in Paths
    BY <1>2, PathIs
  <2>2. Append(<<p[1]>>, p[2]) = <<p[1], p[2]>>  BY <2>1, AppendIs
  <2>3. Up(p) = <<p[1]>>  BY <1>2 DEF Up
  <2> QED BY <1>2, <2>1, <2>2, <2>3
<1> QED BY <1>1, <1>2, PathIs

\* The parts of short paths.
LEMMA Parts ==
  ASSUME NEW a \in Names, NEW m \in Names
  PROVE  /\ SubSeq(<<a>>, 1, 1) = <<a>> /\ SubSeq(<<a, m>>, 1, 1) = <<a>> /\ SubSeq(<<a, m>>, 1, 2) = <<a, m>>
         /\ SubSeq(<<a>>, 2, 1) = <<>> /\ SubSeq(<<a, m>>, 2, 2) = <<m>> /\ SubSeq(<<a, m>>, 3, 2) = <<>>
         /\ <<a>> \o <<>> = <<a>> /\ <<a>> \o <<m>> = <<a, m>> /\ <<a, m>> \o <<>> = <<a, m>>
<1>1. PICK s, t, u : s = <<a>> /\ t = <<a, m>> /\ u = <<m>>  OBVIOUS
<1>2. /\ s \in Seq(Names) /\ t \in Seq(Names) /\ u \in Seq(Names) /\ Len(s) = 1 /\ Len(t) = 2 /\ Len(u) = 1
      /\ s[1] = a /\ t[1] = a /\ t[2] = m /\ u[1] = m
  BY <1>1, PathSeq
<1>3. SubSeq(s, 1, 1) = s /\ SubSeq(t, 1, 2) = t  BY <1>2, SubSeqFull
<1>4. SubSeq(t, 1, 1) = <<a>>
  <2>1. PICK v : v = SubSeq(t, 1, 1)  OBVIOUS
  <2>2. v \in Seq(Names) /\ Len(v) = 1 /\ v[1] = a  BY <1>2, <2>1
  <2> QED BY <2>1, <2>2, SeqOne
<1>5. SubSeq(s, 2, 1) = <<>> /\ SubSeq(t, 3, 2) = <<>>  BY SubSeqEmpty
<1>6. SubSeq(t, 2, 2) = <<m>>
  <2>1. PICK v : v = SubSeq(t, 2, 2)  OBVIOUS
  <2>2. v \in Seq(Names) /\ Len(v) = 1 /\ v[1] = m  BY <1>2, <2>1
  <2> QED BY <2>1, <2>2, SeqOne
<1>7. s \o <<>> = s /\ t \o <<>> = t  BY <1>2, ConcatEmptySeq
<1>8. s \o u = <<a, m>>
  <2>1. PICK v : v = s \o u  OBVIOUS
  <2>2. v \in Seq(Names) /\ Len(v) = 2 /\ v[1] = a /\ v[2] = m
    <3>1. /\ v \in Seq(Names) /\ Len(v) = Len(s) + Len(u)
          /\ \A i \in 1 .. Len(s) + Len(u) : v[i] = IF i <= Len(s) THEN s[i] ELSE u[i - Len(s)]
      BY <1>2, <2>1, ConcatProperties
    <3>2. /\ v[1] = IF 1 <= 1 THEN s[1] ELSE u[1 - 1]
          /\ v[2] = IF 2 <= 1 THEN s[2] ELSE u[2 - 1]
      BY <1>2, <3>1
    <3> QED BY <1>2, <3>1, <3>2
  <2>3. v = <<a, m>>
    <3>1. v \in Seq(Names) /\ Len(v) = 2 /\ v[1] = a /\ v[2] = m  BY <2>2
    <3> HIDE <1>1, <1>2
    <3> QED BY <3>1, SeqTwo
  <2> QED BY <2>1, <2>3
<1> QED BY <1>1, <1>3, <1>4, <1>5, <1>6, <1>7, <1>8, Zenon

\* A path is above another, or is it.
Away(p, x) == x = p \/ (Len(p) = 1 /\ Len(x) = 2 /\ x[1] = p[1])
Prefixed(x, top) == Len(x) >= Len(top) /\ SubSeq(x, 1, Len(top)) = top
Graft(p, x) == p \o SubSeq(x, Len(p) + 1, Len(x))

\* What MoveFile takes along with a path, and where to.
LEMMA PrefixIs ==
  ASSUME NEW p \in Paths, NEW x \in Paths
  PROVE  /\ Prefixed(x, p) <=> Away(p, x)
         /\ Len(x) = Len(p) => Graft(p, x) = p
         /\ Len(p) = 1 /\ Len(x) = 2 => Graft(p, x) = <<p[1], x[2]>>
<1>1. CASE Len(p) = 1 /\ Len(x) = 1
  <2>1. p = <<p[1]>> /\ x = <<x[1]>> /\ p[1] \in Names /\ x[1] \in Names  BY <1>1, PathIs
  <2>2. SubSeq(x, 1, 1) = x /\ SubSeq(x, 2, 1) = <<>> /\ p \o <<>> = p  BY <2>1, Parts, Zenon
  <2>3. 1 + 1 = 2 /\ 1 >= 1  OBVIOUS
  <2>4. Graft(p, x) = p  BY <1>1, <2>2, <2>3 DEF Graft
  <2>5. Prefixed(x, p) <=> x = p  BY <1>1, <2>2, <2>3 DEF Prefixed
  <2> QED BY <1>1, <2>4, <2>5 DEF Away
<1>2. CASE Len(p) = 1 /\ Len(x) = 2
  <2>1. p = <<p[1]>> /\ x = <<x[1], x[2]>> /\ p[1] \in Names /\ x[1] \in Names /\ x[2] \in Names
    BY <1>2, PathIs
  <2>2. PICK a, b, e : a = x[1] /\ b = x[2] /\ e = p[1]  OBVIOUS
  <2>3. x = <<a, b>> /\ p = <<e>> /\ a \in Names /\ b \in Names /\ e \in Names
    BY <2>2, <2>1, Zenon
  <2>4. SubSeq(x, 1, 1) = <<a>> /\ SubSeq(x, 2, 2) = <<b>> /\ p \o <<b>> = <<e, b>>
    BY <2>3, Parts, Zenon
  <2>5. SubSeq(x, 1, 1) = <<x[1]>> /\ SubSeq(x, 2, 2) = <<x[2]>> /\ p \o <<x[2]>> = <<p[1], x[2]>>
    BY <2>2, <2>4, Zenon
  <2>6. 1 + 1 = 2 /\ 2 >= 1  OBVIOUS
  <2>7. Graft(p, x) = <<p[1], x[2]>>  BY <1>2, <2>5, <2>6 DEF Graft
  <2>8. Prefixed(x, p) <=> <<x[1]>> = p  BY <1>2, <2>5, <2>6 DEF Prefixed
  <2>9. <<x[1]>> = p <=> x[1] = p[1]  BY <2>1
  <2> QED BY <1>2, <2>7, <2>8, <2>9 DEF Away
<1>3. CASE Len(p) = 2 /\ Len(x) = 1
  BY <1>3 DEF Away, Prefixed
<1>4. CASE Len(p) = 2 /\ Len(x) = 2
  <2>1. p = <<p[1], p[2]>> /\ x = <<x[1], x[2]>> /\ p[1] \in Names /\ x[1] \in Names
        /\ x[2] \in Names /\ p[2] \in Names
    BY <1>4, PathIs
  <2>2. PICK a, b, e, g : a = x[1] /\ b = x[2] /\ e = p[1] /\ g = p[2]  OBVIOUS
  <2>3. x = <<a, b>> /\ p = <<e, g>> /\ a \in Names /\ b \in Names /\ e \in Names /\ g \in Names
    BY <2>2, <2>1, Zenon
  <2>4. SubSeq(x, 1, 2) = x /\ SubSeq(x, 3, 2) = <<>> /\ p \o <<>> = p  BY <2>3, Parts, Zenon
  <2>5. 2 + 1 = 3 /\ 2 >= 2  OBVIOUS
  <2>6. Graft(p, x) = p  BY <1>4, <2>4, <2>5 DEF Graft
  <2>7. Prefixed(x, p) <=> x = p  BY <1>4, <2>4, <2>5 DEF Prefixed
  <2> QED BY <1>4, <2>6, <2>7 DEF Away
<1> QED BY <1>1, <1>2, <1>3, <1>4, PathIs

\* Where a path was before the move, and is after it.
Back(p, q, y) ==
    IF y = q THEN p ELSE IF Len(p) = 1 /\ Len(y) = 2 /\ y[1] = q[1] THEN <<p[1], y[2]>> ELSE y
Forth(p, q, x) ==
    IF x = p THEN q ELSE IF Len(p) = 1 /\ Len(x) = 2 /\ x[1] = p[1] THEN <<q[1], x[2]>> ELSE x

\* Two names of one directory.
Siblings(p, q) == p \in Paths /\ q \in Paths /\ Len(q) = Len(p) /\ Up(q) = Up(p) /\ q # p

\* Paths by their names.
LEMMA PathNames ==
  /\ \A a \in Names : <<a>> \in Paths /\ Len(<<a>>) = 1 /\ <<a>>[1] = a
  /\ \A a, b \in Names : <<a, b>> \in Paths /\ Len(<<a, b>>) = 2 /\ <<a, b>>[1] = a /\ <<a, b>>[2] = b
  /\ \A p \in Paths : Len(p) # 1 <=> Len(p) = 2
<1>1. \A a \in Names : <<a>> \in Paths /\ Len(<<a>>) = 1 /\ <<a>>[1] = a  BY DEF Paths
<1>2. \A a, b \in Names : <<a, b>> \in Paths /\ Len(<<a, b>>) = 2 /\ <<a, b>>[1] = a /\ <<a, b>>[2] = b
  BY DEF Paths
<1> QED BY <1>1, <1>2, PathIs

\* Siblings differ in their last names.
LEMMA SiblingNames ==
  ASSUME NEW p, NEW q, Siblings(p, q)
  PROVE  /\ p[1] \in Names /\ q[1] \in Names
         /\ Len(p) = 1 => q[1] # p[1] /\ p = <<p[1]>> /\ q = <<q[1]>>
         /\ Len(p) = 2 => q[1] = p[1]
<1>1. p \in Paths /\ q \in Paths /\ Len(q) = Len(p) /\ Up(q) = Up(p) /\ q # p  BY DEF Siblings
<1>2. CASE Len(p) = 1
  <2>1. p = <<p[1]>> /\ q = <<q[1]>> /\ p[1] \in Names /\ q[1] \in Names  BY <1>1, <1>2, PathIs
  <2>2. q[1] # p[1]  BY <1>1, <2>1, Zenon
  <2> QED BY <1>2, <2>1, <2>2
<1>3. CASE Len(p) = 2
  <2>1. <<p[1]>> = <<q[1]>> /\ p[1] \in Names /\ q[1] \in Names  BY <1>1, <1>3, PathIs DEF Up
  <2> QED BY <1>3, <2>1
<1> QED BY <1>1, <1>2, <1>3, PathIs

\* Where a path of the moved reference was before.
LEMMA BackIs ==
  ASSUME NEW p, NEW q, Siblings(p, q), NEW y \in Paths, NEW x, x = Back(p, q, y)
  PROVE  /\ x \in Paths /\ Len(x) = Len(y) /\ (~Away(q, y) => x = y)
         /\ Away(q, y) => Forth(p, q, x) = y /\ Away(p, x) /\ x = Graft(p, y)
<1>1. p \in Paths /\ q \in Paths /\ Len(q) = Len(p) /\ q # p  BY DEF Siblings
<1>2. CASE y = q
  <2>1. x = p /\ Graft(p, y) = p  BY <1>1, <1>2, PrefixIs DEF Back
  <2> QED BY <1>1, <1>2, <2>1 DEF Forth, Away
<1>3. CASE y # q /\ Len(p) = 1 /\ Len(y) = 2 /\ y[1] = q[1]
  <2>1. x = <<p[1], y[2]>> /\ Graft(p, y) = <<p[1], y[2]>>  BY <1>1, <1>3, PrefixIs DEF Back
  <2>2. p[1] \in Names /\ y[2] \in Names /\ y = <<y[1], y[2]>>  BY <1>3, SiblingNames, PathIs
  <2>3. x \in Paths /\ Len(x) = 2 /\ x[1] = p[1] /\ x[2] = y[2]  BY <2>1, <2>2, PathNames
  <2>4. x # p  BY <1>3, <2>3
  <2>5. Forth(p, q, x) = <<q[1], y[2]>>  BY <1>3, <2>3, <2>4 DEF Forth
  <2>6. Forth(p, q, x) = y  BY <1>3, <2>2, <2>5
  <2> QED BY <1>1, <1>3, <2>1, <2>3, <2>6 DEF Away
<1>4. CASE ~Away(q, y)
  <2>1. x = y  BY <1>1, <1>4 DEF Back, Away
  <2> QED BY <1>4, <2>1
<1> QED BY <1>1, <1>2, <1>3, <1>4 DEF Away

\* The directory of a path moves with it.
LEMMA ForthUp ==
  ASSUME NEW p, NEW q, Siblings(p, q), NEW x \in Paths, Len(x) = 2, NEW y, y = Forth(p, q, x)
  PROVE  <<y[1]>> = Forth(p, q, <<x[1]>>)
<1>1. p \in Paths /\ q \in Paths /\ Len(q) = Len(p) /\ q # p  BY DEF Siblings
<1>2. x = <<x[1], x[2]>> /\ x[1] \in Names /\ x[2] \in Names /\ Len(<<x[1]>>) = 1  BY PathIs
<1>3. CASE Len(p) = 1
  <2>1. q[1] # p[1] /\ p = <<p[1]>> /\ q = <<q[1]>>  BY <1>3, SiblingNames
  <2>2. x # p /\ (<<x[1]>> = p <=> x[1] = p[1])  BY <1>3, <2>1
  <2>3. CASE x[1] = p[1]
    <3>1. y = <<q[1], x[2]>>  BY <1>3, <2>2, <2>3 DEF Forth
    <3>2. Forth(p, q, <<x[1]>>) = q  BY <2>2, <2>3 DEF Forth
    <3>3. y[1] = q[1]  BY <3>1
    <3> QED BY <2>1, <3>2, <3>3
  <2>4. CASE x[1] # p[1]
    BY <1>2, <2>2, <2>4 DEF Forth
  <2> QED BY <2>3, <2>4
<1>4. CASE Len(p) = 2
  <2>1. q[1] = p[1]  BY <1>4, SiblingNames
  <2>2. <<x[1]>> # p  BY <1>2, <1>4
  <2>3. Forth(p, q, <<x[1]>>) = <<x[1]>> /\ y[1] = x[1]  BY <1>4, <2>1, <2>2 DEF Forth
  <2> QED BY <2>3
<1> QED BY <1>1, <1>3, <1>4, PathIs
===============================================================================
