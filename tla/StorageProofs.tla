----------------------------- MODULE StorageProofs -----------------------------
(***************************************************************************)
(* Proofs about Storage, for any numbers of disks, blocks, contents and    *)
(* versions.                                                               *)
(*                                                                         *)
(* The write log of a disk is reached over pointers that are not counted   *)
(* (m_cache_tail, pre_write).  The inductive invariant says that this log  *)
(* exists for every disk of a state, as a sequence s of versions in use:   *)
(* pre_write leads from each to the one before, pre_ver to the last of the *)
(* same block before, and m_data to the last of each block.  So every      *)
(* version on a log is the head of its block or has a successor on the     *)
(* same log, which is a counted reference: a release never reclaims it.    *)
(***************************************************************************)
EXTENDS Storage, ProofFacts

-------------------------------------------------------------------------------
(***************************************************************************)
(* The inductive invariant                                                 *)
(***************************************************************************)
RefsIn(m, v) == {x \in Disks \X Lbas : m[x[1]][x[2]] = v}

DataRefs(v) == RefsIn(data, v)

PrevRefs(v) == {w \in Versions \ free : ver[w].preVer = v}

PutRefs(v) == {d \in Disks : put[d] = v}

\* x is the last version of block l among s[1] .. s[k - 1], Null if none is.
LastBefore(pool, s, k, l, x) ==
    \/ x = Null /\ \A j \in 1 .. k - 1 : pool[s[j]].lba # l
    \/ \E j \in 1 .. k - 1 : /\ s[j] = x /\ pool[x].lba = l
                             /\ \A i \in j + 1 .. k - 1 : pool[s[i]].lba # l

\* s is the write log of disk d, oldest first.
IsLog(d, s) ==
    /\ s \in [1 .. nr[d] -> Versions \ free]
    /\ \A i, j \in 1 .. nr[d] : s[i] = s[j] => i = j
    /\ \A i \in 1 .. nr[d] :
          /\ ver[s[i]].lba \in Lbas /\ ver[s[i]].val \in Values
          /\ ver[s[i]].preWrite = IF i = 1 THEN Null ELSE s[i - 1]
          /\ LastBefore(ver, s, i, ver[s[i]].lba, ver[s[i]].preVer)
    /\ tail[d] = IF nr[d] = 0 THEN Null ELSE s[nr[d]]
    /\ \A l \in Lbas : LastBefore(ver, s, nr[d] + 1, l, data[d][l])

LogsOK == \A d \in inUse : \E s \in [1 .. nr[d] -> Versions] : IsLog(d, s)

FreeOK == \A v \in Versions : v \in free <=> ver[v].ref = 0

ThreadsOK ==
    \A d \in Disks :
        /\ todo[d].op = "idle" => put[d] = Null
        /\ todo[d].op = "clear" => /\ d \notin inUse
                                   /\ \A l \in Lbas \ todo[d].left : data[d][l] = Null
        /\ todo[d].from # Null => /\ todo[d].op = "clear"
                                  /\ todo[d].from \in inUse
                                  /\ todo[todo[d].from].op = "idle"

IInv == TypeOK /\ RefCountsExact /\ FreeOK /\ ThreadsOK /\ LogsOK

-------------------------------------------------------------------------------
(***************************************************************************)
(* The write log                                                           *)
(***************************************************************************)
\* The last version of a block depends on the addresses of the versions only.
LEMMA LastBeforeSame ==
  ASSUME NEW p, NEW q, NEW s, NEW k \in Nat, NEW l, NEW x,
         LastBefore(p, s, k, l, x),
         \A i \in 1 .. k - 1 : q[s[i]].lba = p[s[i]].lba
  PROVE  LastBefore(q, s, k, l, x)
<1>1. CASE x = Null /\ \A j \in 1 .. k - 1 : p[s[j]].lba # l
  BY <1>1 DEF LastBefore
<1>2. ASSUME NEW j \in 1 .. k - 1, s[j] = x, p[x].lba = l,
             \A i \in j + 1 .. k - 1 : p[s[i]].lba # l
      PROVE  LastBefore(q, s, k, l, x)
  <2>1. q[x].lba = l
    BY <1>2
  <2>2. \A i \in j + 1 .. k - 1 : q[s[i]].lba # l
    BY <1>2
  <2> QED BY <1>2, <2>1, <2>2 DEF LastBefore
<1> QED BY <1>1, <1>2 DEF LastBefore

\* BlockWrite: a version of another block does not change the last of block l,
\* and one of block l is the last.
LEMMA LastBeforeMore ==
  ASSUME NEW p, NEW s, NEW k \in Nat \ {0}, NEW l, NEW x
  PROVE  /\ p[s[k]].lba = l => LastBefore(p, s, k + 1, l, s[k])
         /\ p[s[k]].lba # l =>
               (LastBefore(p, s, k, l, x) <=> LastBefore(p, s, k + 1, l, x))
<1>1. p[s[k]].lba = l => LastBefore(p, s, k + 1, l, s[k])
  BY DEF LastBefore
<1>2. ASSUME p[s[k]].lba # l
      PROVE  LastBefore(p, s, k, l, x) => LastBefore(p, s, k + 1, l, x)
  <2>1. CASE x = Null /\ \A j \in 1 .. k - 1 : p[s[j]].lba # l
    BY <1>2, <2>1 DEF LastBefore
  <2>2. ASSUME NEW j \in 1 .. k - 1, s[j] = x, p[x].lba = l,
               \A i \in j + 1 .. k - 1 : p[s[i]].lba # l
        PROVE  LastBefore(p, s, k + 1, l, x)
    <3>1. \A i \in j + 1 .. (k + 1) - 1 : p[s[i]].lba # l
      BY <1>2, <2>2
    <3>2. j \in 1 .. (k + 1) - 1
      OBVIOUS
    <3> QED BY <2>2, <3>1, <3>2 DEF LastBefore
  <2> QED BY <2>1, <2>2 DEF LastBefore
<1>3. ASSUME p[s[k]].lba # l
      PROVE  LastBefore(p, s, k + 1, l, x) => LastBefore(p, s, k, l, x)
  <2>1. CASE x = Null /\ \A j \in 1 .. (k + 1) - 1 : p[s[j]].lba # l
    BY <1>3, <2>1 DEF LastBefore
  <2>2. ASSUME NEW j \in 1 .. (k + 1) - 1, s[j] = x, p[x].lba = l,
               \A i \in j + 1 .. (k + 1) - 1 : p[s[i]].lba # l
        PROVE  LastBefore(p, s, k, l, x)
    <3>1. j # k
      BY <1>3, <2>2
    <3>2. j \in 1 .. k - 1
      BY <3>1
    <3>3. \A i \in j + 1 .. k - 1 : p[s[i]].lba # l
      BY <2>2
    <3> QED BY <2>2, <3>2, <3>3 DEF LastBefore
  <2> QED BY <2>1, <2>2 DEF LastBefore
<1> QED BY <1>1, <1>2, <1>3

\* The last version of block l is any that no other of block l follows.
LEMMA LastBeforeIs ==
  ASSUME NEW p, NEW s, NEW k \in Nat, NEW l, NEW x, LastBefore(p, s, k, l, x),
         NEW i \in 1 .. k - 1, p[s[i]].lba = l,
         \A j \in i + 1 .. k - 1 : p[s[j]].lba # l
  PROVE  x = s[i]
<1>1. PICK j \in 1 .. k - 1 : /\ s[j] = x /\ p[x].lba = l
                              /\ \A h \in j + 1 .. k - 1 : p[s[h]].lba # l
  BY DEF LastBefore
<1>2. ~(j < i)
  <2> SUFFICES ASSUME j < i PROVE FALSE
    OBVIOUS
  <2>1. i \in j + 1 .. k - 1
    OBVIOUS
  <2> QED BY <2>1, <1>1
<1>3. ~(i < j)
  <2> SUFFICES ASSUME i < j PROVE FALSE
    OBVIOUS
  <2>1. j \in i + 1 .. k - 1
    OBVIOUS
  <2> QED BY <2>1, <1>1
<1>4. i = j
  BY <1>2, <1>3
<1> QED BY <1>4, <1>1

\* A version on a log is the head of its block or the pre_ver of another.
LEMMA OnLogIsHeld ==
  ASSUME TypeOK, NEW d \in Disks, NEW s, IsLog(d, s), NEW i \in 1 .. nr[d]
  PROVE  DataRefs(s[i]) # {} \/ PrevRefs(s[i]) # {}
<1> DEFINE l == ver[s[i]].lba
           T == {j \in i + 1 .. nr[d] : ver[s[j]].lba = l}
<1>1. nr[d] \in Nat /\ l \in Lbas
  BY DEF TypeOK, IsLog
<1>2. CASE T = {}
  <2>1. LastBefore(ver, s, nr[d] + 1, l, data[d][l])
    BY <1>1 DEF IsLog
  <2>2. i \in 1 .. (nr[d] + 1) - 1 /\ nr[d] + 1 \in Nat
    BY <1>1
  <2>3. \A j \in i + 1 .. (nr[d] + 1) - 1 : ver[s[j]].lba # l
    BY <1>1, <1>2
  <2>4. data[d][l] = s[i]
    BY <2>1, <2>2, <2>3, LastBeforeIs
  <2>5. <<d, l>> \in DataRefs(s[i])
    BY <2>4, <1>1 DEF DataRefs, RefsIn
  <2> QED BY <2>5
<1>3. CASE T # {}
  <2>1. T \in SUBSET Nat
    BY <1>1
  <2>2. PICK j \in T : \A k \in T : j <= k
    BY <2>1, <1>3, Least
  <2>3. j \in 1 .. nr[d] /\ j \in Nat /\ i \in 1 .. j - 1 /\ ver[s[j]].lba = l
    BY <1>1
  <2>4. LastBefore(ver, s, j, l, ver[s[j]].preVer)
    BY <2>3 DEF IsLog
  <2>5. \A h \in i + 1 .. j - 1 : ver[s[h]].lba # l
    <3> SUFFICES ASSUME NEW h \in i + 1 .. j - 1, ver[s[h]].lba = l PROVE FALSE
      OBVIOUS
    <3>1. h \in T /\ h < j
      BY <2>3, <1>1
    <3> QED BY <3>1, <2>2, <2>3
  <2>6. ver[s[j]].preVer = s[i]
    BY <2>3, <2>4, <2>5, LastBeforeIs
  <2>7. s[j] \in PrevRefs(s[i])
    BY <2>3, <2>6 DEF PrevRefs, IsLog
  <2> QED BY <2>7
<1> QED BY <1>2, <1>3

\* The end of the log is the head of its block, and its pre_ver an older version.
LEMMA LogEnd ==
  ASSUME TypeOK, NEW d \in Disks, NEW s, IsLog(d, s), nr[d] > 0
  PROVE  LET v == tail[d]
         IN  /\ v = s[nr[d]] /\ v \in Versions \ free /\ ver[v].lba \in Lbas
             /\ data[d][ver[v].lba] = v
             /\ ver[v].preVer \in VerOrNull /\ ver[v].preVer # v
             /\ LastBefore(ver, s, nr[d], ver[v].lba, ver[v].preVer)
<1> DEFINE n == nr[d]
           v == tail[d]
<1>1. n \in Nat /\ n \in 1 .. n /\ (n + 1) - 1 = n /\ n \in 1 .. (n + 1) - 1
  BY DEF TypeOK
<1>2. v = s[n] /\ v \in Versions \ free /\ ver[v].lba \in Lbas
  BY <1>1 DEF IsLog
<1>3. LastBefore(ver, s, n, ver[v].lba, ver[v].preVer)
  BY <1>1, <1>2 DEF IsLog
<1>4. data[d][ver[v].lba] = v
  <2>1. LastBefore(ver, s, n + 1, ver[v].lba, data[d][ver[v].lba])
    BY <1>2 DEF IsLog
  <2>2. \A j \in n + 1 .. (n + 1) - 1 : ver[s[j]].lba # ver[v].lba
    BY <1>1
  <2>3. n + 1 \in Nat
    BY <1>1
  <2> HIDE DEF n
  <2> QED BY <1>1, <1>2, <2>1, <2>2, <2>3, LastBeforeIs
<1>5. ver[v].preVer \in VerOrNull
  BY <1>2 DEF TypeOK
<1>6. ver[v].preVer # v
  <2> SUFFICES ASSUME ver[v].preVer = v PROVE FALSE
    OBVIOUS
  <2>1. v # Null
    BY <1>2, ConstAssumption
  <2>2. PICK j \in 1 .. n - 1 : s[j] = v
    BY <1>3, <2>1 DEF LastBefore
  <2>3. j \in 1 .. n /\ j # n
    BY <1>1
  <2> QED BY <1>1, <1>2, <2>2, <2>3 DEF IsLog
<1> QED BY <1>2, <1>3, <1>4, <1>5, <1>6

\* pre_write leads through s[n] .. s[1] from t.
Linked(pool, t, s, n) ==
    /\ \A i \in 1 .. n : s[i] # Null
    /\ \A i \in 1 .. n : pool[s[i]].preWrite = IF i = 1 THEN Null ELSE s[i - 1]
    /\ t = IF n = 0 THEN Null ELSE s[n]

\* Following pre_write from the end of a log visits the log backwards.
LEMMA BackIs ==
  ASSUME NEW pool, NEW n \in Nat, NEW t, NEW s,
         Linked(pool, t, s, n)
  PROVE  \A k \in 0 .. n : Back(pool, t, n)[k] = IF k < n THEN s[n - k] ELSE Null
<1> DEFINE P(g) == g = [i \in 0 .. n |-> IF i = 0 THEN t ELSE VerAt(pool, g[i - 1]).preWrite]
           at(k) == IF k < n THEN s[n - k] ELSE Null
           f == Back(pool, t, n)
<1>1. \A i \in 1 .. n : at(i) = VerAt(pool, at(i - 1)).preWrite
  <2> SUFFICES ASSUME NEW i \in 1 .. n PROVE at(i) = VerAt(pool, at(i - 1)).preWrite
    OBVIOUS
  <2>1. i - 1 < n /\ n - (i - 1) \in 1 .. n /\ (n - (i - 1) = 1 <=> i = n)
    OBVIOUS
  <2>2. at(i - 1) = s[n - (i - 1)] /\ s[n - (i - 1)] # Null
    BY <2>1 DEF Linked
  <2>3. VerAt(pool, at(i - 1)).preWrite
          = IF n - (i - 1) = 1 THEN Null ELSE s[(n - (i - 1)) - 1]
    BY <2>1, <2>2 DEF VerAt, Linked
  <2>4. (n - (i - 1)) - 1 = n - i
    OBVIOUS
  <2> QED BY <2>1, <2>3, <2>4
<1>2. at(0) = t
  BY DEF Linked
<1>3. \E g : P(g)
  <2> DEFINE g == [k \in 0 .. n |-> at(k)]
  <2> HIDE DEF at
  <2>1. \A i \in 0 .. n : g[i] = IF i = 0 THEN t ELSE VerAt(pool, g[i - 1]).preWrite
    BY <1>1, <1>2
  <2>2. P(g)
    BY <2>1
  <2> QED BY <2>2
<1>4. P(f)
  <2>1. P(CHOOSE g : P(g))
    BY <1>3, Zenon
  <2>2. f = CHOOSE g : P(g)
    BY DEF Back
  <2> HIDE DEF f, P
  <2> QED BY <2>1, <2>2
<1>5. f[0] = t /\ \A i \in 1 .. n : f[i] = VerAt(pool, f[i - 1]).preWrite
  <2> HIDE DEF f
  <2> QED BY <1>4
<1> DEFINE S == {k \in Nat : k \in 0 .. n => f[k] = at(k)}
<1> HIDE DEF f, at
<1>6. 0 \in S
  BY <1>2, <1>5
<1>7. ASSUME NEW k \in Nat, k \in S PROVE k + 1 \in S
  <2> SUFFICES ASSUME k + 1 \in 0 .. n PROVE f[k + 1] = at(k + 1)
    OBVIOUS
  <2>1. k + 1 \in 1 .. n /\ (k + 1) - 1 = k /\ k \in 0 .. n
    OBVIOUS
  <2>2. f[k] = at(k)
    BY <1>7, <2>1
  <2>3. f[k + 1] = VerAt(pool, f[k]).preWrite /\ at(k + 1) = VerAt(pool, at(k)).preWrite
    BY <1>1, <1>5, <2>1
  <2> QED BY <2>2, <2>3
<1> HIDE DEF S
<1>8. Nat \subseteq S
  BY <1>6, <1>7, Induct
<1>9. \A k \in 0 .. n : f[k] = at(k)
  BY <1>8 DEF S
<1> QED BY <1>9 DEF f, at

\* The writes of the first n versions of s.
Writes(pool, s, n) == [i \in 1 .. n |-> <<pool[s[i]].lba, pool[s[i]].val>>]

\* What the pointers lead to from m_cache_tail are the writes of the log.
LEMMA WritesIs ==
  ASSUME NEW pool, NEW n \in Nat, NEW t, NEW s,
         Linked(pool, t, s, n)
  PROVE  [i \in 1 .. n |-> <<VerAt(pool, Back(pool, t, n)[n - i]).lba,
                             VerAt(pool, Back(pool, t, n)[n - i]).val>>]
            = Writes(pool, s, n)
<1>1. ASSUME NEW i \in 1 .. n PROVE VerAt(pool, Back(pool, t, n)[n - i]) = pool[s[i]]
  <2>1. n - i \in 0 .. n /\ n - i < n /\ n - (n - i) = i
    OBVIOUS
  <2>2. Back(pool, t, n)[n - i] = s[i]
    BY <2>1, BackIs
  <2> QED BY <2>2 DEF VerAt, Linked
<1> QED BY <1>1 DEF Writes

\* So LogOf is the log of the invariant, now and after a step.
LEMMA LogOfIs ==
  ASSUME TypeOK, NEW d \in Disks, NEW s, IsLog(d, s)
  PROVE  LogOf(d) = Writes(ver, s, nr[d])
<1>1. /\ nr[d] \in Nat
      /\ Linked(ver, tail[d], s, nr[d])
  BY ConstAssumption DEF TypeOK, IsLog, Linked
<1>2. [i \in 1 .. nr[d] |->
          <<VerAt(ver, Back(ver, tail[d], nr[d])[nr[d] - i]).lba,
            VerAt(ver, Back(ver, tail[d], nr[d])[nr[d] - i]).val>>]
        = Writes(ver, s, nr[d])
  BY <1>1, WritesIs
<1> QED BY <1>2, Zenon DEF LogOf

\* The same in the next state.
LEMMA LogOfIsNext ==
  ASSUME NEW d \in Disks, nr'[d] \in Nat, NEW s, IsLog(d, s)'
  PROVE  LogOf(d)' = Writes(ver', s, nr'[d])
<1>1. /\ nr'[d] \in Nat
      /\ Linked(ver', tail'[d], s, nr'[d])
  BY ConstAssumption DEF TypeOK, IsLog, Linked
<1>2. [i \in 1 .. nr'[d] |->
          <<VerAt(ver', Back(ver', tail'[d], nr'[d])[nr'[d] - i]).lba,
            VerAt(ver', Back(ver', tail'[d], nr'[d])[nr'[d] - i]).val>>]
        = Writes(ver', s, nr'[d])
  BY <1>1, WritesIs
<1> QED BY <1>2, Zenon DEF LogOf

\* A log stays the log of a disk whose pointers do not change, while its versions
\* keep what they hold besides their counts and none is reclaimed.
LEMMA LogKept ==
  ASSUME TypeOK, NEW d \in Disks, NEW s, IsLog(d, s),
         nr'[d] = nr[d], tail'[d] = tail[d], data'[d] = data[d],
         \A i \in 1 .. nr[d] :
            /\ s[i] \notin free'
            /\ ver'[s[i]].lba = ver[s[i]].lba /\ ver'[s[i]].val = ver[s[i]].val
            /\ ver'[s[i]].preVer = ver[s[i]].preVer
            /\ ver'[s[i]].preWrite = ver[s[i]].preWrite
  PROVE  IsLog(d, s)' /\ LogOf(d)' = LogOf(d)
<1> DEFINE n == nr[d]
<1>1. n \in Nat /\ nr'[d] = n
  BY DEF TypeOK
<1>2. s \in [1 .. n -> Versions \ free']
  BY DEF IsLog
<1>3. \A i, j \in 1 .. n : s[i] = s[j] => i = j
  BY DEF IsLog
<1>4. ASSUME NEW i \in 1 .. n
      PROVE  /\ ver'[s[i]].lba \in Lbas /\ ver'[s[i]].val \in Values
             /\ ver'[s[i]].preWrite = IF i = 1 THEN Null ELSE s[i - 1]
             /\ LastBefore(ver', s, i, ver'[s[i]].lba, ver'[s[i]].preVer)
  <2>1. LastBefore(ver, s, i, ver[s[i]].lba, ver[s[i]].preVer)
    BY DEF IsLog
  <2>2. \A j \in 1 .. i - 1 : ver'[s[j]].lba = ver[s[j]].lba
    BY <1>1
  <2>3. LastBefore(ver', s, i, ver[s[i]].lba, ver[s[i]].preVer)
    BY <1>1, <2>1, <2>2, LastBeforeSame
  <2> QED BY <2>3 DEF IsLog
<1>5. tail'[d] = IF n = 0 THEN Null ELSE s[n]
  BY DEF IsLog
<1>6. ASSUME NEW l \in Lbas PROVE LastBefore(ver', s, n + 1, l, data'[d][l])
  <2>1. LastBefore(ver, s, n + 1, l, data[d][l])
    BY DEF IsLog
  <2>2. \A j \in 1 .. (n + 1) - 1 : ver'[s[j]].lba = ver[s[j]].lba
    BY <1>1
  <2>3. n + 1 \in Nat
    BY <1>1
  <2>4. LastBefore(ver', s, n + 1, l, data[d][l])
    BY <2>1, <2>2, <2>3, LastBeforeSame
  <2> QED BY <2>4
<1>7. IsLog(d, s)'
  BY <1>1, <1>2, <1>3, <1>4, <1>5, <1>6 DEF IsLog
<1>8. Writes(ver', s, n) = Writes(ver, s, n)
  BY DEF Writes
<1> QED BY <1>1, <1>7, <1>8, LogOfIs, LogOfIsNext

-------------------------------------------------------------------------------
(***************************************************************************)
(* The counts                                                              *)
(***************************************************************************)
\* The references to a version are finitely many.
LEMMA RefsFinite ==
  /\ \A S \in SUBSET (Disks \X Lbas) : IsFiniteSet(S)
  /\ \A S \in SUBSET Versions : IsFiniteSet(S)
  /\ \A S \in SUBSET Disks : IsFiniteSet(S)
<1>1. IsFiniteSet(Disks \X Lbas)
  BY ConstAssumption, FS_Product
<1> QED BY <1>1, ConstAssumption, FS_Subset

\* The count of a version, in terms of the sets of references.
LEMMA Counts ==
  ASSUME IInv, NEW v \in Versions
  PROVE  /\ ver[v].ref = Cardinality(DataRefs(v)) + Cardinality(PrevRefs(v))
                         + Cardinality(PutRefs(v))
         /\ IsFiniteSet(DataRefs(v)) /\ Cardinality(DataRefs(v)) \in Nat
         /\ IsFiniteSet(PrevRefs(v)) /\ Cardinality(PrevRefs(v)) \in Nat
         /\ IsFiniteSet(PutRefs(v)) /\ Cardinality(PutRefs(v)) \in Nat
<1>1. ver[v].ref = Cardinality(DataRefs(v)) + Cardinality(PrevRefs(v))
                   + Cardinality(PutRefs(v))
  BY DEF IInv, RefCountsExact, DataRefs, RefsIn, PrevRefs, PutRefs
<1>2. /\ DataRefs(v) \in SUBSET (Disks \X Lbas)
      /\ PrevRefs(v) \in SUBSET Versions
      /\ PutRefs(v) \in SUBSET Disks
  BY DEF DataRefs, RefsIn, PrevRefs, PutRefs
<1>3. IsFiniteSet(DataRefs(v)) /\ IsFiniteSet(PrevRefs(v)) /\ IsFiniteSet(PutRefs(v))
  BY <1>2, RefsFinite
<1> QED BY <1>1, <1>3, FS_CardinalityType

\* A disk turns to version h at one block.
Turned(m, n, d, l, h) == n = [m EXCEPT ![d][l] = h]

\* It stops referring to the version it had there,
LEMMA RefLost ==
  ASSUME NEW m \in [Disks -> [Lbas -> VerOrNull]], NEW d \in Disks, NEW l \in Lbas,
         NEW h, NEW n, Turned(m, n, d, l, h), NEW v, m[d][l] = v, v # h
  PROVE  <<d, l>> \in RefsIn(m, v) /\ RefsIn(n, v) = RefsIn(m, v) \ {<<d, l>>}
BY DEF RefsIn, Turned

\* and starts to refer to h.
LEMMA RefGained ==
  ASSUME NEW m \in [Disks -> [Lbas -> VerOrNull]], NEW d \in Disks, NEW l \in Lbas,
         NEW h, NEW n, Turned(m, n, d, l, h), m[d][l] # h
  PROVE  <<d, l>> \notin RefsIn(m, h) /\ RefsIn(n, h) = RefsIn(m, h) \cup {<<d, l>>}
BY DEF RefsIn, Turned

\* Nothing refers to a version in the pool.
LEMMA FreeUnreferenced ==
  ASSUME IInv, NEW v \in free
  PROVE  v \in Versions /\ DataRefs(v) = {} /\ PrevRefs(v) = {} /\ PutRefs(v) = {}
<1>1. v \in Versions /\ ver[v].ref = 0
  BY DEF IInv, TypeOK, FreeOK
<1>2. /\ Cardinality(DataRefs(v)) = 0
      /\ Cardinality(PrevRefs(v)) = 0
      /\ Cardinality(PutRefs(v)) = 0
  BY <1>1, Counts
<1> QED BY <1>1, <1>2, Counts, CardPos

Version == [ref : Nat, lba : Lbas \cup {Null}, val : Values \cup {Null},
            preVer : VerOrNull, preWrite : VerOrNull]

Pool == [Versions -> Version]

\* Counting up or down leaves the rest of a version as it is.
LEMMA RefChanged ==
  ASSUME NEW r \in Version, NEW n \in Nat
  PROVE  LET q == [r EXCEPT !.ref = n]
         IN  /\ q \in Version /\ q.ref = n /\ q.lba = r.lba /\ q.val = r.val
             /\ q.preVer = r.preVer /\ q.preWrite = r.preWrite
BY DEF Version

\* Adding references changes the counts and nothing else.
LEMMA AddRefsIs ==
  ASSUME NEW p \in Pool, NEW V
  PROVE  /\ AddRefs(p, V) \in Pool
         /\ \A w \in Versions :
               /\ AddRefs(p, V)[w].lba = p[w].lba /\ AddRefs(p, V)[w].val = p[w].val
               /\ AddRefs(p, V)[w].preVer = p[w].preVer
               /\ AddRefs(p, V)[w].preWrite = p[w].preWrite
               /\ AddRefs(p, V)[w].ref = IF w \in V THEN p[w].ref + 1 ELSE p[w].ref
<1>1. ASSUME NEW w \in Versions
      PROVE  /\ p[w] \in Version /\ p[w].ref \in Nat /\ p[w].ref + 1 \in Nat
             /\ [p[w] EXCEPT !.ref = @ + 1] \in Version
  <2>1. p[w] \in Version
    BY DEF Pool
  <2>2. p[w].ref \in Nat /\ p[w].ref + 1 \in Nat
    BY <2>1 DEF Version
  <2> QED BY <2>1, <2>2, RefChanged
<1>2. AddRefs(p, V) \in Pool
  BY <1>1 DEF AddRefs, Pool
<1>3. ASSUME NEW w \in Versions
      PROVE  /\ AddRefs(p, V)[w].lba = p[w].lba /\ AddRefs(p, V)[w].val = p[w].val
             /\ AddRefs(p, V)[w].preVer = p[w].preVer
             /\ AddRefs(p, V)[w].preWrite = p[w].preWrite
             /\ AddRefs(p, V)[w].ref = IF w \in V THEN p[w].ref + 1 ELSE p[w].ref
  <2>1. AddRefs(p, V)[w] = IF w \in V THEN [p[w] EXCEPT !.ref = @ + 1] ELSE p[w]
    BY DEF AddRefs
  <2>2. [p[w] EXCEPT !.ref = @ + 1] = [p[w] EXCEPT !.ref = p[w].ref + 1]
    BY <1>1
  <2> QED BY <1>1, <2>1, <2>2, RefChanged
<1> QED BY <1>2, <1>3

\* A version that something refers to is not in the pool.
LEMMA ReferencedInUse ==
  ASSUME IInv, NEW v \in Versions,
         DataRefs(v) # {} \/ PrevRefs(v) # {} \/ PutRefs(v) # {}
  PROVE  v \notin free /\ ver[v].ref > 0
<1>1. v \notin free
  BY FreeUnreferenced
<1> QED BY <1>1 DEF IInv, TypeOK, FreeOK

-------------------------------------------------------------------------------
(***************************************************************************)
(* The steps                                                               *)
(***************************************************************************)
\* A block write: the old head keeps its count, now as pre_ver of the new one,
\* and the new version ends the log.
LEMMA BlockWriteKeeps ==
  ASSUME IInv, NEW d \in Disks, NEW l \in Lbas, NEW x \in Values, BlockWrite(d, l, x)
  PROVE  /\ IInv'
         /\ \A e \in inUse :
               LogOf(e)' = IF e = d THEN Append(LogOf(e), <<l, x>>) ELSE LogOf(e)
<1> USE DEF IInv
<1>1. PICK v \in free :
          /\ free' = free \ {v}
          /\ ver' = [ver EXCEPT ![v] = [ref |-> 1, lba |-> l, val |-> x,
                                        preVer |-> data[d][l], preWrite |-> tail[d]]]
          /\ data' = [data EXCEPT ![d][l] = v]
          /\ tail' = [tail EXCEPT ![d] = v]
  BY DEF BlockWrite
<1>2. /\ d \in inUse /\ todo[d].op = "idle" /\ nr[d] < MaxLog
      /\ nr' = [nr EXCEPT ![d] = @ + 1]
      /\ inUse' = inUse /\ todo' = todo /\ put' = put
  BY DEF BlockWrite, Usable
<1>3. v \in Versions /\ DataRefs(v) = {} /\ PrevRefs(v) = {} /\ PutRefs(v) = {}
  BY FreeUnreferenced
<1> DEFINE h == data[d][l]
<1>4. h \in VerOrNull /\ h # v
  <2>1. h \in VerOrNull
    BY DEF TypeOK
  <2>2. <<d, l>> \in DataRefs(h)
    BY DEF DataRefs, RefsIn
  <2> QED BY <1>3, <2>1, <2>2
<1>5. TypeOK'
  BY <1>1, <1>2, <1>3, ConstAssumption DEF TypeOK, VerOrNull
<1>6. ASSUME NEW w \in Versions
      PROVE  ver'[w].ref = Cardinality(DataRefs(w)') + Cardinality(PrevRefs(w)')
                           + Cardinality(PutRefs(w)')
  <2>1. PutRefs(w)' = PutRefs(w)
    BY <1>2 DEF PutRefs
  <2>2. CASE w = v
    <3>1. DataRefs(w)' = DataRefs(w) \cup {<<d, l>>}
      BY <1>1, <1>3, <2>2 DEF DataRefs, RefsIn, TypeOK
    <3>2. PrevRefs(w)' = {}
      BY <1>1, <1>3, <1>4, <2>2 DEF PrevRefs, TypeOK
    <3>3. Cardinality(DataRefs(w)') = 1 /\ Cardinality(PrevRefs(w)') = 0
      <4>1. DataRefs(w)' = {<<d, l>>}
        BY <3>1, <1>3, <2>2
      <4> QED BY <4>1, <3>2, FS_Singleton, FS_EmptySet
    <3>4. Cardinality(PutRefs(w)') = 0
      BY <2>1, <2>2, <1>3, FS_EmptySet
    <3>5. ver'[w].ref = 1
      BY <1>1, <1>3, <2>2 DEF TypeOK
    <3> QED BY <3>3, <3>4, <3>5
  <2>3. CASE w = h
    <3>1. <<d, l>> \in DataRefs(w) /\ DataRefs(w)' = DataRefs(w) \ {<<d, l>>}
      BY <1>1, <1>4, <2>3 DEF DataRefs, RefsIn, TypeOK
    <3>2. v \notin PrevRefs(w) /\ PrevRefs(w)' = PrevRefs(w) \cup {v}
      BY <1>1, <1>3, <1>4, <2>3 DEF PrevRefs, TypeOK
    <3>3. /\ Cardinality(DataRefs(w)') = Cardinality(DataRefs(w)) - 1
          /\ Cardinality(PrevRefs(w)') = Cardinality(PrevRefs(w)) + 1
      <4>1. IsFiniteSet(DataRefs(w)) /\ IsFiniteSet(PrevRefs(w))
        BY Counts
      <4>2. Cardinality(DataRefs(w)') = Cardinality(DataRefs(w)) - 1
        BY <3>1, <4>1, CardRemove
      <4>3. Cardinality(PrevRefs(w)') = Cardinality(PrevRefs(w)) + 1
        BY <3>2, <4>1, CardAdd
      <4> QED BY <4>2, <4>3
    <3>4. ver'[w].ref = ver[w].ref
      BY <1>1, <1>4, <2>3 DEF TypeOK
    <3> QED BY <2>1, <3>3, <3>4, Counts
  <2>4. CASE w # v /\ w # h
    <3>1. DataRefs(w)' = DataRefs(w)
      BY <1>1, <2>4 DEF DataRefs, RefsIn, TypeOK
    <3>2. PrevRefs(w)' = PrevRefs(w)
      BY <1>1, <1>3, <2>4 DEF PrevRefs, TypeOK
    <3>3. ver'[w].ref = ver[w].ref
      BY <1>1, <2>4 DEF TypeOK
    <3> QED BY <2>1, <3>1, <3>2, <3>3, Counts
  <2> QED BY <2>2, <2>3, <2>4
<1>7. RefCountsExact'
  BY <1>6 DEF RefCountsExact, DataRefs, RefsIn, PrevRefs, PutRefs
<1>8. FreeOK'
  BY <1>1, <1>3 DEF FreeOK, TypeOK
<1>9. ThreadsOK'
  BY <1>1, <1>2 DEF ThreadsOK, TypeOK
<1>10. ASSUME NEW e \in inUse
       PROVE  /\ \E s \in [1 .. nr'[e] -> Versions] : IsLog(e, s)'
              /\ LogOf(e)' = IF e = d THEN Append(LogOf(e), <<l, x>>) ELSE LogOf(e)
  <2>1. PICK s \in [1 .. nr[e] -> Versions] : IsLog(e, s)
    BY DEF LogsOK
  <2>2. e \in Disks
    BY DEF TypeOK
  <2>3. \A i \in 1 .. nr[e] : s[i] # v /\ s[i] \in Versions \ free
    BY <2>1 DEF IsLog
  <2>4. \A i \in 1 .. nr[e] : ver'[s[i]] = ver[s[i]] /\ s[i] \notin free'
    BY <1>1, <2>3 DEF TypeOK
  <2>5. CASE e # d
    <3>1. nr'[e] = nr[e] /\ tail'[e] = tail[e] /\ data'[e] = data[e]
      BY <1>1, <1>2, <2>2, <2>5 DEF TypeOK
    <3>2. IsLog(e, s)' /\ LogOf(e)' = LogOf(e)
      BY <2>1, <2>2, <2>4, <3>1, LogKept
    <3> QED BY <2>5, <3>1, <3>2
  <2>6. CASE e = d
    <3> DEFINE n == nr[d]
    <3>0. PICK t : t = [i \in 1 .. n + 1 |-> IF i = n + 1 THEN v ELSE s[i]]
      OBVIOUS
    <3>1. n \in Nat /\ nr'[d] = n + 1 /\ tail'[d] = v
      BY <1>1, <1>2 DEF TypeOK
    <3>2. t \in [1 .. n + 1 -> Versions] /\ t \in [1 .. n + 1 -> Versions \ free']
      BY <3>0, <1>1, <1>3, <2>3, <2>6, <3>1
    <3>3. t[n + 1] = v /\ \A i \in 1 .. n : t[i] = s[i] /\ i # n + 1 /\ i \in 1 .. n + 1
      BY <3>0, <3>1
    <3>4. /\ ver'[v].lba = l /\ ver'[v].val = x
          /\ ver'[v].preVer = h /\ ver'[v].preWrite = tail[d]
      BY <1>1, <1>3 DEF TypeOK
    <3>5. \A i, j \in 1 .. n + 1 : t[i] = t[j] => i = j
      <4>1. \A i, j \in 1 .. n : s[i] = s[j] => i = j
        BY <2>1, <2>6 DEF IsLog
      <4>2. \A i \in 1 .. n + 1 : i = n + 1 \/ i \in 1 .. n
        BY <3>1
      <4> QED BY <4>1, <4>2, <3>3, <2>3, <2>6
    <3>6. ASSUME NEW k \in 1 .. n + 1, NEW m, NEW y, LastBefore(ver, s, k, m, y)
          PROVE  LastBefore(ver', t, k, m, y)
      <4>0. k \in Nat
        BY <3>1
      <4>1. \A i \in 1 .. k - 1 : i \in 1 .. n
        BY <3>1
      <4>2. \A i \in 1 .. k - 1 : ver'[t[i]].lba = ver[s[i]].lba /\ t[i] = s[i]
        BY <4>1, <3>3, <2>4, <2>6
      <4>3. LastBefore(ver', s, k, m, y)
        BY <3>6, <4>2, <4>0, LastBeforeSame
      <4> QED BY <4>2, <4>3, <3>1 DEF LastBefore
    <3>7. ASSUME NEW i \in 1 .. n + 1
          PROVE  /\ ver'[t[i]].lba \in Lbas /\ ver'[t[i]].val \in Values
                 /\ ver'[t[i]].preWrite = IF i = 1 THEN Null ELSE t[i - 1]
                 /\ LastBefore(ver', t, i, ver'[t[i]].lba, ver'[t[i]].preVer)
      <4>1. CASE i = n + 1
        <5>1. LastBefore(ver, s, n + 1, l, h)
          BY <2>1, <2>6 DEF IsLog
        <5>2. LastBefore(ver', t, n + 1, l, h)
          BY <3>1, <3>6, <5>1
        <5>3. tail[d] = IF n = 0 THEN Null ELSE t[n]
          BY <2>1, <2>6, <3>1, <3>3 DEF IsLog
        <5> QED BY <3>1, <3>3, <3>4, <4>1, <5>2, <5>3
      <4>2. CASE i \in 1 .. n
        <5>1. /\ ver[s[i]].lba \in Lbas /\ ver[s[i]].val \in Values
              /\ ver[s[i]].preWrite = IF i = 1 THEN Null ELSE s[i - 1]
              /\ LastBefore(ver, s, i, ver[s[i]].lba, ver[s[i]].preVer)
          BY <2>1, <2>6, <4>2 DEF IsLog
        <5>2. t[i] = s[i] /\ ver'[s[i]] = ver[s[i]] /\ (i # 1 => t[i - 1] = s[i - 1])
          BY <4>2, <3>1, <3>3, <2>4, <2>6
        <5>3. LastBefore(ver', t, i, ver[s[i]].lba, ver[s[i]].preVer)
          BY <5>1, <3>6
        <5> QED BY <5>1, <5>2, <5>3
      <4> QED BY <4>1, <4>2, <3>1
    <3>8. ASSUME NEW m \in Lbas PROVE LastBefore(ver', t, (n + 1) + 1, m, data'[d][m])
      <4>1. CASE m = l
        <5>1. data'[d][m] = v
          BY <1>1, <4>1 DEF TypeOK
        <5>2. n + 1 \in Nat \ {0} /\ ver'[t[n + 1]].lba = m
          BY <3>1, <3>3, <3>4, <4>1
        <5>3. LastBefore(ver', t, (n + 1) + 1, m, t[n + 1])
          BY <5>2, LastBeforeMore
        <5> QED BY <3>3, <5>1, <5>3
      <4>2. CASE m # l
        <5>1. data'[d][m] = data[d][m]
          BY <1>1, <4>2 DEF TypeOK
        <5>2. LastBefore(ver, s, n + 1, m, data[d][m])
          BY <2>1, <2>6 DEF IsLog
        <5>3. LastBefore(ver', t, n + 1, m, data[d][m])
          BY <3>1, <3>6, <5>2
        <5>4. n + 1 \in Nat \ {0}
          BY <3>1
        <5> QED BY <5>4, <3>3, <3>4, <4>2, <5>1, <5>3, LastBeforeMore
      <4> QED BY <4>1, <4>2
    <3>9. tail'[d] = IF n + 1 = 0 THEN Null ELSE t[n + 1]
      BY <3>1, <3>3
    <3>10. IsLog(d, t)'
      BY <3>1, <3>2, <3>5, <3>7, <3>8, <3>9 DEF IsLog
    <3>11. t \in [1 .. nr'[d] -> Versions]
      BY <3>1, <3>2
    <3>12. LogOf(d)' = Append(LogOf(d), <<l, x>>)
      <4>1. LogOf(d)' = Writes(ver', t, n + 1) /\ LogOf(d) = Writes(ver, s, n)
        BY <3>1, <3>10, <2>1, <2>6, LogOfIs, LogOfIsNext
      <4>2. /\ Writes(ver, s, n) \in [1 .. n -> Lbas \X Values]
            /\ Writes(ver', t, n + 1) \in [1 .. n + 1 -> Lbas \X Values]
        <5>1. \A i \in 1 .. n : ver[s[i]].lba \in Lbas /\ ver[s[i]].val \in Values
          BY <2>1, <2>6 DEF IsLog
        <5> QED BY <5>1, <3>7 DEF Writes
      <4>3. /\ Writes(ver', t, n + 1)[n + 1] = <<l, x>>
            /\ \A i \in 1 .. n : Writes(ver', t, n + 1)[i] = Writes(ver, s, n)[i]
        <5>1. n + 1 \in 1 .. n + 1
          BY <3>1
        <5>2. Writes(ver', t, n + 1)[n + 1] = <<l, x>>
          BY <3>3, <3>4, <5>1 DEF Writes
        <5>3. \A i \in 1 .. n : Writes(ver', t, n + 1)[i] = Writes(ver, s, n)[i]
          BY <3>3, <2>4, <2>6 DEF Writes
        <5> QED BY <5>2, <5>3
      <4>4. <<l, x>> \in Lbas \X Values
        OBVIOUS
      <4>5. Writes(ver', t, n + 1) = Append(Writes(ver, s, n), <<l, x>>)
        BY <3>1, <4>2, <4>3, <4>4, FunAppend
      <4> QED BY <4>1, <4>5
    <3> QED BY <3>10, <3>11, <3>12, <2>6
  <2> QED BY <2>5, <2>6
<1>11. LogsOK'
  BY <1>2, <1>10 DEF LogsOK
<1> QED BY <1>5, <1>7, <1>8, <1>9, <1>10, <1>11

\* One turn of Rollback: the version before becomes the head again and gains the
\* count of m_data; the one taken back keeps it until it is released.
LEMMA RollbackKeeps ==
  ASSUME IInv, NEW d \in Disks, Rollback(d)
  PROVE  /\ IInv' /\ LogOf(d) # <<>>
         /\ \A e \in inUse : LogOf(e)' = IF e = d THEN SubSeq(LogOf(e), 1, Len(LogOf(e)) - 1)
                                          ELSE LogOf(e)
<1> USE DEF IInv
<1> DEFINE v == tail[d]
           l == ver[v].lba
           h == ver[v].preVer
<1>1. /\ d \in inUse /\ todo[d].op = "idle" /\ nr[d] > 0
      /\ \A e \in Disks : todo[e].from # d
      /\ tail' = [tail EXCEPT ![d] = ver[v].preWrite]
      /\ data' = [data EXCEPT ![d][l] = h]
      /\ ver' = AddRefs(ver, {h} \ {Null})
      /\ put' = [put EXCEPT ![d] = v]
      /\ nr' = [nr EXCEPT ![d] = @ - 1]
      /\ todo' = [todo EXCEPT ![d].op = "rollback"]
      /\ free' = free /\ inUse' = inUse
  BY DEF Rollback, Usable, RestoredRef
<1>2. PICK s \in [1 .. nr[d] -> Versions] : IsLog(d, s)
  BY <1>1 DEF LogsOK
<1>3. /\ v = s[nr[d]] /\ v \in Versions \ free /\ l \in Lbas
      /\ data[d][l] = v /\ h \in VerOrNull /\ h # v
      /\ LastBefore(ver, s, nr[d], l, h)
  BY <1>1, <1>2, LogEnd
<1>4. h # Null => h \in Versions \ free
  <2> SUFFICES ASSUME h # Null PROVE h \in Versions \ free
    OBVIOUS
  <2>1. h \in Versions /\ v \in PrevRefs(h)
    BY <1>3 DEF VerOrNull, PrevRefs
  <2> QED BY <2>1, ReferencedInUse
<1>5. put[d] = Null /\ v # Null
  BY <1>1, <1>3, ConstAssumption DEF ThreadsOK
<1>6. \A w \in Versions :
        /\ ver'[w].lba = ver[w].lba /\ ver'[w].val = ver[w].val
        /\ ver'[w].preVer = ver[w].preVer /\ ver'[w].preWrite = ver[w].preWrite
        /\ ver'[w].ref = IF w = h THEN ver[w].ref + 1 ELSE ver[w].ref
  <2>1. ver \in Pool
    BY DEF TypeOK, Pool, Version
  <2>2. \A w \in Versions : w \in {h} \ {Null} <=> w = h
    BY ConstAssumption
  <2> QED BY <1>1, <2>1, <2>2, AddRefsIs
<1>7. TypeOK'
  <2>1. ver' \in [Versions -> [ref : Nat, lba : Lbas \cup {Null}, val : Values \cup {Null},
                             preVer : VerOrNull, preWrite : VerOrNull]]
    <3>1. ver \in Pool
      BY DEF TypeOK, Pool, Version
    <3>2. ver' \in Pool
      BY <3>1, <1>1, AddRefsIs
    <3> QED BY <3>2 DEF Pool, Version
  <2>2. tail' \in [Disks -> VerOrNull] /\ nr' \in [Disks -> 0 .. MaxLog]
    BY <1>1, <1>3, ConstAssumption DEF TypeOK
  <2>3. data' \in [Disks -> [Lbas -> VerOrNull]] /\ put' \in [Disks -> VerOrNull]
    BY <1>1, <1>3 DEF TypeOK, VerOrNull
  <2>4. todo' \in [Disks -> [op : {"idle", "rollback", "clear"}, left : SUBSET Lbas,
                           from : Disks \cup {Null}]]
    BY <1>1, ZenonT(30) DEF TypeOK
  <2> QED BY <2>1, <2>2, <2>3, <2>4, <1>1 DEF TypeOK
<1>8. ASSUME NEW w \in Versions
      PROVE  ver'[w].ref = Cardinality(DataRefs(w)') + Cardinality(PrevRefs(w)')
                           + Cardinality(PutRefs(w)')
  <2>1. PrevRefs(w)' = PrevRefs(w)
    BY <1>1, <1>6 DEF PrevRefs
  <2>2. CASE w = v
    <3>1. <<d, l>> \in DataRefs(w) /\ DataRefs(w)' = DataRefs(w) \ {<<d, l>>}
      <4>1. /\ data \in [Disks -> [Lbas -> VerOrNull]] /\ d \in Disks /\ l \in Lbas
            /\ Turned(data, data', d, l, h) /\ data[d][l] = v /\ v # h
        BY <1>1, <1>3 DEF TypeOK, Turned
      <4>2. <<d, l>> \in RefsIn(data, v) /\ RefsIn(data', v) = RefsIn(data, v) \ {<<d, l>>}
        BY <4>1, RefLost
      <4> QED BY <2>2, <4>2 DEF DataRefs
    <3>2. d \notin PutRefs(w) /\ PutRefs(w)' = PutRefs(w) \cup {d}
      BY <1>1, <1>5, <2>2 DEF PutRefs, TypeOK
    <3>3. /\ Cardinality(DataRefs(w)') = Cardinality(DataRefs(w)) - 1
          /\ Cardinality(PutRefs(w)') = Cardinality(PutRefs(w)) + 1
      <4>1. IsFiniteSet(DataRefs(w)) /\ IsFiniteSet(PutRefs(w))
        BY Counts
      <4>2. Cardinality(DataRefs(w)') = Cardinality(DataRefs(w)) - 1
        BY <3>1, <4>1, CardRemove
      <4>3. Cardinality(PutRefs(w)') = Cardinality(PutRefs(w)) + 1
        BY <3>2, <4>1, CardAdd
      <4> QED BY <4>2, <4>3
    <3>4. ver'[w].ref = ver[w].ref
      BY <1>3, <1>6, <2>2
    <3> QED BY <2>1, <3>3, <3>4, Counts
  <2>3. CASE w = h
    <3>1. <<d, l>> \notin DataRefs(w) /\ DataRefs(w)' = DataRefs(w) \cup {<<d, l>>}
      <4>1. /\ data \in [Disks -> [Lbas -> VerOrNull]] /\ d \in Disks /\ l \in Lbas
            /\ Turned(data, data', d, l, h) /\ data[d][l] # h
        BY <1>1, <1>3 DEF TypeOK, Turned
      <4>2. <<d, l>> \notin RefsIn(data, h) /\ RefsIn(data', h) = RefsIn(data, h) \cup {<<d, l>>}
        BY <4>1, RefGained
      <4> QED BY <2>3, <4>2 DEF DataRefs
    <3>2. PutRefs(w)' = PutRefs(w)
      BY <1>1, <1>3, <1>5, <2>3, ConstAssumption DEF PutRefs, TypeOK
    <3>3. Cardinality(DataRefs(w)') = Cardinality(DataRefs(w)) + 1
      BY <3>1, Counts, CardAdd
    <3>4. ver'[w].ref = ver[w].ref + 1
      BY <1>6, <2>3
    <3> QED BY <2>1, <3>2, <3>3, <3>4, Counts
  <2>4. CASE w # v /\ w # h
    <3>1. DataRefs(w)' = DataRefs(w)
      BY <1>1, <1>3, <2>4 DEF DataRefs, RefsIn, TypeOK
    <3>2. PutRefs(w)' = PutRefs(w)
      BY <1>1, <1>5, <2>4, ConstAssumption DEF PutRefs, TypeOK
    <3>3. ver'[w].ref = ver[w].ref
      BY <1>6, <2>4
    <3> QED BY <2>1, <3>1, <3>2, <3>3, Counts
  <2> QED BY <2>2, <2>3, <2>4
<1>9. RefCountsExact'
  BY <1>8 DEF RefCountsExact, DataRefs, RefsIn, PrevRefs, PutRefs
<1>10. FreeOK'
  <2>1. \A w \in Versions : w \in free <=> ver[w].ref = 0
    BY DEF FreeOK
  <2>2. \A w \in Versions : ver[w].ref \in Nat /\ (w = h => w \notin free)
    BY <1>4, ConstAssumption DEF TypeOK
  <2>3. \A w \in Versions : ver'[w].ref = IF w = h THEN ver[w].ref + 1 ELSE ver[w].ref
    BY <1>6
  <2>4. free' = free
    BY <1>1
  <2>5. ASSUME NEW w \in Versions PROVE w \in free' <=> ver'[w].ref = 0
    <3>1. CASE w = h
      BY <3>1, <2>2, <2>3, <2>4
    <3>2. CASE w # h
      BY <3>2, <2>1, <2>3, <2>4
    <3> QED BY <3>1, <3>2
  <2> QED BY <2>5 DEF FreeOK
<1>11. ThreadsOK'
  <2> SUFFICES ASSUME NEW e \in Disks
               PROVE  /\ todo'[e].op = "idle" => put'[e] = Null
                      /\ todo'[e].op = "clear" =>
                            /\ e \notin inUse'
                            /\ \A m \in Lbas \ todo'[e].left : data'[e][m] = Null
                      /\ todo'[e].from # Null => /\ todo'[e].op = "clear"
                                                /\ todo'[e].from \in inUse'
                                                /\ todo'[todo'[e].from].op = "idle"
    BY DEF ThreadsOK
  <2>1. CASE e = d
    <3>1. todo'[e].op = "rollback" /\ todo'[e].from = Null
      BY <1>1, <2>1 DEF TypeOK, ThreadsOK
    <3> QED BY <3>1
  <2>2. CASE e # d
    <3>1. todo'[e] = todo[e] /\ put'[e] = put[e] /\ data'[e] = data[e]
      BY <1>1, <2>2 DEF TypeOK
    <3>2. todo[e].from # Null => todo[e].from \in Disks \ {d}
      BY <1>1 DEF TypeOK
    <3>3. todo[e].from # Null => todo'[todo[e].from] = todo[todo[e].from]
      BY <3>2, <1>1 DEF TypeOK
    <3> QED BY <3>1, <3>3, <1>1 DEF ThreadsOK
  <2> QED BY <2>1, <2>2
<1>12. ASSUME NEW e \in inUse
       PROVE  /\ \E t \in [1 .. nr'[e] -> Versions] : IsLog(e, t)'
              /\ LogOf(e)' = IF e = d THEN SubSeq(LogOf(e), 1, Len(LogOf(e)) - 1) ELSE LogOf(e)
              /\ e = d => LogOf(e) # <<>>
  <2>1. e \in Disks
    BY DEF TypeOK
  <2>2. CASE e # d
    <3>1. PICK t \in [1 .. nr[e] -> Versions] : IsLog(e, t)
      BY DEF LogsOK
    <3>2. nr'[e] = nr[e] /\ tail'[e] = tail[e] /\ data'[e] = data[e]
      BY <1>1, <2>1, <2>2 DEF TypeOK
    <3>3. \A i \in 1 .. nr[e] : t[i] \in Versions /\ t[i] \notin free'
      BY <1>1, <3>1 DEF IsLog
    <3>4. IsLog(e, t)' /\ LogOf(e)' = LogOf(e)
      BY <2>1, <3>1, <3>2, <3>3, <1>6, LogKept
    <3> QED BY <2>2, <3>2, <3>4
  <2>3. CASE e = d
    <3> DEFINE n == nr[d]
    <3>1. PICK t : t = [i \in 1 .. n - 1 |-> s[i]]
      OBVIOUS
    <3>2. n \in Nat /\ n \in 1 .. n /\ n - 1 \in Nat /\ nr'[d] = n - 1
      BY <1>1 DEF TypeOK
    <3>3. \A i \in 1 .. n - 1 : t[i] = s[i] /\ i \in 1 .. n
      BY <3>1, <3>2
    <3>4. \A i \in 1 .. n : s[i] \in Versions \ free
      BY <1>2 DEF IsLog
    <3>5. t \in [1 .. n - 1 -> Versions] /\ t \in [1 .. n - 1 -> Versions \ free']
      BY <3>1, <3>3, <3>4, <1>1
    <3>6. \A i, j \in 1 .. n - 1 : t[i] = t[j] => i = j
      <4>1. \A i, j \in 1 .. n : s[i] = s[j] => i = j
        BY <1>2 DEF IsLog
      <4> QED BY <3>3, <4>1
    <3>7. ASSUME NEW k \in 1 .. n, NEW m, NEW y, LastBefore(ver, s, k, m, y)
          PROVE  LastBefore(ver', t, k, m, y)
      <4>1. k \in Nat /\ \A i \in 1 .. k - 1 : i \in 1 .. n - 1
        BY <3>2
      <4>2. \A i \in 1 .. k - 1 : ver'[s[i]].lba = ver[s[i]].lba /\ t[i] = s[i]
        BY <4>1, <3>3, <3>4, <1>6
      <4>3. LastBefore(ver', s, k, m, y)
        BY <3>7, <4>1, <4>2, LastBeforeSame
      <4> QED BY <4>1, <4>2, <4>3 DEF LastBefore
    <3>8. ASSUME NEW i \in 1 .. n - 1
          PROVE  /\ ver'[t[i]].lba \in Lbas /\ ver'[t[i]].val \in Values
                 /\ ver'[t[i]].preWrite = IF i = 1 THEN Null ELSE t[i - 1]
                 /\ LastBefore(ver', t, i, ver'[t[i]].lba, ver'[t[i]].preVer)
      <4>1. i \in 1 .. n /\ t[i] = s[i] /\ s[i] \in Versions
        BY <3>3, <3>4
      <4>2. /\ ver[s[i]].lba \in Lbas /\ ver[s[i]].val \in Values
            /\ ver[s[i]].preWrite = IF i = 1 THEN Null ELSE s[i - 1]
            /\ LastBefore(ver, s, i, ver[s[i]].lba, ver[s[i]].preVer)
        BY <1>2, <4>1 DEF IsLog
      <4>3. i # 1 => t[i - 1] = s[i - 1]
        BY <3>2, <3>3
      <4>4. LastBefore(ver', t, i, ver[s[i]].lba, ver[s[i]].preVer)
        BY <4>1, <4>2, <3>7
      <4> QED BY <4>1, <4>2, <4>3, <4>4, <1>6
    <3>9. tail'[d] = IF n - 1 = 0 THEN Null ELSE t[n - 1]
      <4>1. ver[v].preWrite = IF n = 1 THEN Null ELSE s[n - 1]
        BY <1>2, <1>3, <3>2 DEF IsLog
      <4>2. tail'[d] = ver[v].preWrite
        BY <1>1 DEF TypeOK
      <4> QED BY <4>1, <4>2, <3>2, <3>3
    <3>10. ASSUME NEW m \in Lbas PROVE LastBefore(ver', t, (n - 1) + 1, m, data'[d][m])
      <4>1. (n - 1) + 1 = n /\ n \in Nat \ {0}
        BY <3>2
      <4>2. CASE m = l
        <5>1. data'[d][m] = h
          BY <1>1, <4>2 DEF TypeOK
        <5>2. LastBefore(ver', t, n, l, h)
          BY <1>3, <3>2, <3>7
        <5> QED BY <4>1, <4>2, <5>1, <5>2
      <4>3. CASE m # l
        <5>1. data'[d][m] = data[d][m]
          BY <1>1, <4>3 DEF TypeOK
        <5>2. LastBefore(ver, s, n + 1, m, data[d][m])
          BY <1>2 DEF IsLog
        <5>3. ver[s[n]].lba # m
          BY <1>3, <4>3
        <5>4. LastBefore(ver, s, n, m, data[d][m])
          BY <4>1, <5>2, <5>3, LastBeforeMore
        <5>5. LastBefore(ver', t, n, m, data[d][m])
          BY <3>2, <3>7, <5>4
        <5> QED BY <4>1, <5>1, <5>5
      <4> QED BY <4>2, <4>3
    <3>11. IsLog(d, t)'
      BY <3>2, <3>5, <3>6, <3>8, <3>9, <3>10 DEF IsLog
    <3>12. t \in [1 .. nr'[d] -> Versions]
      BY <3>2, <3>5
    <3>13. LogOf(d)' = SubSeq(LogOf(d), 1, Len(LogOf(d)) - 1) /\ LogOf(d) # <<>>
      <4> DEFINE m == n - 1
      <4>1. LogOf(d)' = Writes(ver', t, m) /\ LogOf(d) = Writes(ver, s, n)
        BY <3>2, <3>11, <1>2, LogOfIs, LogOfIsNext
      <4>2. m \in Nat /\ m + 1 = n
        BY <3>2
      <4>3. /\ Writes(ver, s, n) \in [1 .. m + 1 -> Lbas \X Values]
            /\ Writes(ver', t, m) \in [1 .. m -> Lbas \X Values]
        <5>1. \A i \in 1 .. n : ver[s[i]].lba \in Lbas /\ ver[s[i]].val \in Values
          BY <1>2 DEF IsLog
        <5> QED BY <5>1, <3>8, <4>2 DEF Writes
      <4>4. \A i \in 1 .. m : Writes(ver', t, m)[i] = Writes(ver, s, n)[i]
        BY <3>3, <3>4, <1>6 DEF Writes
      <4> HIDE DEF m
      <4>5. /\ Writes(ver', t, m) = SubSeq(Writes(ver, s, n), 1, Len(Writes(ver, s, n)) - 1)
            /\ Writes(ver, s, n) # <<>>
        BY <4>2, <4>3, <4>4, FunFront
      <4> QED BY <4>1, <4>5
    <3> QED BY <3>11, <3>12, <3>13, <2>3
  <2> QED BY <2>2, <2>3
<1>13. LogsOK'
  BY <1>1, <1>12 DEF LogsOK
<1> QED BY <1>1, <1>7, <1>9, <1>10, <1>11, <1>12, <1>13

\* A version whose last count is on its way out is on no log.
LEMMA LastNotOnLog ==
  ASSUME IInv, NEW d \in Disks, put[d] # Null, ver[put[d]].ref = 1,
         NEW e \in inUse, NEW s, IsLog(e, s), NEW i \in 1 .. nr[e]
  PROVE  s[i] # put[d]
<1> DEFINE v == put[d]
<1>1. SUFFICES ASSUME s[i] = v PROVE FALSE
  OBVIOUS
<1>2. v \in Versions /\ e \in Disks
  BY DEF IInv, TypeOK, VerOrNull
<1>3. DataRefs(v) # {} \/ PrevRefs(v) # {}
  BY <1>1, <1>2, OnLogIsHeld DEF IInv
<1>4. PutRefs(v) # {}
  BY DEF PutRefs
<1>5. /\ Cardinality(DataRefs(v)) > 0 \/ Cardinality(PrevRefs(v)) > 0
      /\ Cardinality(PutRefs(v)) > 0
  BY <1>2, <1>3, <1>4, Counts, CardPos
<1> QED BY <1>2, <1>5, Counts

\* One decrement of a release: a version that is reclaimed hands its count of
\* pre_ver to the thread that releases it.
LEMMA ReleaseKeeps ==
  ASSUME IInv, NEW d \in Disks, Release(d)
  PROVE  IInv' /\ \A e \in inUse : LogOf(e)' = LogOf(e)
<1> USE DEF IInv
<1> DEFINE v == put[d]
           h == ver[v].preVer
           last == ver[v].ref = 1
<1>1. /\ v # Null
      /\ ver' = [ver EXCEPT ![v] = IF last THEN Unused
                                   ELSE [ver[v] EXCEPT !.ref = ver[v].ref - 1]]
      /\ free' = IF last THEN free \cup {v} ELSE free
      /\ put' = [put EXCEPT ![d] = IF last THEN h ELSE Null]
      /\ data' = data /\ tail' = tail /\ nr' = nr /\ inUse' = inUse /\ todo' = todo
  BY DEF Release, ReleaseNext
<1>2. v \in Versions /\ d \in PutRefs(v)
  BY <1>1 DEF TypeOK, VerOrNull, PutRefs
<1>3. /\ v \notin free /\ ver[v].ref > 0 /\ h \in VerOrNull
      /\ ver[v].ref \in Nat /\ ver[v].ref - 1 \in Nat /\ ver[v] \in Version
  BY <1>2, ReferencedInUse DEF TypeOK, Version
<1>4. last => h # v
  <2> SUFFICES ASSUME last, h = v PROVE FALSE
    OBVIOUS
  <2>1. v \in PrevRefs(v)
    BY <1>2, <1>3 DEF PrevRefs
  <2>2. Cardinality(PrevRefs(v)) > 0 /\ Cardinality(PutRefs(v)) > 0
    BY <2>1, <1>2, Counts, CardPos
  <2> QED BY <1>2, <2>2, Counts
<1>5. /\ \A w \in Versions \ {v} : ver'[w] = ver[w]
      /\ ver'[v].ref = ver[v].ref - 1
      /\ ~last => /\ ver'[v].lba = ver[v].lba /\ ver'[v].val = ver[v].val
                  /\ ver'[v].preVer = h /\ ver'[v].preWrite = ver[v].preWrite
  <2>1. /\ \A w \in Versions \ {v} : ver'[w] = ver[w]
        /\ ver'[v] = IF last THEN Unused ELSE [ver[v] EXCEPT !.ref = ver[v].ref - 1]
    BY <1>1, <1>2, <1>3 DEF TypeOK
  <2>2. CASE last
    BY <2>1, <2>2 DEF Unused
  <2>3. CASE ~last
    BY <2>1, <2>3, <1>3, RefChanged
  <2> QED BY <2>1, <2>2, <2>3
<1>6. TypeOK'
  <2>1. ver' \in Pool
    <3>1. ver \in Pool
      BY DEF TypeOK, Pool, Version
    <3>2. Unused \in Version
      BY DEF Unused, VerOrNull, Version
    <3>3. [ver[v] EXCEPT !.ref = ver[v].ref - 1] \in Version
      BY <1>3, RefChanged
    <3> QED BY <3>1, <3>2, <3>3, <1>1 DEF Pool
  <2>2. put' \in [Disks -> VerOrNull]
    BY <1>1, <1>3 DEF TypeOK, VerOrNull
  <2> QED BY <2>1, <2>2, <1>1, <1>2 DEF TypeOK, Pool, Version
<1>7. ASSUME NEW w \in Versions
      PROVE  ver'[w].ref = Cardinality(DataRefs(w)') + Cardinality(PrevRefs(w)')
                           + Cardinality(PutRefs(w)')
  <2>1. DataRefs(w)' = DataRefs(w)
    BY <1>1 DEF DataRefs, RefsIn
  <2>2. CASE w = v
    <3>1. PrevRefs(w)' = PrevRefs(w)
      BY <1>1, <1>2, <1>3, <1>4, <1>5, <2>2, ConstAssumption DEF PrevRefs, Unused
    <3>2. PutRefs(w)' = PutRefs(w) \ {d}
      BY <1>1, <1>2, <1>4, <2>2 DEF PutRefs, TypeOK
    <3>3. Cardinality(PutRefs(w)') = Cardinality(PutRefs(w)) - 1
      BY <3>2, <1>2, <2>2, Counts, CardRemove
    <3> QED BY <2>1, <2>2, <3>1, <3>3, <1>5, Counts
  <2>3. CASE w # v /\ last /\ w = h
    <3>1. v \in PrevRefs(w) /\ PrevRefs(w)' = PrevRefs(w) \ {v}
      BY <1>1, <1>2, <1>3, <1>5, <2>3 DEF PrevRefs
    <3>2. d \notin PutRefs(w) /\ PutRefs(w)' = PutRefs(w) \cup {d}
      BY <1>1, <2>3 DEF PutRefs, TypeOK
    <3>3. /\ Cardinality(PrevRefs(w)') = Cardinality(PrevRefs(w)) - 1
          /\ Cardinality(PutRefs(w)') = Cardinality(PutRefs(w)) + 1
      <4>1. IsFiniteSet(PrevRefs(w)) /\ IsFiniteSet(PutRefs(w))
        BY Counts
      <4>2. Cardinality(PrevRefs(w)') = Cardinality(PrevRefs(w)) - 1
        BY <3>1, <4>1, CardRemove
      <4>3. Cardinality(PutRefs(w)') = Cardinality(PutRefs(w)) + 1
        BY <3>2, <4>1, CardAdd
      <4> QED BY <4>2, <4>3
    <3> QED BY <2>1, <2>3, <3>3, <1>5, Counts
  <2>4. CASE w # v /\ ~(last /\ w = h)
    <3>1. PrevRefs(w)' = PrevRefs(w)
      BY <1>1, <1>2, <1>3, <1>5, <2>4 DEF PrevRefs
    <3>2. PutRefs(w)' = PutRefs(w)
      BY <1>1, <2>4, ConstAssumption DEF PutRefs, TypeOK
    <3> QED BY <2>1, <2>4, <3>1, <3>2, <1>5, Counts
  <2> QED BY <2>2, <2>3, <2>4
<1>8. RefCountsExact'
  BY <1>7 DEF RefCountsExact, DataRefs, RefsIn, PrevRefs, PutRefs
<1>9. FreeOK'
  BY <1>1, <1>2, <1>3, <1>5 DEF FreeOK, TypeOK
<1>10. ThreadsOK'
  BY <1>1 DEF ThreadsOK, TypeOK
<1>11. ASSUME NEW e \in inUse
       PROVE  /\ \E s \in [1 .. nr'[e] -> Versions] : IsLog(e, s)'
              /\ LogOf(e)' = LogOf(e)
  <2>1. PICK s \in [1 .. nr[e] -> Versions] : IsLog(e, s)
    BY DEF LogsOK
  <2>2. e \in Disks
    BY DEF TypeOK
  <2>3. ASSUME NEW i \in 1 .. nr[e]
        PROVE  /\ s[i] \notin free'
               /\ ver'[s[i]].lba = ver[s[i]].lba /\ ver'[s[i]].val = ver[s[i]].val
               /\ ver'[s[i]].preVer = ver[s[i]].preVer
               /\ ver'[s[i]].preWrite = ver[s[i]].preWrite
    <3>1. s[i] \in Versions \ free
      BY <2>1 DEF IsLog
    <3>2. last => s[i] # v
      BY <1>1, <2>1, LastNotOnLog
    <3> QED BY <3>1, <3>2, <1>1, <1>5
  <2>4. IsLog(e, s)' /\ LogOf(e)' = LogOf(e)
    BY <1>1, <2>1, <2>2, <2>3, LogKept
  <2> QED BY <2>4, <1>1
<1>12. LogsOK'
  BY <1>1, <1>11 DEF LogsOK
<1> QED BY <1>6, <1>8, <1>9, <1>10, <1>11, <1>12

\* The steps that move no reference: the logs stay as they are.
LEMMA QuietKeeps ==
  ASSUME IInv, ver' = ver, free' = free, data' = data, put' = put,
         TypeOK', ThreadsOK', inUse' \subseteq inUse,
         \A e \in inUse' : tail'[e] = tail[e] /\ nr'[e] = nr[e]
  PROVE  IInv' /\ \A e \in inUse' : LogOf(e)' = LogOf(e)
<1> USE DEF IInv
<1>1. RefCountsExact' /\ FreeOK'
  BY DEF RefCountsExact, FreeOK
<1>2. ASSUME NEW e \in inUse'
      PROVE  (\E s \in [1 .. nr'[e] -> Versions] : IsLog(e, s)') /\ LogOf(e)' = LogOf(e)
  <2>1. PICK s \in [1 .. nr[e] -> Versions] : IsLog(e, s)
    BY DEF LogsOK
  <2>2. e \in Disks
    BY DEF TypeOK
  <2>3. \A i \in 1 .. nr[e] : s[i] \notin free'
    BY <2>1 DEF IsLog
  <2>4. IsLog(e, s)' /\ LogOf(e)' = LogOf(e)
    BY <2>1, <2>2, <2>3, LogKept
  <2> QED BY <2>4
<1>3. LogsOK'
  BY <1>2 DEF LogsOK
<1> QED BY <1>1, <1>2, <1>3

\* Rollback ends.
LEMMA RollbackEndsKeeps ==
  ASSUME IInv, NEW d \in Disks, RollbackEnds(d)
  PROVE  IInv' /\ \A e \in inUse' : LogOf(e)' = LogOf(e)
<1>1. /\ todo[d].op = "rollback" /\ put[d] = Null /\ todo' = [todo EXCEPT ![d] = Idle]
      /\ UNCHANGED <<ver, free, data, tail, nr, inUse, put>>
  BY DEF RollbackEnds
<1>2. TypeOK'
  BY <1>1 DEF IInv, TypeOK, Idle
<1>3. ThreadsOK'
  BY <1>1 DEF IInv, TypeOK, ThreadsOK, Idle
<1> QED BY <1>1, <1>2, <1>3, QuietKeeps

\* A state goes back to the pool with its disk.
LEMMA ParkKeeps ==
  ASSUME IInv, NEW d \in Disks, Park(d)
  PROVE  IInv' /\ \A e \in inUse' : LogOf(e)' = LogOf(e)
<1>1. /\ todo[d].op = "idle" /\ \A e \in Disks : todo[e].from # d
      /\ inUse' = inUse \ {d}
      /\ UNCHANGED <<ver, free, data, tail, nr, todo, put>>
  BY DEF Park, Usable
<1>2. TypeOK'
  BY <1>1 DEF IInv, TypeOK
<1>3. ThreadsOK'
  BY <1>1 DEF IInv, ThreadsOK, TypeOK
<1> QED BY <1>1, <1>2, <1>3, QuietKeeps

\* A pooled disk starts to release its blocks.
LEMMA ClearKeeps ==
  ASSUME IInv, NEW d \in Disks, NEW from \in Disks \cup {Null}, Clear(d, from)
  PROVE  IInv' /\ \A e \in inUse' : LogOf(e)' = LogOf(e)
<1>1. /\ d \notin inUse /\ todo[d].op = "idle"
      /\ from = Null \/ (from \in inUse /\ todo[from].op = "idle")
      /\ todo' = [todo EXCEPT ![d] = [op |-> "clear", left |-> Lbas, from |-> from]]
      /\ UNCHANGED <<ver, free, data, tail, nr, inUse, put>>
  BY DEF Clear
<1>2. TypeOK'
  BY <1>1 DEF IInv, TypeOK
<1>3. ThreadsOK'
  <2>1. ASSUME NEW e \in Disks
        PROVE  /\ todo'[e].op = "idle" => put'[e] = Null
               /\ todo'[e].op = "clear" =>
                     /\ e \notin inUse'
                     /\ \A l \in Lbas \ todo'[e].left : data'[e][l] = Null
               /\ todo'[e].from # Null => /\ todo'[e].op = "clear"
                                          /\ todo'[e].from \in inUse'
                                          /\ todo'[todo'[e].from].op = "idle"
    <3>1. \A f \in inUse : f # d /\ todo'[f] = todo[f]
      BY <1>1 DEF IInv, TypeOK
    <3>2. CASE e = d
      <4>1. todo'[e] = [op |-> "clear", left |-> Lbas, from |-> from]
        BY <1>1, <3>2 DEF IInv, TypeOK
      <4> QED BY <4>1, <3>1, <3>2, <1>1
    <3>3. CASE e # d
      <4>1. todo'[e] = todo[e]
        BY <1>1, <3>3 DEF IInv, TypeOK
      <4> QED BY <4>1, <3>1, <1>1 DEF IInv, ThreadsOK
    <3> QED BY <3>2, <3>3
  <2> QED BY <2>1 DEF ThreadsOK
<1> QED BY <1>1, <1>2, <1>3, QuietKeeps

\* A pooled disk has been deleted.
LEMMA DiscardedKeeps ==
  ASSUME IInv, NEW d \in Disks, Discarded(d)
  PROVE  IInv' /\ \A e \in inUse' : LogOf(e)' = LogOf(e)
<1>1. /\ todo[d].op = "clear" /\ put[d] = Null
      /\ tail' = [tail EXCEPT ![d] = Null] /\ nr' = [nr EXCEPT ![d] = 0]
      /\ todo' = [todo EXCEPT ![d] = Idle]
      /\ UNCHANGED <<ver, free, data, inUse, put>>
  BY DEF Discarded
<1>2. d \notin inUse
  BY <1>1 DEF IInv, ThreadsOK
<1>3. TypeOK'
  BY <1>1, ConstAssumption DEF IInv, TypeOK, Idle, VerOrNull
<1>4. ThreadsOK'
  BY <1>1 DEF IInv, TypeOK, ThreadsOK, Idle
<1>5. \A e \in inUse : tail'[e] = tail[e] /\ nr'[e] = nr[e]
  BY <1>1, <1>2 DEF IInv, TypeOK
<1> QED BY <1>1, <1>3, <1>4, <1>5, QuietKeeps

\* The reference of m_data[lba] moves to the thread that releases it.
LEMMA ClearOneKeeps ==
  ASSUME IInv, NEW d \in Disks, NEW l \in Lbas, ClearOne(d, l)
  PROVE  IInv' /\ \A e \in inUse : LogOf(e)' = LogOf(e)
<1> USE DEF IInv
<1> DEFINE h == data[d][l]
<1>1. /\ todo[d].op = "clear" /\ put[d] = Null /\ l \in todo[d].left
      /\ todo' = [todo EXCEPT ![d].left = @ \ {l}]
      /\ put' = [put EXCEPT ![d] = h]
      /\ data' = [data EXCEPT ![d][l] = Null]
      /\ UNCHANGED <<ver, free, tail, nr, inUse>>
  BY DEF ClearOne
<1>2. d \notin inUse /\ h \in VerOrNull
  BY <1>1 DEF ThreadsOK, TypeOK
<1>3. TypeOK'
  <2>1. todo' \in [Disks -> [op : {"idle", "rollback", "clear"}, left : SUBSET Lbas,
                           from : Disks \cup {Null}]]
    <3>1. todo[d].left \ {l} \in SUBSET Lbas
      BY DEF TypeOK
    <3>2. [todo[d] EXCEPT !.left = @ \ {l}] \in
             [op : {"idle", "rollback", "clear"}, left : SUBSET Lbas, from : Disks \cup {Null}]
      BY <3>1 DEF TypeOK
    <3> QED BY <3>2, <1>1 DEF TypeOK
  <2>2. data' \in [Disks -> [Lbas -> VerOrNull]] /\ put' \in [Disks -> VerOrNull]
    BY <1>1, <1>2 DEF TypeOK, VerOrNull
  <2> QED BY <2>1, <2>2, <1>1 DEF TypeOK
<1>4. ASSUME NEW w \in Versions
      PROVE  ver'[w].ref = Cardinality(DataRefs(w)') + Cardinality(PrevRefs(w)')
                           + Cardinality(PutRefs(w)')
  <2>1. PrevRefs(w)' = PrevRefs(w) /\ ver'[w].ref = ver[w].ref /\ w # Null
    BY <1>1, ConstAssumption DEF PrevRefs
  <2>2. CASE w = h
    <3>1. <<d, l>> \in DataRefs(w) /\ DataRefs(w)' = DataRefs(w) \ {<<d, l>>}
      BY <1>1, <2>1, <2>2 DEF DataRefs, RefsIn, TypeOK
    <3>2. d \notin PutRefs(w) /\ PutRefs(w)' = PutRefs(w) \cup {d}
      BY <1>1, <2>1, <2>2 DEF PutRefs, TypeOK
    <3>3. /\ Cardinality(DataRefs(w)') = Cardinality(DataRefs(w)) - 1
          /\ Cardinality(PutRefs(w)') = Cardinality(PutRefs(w)) + 1
      <4>1. IsFiniteSet(DataRefs(w)) /\ IsFiniteSet(PutRefs(w))
        BY Counts
      <4>2. Cardinality(DataRefs(w)') = Cardinality(DataRefs(w)) - 1
        BY <3>1, <4>1, CardRemove
      <4>3. Cardinality(PutRefs(w)') = Cardinality(PutRefs(w)) + 1
        BY <3>2, <4>1, CardAdd
      <4> QED BY <4>2, <4>3
    <3> QED BY <2>1, <3>3, Counts
  <2>3. CASE w # h
    <3>1. DataRefs(w)' = DataRefs(w)
      BY <1>1, <2>1, <2>3 DEF DataRefs, RefsIn, TypeOK
    <3>2. PutRefs(w)' = PutRefs(w)
      BY <1>1, <2>1, <2>3 DEF PutRefs, TypeOK
    <3> QED BY <2>1, <3>1, <3>2, Counts
  <2> QED BY <2>2, <2>3
<1>5. RefCountsExact'
  BY <1>4 DEF RefCountsExact, DataRefs, RefsIn, PrevRefs, PutRefs
<1>6. FreeOK'
  BY <1>1 DEF FreeOK
<1>7. ThreadsOK'
  <2>1. /\ todo'[d].op = "clear" /\ todo'[d].from = todo[d].from
        /\ todo'[d].left = todo[d].left \ {l}
        /\ \A e \in Disks \ {d} : todo'[e] = todo[e]
    BY <1>1 DEF TypeOK
  <2>2. /\ \A e \in Disks \ {d} : put'[e] = put[e] /\ data'[e] = data[e]
        /\ \A m \in Lbas : data'[d][m] = IF m = l THEN Null ELSE data[d][m]
    BY <1>1 DEF TypeOK
  <2>3. \A e \in Disks : todo'[e].op = todo[e].op /\ todo'[e].from = todo[e].from
    BY <2>1, <1>1
  <2>4. inUse' = inUse /\ inUse \subseteq Disks
    BY <1>1 DEF TypeOK
  <2> QED BY <1>1, <2>1, <2>2, <2>3, <2>4 DEF ThreadsOK
<1>8. ASSUME NEW e \in inUse
       PROVE  /\ \E s \in [1 .. nr'[e] -> Versions] : IsLog(e, s)'
              /\ LogOf(e)' = LogOf(e)
  <2>1. PICK s \in [1 .. nr[e] -> Versions] : IsLog(e, s)
    BY DEF LogsOK
  <2>2. e \in Disks /\ data'[e] = data[e]
    BY <1>1, <1>2 DEF TypeOK
  <2>3. \A i \in 1 .. nr[e] : s[i] \notin free'
    BY <1>1, <2>1 DEF IsLog
  <2>4. IsLog(e, s)' /\ LogOf(e)' = LogOf(e)
    BY <1>1, <2>1, <2>2, <2>3, LogKept
  <2> QED BY <2>4, <1>1
<1>9. LogsOK'
  BY <1>1, <1>8 DEF LogsOK
<1> QED BY <1>3, <1>5, <1>6, <1>7, <1>8, <1>9

\* CopyFrom shares the log of its source and counts the heads once more.
LEMMA CopyFromKeeps ==
  ASSUME IInv, NEW d \in Disks, CopyFrom(d)
  PROVE  /\ IInv'
         /\ d \notin inUse /\ todo[d].from \in inUse
         /\ \A e \in inUse' : LogOf(e)' = LogOf(IF e = d THEN todo[d].from ELSE e)
<1> USE DEF IInv
<1>0. PICK from : from = todo[d].from
  OBVIOUS
<1>1. /\ todo[d].op = "clear" /\ todo[d].left = {} /\ put[d] = Null /\ from # Null
      /\ data' = [data EXCEPT ![d] = data[from]]
      /\ ver' = AddRefs(ver, CopiedRefs(from))
      /\ tail' = [tail EXCEPT ![d] = tail[from]]
      /\ nr' = [nr EXCEPT ![d] = nr[from]]
      /\ inUse' = inUse \cup {d}
      /\ todo' = [todo EXCEPT ![d] = Idle]
      /\ free' = free /\ put' = put
  BY <1>0 DEF CopyFrom
<1>2. /\ d \notin inUse /\ from \in inUse /\ from \in Disks /\ from # d
      /\ \A l \in Lbas : data[d][l] = Null
  BY <1>0, <1>1 DEF ThreadsOK, TypeOK
<1>3. PICK s \in [1 .. nr[from] -> Versions] : IsLog(from, s)
  BY <1>2 DEF LogsOK
<1>4. \A l \in Lbas : data[from][l] # Null => ver[data[from][l]].lba = l
  BY <1>3 DEF IsLog, LastBefore
<1>5. /\ ver' \in Pool
      /\ \A w \in Versions :
           /\ ver'[w].lba = ver[w].lba /\ ver'[w].val = ver[w].val
           /\ ver'[w].preVer = ver[w].preVer /\ ver'[w].preWrite = ver[w].preWrite
           /\ ver'[w].ref = IF w \in CopiedRefs(from) THEN ver[w].ref + 1 ELSE ver[w].ref
  <2>1. ver \in Pool
    BY DEF TypeOK, Pool, Version
  <2> QED BY <1>1, <2>1, AddRefsIs
<1>6. TypeOK'
  <2>1. data' \in [Disks -> [Lbas -> VerOrNull]] /\ tail' \in [Disks -> VerOrNull]
    BY <1>1, <1>2 DEF TypeOK
  <2>2. nr' \in [Disks -> 0 .. MaxLog]
    BY <1>1, <1>2 DEF TypeOK
  <2>3. todo' \in [Disks -> [op : {"idle", "rollback", "clear"}, left : SUBSET Lbas,
                           from : Disks \cup {Null}]]
    BY <1>1 DEF TypeOK, Idle
  <2> QED BY <2>1, <2>2, <2>3, <1>1, <1>5 DEF TypeOK, Pool, Version
<1>7. ASSUME NEW w \in Versions
      PROVE  ver'[w].ref = Cardinality(DataRefs(w)') + Cardinality(PrevRefs(w)')
                           + Cardinality(PutRefs(w)')
  <2>1. PutRefs(w)' = PutRefs(w) /\ PrevRefs(w)' = PrevRefs(w) /\ w # Null
    BY <1>1, <1>5, ConstAssumption DEF PutRefs, PrevRefs
  <2>2. /\ \A m \in Lbas : data'[d][m] = data[from][m]
        /\ \A e \in Disks \ {d} : data'[e] = data[e]
    BY <1>1, <1>2 DEF TypeOK
  <2>3. CASE w \in CopiedRefs(from)
    <3>1. PICK l \in Lbas : data[from][l] = w
      BY <2>3 DEF CopiedRefs
    <3>2. \A m \in Lbas : data[from][m] = w => m = l
      BY <3>1, <1>4, <2>1
    <3>3. <<d, l>> \notin DataRefs(w)
      BY <1>2, <2>1 DEF DataRefs, RefsIn
    <3>4. DataRefs(w)' = DataRefs(w) \cup {<<d, l>>}
      <4>1. ASSUME NEW e \in Disks, NEW m \in Lbas
            PROVE  data'[e][m] = w <=> data[e][m] = w \/ (e = d /\ m = l)
        <5>1. CASE e = d
          BY <5>1, <1>2, <2>1, <2>2, <3>1, <3>2
        <5>2. CASE e # d
          BY <5>2, <2>2
        <5> QED BY <5>1, <5>2
      <4> QED BY <4>1 DEF DataRefs, RefsIn
    <3>5. Cardinality(DataRefs(w)') = Cardinality(DataRefs(w)) + 1
      BY <3>3, <3>4, Counts, CardAdd
    <3> QED BY <1>5, <2>1, <2>3, <3>5, Counts
  <2>4. CASE w \notin CopiedRefs(from)
    <3>1. \A m \in Lbas : data[from][m] # w
      BY <2>1, <2>4 DEF CopiedRefs
    <3>2. DataRefs(w)' = DataRefs(w)
      <4>1. ASSUME NEW e \in Disks, NEW m \in Lbas
            PROVE  data'[e][m] = w <=> data[e][m] = w
        <5>1. CASE e = d
          BY <5>1, <1>2, <2>1, <2>2, <3>1
        <5>2. CASE e # d
          BY <5>2, <2>2
        <5> QED BY <5>1, <5>2
      <4> QED BY <4>1 DEF DataRefs, RefsIn
    <3> QED BY <1>5, <2>1, <2>4, <3>2, Counts
  <2> QED BY <2>3, <2>4
<1>8. RefCountsExact'
  BY <1>7 DEF RefCountsExact, DataRefs, RefsIn, PrevRefs, PutRefs
<1>9. FreeOK'
  <2>1. \A w \in Versions : w \in CopiedRefs(from) => w \notin free
    <3> SUFFICES ASSUME NEW w \in Versions, NEW l \in Lbas, data[from][l] = w
                 PROVE  w \notin free
      BY DEF CopiedRefs
    <3>1. <<from, l>> \in DataRefs(w)
      BY <1>2 DEF DataRefs, RefsIn
    <3> QED BY <3>1, ReferencedInUse
  <2>2. ASSUME NEW w \in Versions PROVE w \in free' <=> ver'[w].ref = 0
    <3>1. w \in free <=> ver[w].ref = 0
      BY DEF FreeOK
    <3>2. ver[w].ref \in Nat
      BY DEF TypeOK
    <3>3. free' = free
      BY <1>1
    <3> QED BY <3>1, <3>2, <3>3, <2>1, <1>5
  <2> QED BY <2>2 DEF FreeOK
<1>10. ThreadsOK'
  <2>1. /\ todo'[d].op = "idle" /\ todo'[d].from = Null
        /\ \A e \in Disks \ {d} : todo'[e] = todo[e] /\ data'[e] = data[e]
    BY <1>1 DEF TypeOK, Idle
  <2>2. \A e \in Disks : todo[e].from # Null => todo[e].from \in inUse /\ todo[e].from # d
    BY <1>2 DEF ThreadsOK
  <2>3. inUse \subseteq Disks
    BY DEF TypeOK
  <2>4. ASSUME NEW e \in Disks
        PROVE  /\ todo'[e].op = "idle" => put'[e] = Null
               /\ todo'[e].op = "clear" =>
                     /\ e \notin inUse'
                     /\ \A m \in Lbas \ todo'[e].left : data'[e][m] = Null
               /\ todo'[e].from # Null => /\ todo'[e].op = "clear"
                                          /\ todo'[e].from \in inUse'
                                          /\ todo'[todo'[e].from].op = "idle"
    <3>1. CASE e = d
      BY <3>1, <1>1, <2>1
    <3>2. CASE e # d
      <4>1. todo[e].from # Null => todo'[todo[e].from] = todo[todo[e].from]
        BY <2>1, <2>2, <2>3
      <4>2. todo'[e] = todo[e] /\ data'[e] = data[e] /\ put'[e] = put[e]
        BY <3>2, <2>1, <1>1
      <4>3. e \in inUse' <=> e \in inUse
        BY <3>2, <1>1
      <4> QED BY <4>1, <4>2, <4>3, <1>1 DEF ThreadsOK
    <3> QED BY <3>1, <3>2
  <2> QED BY <2>4 DEF ThreadsOK
<1>11. LogsOK' /\ \A e \in inUse' : LogOf(e)' = LogOf(IF e = d THEN from ELSE e)
  <2>1. ASSUME NEW e \in inUse, NEW t \in [1 .. nr[e] -> Versions], IsLog(e, t)
        PROVE  IsLog(e, t)' /\ nr'[e] = nr[e] /\ LogOf(e)' = LogOf(e)
    <3>1. e \in Disks /\ e # d
      BY <1>2 DEF TypeOK
    <3>2. nr'[e] = nr[e] /\ tail'[e] = tail[e] /\ data'[e] = data[e]
      BY <1>1, <3>1 DEF TypeOK
    <3>3. \A i \in 1 .. nr[e] : t[i] \in Versions /\ t[i] \notin free'
      BY <1>1, <2>1 DEF IsLog
    <3> QED BY <2>1, <3>1, <3>2, <3>3, <1>5, LogKept
  <2>2. ASSUME NEW e \in inUse'
        PROVE  /\ \E t \in [1 .. nr'[e] -> Versions] : IsLog(e, t)'
               /\ LogOf(e)' = LogOf(IF e = d THEN from ELSE e)
    <3>1. CASE e = d
      <4>1. IsLog(from, s)' /\ nr'[from] = nr[from] /\ LogOf(from)' = LogOf(from)
        BY <1>2, <1>3, <2>1
      <4>2. nr'[d] = nr'[from] /\ tail'[d] = tail'[from] /\ data'[d] = data'[from]
        BY <1>1, <1>2 DEF TypeOK
      <4>3. IsLog(d, s)'
        BY <4>1, <4>2 DEF IsLog
      <4>4. s \in [1 .. nr'[d] -> Versions]
        BY <4>1, <4>2
      <4>5. LogOf(d)' = LogOf(from)'
        BY <4>2 DEF LogOf
      <4> QED BY <3>1, <4>1, <4>3, <4>4, <4>5
    <3>2. CASE e # d
      <4>1. e \in inUse
        BY <3>2, <1>1
      <4>2. PICK t \in [1 .. nr[e] -> Versions] : IsLog(e, t)
        BY <4>1 DEF LogsOK
      <4>3. IsLog(e, t)' /\ nr'[e] = nr[e] /\ LogOf(e)' = LogOf(e)
        BY <4>1, <4>2, <2>1
      <4> QED BY <3>2, <4>3
    <3> QED BY <3>1, <3>2
  <2> QED BY <2>2 DEF LogsOK
<1> QED BY <1>0, <1>2, <1>6, <1>8, <1>9, <1>10, <1>11

\* At the start every version is in the pool and every log is empty.
LEMMA InitIInv == Init => IInv
<1> SUFFICES ASSUME Init PROVE IInv
  OBVIOUS
<1> USE DEF Init
<1>1. TypeOK
  BY ConstAssumption DEF TypeOK, VerOrNull, Unused, NoData, Idle
<1>2. ASSUME NEW v \in Versions
      PROVE  ver[v].ref = Cardinality(DataRefs(v)) + Cardinality(PrevRefs(v))
                          + Cardinality(PutRefs(v))
  <2>1. DataRefs(v) = {} /\ PrevRefs(v) = {} /\ PutRefs(v) = {}
    BY ConstAssumption DEF DataRefs, RefsIn, PrevRefs, PutRefs, NoData
  <2>2. ver[v].ref = 0
    BY DEF Unused
  <2> QED BY <2>1, <2>2, FS_EmptySet
<1>3. RefCountsExact
  BY <1>2 DEF RefCountsExact, DataRefs, RefsIn, PrevRefs, PutRefs
<1>4. FreeOK
  BY DEF FreeOK, Unused
<1>5. ThreadsOK
  BY DEF ThreadsOK, Idle
<1>6. LogsOK
  <2> SUFFICES ASSUME NEW d \in inUse PROVE \E s \in [1 .. nr[d] -> Versions] : IsLog(d, s)
    BY DEF LogsOK
  <2>1. d \in Disks /\ nr[d] = 0 /\ tail[d] = Null /\ \A l \in Lbas : data[d][l] = Null
    BY <1>1 DEF TypeOK, NoData
  <2>2. PICK s : s = [i \in 1 .. 0 |-> Null]
    OBVIOUS
  <2>3. s \in [1 .. 0 -> Versions] /\ s \in [1 .. 0 -> Versions \ free]
    BY <2>2
  <2>4. \A l \in Lbas : LastBefore(ver, s, 0 + 1, l, data[d][l])
    BY <2>1 DEF LastBefore
  <2>5. IsLog(d, s)
    BY <2>1, <2>3, <2>4 DEF IsLog
  <2> QED BY <2>1, <2>3, <2>5
<1> QED BY <1>1, <1>3, <1>4, <1>5, <1>6 DEF IInv

\* Every step of every thread keeps the invariant.
LEMMA NextIInv == IInv /\ [Next]_vars => IInv'
<1> SUFFICES ASSUME IInv, [Next]_vars PROVE IInv'
  OBVIOUS
<1>1. CASE UNCHANGED vars
  <2>1. TypeOK' /\ ThreadsOK'
    BY <1>1 DEF vars, IInv, TypeOK, ThreadsOK
  <2> QED BY <2>1, <1>1, QuietKeeps DEF vars
<1>2. ASSUME NEW d \in Disks, NEW l \in Lbas, NEW x \in Values, BlockWrite(d, l, x) PROVE IInv'
  BY <1>2, BlockWriteKeeps
<1>3. ASSUME NEW d \in Disks, Rollback(d) PROVE IInv'
  BY <1>3, RollbackKeeps
<1>4. ASSUME NEW d \in Disks, Release(d) PROVE IInv'
  BY <1>4, ReleaseKeeps
<1>5. ASSUME NEW d \in Disks, RollbackEnds(d) PROVE IInv'
  BY <1>5, RollbackEndsKeeps
<1>6. ASSUME NEW d \in Disks, Park(d) PROVE IInv'
  BY <1>6, ParkKeeps
<1>7. ASSUME NEW d \in Disks, NEW from \in Disks \cup {Null}, Clear(d, from) PROVE IInv'
  BY <1>7, ClearKeeps
<1>8. ASSUME NEW d \in Disks, NEW l \in Lbas, ClearOne(d, l) PROVE IInv'
  BY <1>8, ClearOneKeeps
<1>9. ASSUME NEW d \in Disks, Discarded(d) PROVE IInv'
  BY <1>9, DiscardedKeeps
<1>10. ASSUME NEW d \in Disks, CopyFrom(d) PROVE IInv'
  BY <1>10, CopyFromKeeps
<1> QED BY <1>1, <1>2, <1>3, <1>4, <1>5, <1>6, <1>7, <1>8, <1>9, <1>10 DEF Next

\* The inductive invariant holds in every state of every behaviour.
LEMMA Invariant == Spec => []IInv
BY InitIInv, NextIInv, PTL DEF Spec

-------------------------------------------------------------------------------
(***************************************************************************)
(* The theorems                                                            *)
(***************************************************************************)
\* m_cache_nr never goes below zero and no pointer of a disk or of a version
\* leaves the pool, however the threads of the tester interleave.
THEOREM StorageTyped == Spec => []TypeOK
<1>1. IInv => TypeOK
  BY DEF IInv
<1> QED BY Invariant, <1>1, PTL

\* StorageDataManager's counts are exact at every step of every release, rollback
\* and copy: no version is reused under a disk and none is lost to the pool.
THEOREM StorageCounts == Spec => []RefCountsExact
<1>1. IInv => RefCountsExact
  BY DEF IInv
<1> QED BY Invariant, <1>1, PTL

\* A block reads as the last write to it that Rollback has not taken back,
\* whatever other disks share its versions and release them.
THEOREM StorageReads == Spec => []ReadsLastWrite
<1>1. ASSUME IInv PROVE ReadsLastWrite
  <2> SUFFICES ASSUME NEW d \in inUse, NEW l \in Lbas
               PROVE  LET writes == {i \in 1 .. nr[d] : LogOf(d)[i][1] = l}
                      IN  BlockRead(d, l) =
                            IF writes = {} THEN Null
                            ELSE LogOf(d)[CHOOSE i \in writes : \A j \in writes : j <= i][2]
    BY DEF ReadsLastWrite
  <2> DEFINE writes == {i \in 1 .. nr[d] : LogOf(d)[i][1] = l}
             x == data[d][l]
             n == nr[d]
  <2>1. d \in Disks /\ n \in Nat
    BY <1>1 DEF IInv, TypeOK
  <2>2. PICK s \in [1 .. n -> Versions] : IsLog(d, s)
    BY <1>1 DEF IInv, LogsOK
  <2>3. \A i \in 1 .. n : LogOf(d)[i] = <<ver[s[i]].lba, ver[s[i]].val>>
    BY <1>1, <2>1, <2>2, LogOfIs DEF IInv, Writes
  <2>4. LastBefore(ver, s, n + 1, l, x) /\ (n + 1) - 1 = n
    BY <2>1, <2>2 DEF IsLog
  <2>5. CASE x = Null /\ \A j \in 1 .. n : ver[s[j]].lba # l
    <3>1. writes = {}
      BY <2>3, <2>5
    <3>2. BlockRead(d, l) = Null
      BY <2>5 DEF BlockRead, VerAt, Unused
    <3> QED BY <3>1, <3>2
  <2>6. ASSUME NEW j \in 1 .. n, s[j] = x, ver[x].lba = l,
               \A i \in j + 1 .. n : ver[s[i]].lba # l
        PROVE  LET w == {i \in 1 .. nr[d] : LogOf(d)[i][1] = l}
               IN  BlockRead(d, l) =
                     IF w = {} THEN Null
                     ELSE LogOf(d)[CHOOSE i \in w : \A k \in w : k <= i][2]
    <3>1. j \in writes
      BY <2>3, <2>6
    <3>2. \A i \in writes : i \in 1 .. n /\ i <= j
      BY <2>1, <2>3, <2>6
    <3>3. \A i \in writes : (\A k \in writes : k <= i) => i = j
      BY <3>1, <3>2, <2>1
    <3>4. (CHOOSE i \in writes : \A k \in writes : k <= i) = j
      <4> HIDE DEF writes
      <4> QED BY <3>1, <3>2, <3>3
    <3>5. BlockRead(d, l) = ver[x].val
      <4>1. x # Null
        BY <2>6, ConstAssumption
      <4> QED BY <4>1, <2>6 DEF BlockRead, VerAt
    <3>6. LogOf(d)[j][2] = ver[x].val
      BY <2>3, <2>6
    <3> QED BY <3>1, <3>4, <3>5, <3>6
  <2> QED BY <2>4, <2>5, <2>6 DEF LastBefore
<1> QED BY Invariant, <1>1, PTL

ShownLog == [d \in Disks |-> IF d \in inUse THEN LogOf(d) ELSE <<>>]

\* However disks share versions, roll back, are copied and release meanwhile,
\* each behaves as a write log of its own.
THEOREM StorageImplementsWriteLog == Spec => ImplementsWriteLog
<1>1. Init => Logs!Init
  <2> SUFFICES ASSUME Init PROVE Logs!Init
    OBVIOUS
  <2>1. \A d \in inUse : d \in Disks /\ LogOf(d) = <<>>
    <3> SUFFICES ASSUME NEW d \in inUse PROVE d \in Disks /\ LogOf(d) = <<>>
      OBVIOUS
    <3>1. d \in Disks /\ nr[d] = 0
      BY DEF Init
    <3> QED BY <3>1 DEF LogOf
  <2>2. ShownLog = [d \in Disks |-> <<>>]
    BY <2>1 DEF ShownLog
  <2> QED BY <2>2 DEF Logs!Init, Init, ShownLog
<1>2. IInv /\ [Next]_vars => [Logs!Next]_(Logs!vars)
  <2> SUFFICES ASSUME IInv, [Next]_vars PROVE [Logs!Next]_(Logs!vars)
    OBVIOUS
  <2>0. inUse \subseteq Disks
    BY DEF IInv, TypeOK
  <2>1. ASSUME inUse' = inUse, \A e \in inUse : LogOf(e)' = LogOf(e)
        PROVE  UNCHANGED Logs!vars
    <3>1. ShownLog' = ShownLog
      BY <2>0, <2>1 DEF ShownLog
    <3> QED BY <2>1, <3>1 DEF Logs!vars, ShownLog
  <2>2. CASE UNCHANGED vars
    BY <2>1, <2>2 DEF vars, LogOf
  <2>3. ASSUME NEW d \in Disks, NEW l \in Lbas, NEW x \in Values, BlockWrite(d, l, x)
        PROVE  Logs!Next
    <3>1. d \in inUse /\ inUse' = inUse
      BY <2>3 DEF BlockWrite, Usable
    <3>2. \A e \in inUse : LogOf(e)' = IF e = d THEN Append(LogOf(e), <<l, x>>) ELSE LogOf(e)
      BY <2>3, BlockWriteKeeps
    <3>3. ShownLog' = [ShownLog EXCEPT ![d] = Append(@, <<l, x>>)]
      BY <2>0, <3>1, <3>2 DEF ShownLog
    <3>4. Logs!Write(d)
      BY <3>1, <3>3 DEF Logs!Write, ShownLog
    <3> QED BY <3>4 DEF Logs!Next
  <2>4. ASSUME NEW d \in Disks, Rollback(d) PROVE Logs!Next
    <3>1. d \in inUse /\ inUse' = inUse
      BY <2>4 DEF Rollback, Usable
    <3>2. /\ LogOf(d) # <<>>
          /\ \A e \in inUse : LogOf(e)' = IF e = d THEN SubSeq(LogOf(e), 1, Len(LogOf(e)) - 1)
                                          ELSE LogOf(e)
      BY <2>4, RollbackKeeps
    <3>3. /\ ShownLog' = [ShownLog EXCEPT ![d] = SubSeq(@, 1, Len(@) - 1)]
          /\ ShownLog[d] # <<>>
      BY <2>0, <3>1, <3>2 DEF ShownLog
    <3>4. Logs!DropLast(d)
      BY <3>1, <3>3 DEF Logs!DropLast, ShownLog
    <3> QED BY <3>4 DEF Logs!Next
  <2>5. ASSUME NEW d \in Disks, Release(d) PROVE UNCHANGED Logs!vars
    BY <2>1, <2>5, ReleaseKeeps DEF Release
  <2>6. ASSUME NEW d \in Disks, RollbackEnds(d) PROVE UNCHANGED Logs!vars
    BY <2>1, <2>6, RollbackEndsKeeps DEF RollbackEnds
  <2>7. ASSUME NEW d \in Disks, Park(d) PROVE Logs!Next
    <3>1. d \in inUse /\ inUse' = inUse \ {d}
      BY <2>7 DEF Park, Usable
    <3>2. \A e \in inUse' : LogOf(e)' = LogOf(e)
      BY <2>7, ParkKeeps
    <3>3. ShownLog' = [ShownLog EXCEPT ![d] = <<>>]
      BY <2>0, <3>1, <3>2 DEF ShownLog
    <3>4. Logs!Discard(d)
      BY <3>1, <3>3 DEF Logs!Discard, ShownLog
    <3> QED BY <3>4 DEF Logs!Next
  <2>8. ASSUME NEW d \in Disks, NEW from \in Disks \cup {Null}, Clear(d, from)
        PROVE  UNCHANGED Logs!vars
    BY <2>1, <2>8, ClearKeeps DEF Clear
  <2>9. ASSUME NEW d \in Disks, NEW l \in Lbas, ClearOne(d, l) PROVE UNCHANGED Logs!vars
    BY <2>1, <2>9, ClearOneKeeps DEF ClearOne
  <2>10. ASSUME NEW d \in Disks, Discarded(d) PROVE UNCHANGED Logs!vars
    BY <2>1, <2>10, DiscardedKeeps DEF Discarded
  <2>11. ASSUME NEW d \in Disks, CopyFrom(d) PROVE Logs!Next
    <3>0. PICK from : from = todo[d].from
      OBVIOUS
    <3>1. d \notin inUse /\ from \in inUse /\ from \in Disks /\ inUse' = inUse \cup {d}
      BY <2>0, <2>11, <3>0, CopyFromKeeps DEF CopyFrom
    <3>2. \A e \in inUse' : LogOf(e)' = LogOf(IF e = d THEN from ELSE e)
      BY <2>11, <3>0, CopyFromKeeps
    <3>3. ShownLog' = [ShownLog EXCEPT ![d] = ShownLog[from]]
      <4>1. \A e \in inUse : e # d /\ LogOf(e)' = LogOf(e)
        BY <3>1, <3>2
      <4>2. LogOf(d)' = LogOf(from)
        BY <3>1, <3>2
      <4> QED BY <2>0, <3>1, <4>1, <4>2 DEF ShownLog
    <3>4. Logs!Copy(d, from)
      BY <3>1, <3>3 DEF Logs!Copy, ShownLog
    <3> QED BY <3>1, <3>4 DEF Logs!Next
  <2> QED BY <2>2, <2>3, <2>4, <2>5, <2>6, <2>7, <2>8, <2>9, <2>10, <2>11 DEF Next
<1> QED BY Invariant, <1>1, <1>2, PTL DEF Spec, ImplementsWriteLog, Logs!Spec
===============================================================================
