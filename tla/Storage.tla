-------------------------------- MODULE Storage --------------------------------
(***************************************************************************)
(* The simulated disks (CStorage) and the pool of block versions they      *)
(* share (StorageDataManager).  Every state the tester explores owns a     *)
(* disk; a disk is copied with the state, and a power loss is a Rollback   *)
(* that takes back its last writes.                                        *)
(*                                                                         *)
(*  - A block write makes a new version.  The version points to the one it *)
(*    replaces (pre_ver) and to the write before it on that disk           *)
(*    (pre_write).                                                         *)
(*  - m_data[lba] and pre_ver are counted references, pre_write and        *)
(*    m_cache_tail are not: that a version on the write log is still there *)
(*    rests on the counted chains alone.                                   *)
(*  - Disks are used by different threads.  A reference count changes in   *)
(*    one atomic step; releasing a version takes one step per count.       *)
(*                                                                         *)
(* m_begin_cache_nr, the size of the log when the disk was copied, only    *)
(* bounds how many writes the tester takes back and is left out: here any  *)
(* number of them may be.                                                  *)
(***************************************************************************)
EXTENDS Integers, Sequences, FiniteSets

CONSTANTS
    Disks,      \* the CStorage objects
    Lbas,       \* block addresses
    Values,     \* block contents
    Versions,   \* the pool; the code grows it on demand
    Null,
    MaxLog      \* bound on the writes of a disk

ASSUME ConstAssumption ==
    /\ Null \notin Versions \cup Disks
    /\ MaxLog \in Nat
    /\ IsFiniteSet(Disks) /\ IsFiniteSet(Lbas) /\ IsFiniteSet(Versions)

VARIABLES
    ver,    \* the versions: m_ref, lba, data, pre_ver, pre_write
    free,   \* versions in m_free_list
    data,   \* m_data of each disk
    tail,   \* m_cache_tail
    nr,     \* m_cache_nr
    inUse,  \* disks that belong to a state
    todo,   \* what the thread that uses a disk is doing
    put     \* the version a thread is about to release

vars == <<ver, free, data, tail, nr, inUse, todo, put>>

Unused == [ref |-> 0, lba |-> Null, val |-> Null, preVer |-> Null, preWrite |-> Null]

NoData == [l \in Lbas |-> Null]

Idle == [op |-> "idle", left |-> {}, from |-> Null]

Init ==
    /\ ver = [v \in Versions |-> Unused]
    /\ free = Versions
    /\ data = [d \in Disks |-> NoData]
    /\ tail = [d \in Disks |-> Null]
    /\ nr = [d \in Disks |-> 0]
    /\ inUse \in {{d} : d \in Disks}
    /\ todo = [d \in Disks |-> Idle]
    /\ put = [d \in Disks |-> Null]

\* A disk is not written while it is being copied: the tester only reads the
\* state it duplicates.
Usable(d) ==
    /\ d \in inUse
    /\ todo[d].op = "idle"
    /\ \A e \in Disks : todo[e].from # d

AddRefs(refs, V) == [v \in Versions |-> IF v \in V THEN [refs[v] EXCEPT !.ref = @ + 1] ELSE refs[v]]

\* A new version becomes the head of its block and of the write log; the
\* reference m_data[lba] held on the old head passes on to pre_ver.
BlockWrite(d, l, x) ==
    /\ Usable(d) /\ nr[d] < MaxLog
    /\ \E v \in free :
          /\ free' = free \ {v}
          /\ ver' = [ver EXCEPT ![v] = [ref |-> 1, lba |-> l, val |-> x,
                                        preVer |-> data[d][l], preWrite |-> tail[d]]]
          /\ data' = [data EXCEPT ![d][l] = v]
          /\ tail' = [tail EXCEPT ![d] = v]
    /\ nr' = [nr EXCEPT ![d] = @ + 1]
    /\ UNCHANGED <<inUse, todo, put>>

\* Mutant: the version that comes back is not counted.
RestoredRefForgotten(v) == {}

\* The versions Rollback adds a reference to.
RestoredRef(v) == {v} \ {Null}

\* One turn of Rollback: m_data gets the previous version back; the version
\* taken back is then released.
Rollback(d) ==
    /\ Usable(d) /\ nr[d] > 0
    /\ LET v == tail[d]
           l == ver[v].lba
       IN  /\ tail' = [tail EXCEPT ![d] = ver[v].preWrite]
           /\ data' = [data EXCEPT ![d][l] = ver[v].preVer]
           /\ ver' = AddRefs(ver, RestoredRef(ver[v].preVer))
           /\ put' = [put EXCEPT ![d] = v]
    /\ nr' = [nr EXCEPT ![d] = @ - 1]
    /\ todo' = [todo EXCEPT ![d].op = "rollback"]
    /\ UNCHANGED <<free, inUse>>

\* Mutant: the chain of older versions is not followed.
ReleaseNextNone(v) == Null

\* The version to release after v has been reclaimed.
ReleaseNext(v) == ver[v].preVer

\* StorageDataManager::put, one decrement: a version without references goes
\* back to the pool and the version it replaced is released in turn.
Release(d) ==
    /\ put[d] # Null
    /\ LET v == put[d]
           last == ver[v].ref = 1
       IN  /\ ver' = [ver EXCEPT ![v] = IF last THEN Unused ELSE [ver[v] EXCEPT !.ref = @ - 1]]
           /\ free' = IF last THEN free \cup {v} ELSE free
           /\ put' = [put EXCEPT ![d] = IF last THEN ReleaseNext(v) ELSE Null]
    /\ UNCHANGED <<data, tail, nr, inUse, todo>>

\* Rollback goes on with the next write, or is over.
RollbackEnds(d) ==
    /\ todo[d].op = "rollback" /\ put[d] = Null
    /\ todo' = [todo EXCEPT ![d] = Idle]
    /\ UNCHANGED <<ver, free, data, tail, nr, inUse, put>>

\* CStateManager::put: the state goes back to the pool with its disk as it is.
Park(d) ==
    /\ Usable(d)
    /\ inUse' = inUse \ {d}
    /\ UNCHANGED <<ver, free, data, tail, nr, todo, put>>

\* The first half of CopyFrom, which finds what the disk of a pooled state last
\* held, and ~CStorage (no source): every m_data is released.  (The code leaves
\* the pointers of the first half in place until the second overwrites them.)
Clear(d, from) ==
    /\ d \notin inUse /\ todo[d].op = "idle"
    /\ \/ from = Null /\ nr[d] > 0
       \/ from \in inUse /\ todo[from].op = "idle"
    /\ todo' = [todo EXCEPT ![d] = [op |-> "clear", left |-> Lbas, from |-> from]]
    /\ UNCHANGED <<ver, free, data, tail, nr, inUse, put>>

ClearOne(d, l) ==
    /\ todo[d].op = "clear" /\ put[d] = Null
    /\ l \in todo[d].left
    /\ todo' = [todo EXCEPT ![d].left = @ \ {l}]
    /\ put' = [put EXCEPT ![d] = data[d][l]]
    /\ data' = [data EXCEPT ![d][l] = Null]
    /\ UNCHANGED <<ver, free, tail, nr, inUse>>

\* A pooled disk is deleted.
Discarded(d) ==
    /\ todo[d].op = "clear" /\ todo[d].left = {} /\ put[d] = Null
    /\ todo[d].from = Null
    /\ tail' = [tail EXCEPT ![d] = Null]
    /\ nr' = [nr EXCEPT ![d] = 0]
    /\ todo' = [todo EXCEPT ![d] = Idle]
    /\ UNCHANGED <<ver, free, data, inUse, put>>

\* Mutant: the shared heads are not counted.
CopiedRefsNone(from) == {}

\* The versions CopyFrom adds a reference to.
CopiedRefs(from) == {data[from][l] : l \in Lbas} \ {Null}

\* The second half of CopyFrom: the heads are shared.
CopyFrom(d) ==
    /\ todo[d].op = "clear" /\ todo[d].left = {} /\ put[d] = Null
    /\ todo[d].from # Null
    /\ LET from == todo[d].from
       IN  /\ data' = [data EXCEPT ![d] = data[from]]
           /\ ver' = AddRefs(ver, CopiedRefs(from))
           /\ tail' = [tail EXCEPT ![d] = tail[from]]
           /\ nr' = [nr EXCEPT ![d] = nr[from]]
    /\ inUse' = inUse \cup {d}
    /\ todo' = [todo EXCEPT ![d] = Idle]
    /\ UNCHANGED <<free, put>>

Next ==
    \E d \in Disks :
        \/ \E l \in Lbas, x \in Values : BlockWrite(d, l, x)
        \/ Rollback(d)
        \/ Release(d)
        \/ RollbackEnds(d)
        \/ Park(d)
        \/ \E from \in Disks \cup {Null} : Clear(d, from)
        \/ \E l \in Lbas : ClearOne(d, l)
        \/ Discarded(d)
        \/ CopyFrom(d)

Spec == Init /\ [][Next]_vars

-------------------------------------------------------------------------------
(***************************************************************************)
(* Properties                                                              *)
(***************************************************************************)
VerOrNull == Versions \cup {Null}

\* Types; m_cache_nr never wraps below zero, and neither m_data nor the links of
\* a version point outside the pool of StorageDataManager.
TypeOK ==
    /\ ver \in [Versions -> [ref : Nat, lba : Lbas \cup {Null}, val : Values \cup {Null},
                             preVer : VerOrNull, preWrite : VerOrNull]]
    /\ free \subseteq Versions
    /\ data \in [Disks -> [Lbas -> VerOrNull]]
    /\ tail \in [Disks -> VerOrNull]
    /\ nr \in [Disks -> 0 .. MaxLog]
    /\ inUse \subseteq Disks
    /\ todo \in [Disks -> [op : {"idle", "rollback", "clear"}, left : SUBSET Lbas,
                           from : Disks \cup {Null}]]
    /\ put \in [Disks -> VerOrNull]

\* Every count is the number of references there are: disks that have the
\* version as their current one, versions that replaced it, and releases on
\* their way.  A version that is too low is reused under a disk; one that is
\* too high never returns to the pool.
RefCountsExact ==
    \A v \in Versions :
        ver[v].ref = Cardinality({x \in Disks \X Lbas : data[x[1]][x[2]] = v})
                     + Cardinality({w \in Versions \ free : ver[w].preVer = v})
                     + Cardinality({d \in Disks : put[d] = v})

\* The version behind a pointer into pool; none behind a null pointer.
VerAt(pool, v) == IF v = Null THEN Unused ELSE pool[v]

\* pre_write followed n times from version v.
Back(pool, v, n) ==
    LET back[i \in 0 .. n] == IF i = 0 THEN v ELSE VerAt(pool, back[i - 1]).preWrite
    IN  back

\* The writes of disk d, oldest first: pre_write followed from m_cache_tail.
LogOf(d) ==
    LET at(i) == VerAt(ver, Back(ver, tail[d], nr[d])[nr[d] - i])
    IN  [i \in 1 .. nr[d] |-> <<at(i).lba, at(i).val>>]

\* What BlockRead returns; it throws if there is no version or not one of lba l.
BlockRead(d, l) ==
    LET head == VerAt(ver, data[d][l]) IN IF head.lba = l THEN head.val ELSE Null

\* A block reads as the last write to it that has not been taken back.
ReadsLastWrite ==
    \A d \in inUse : \A l \in Lbas :
        LET writes == {i \in 1 .. nr[d] : LogOf(d)[i][1] = l}
        IN  BlockRead(d, l) =
              IF writes = {} THEN Null
              ELSE LogOf(d)[CHOOSE i \in writes : \A j \in writes : j <= i][2]

\* However disks share versions and whichever of them roll back, are copied
\* or released meanwhile, each behaves as a log of its own.
Logs == INSTANCE WriteLog WITH
    log <- [d \in Disks |-> IF d \in inUse THEN LogOf(d) ELSE <<>>]

\* Storage implements WriteLog.
ImplementsWriteLog == Logs!Spec
===============================================================================
