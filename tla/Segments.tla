------------------------------- MODULE Segments -------------------------------
(***************************************************************************)
(* The segment manager of the F2FS simulator (CF2fsSegmentManager): the    *)
(* log that blocks are appended to, the FIFO of free segments, and garbage *)
(* collection, which runs inside the write that finds too few of them.     *)
(*                                                                         *)
(*  - A write appends to the current segment of the block's temperature    *)
(*    (nodes and data), takes a free segment when there is none, and then  *)
(*    invalidates the block's old place.  A segment is freed when its last *)
(*    valid block goes, unless it is current.                              *)
(*  - The free segments form a circular list through free_next; the fields *)
(*    of segments outside the list keep stale values.                      *)
(*  - With RESERVED_SEG or fewer free segments AllocSegment first runs     *)
(*    GarbageCollection, whose own writes may take free segments.          *)
(*  - A checkpoint saves the tables; after a power loss Mount reads them   *)
(*    back and rebuilds the free list.                                     *)
(*                                                                         *)
(* Every block write is a step of its own.  A logical block is a node or a *)
(* data block of a file; phy is the mapping that NAT and index nodes hold, *)
(* and that page->phy_blk repeats.  How tables reach the disk is the       *)
(* subject of Checkpoint; here saving them is one step.                    *)
(***************************************************************************)
EXTENDS Integers, FiniteSets

CONSTANTS
    SegNr,          \* MAIN_SEG_NR
    BlkPerSeg,      \* BLOCK_PER_SEG
    Reserved,       \* RESERVED_SEG
    GcHi,           \* gc_hi: GC stops when so many segments are free
    Nodes, Data,    \* logical blocks
    Root,           \* the node mkfs writes
    None,           \* INVALID_BLK
    MaxOps          \* bound on the operations from outside

ASSUME ConstAssumption ==
    /\ SegNr \in Nat \ {0} /\ BlkPerSeg \in Nat \ {0}
    /\ Reserved \in Nat /\ GcHi \in Nat /\ MaxOps \in Nat
    /\ Root \in Nodes /\ Nodes \cap Data = {}
    /\ None \notin Nodes \cup Data /\ None \notin Int

Seg == 0 .. SegNr - 1
Blk == 0 .. BlkPerSeg - 1
Logical == Nodes \cup Data
Temps == {"node", "data"}

ASSUME NoneAssumption == None \notin Temps \cup (Seg \X Blk)

TempOf(l) == IF l \in Nodes THEN "node" ELSE "data"

VARIABLES
    sit,    \* m_segments[]: valid blocks, their owners (SSA), seg_temp
    freeq,  \* free_next of every segment, m_free_head, m_free_tail, m_free_nr
    cur,    \* m_cur_segs
    phy,    \* where each logical block is
    pc,     \* "idle", "gc", "down", or how the run ended
    req,    \* the write that waits for GC (m_data_cache): block, phy_blk, force
    pool,   \* GC candidates left, with valid_blk_nr as it was when GC began
    src,    \* the segment GC is emptying: id, next block, valid blocks left
    saved,  \* what the last checkpoint saved
    lost,   \* logical blocks whose saved place was overwritten since
    ops     \* operations so far

gcVars == <<req, pool, src>>
vars == <<sit, freeq, cur, phy, pc, req, pool, src, saved, lost, ops>>

NoReq == [l |-> None, old |-> None, force |-> FALSE]
NoPool == [s \in {} |-> 0]
NoSrc == [seg |-> None, next |-> 0, left |-> 0]

-------------------------------------------------------------------------------
(***************************************************************************)
(* The free list                                                           *)
(***************************************************************************)
EmptyQueue == [next |-> [s \in Seg |-> None], head |-> None, tail |-> None, nr |-> 0]

\* free_en_queue
Enqueue(q, s) ==
    IF q.head # None
    THEN [q EXCEPT !.next[s] = q.next[q.head], !.next[q.head] = s, !.head = s, !.nr = @ + 1]
    ELSE [q EXCEPT !.next[s] = s, !.head = s, !.tail = s, !.nr = @ + 1]

\* Mutant: the last segment is told to be followed by the one taken.
DequeueKeepsLoop(q) ==
    IF q.tail = q.head
    THEN [q EXCEPT !.head = None, !.tail = None, !.nr = @ - 1]
    ELSE [q EXCEPT !.tail = q.next[q.tail], !.nr = @ - 1]

\* free_de_queue; the segment taken is q.tail, whose free_next stays.
Dequeue(q) ==
    IF q.tail = q.head
    THEN [q EXCEPT !.head = None, !.tail = None, !.nr = @ - 1]
    ELSE [q EXCEPT !.tail = q.next[q.tail], !.next[q.head] = q.next[q.tail],
                   !.nr = @ - 1]

\* The segments of S enqueued in ascending order.
EnqueueAll(q, S) ==
    LET upTo[i \in 0 .. SegNr] ==
          IF i = 0 THEN q
          ELSE IF i - 1 \in S THEN Enqueue(upTo[i - 1], i - 1) ELSE upTo[i - 1]
    IN  upTo[SegNr]

-------------------------------------------------------------------------------
(***************************************************************************)
(* Segments                                                                *)
(***************************************************************************)

\* AllocSegment initialises the segment it takes.
FreshSegment(t) == [valid |-> {}, own |-> [b \in Blk |-> None], temp |-> t]

\* A free segment: seg_temp is BT_TEMP_NR.
FreeSeg == FreshSegment(None)

Current(c, s) == \E t \in Temps : c[t].seg = s

\* The test m_cur_segs[seg.seg_temp].seg_no == s for a segment with a temperature.
CurrentOfTemp(c, st, s) == st[s].temp # None /\ c[st[s].temp].seg = s

(* What WriteBlockToSeg and InvalidBlock change: the four variables as one   *)
(* record, so that the steps of a handler can be composed.                   *)
State == [sit |-> sit, q |-> freeq, cur |-> cur, phy |-> phy]

Becomes(st) ==
    /\ sit' = st.sit
    /\ freeq' = st.q
    /\ cur' = st.cur
    /\ phy' = st.phy

\* FreeSegment
FreeSegment(st, s) ==
    [st EXCEPT !.sit[s].temp = None, !.q = Enqueue(st.q, s)]

\* Mutant: a segment that loses its last block is not freed.
InvalidBlockOnly(st, a) ==
    [st EXCEPT !.sit[a[1]].valid = @ \ {a[2]}, !.sit[a[1]].own[a[2]] = None]

\* InvalidBlock
InvalidBlock(st, a) ==
    LET st1 == [st EXCEPT !.sit[a[1]].valid = @ \ {a[2]}, !.sit[a[1]].own[a[2]] = None]
    IN  IF st1.sit[a[1]].valid = {} /\ ~CurrentOfTemp(st1.cur, st1.sit, a[1])
        THEN FreeSegment(st1, a[1]) ELSE st1

\* free_de_queue and the initialisation of the segment by AllocSegment.
TakeSegment(st, t) ==
    LET s == st.q.tail
    IN  [st EXCEPT !.q = Dequeue(st.q), !.sit[s] = FreshSegment(t),
                   !.cur[t] = [seg |-> s, off |-> 0]]

\* Mutant: a full segment stays current.
CloseIfFullLate(c) == IF c.off > BlkPerSeg THEN [c EXCEPT !.seg = None] ELSE c

\* The end of WriteBlockToSeg: a full segment is not current any more.
CloseIfFull(c) == IF c.off >= BlkPerSeg THEN [c EXCEPT !.seg = None] ELSE c

Place(st, l) == <<st.cur[TempOf(l)].seg, st.cur[TempOf(l)].off>>

\* WriteBlockToSeg once it has a current segment; old is page->phy_blk.
AppendBlock(st, l, old) ==
    LET t == TempOf(l)
        a == Place(st, l)
        st1 == [st EXCEPT !.sit[a[1]].valid = @ \cup {a[2]}, !.sit[a[1]].own[a[2]] = l,
                          !.cur[t].off = @ + 1]
        st2 == IF old # None THEN InvalidBlock(st1, old) ELSE st1
    IN  [st2 EXCEPT !.phy[l] = a, !.cur[t] = CloseIfFull(@)]

\* The block at a is overwritten with l.
Overwrite(a, l) == lost' = lost \cup {m \in Logical \ {l} : saved.phy[m] = a}

\* AllocSegment throws when the list is empty.
NoFreeSegment == freeq.nr = 0 \/ freeq.head = None \/ freeq.tail = None

Fail(reason) ==
    /\ pc' = reason
    /\ UNCHANGED <<sit, freeq, cur, phy, gcVars, saved, lost>>

-------------------------------------------------------------------------------
(***************************************************************************)
(* Init: mkfs wrote the root inode and the first checkpoint.               *)
(***************************************************************************)
Snapshot == [valid |-> [s \in Seg |-> sit[s].valid], temp |-> [s \in Seg |-> sit[s].temp],
             cur |-> cur, phy |-> phy]

InitState ==
    LET st == [sit |-> [s \in Seg |-> FreeSeg],
               q   |-> EnqueueAll(EmptyQueue, Seg),
               cur |-> [t \in Temps |-> [seg |-> None, off |-> 0]],
               phy |-> [l \in Logical |-> None]]
    IN  AppendBlock(TakeSegment(st, "node"), Root, None)

Init ==
    /\ sit = InitState.sit
    /\ freeq = InitState.q
    /\ cur = InitState.cur
    /\ phy = InitState.phy
    /\ pc = "idle"
    /\ req = NoReq /\ pool = NoPool /\ src = NoSrc
    /\ saved = Snapshot
    /\ lost = {}
    /\ ops = 0

Operation == pc = "idle" /\ ops < MaxOps /\ ops' = ops + 1

-------------------------------------------------------------------------------
(***************************************************************************)
(* Writing                                                                 *)
(***************************************************************************)

WriteInPlace(l, old, st) ==
    /\ Becomes(AppendBlock(st, l, old))
    /\ Overwrite(Place(st, l), l)

\* WriteBlockToSeg(l) for a page of the file system.
Write(l) ==
    /\ Operation
    /\ cur[TempOf(l)].seg # None
    /\ WriteInPlace(l, phy[l], State)
    /\ UNCHANGED <<pc, gcVars, saved>>

\* AllocSegment collects garbage first.
Scarce == freeq.nr <= Reserved

\* There is no current segment, but enough free ones.
WriteAlloc(l) ==
    /\ Operation
    /\ cur[TempOf(l)].seg = None
    /\ ~NoFreeSegment /\ ~Scarce
    /\ WriteInPlace(l, phy[l], TakeSegment(State, TempOf(l)))
    /\ UNCHANGED <<pc, gcVars, saved>>

\* AllocSegment calls GarbageCollection: first the scan, which frees segments
\* without valid blocks that were never linked, skips the current segments and
\* collects the others.
Unlinked == {s \in Seg : sit[s].valid = {} /\ freeq.next[s] = None}

WriteBeginGc(l, force) ==
    /\ Operation
    /\ cur[TempOf(l)].seg = None
    /\ ~NoFreeSegment /\ Scarce
    /\ freeq' = EnqueueAll(freeq, Unlinked)
    /\ sit' = [s \in Seg |-> IF s \in Unlinked THEN [sit[s] EXCEPT !.temp = None] ELSE sit[s]]
    /\ pool' = [s \in {x \in Seg \ Unlinked : ~CurrentOfTemp(cur, sit, x)} |->
                  Cardinality(sit[s].valid)]
    /\ src' = NoSrc
    /\ req' = [l |-> l, old |-> phy[l], force |-> force]
    /\ pc' = "gc"
    /\ UNCHANGED <<cur, phy, saved, lost>>

WriteFails(l) ==
    /\ Operation
    /\ cur[TempOf(l)].seg = None
    /\ NoFreeSegment
    /\ Fail("no free segment")

-------------------------------------------------------------------------------
(***************************************************************************)
(* GarbageCollection                                                       *)
(***************************************************************************)

\* Mutant: the segment stays in the pool.
GcPopKeeps(s) ==
    /\ pc = "gc" /\ src.seg = None /\ freeq.nr < GcHi
    /\ s \in DOMAIN pool
    /\ \A x \in DOMAIN pool : pool[s] <= pool[x]
    /\ src' = [seg |-> s, next |-> 0, left |-> Cardinality(sit[s].valid)]
    /\ UNCHANGED <<sit, freeq, cur, phy, pc, req, pool, saved, lost, ops>>

\* Pop: a segment that had the fewest valid blocks when GC began.
GcPop(s) ==
    /\ pc = "gc" /\ src.seg = None /\ freeq.nr < GcHi
    /\ s \in DOMAIN pool
    /\ \A x \in DOMAIN pool : pool[s] <= pool[x]
    /\ pool' = [x \in DOMAIN pool \ {s} |-> pool[x]]
    /\ src' = [seg |-> s, next |-> 0, left |-> Cardinality(sit[s].valid)]
    /\ UNCHANGED <<sit, freeq, cur, phy, pc, req, saved, lost, ops>>

\* The blocks of the source not looked at yet.
BlocksAhead == {b \in sit[src.seg].valid : b >= src.next}

GcBlock == CHOOSE b \in BlocksAhead : \A x \in BlocksAhead : b <= x

\* Mutant: the block the waiting write is about to replace is moved too.
WaitingBlockForgotten(l) == FALSE

\* The block the waiting write is about to replace is not moved.
WaitingBlock(l) == l \in Data /\ l = req.l

GcSkip ==
    /\ pc = "gc" /\ src.seg # None /\ BlocksAhead # {}
    /\ WaitingBlock(sit[src.seg].own[GcBlock])
    /\ src' = [src EXCEPT !.next = GcBlock + 1]
    /\ UNCHANGED <<sit, freeq, cur, phy, pc, req, pool, saved, lost, ops>>

\* WriteBlockToSeg(by_gc), which may take a segment without asking for GC.
GcMove ==
    /\ pc = "gc" /\ src.seg # None /\ BlocksAhead # {}
    /\ LET l == sit[src.seg].own[GcBlock]
           t == TempOf(l)
           st == IF cur[t].seg # None THEN State ELSE TakeSegment(State, t)
       IN  /\ ~WaitingBlock(l)
           /\ cur[t].seg # None \/ ~NoFreeSegment
           /\ WriteInPlace(l, <<src.seg, GcBlock>>, st)
    /\ src' = IF src.left = 1 THEN NoSrc
              ELSE [src EXCEPT !.next = GcBlock + 1, !.left = @ - 1]
    /\ UNCHANGED <<pc, req, pool, saved, ops>>

\* There is no segment to move the block to.
GcMoveFails ==
    /\ pc = "gc" /\ src.seg # None /\ BlocksAhead # {}
    /\ LET l == sit[src.seg].own[GcBlock]
       IN  /\ ~WaitingBlock(l)
           /\ cur[TempOf(l)].seg = None /\ NoFreeSegment
    /\ Fail("gc failed")
    /\ UNCHANGED ops

\* No valid block is left in the source.
GcSegmentDone ==
    /\ pc = "gc" /\ src.seg # None /\ BlocksAhead = {}
    /\ src' = NoSrc
    /\ UNCHANGED <<sit, freeq, cur, phy, pc, req, pool, saved, lost, ops>>

GcOver == pc = "gc" /\ src.seg = None /\ (freeq.nr >= GcHi \/ DOMAIN pool = {})

\* page->phy_blk of the waiting write: a node page is the cached one GC updates,
\* a data page has the address from before GC.
OldPlace == IF req.l \in Nodes THEN phy[req.l] ELSE req.old

\* AllocSegment goes on: it takes a segment for the waiting write, which
\* replaces the current one if GC opened one.
GcThenWrite ==
    /\ GcOver
    /\ freeq.nr > 1
    /\ req.force \/ ~Scarce
    /\ WriteInPlace(req.l, OldPlace, TakeSegment(State, TempOf(req.l)))
    /\ pc' = "idle"
    /\ req' = NoReq /\ pool' = NoPool /\ src' = NoSrc
    /\ UNCHANGED <<saved, ops>>

\* Too few segments for a write without force: it is refused.
GcThenRefuse ==
    /\ GcOver
    /\ freeq.nr > 1
    /\ ~req.force /\ freeq.nr <= Reserved
    /\ pc' = "idle"
    /\ req' = NoReq /\ pool' = NoPool /\ src' = NoSrc
    /\ UNCHANGED <<sit, freeq, cur, phy, saved, lost, ops>>

GcThenFail ==
    /\ GcOver
    /\ freeq.nr <= 1
    /\ Fail("no space")
    /\ UNCHANGED ops

-------------------------------------------------------------------------------
(***************************************************************************)
(* Deleting, checkpoint, power loss, mount                                 *)
(***************************************************************************)

\* A file or a block of it is removed: InvalidBlock at its place.
Remove(l) ==
    /\ Operation
    /\ l # Root /\ phy[l] # None
    /\ Becomes([InvalidBlock(State, phy[l]) EXCEPT !.phy[l] = None])
    /\ UNCHANGED <<pc, gcVars, saved, lost>>

\* sync_fs, as far as the segments are concerned.
SaveTables ==
    /\ Operation
    /\ saved' = Snapshot
    /\ lost' = {}
    /\ UNCHANGED <<sit, freeq, cur, phy, pc, gcVars>>

\* The memory of the segment manager is reset; what it held plays no role.
PowerLoss ==
    /\ pc \in {"idle", "gc"}
    /\ pc' = "down"
    /\ sit' = [s \in Seg |-> FreeSeg]
    /\ freeq' = EmptyQueue
    /\ cur' = [t \in Temps |-> [seg |-> None, off |-> 0]]
    /\ phy' = [l \in Logical |-> None]
    /\ req' = NoReq /\ pool' = NoPool /\ src' = NoSrc
    /\ UNCHANGED <<saved, lost, ops>>

\* Mutant: the offsets of the current segments are not restored.
LoadedCurRewound == [t \in Temps |-> [saved.cur[t] EXCEPT !.off = 0]]

\* Load takes the current segments from the checkpoint header.
LoadedCur == saved.cur

\* build_free_link.  For a free segment m_cur_segs[BT_TEMP_NR] is the word
\* behind the array, the low half of m_dirty_map[0]: Load has just cleared it,
\* so segment 0 is taken for a current one.
EmptyAtMount ==
    {s \in Seg : /\ saved.valid[s] = {}
                 /\ IF saved.temp[s] = None THEN s # 0
                    ELSE saved.cur[saved.temp[s]].seg # s}

\* Load, and the repair of the summaries by fsck: a block's owner is who maps it.
Mount ==
    /\ pc = "down" /\ lost = {}
    /\ sit' = [s \in Seg |->
                 [valid |-> saved.valid[s],
                  own   |-> [b \in Blk |->
                               IF \E l \in Logical : saved.phy[l] = <<s, b>>
                               THEN CHOOSE l \in Logical : saved.phy[l] = <<s, b>>
                               ELSE None],
                  temp  |-> IF s \in EmptyAtMount THEN None ELSE saved.temp[s]]]
    /\ freeq' = EnqueueAll(EmptyQueue, EmptyAtMount)
    /\ cur' = LoadedCur
    /\ phy' = saved.phy
    /\ pc' = "idle"
    /\ UNCHANGED <<gcVars, saved, lost, ops>>

\* A block of the checkpoint was overwritten: what mount reads is not it.
MountDamaged ==
    /\ pc = "down" /\ lost # {}
    /\ Fail("damaged")
    /\ UNCHANGED ops

Next ==
    \/ \E l \in Logical : Write(l)
    \/ \E l \in Logical : WriteAlloc(l)
    \/ \E l \in Logical, force \in BOOLEAN : WriteBeginGc(l, force)
    \/ \E l \in Logical : WriteFails(l)
    \/ \E s \in Seg : GcPop(s)
    \/ GcSkip
    \/ GcMove
    \/ GcMoveFails
    \/ GcSegmentDone
    \/ GcThenWrite
    \/ GcThenRefuse
    \/ GcThenFail
    \/ \E l \in Logical : Remove(l)
    \/ SaveTables
    \/ PowerLoss
    \/ Mount
    \/ MountDamaged

\* GC runs to its end unless the power fails.
Gc == \/ \E s \in Seg : GcPop(s)
      \/ GcSkip \/ GcMove \/ GcMoveFails \/ GcSegmentDone
      \/ GcThenWrite \/ GcThenRefuse \/ GcThenFail

Spec == Init /\ [][Next]_vars

FairSpec == Spec /\ WF_vars(Gc)

-------------------------------------------------------------------------------
(***************************************************************************)
(* Properties                                                              *)
(***************************************************************************)
Addr == Seg \X Blk
Running == pc \in {"idle", "gc"}
CurInfo == [Temps -> [seg : Seg \cup {None}, off : 0 .. BlkPerSeg]]

\* Types; m_free_nr never wraps below zero and no current offset passes the end.
TypeOK ==
    /\ sit \in [Seg -> [valid : SUBSET Blk, own : [Blk -> Logical \cup {None}],
                        temp : Temps \cup {None}]]
    /\ freeq \in [next : [Seg -> Seg \cup {None}], head : Seg \cup {None},
                  tail : Seg \cup {None}, nr : 0 .. SegNr]
    /\ cur \in CurInfo
    /\ phy \in [Logical -> Addr \cup {None}]
    /\ pc \in {"idle", "gc", "down", "no free segment", "gc failed", "no space", "damaged"}
    /\ req \in [l : Logical \cup {None}, old : Addr \cup {None}, force : BOOLEAN]
    /\ DOMAIN pool \subseteq Seg /\ \A s \in DOMAIN pool : pool[s] \in 0 .. BlkPerSeg
    /\ src \in [seg : Seg \cup {None}, next : 0 .. BlkPerSeg, left : 0 .. BlkPerSeg]
    /\ saved \in [valid : [Seg -> SUBSET Blk], temp : [Seg -> Temps \cup {None}],
                  cur : CurInfo, phy : [Logical -> Addr \cup {None}]]
    /\ lost \subseteq Logical
    /\ ops \in 0 .. MaxOps

\* The i-th segment of the free list, from the end segments are taken from.
FreeAt[i \in 0 .. SegNr] == IF i = 0 THEN freeq.tail ELSE freeq.next[FreeAt[i - 1]]

FreeSet == {FreeAt[i] : i \in 0 .. freeq.nr - 1}

\* The circular list through free_next is one: m_free_nr different segments
\* from m_free_tail to m_free_head, which is followed by m_free_tail again,
\* whatever stale free_next other segments hold.
FreeListOK ==
    IF freeq.nr = 0 THEN freeq.head = None /\ freeq.tail = None
    ELSE /\ freeq.head # None /\ freeq.tail # None
         /\ Cardinality(FreeSet) = freeq.nr
         /\ FreeAt[freeq.nr - 1] = freeq.head
         /\ freeq.next[freeq.head] = freeq.tail

\* No segment that writes go to is in the free list ("不回收当前的segment",
\* current segments are not reclaimed, in InvalidBlock).
CurrentNotFree == \A s \in FreeSet : ~Current(cur, s)

\* Free segments are empty, and every empty segment is free or current; the
\* exception is segment 0 after a mount, until the next GC links it.
FreeIffEmpty ==
    Running /\ CurrentNotFree =>
        /\ \A s \in FreeSet : sit[s].valid = {} /\ sit[s].temp = None
        /\ \A s \in Seg : sit[s].valid = {} /\ ~Current(cur, s) =>
              s \in FreeSet \/ (s = 0 /\ freeq.next[0] = None)

\* NAT and index nodes on one side, SIT bitmap and summaries on the other,
\* say the same; so neither "double invalid phy block" nor the mismatch errors
\* of GC are ever raised.
MapsAgree ==
    Running =>
        /\ \A l \in Logical : phy[l] # None =>
              /\ phy[l][2] \in sit[phy[l][1]].valid
              /\ sit[phy[l][1]].own[phy[l][2]] = l
        /\ \A s \in Seg : \A b \in sit[s].valid :
              sit[s].own[b] # None /\ phy[sit[s].own[b]] = <<s, b>>

\* The blocks a current segment has left are not in use.
LogEndFree ==
    Running => \A t \in Temps : cur[t].seg # None =>
        /\ cur[t].off < BlkPerSeg
        /\ \A b \in sit[cur[t].seg].valid : b < cur[t].off

\* GC finds room for the blocks it moves: AllocSegment(by_gc) never fails.
GcFindsRoom == pc # "gc failed" /\ pc # "no free segment"

\* What the last checkpoint refers to is still on the disk, so that after a
\* power loss every file block reads back as its own.
SavedDataIntact == lost = {}

\* A block that stays valid keeps its owner: no write hits a block in use.
ValidBlocksKept ==
    [][Running /\ pc' \in {"idle", "gc"} =>
         \A s \in Seg : \A b \in sit[s].valid \cap sit'[s].valid :
             sit'[s].own[b] = sit[s].own[b]]_vars

\* Garbage collection ends.
GcEnds == pc = "gc" ~> pc # "gc"
===============================================================================
