------------------------------ MODULE Checkpoint ------------------------------
(***************************************************************************)
(* The checkpoint protocol of the F2FS simulator: how the node address     *)
(* table (NAT) and the segment information table (SIT) reach the disk so   *)
(* that a power loss between any two block writes leaves the tables of the *)
(* last completed checkpoint recoverable.                                  *)
(*                                                                         *)
(*  - Each table lives in memory as an array with a dirty bit per entry.   *)
(*  - On disk every table block has two copies; a version bitmap in the    *)
(*    checkpoint header says which one is current.                         *)
(*  - A checkpoint first folds the journal of the previous checkpoint into *)
(*    pages, then moves the dirty entries to the journal (folding again    *)
(*    when it is full), writes the folded pages to the copies that are not *)
(*    current, flips their bits in memory, and finally writes the pack:    *)
(*    header with ver_open advanced, NAT journal, SIT journals, header     *)
(*    with ver_close advanced.  The two packs are used in turn.            *)
(*                                                                         *)
(* Every BlockWrite is one step and a power loss may come between any two  *)
(* steps.  What an entry holds (a block number, a segment bitmap) is not   *)
(* told apart beyond its identity.  Entries and blocks are named by their   *)
(* table and index, and a block is stored entry by entry: area[c][x] is    *)
(* entry x in copy c of the block that holds x.                            *)
(***************************************************************************)
EXTENDS Integers, FiniteSets

CONSTANTS
    EntryNr,        \* [Tables -> Nat]: NODE_NR, MAIN_SEG_NR
    PerBlk,         \* [Tables -> Nat]: NAT_ENTRY_PER_BLK, SIT_ENTRY_PER_BLK
    JournalNr,      \* JOURNAL_NR: journal entries per table in a pack
    SitJournalBlk,  \* SIT_JOURNAL_BLK: blocks that hold the SIT journal
    Values,         \* what a table entry can hold
    CurSegs,        \* what the array of current segments can hold
    Unwritten,      \* content of a block that was never written
    MaxVer,         \* bound on the checkpoint version
    MaxUpdates      \* bound on the updates of the tables in memory

Tables == {"nat", "sit"}

ASSUME ConstAssumption ==
    /\ EntryNr \in [Tables -> Nat \ {0}]
    /\ PerBlk \in [Tables -> Nat \ {0}]
    /\ JournalNr \in Nat \ {0}
    /\ SitJournalBlk \in Nat \ {0}
    /\ SitJournalBlk * (JournalNr \div SitJournalBlk) = JournalNr
    /\ Unwritten \notin Values
    /\ MaxVer \in Nat /\ MaxVer >= 2
    /\ MaxUpdates \in Nat

Entry == UNION {{t} \X (0 .. EntryNr[t] - 1) : t \in Tables}
BlkOf(x) == <<x[1], x[2] \div PerBlk[x[1]]>>
Block == {BlkOf(x) : x \in Entry}
Slots == 1 .. JournalNr

VARIABLES
    mem,        \* nat[] and m_segments[]: the tables in memory
    dirty,      \* dirty entries of each table
    curSegs,    \* m_cur_segs
    ckpt,       \* m_checkpoint: header and journals in memory
    curCkpt,    \* m_cur_ckpt: the pack m_checkpoint was read from or saved to
    pc,         \* where the running operation stands
    tbl,        \* the table being flushed
    cached,     \* table blocks held in nat_pages / sit_pages
    page,       \* the content of those pages
    chunk,      \* SIT journal blocks written so far
    area,       \* disk: both copies of every table entry
    pack,       \* disk: the two checkpoint packs
    updates,    \* updates so far, to bound them
    committed   \* history: pack, tables and cur_segs of the last checkpoint
                \* whose closing header reached the disk

memVars  == <<mem, dirty, curSegs>>
ckptVars == <<ckpt, curCkpt>>
flushVars == <<tbl, cached, page, chunk>>
diskVars == <<area, pack>>
vars == <<mem, dirty, curSegs, ckpt, curCkpt, pc, tbl, cached, page, chunk,
          area, pack, updates, committed>>

Cells == Values \cup {Unwritten}
JournalEntry == [id : Entry, val : Cells]

(***************************************************************************)
(* Reading a table through a journal: the entry journalled last wins,      *)
(* otherwise the block the version bitmap points to.                       *)
(***************************************************************************)
InJournal(c, x) == \E k \in 1 .. c.hdr.nr[x[1]] : c.jrn[x[1]][k].id = x

LastSlot(c, x) ==
    CHOOSE k \in 1 .. c.hdr.nr[x[1]] :
        /\ c.jrn[x[1]][k].id = x
        /\ \A m \in 1 .. c.hdr.nr[x[1]] : c.jrn[x[1]][m].id = x => m <= k

Journalled(c, x) == c.jrn[x[1]][LastSlot(c, x)].val

\* Load(): the value entry x gets from checkpoint c.
Recovered(c, x) ==
    IF InJournal(c, x) THEN Journalled(c, x) ELSE area[c.hdr.bit[BlkOf(x)]][x]

LoadTables(c) == [x \in Entry |-> Recovered(c, x)]

\* load_checkpoint(): a pack counts when its two versions agree; 0 is no version.
PackVer(i) == IF pack[i].hdr.open = pack[i].hdr.close THEN pack[i].hdr.close ELSE 0

CkptFail == PackVer(0) = PackVer(1)

ChosenPack == IF PackVer(1) > PackVer(0) THEN 1 ELSE 0

(***************************************************************************)
(* The state mkfs leaves: tables synced to copy 0, the first checkpoint    *)
(* (version 2) in pack 0, pack 1 zeroed.                                   *)
(***************************************************************************)
NoJournals(x) == [t \in Tables |-> [k \in Slots |-> [id |-> x, val |-> Unwritten]]]
NoPages == [x \in Entry |-> Unwritten]

FirstHeader(ver, cs) ==
    [open |-> ver, close |-> ver, cur |-> cs,
     nr  |-> [t \in Tables |-> 0],
     bit |-> [b \in Block |-> 0]]

Init ==
    \E v \in Values, cs \in CurSegs :
        /\ mem = [x \in Entry |-> v]
        /\ dirty = {}
        /\ curSegs = cs
        /\ ckpt = [hdr |-> FirstHeader(2, cs), jrn |-> NoJournals(<<"nat", 0>>)]
        /\ curCkpt = 0
        /\ pc = "idle"
        /\ tbl = "nat"
        /\ cached = {}
        /\ page = NoPages
        /\ chunk = 0
        /\ updates = 0
        /\ area = [c \in {0, 1} |-> [x \in Entry |-> IF c = 0 THEN v ELSE Unwritten]]
        /\ pack = [i \in {0, 1} |->
                     IF i = 0 THEN ckpt
                     ELSE [hdr |-> FirstHeader(0, cs), jrn |-> NoJournals(<<"nat", 0>>)]]
        /\ committed = [pack |-> 0, tab |-> mem, cur |-> cs]

-------------------------------------------------------------------------------
(***************************************************************************)
(* Updates of the tables in memory.                                        *)
(***************************************************************************)

\* Mutant: set_dirty is forgotten.
SetEntryNotDirty(x, v) ==
    /\ pc = "idle" /\ updates < MaxUpdates
    /\ updates' = updates + 1
    /\ mem' = [mem EXCEPT ![x] = v]
    /\ UNCHANGED <<dirty, curSegs, ckptVars, pc, flushVars, diskVars, committed>>

\* get_node, put_node, set_phy_blk; SetBlockInfo, InvalidBlock, FreeSegment, ...
SetEntry(x, v) ==
    /\ pc = "idle" /\ updates < MaxUpdates
    /\ updates' = updates + 1
    /\ mem' = [mem EXCEPT ![x] = v]
    /\ dirty' = dirty \cup {x}
    /\ UNCHANGED <<curSegs, ckptVars, pc, flushVars, diskVars, committed>>

\* WriteBlockToSeg moves a current segment on.
SetCurSegs(cs) ==
    /\ pc = "idle" /\ updates < MaxUpdates
    /\ updates' = updates + 1
    /\ curSegs' = cs
    /\ UNCHANGED <<mem, dirty, ckptVars, pc, flushVars, diskVars, committed>>

-------------------------------------------------------------------------------
(***************************************************************************)
(* f2fs_write_checkpoint                                                   *)
(***************************************************************************)

\* Entry x as journal, pages and disk stand in memory.
View(x) ==
    IF InJournal(ckpt, x) THEN Journalled(ckpt, x)
    ELSE IF BlkOf(x) \in cached THEN page[x]
    ELSE area[ckpt.hdr.bit[BlkOf(x)]][x]

JournalBlocks(t) == {BlkOf(ckpt.jrn[t][k].id) : k \in 1 .. ckpt.hdr.nr[t]}

\* f2fs_out_nat_journal, f2fs_out_sit_journal: fold the journal into pages,
\* reading the current copy of a block that has no page yet; the part that
\* changes the pages.
FoldPages(t) ==
    LET blks == cached \cup JournalBlocks(t)
    IN  /\ cached' = blks
        /\ page' = [x \in Entry |->
                      IF x[1] = t /\ BlkOf(x) \in blks THEN View(x) ELSE page[x]]

\* First call of f2fs_out_*_journal: journal_nr becomes 0.
BeginFlush(t) ==
    /\ FoldPages(t)
    /\ ckpt' = [ckpt EXCEPT !.hdr.nr[t] = 0]
    /\ pc' = "fill"
    /\ tbl' = t
    /\ UNCHANGED <<memVars, curCkpt, chunk, diskVars, updates, committed>>

WriteCheckpoint ==
    /\ pc = "idle"
    /\ ckpt.hdr.open < MaxVer
    /\ BeginFlush("nat")

DirtyOf(t) == {x \in dirty : x[1] = t}

\* The journal with dirty entry x added at slot k.
PutInJournal(x, k) ==
    ckpt' = [ckpt EXCEPT !.jrn[x[1]][k] = [id |-> x, val |-> mem[x]],
                         !.hdr.nr[x[1]] = k]

\* Mutant: one entry too many.
JournalFullLate(t) == ckpt.hdr.nr[t] > JournalNr

JournalFull(t) == ckpt.hdr.nr[t] >= JournalNr

\* One turn of the loop over dirty entries; a full journal is folded first.
PutEntry(x) ==
    /\ pc = "fill"
    /\ x \in DirtyOf(tbl)
    /\ \A d \in DirtyOf(tbl) : x[2] <= d[2]
    /\ \/ /\ JournalFull(tbl)
          /\ FoldPages(tbl)
          /\ PutInJournal(x, 1)
       \/ /\ ~JournalFull(tbl)
          /\ PutInJournal(x, ckpt.hdr.nr[tbl] + 1)
          /\ UNCHANGED <<cached, page>>
    /\ dirty' = dirty \ {x}
    /\ UNCHANGED <<mem, curSegs, curCkpt, pc, tbl, chunk, diskVars, updates, committed>>

EndFill ==
    /\ pc = "fill"
    /\ DirtyOf(tbl) = {}
    /\ pc' = "write"
    /\ UNCHANGED <<memVars, ckptVars, flushVars, diskVars, updates, committed>>

\* Mutant of NextCopy: the version bitmap is not flipped.
SameCopy(b) == ckpt.hdr.bit[b]

\* get_nat_next_block, get_sit_next_block: the copy that is not current.
NextCopy(b) == 1 - ckpt.hdr.bit[b]

\* The flip, BlockWrite and free of the next page.
WritePage(b) ==
    /\ pc = "write"
    /\ b \in cached
    /\ \A d \in cached : b[2] <= d[2]
    /\ ckpt' = [ckpt EXCEPT !.hdr.bit[b] = NextCopy(b)]
    /\ area' = [area EXCEPT ![NextCopy(b)] =
                  [x \in Entry |-> IF BlkOf(x) = b THEN page[x] ELSE @[x]]]
    /\ page' = [x \in Entry |-> IF BlkOf(x) = b THEN Unwritten ELSE page[x]]
    /\ cached' = cached \ {b}
    /\ UNCHANGED <<memVars, curCkpt, pc, tbl, chunk, pack, updates, committed>>

\* f2fs_flush_nat_entries returns, f2fs_flush_sit_entries starts.
FlushSit ==
    /\ pc = "write" /\ tbl = "nat"
    /\ cached = {}
    /\ BeginFlush("sit")

\* Mutant: both versions advance with the first header.
OpenedHeaderClosed == [ckpt.hdr EXCEPT !.open = @ + 1, !.close = @ + 1, !.cur = curSegs]

\* The header save_checkpoint writes first: only ver_open is advanced.
OpenedHeader == [ckpt.hdr EXCEPT !.open = @ + 1, !.cur = curSegs]

\* Mutant of OtherPack: the pack id is not flipped.
SamePack == curCkpt

\* m_cur_ckpt ^= 1
OtherPack == 1 - curCkpt

\* save_checkpoint: header with only ver_open advanced, to the other pack.
OpenPack ==
    /\ pc = "write" /\ tbl = "sit"
    /\ cached = {}
    /\ ckpt' = [ckpt EXCEPT !.hdr = OpenedHeader]
    /\ pack' = [pack EXCEPT ![OtherPack].hdr = OpenedHeader]
    /\ curCkpt' = OtherPack
    /\ pc' = "natj"
    /\ UNCHANGED <<memVars, flushVars, area, updates, committed>>

WriteNatJournal ==
    /\ pc = "natj"
    /\ pack' = [pack EXCEPT ![curCkpt].jrn["nat"] = ckpt.jrn["nat"]]
    /\ chunk' = 0
    /\ pc' = "sitj"
    /\ UNCHANGED <<memVars, ckptVars, tbl, cached, page, area, updates, committed>>

\* The journal slots SIT journal block c (from 0) holds.
ChunkSlots(c) ==
    LET per == JournalNr \div SitJournalBlk
    IN  {k \in Slots : c * per < k /\ k <= (c + 1) * per}

WriteSitJournal ==
    /\ pc = "sitj"
    /\ chunk < SitJournalBlk
    /\ pack' = [pack EXCEPT ![curCkpt].jrn["sit"] =
                  [k \in Slots |-> IF k \in ChunkSlots(chunk)
                                   THEN ckpt.jrn["sit"][k] ELSE @[k]]]
    /\ chunk' = chunk + 1
    /\ UNCHANGED <<memVars, ckptVars, pc, tbl, cached, page, area, updates, committed>>

\* The header again with ver_close advanced: the checkpoint is complete.
ClosePack ==
    /\ pc = "sitj"
    /\ chunk = SitJournalBlk
    /\ LET hdr == [ckpt.hdr EXCEPT !.close = @ + 1]
       IN  /\ ckpt' = [ckpt EXCEPT !.hdr = hdr]
           /\ pack' = [pack EXCEPT ![curCkpt].hdr = hdr]
    /\ pc' = "idle"
    /\ chunk' = 0
    /\ committed' = [pack |-> curCkpt, tab |-> mem, cur |-> curSegs]
    /\ UNCHANGED <<memVars, curCkpt, tbl, cached, page, area, updates>>

-------------------------------------------------------------------------------
(***************************************************************************)
(* Power loss and mount.                                                   *)
(***************************************************************************)

\* Reset: the storage keeps what was written, memory is wiped.
PowerLoss ==
    /\ pc # "down"
    /\ pc' = "down"
    /\ mem' = [x \in Entry |-> Unwritten]
    /\ dirty' = {}
    /\ cached' = {}
    /\ page' = NoPages
    /\ chunk' = 0
    /\ UNCHANGED <<curSegs, ckptVars, tbl, diskVars, updates, committed>>

\* Mount: load_checkpoint, then both Load()s.  It only reads.
Mount ==
    /\ pc = "down"
    /\ ~CkptFail
    /\ ckpt' = pack[ChosenPack]
    /\ curCkpt' = ChosenPack
    /\ mem' = LoadTables(pack[ChosenPack])
    /\ dirty' = {}
    /\ curSegs' = pack[ChosenPack].hdr.cur
    /\ pc' = "idle"
    /\ UNCHANGED <<flushVars, diskVars, updates, committed>>

Next ==
    \/ \E x \in Entry, v \in Values : SetEntry(x, v)
    \/ \E cs \in CurSegs : SetCurSegs(cs)
    \/ WriteCheckpoint
    \/ \E x \in Entry : PutEntry(x)
    \/ EndFill
    \/ \E b \in Block : WritePage(b)
    \/ FlushSit
    \/ OpenPack
    \/ WriteNatJournal
    \/ WriteSitJournal
    \/ ClosePack
    \/ PowerLoss
    \/ Mount

Spec == Init /\ [][Next]_vars

-------------------------------------------------------------------------------
(***************************************************************************)
(* Properties                                                              *)
(***************************************************************************)

Headers ==
    [open : 0 .. MaxVer, close : 0 .. MaxVer, cur : CurSegs,
     nr : [Tables -> 0 .. JournalNr], bit : [Block -> {0, 1}]]

Checkpoints == [hdr : Headers, jrn : [Tables -> [Slots -> JournalEntry]]]

\* Types of the variables; nr within 0 .. JOURNAL_NR is what keeps the journal
\* arrays of m_checkpoint from being overrun.
TypeOK ==
    /\ mem \in [Entry -> Cells]
    /\ dirty \subseteq Entry
    /\ curSegs \in CurSegs
    /\ ckpt \in Checkpoints
    /\ curCkpt \in {0, 1}
    /\ pc \in {"idle", "fill", "write", "natj", "sitj", "down"}
    /\ tbl \in Tables
    /\ cached \subseteq Block
    /\ page \in [Entry -> Cells]
    /\ chunk \in 0 .. SitJournalBlk
    /\ updates \in 0 .. MaxUpdates
    /\ area \in [{0, 1} -> [Entry -> Cells]]
    /\ pack \in [{0, 1} -> Checkpoints]
    /\ committed \in [pack : {0, 1}, tab : [Entry -> Values], cur : CurSegs]

\* Whatever block write a power loss follows, load_checkpoint finds a valid
\* pack and Mount gets back exactly the tables and current segments of the
\* last completed checkpoint.
Recoverable ==
    /\ ~CkptFail
    /\ ChosenPack = committed.pack
    /\ LoadTables(pack[ChosenPack]) = committed.tab
    /\ pack[ChosenPack].hdr.cur = committed.cur

\* Between operations the dirty bits cover every entry that differs from the
\* last checkpoint, so the next checkpoint cannot miss one.
DirtyCoversChanges ==
    pc = "idle" => \A x \in Entry : mem[x] # committed.tab[x] => x \in dirty

\* No block write touches what the last completed checkpoint stands on: its
\* pack, and the copies of the table blocks its version bitmap points to.
CommittedUntouched ==
    [][LET g == committed.pack
       IN  /\ committed' = committed => pack'[g] = pack[g]
           /\ \A x \in Entry :
                 LET c == pack[g].hdr.bit[BlkOf(x)]
                 IN  area'[c][x] = area[c][x]]_vars

\* The protocol implements an atomic store: the durable state is what Mount
\* would load from the disk now, and only the closing header changes it.
OnDisk == [tab |-> LoadTables(pack[ChosenPack]), cur |-> pack[ChosenPack].hdr.cur]

InMemory == [tab |-> mem, cur |-> curSegs]

Store == INSTANCE AtomicStore WITH
    States <- [tab : [Entry -> Values], cur : CurSegs],
    live <- IF pc = "down" THEN OnDisk ELSE InMemory,
    durable <- OnDisk,
    up <- pc # "down"

\* Checkpoint implements AtomicStore (OnDisk and InMemory are the mapping).
ImplementsAtomicStore == Store!Spec

-------------------------------------------------------------------------------
(***************************************************************************)
(* The inductive invariant behind Recoverable                              *)
(***************************************************************************)

UniqueIds(c) ==
    \A t \in Tables : \A k, m \in 1 .. c.hdr.nr[t] :
        c.jrn[t][k].id = c.jrn[t][m].id => k = m

OwnIds(c) ==
    \A t \in Tables : \A k \in 1 .. c.hdr.nr[t] : c.jrn[t][k].id[1] = t

\* The pack of the last checkpoint is valid, newer than the other one if that
\* is valid too, and yields the committed tables.
CommittedPackOK ==
    LET p == pack[committed.pack]
        o == pack[1 - committed.pack]
    IN  /\ p.hdr.open = p.hdr.close
        /\ p.hdr.close > 0
        /\ o.hdr.open = o.hdr.close => o.hdr.close < p.hdr.close
        /\ p.hdr.cur = committed.cur
        /\ UniqueIds(p) /\ OwnIds(p)
        /\ \A x \in Entry : Recovered(p, x) = committed.tab[x]

Flushing == pc \in {"fill", "write"}

Saving == pc \in {"natj", "sitj"}

\* The flush of table t in the running checkpoint is over.
Flushed(t) == Saving \/ (Flushing /\ tbl = "sit" /\ t = "nat")

\* Pages of table t have begun to be written.
PagesStarted(t) == Flushed(t) \/ (pc = "write" /\ tbl = t)

\* In memory: clean entries agree with what journal, pages and disk say.
MemoryOK ==
    pc # "down" =>
        /\ mem \in [Entry -> Values]
        /\ UniqueIds(ckpt) /\ OwnIds(ckpt)
        /\ \A x \in Entry : x \notin dirty => View(x) = mem[x]

\* While a table is flushed: its journal holds clean entries only, pages are
\* of that table, and those still to be written are of blocks whose bit was
\* not flipped yet.
FlushOK ==
    /\ ~Flushing => cached = {}
    /\ \A b \in cached : b[1] = tbl
    /\ pc = "fill" => \A k \in 1 .. ckpt.hdr.nr[tbl] : ckpt.jrn[tbl][k].id \notin dirty
    /\ \A x \in dirty : ~PagesStarted(x[1])
    /\ pc = "idle" \/ Flushing =>
          \A b \in Block : b \in cached \/ ~PagesStarted(b[1]) =>
                ckpt.hdr.bit[b] = pack[committed.pack].hdr.bit[b]

\* Which pack is current, and how far the pack being saved has come.
PackOK ==
    LET ver == pack[committed.pack].hdr.close
    IN  /\ pc # "down" => ckpt.hdr.close = ver
        /\ pc = "idle" \/ Flushing => curCkpt = committed.pack /\ ckpt.hdr.open = ver
        /\ Flushing => ckpt.hdr.open < MaxVer
        /\ Saving =>
              /\ curCkpt = 1 - committed.pack
              /\ ckpt.hdr.open = ver + 1
              /\ ckpt.hdr.cur = curSegs
              /\ pack[curCkpt].hdr = ckpt.hdr
        /\ pc = "sitj" =>
              /\ pack[curCkpt].jrn["nat"] = ckpt.jrn["nat"]
              /\ \A k \in Slots : k <= chunk * (JournalNr \div SitJournalBlk) =>
                    pack[curCkpt].jrn["sit"][k] = ckpt.jrn["sit"][k]

IInv == TypeOK /\ CommittedPackOK /\ MemoryOK /\ FlushOK /\ PackOK
===============================================================================
