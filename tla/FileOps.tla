-------------------------------- MODULE FileOps --------------------------------
(***************************************************************************)
(* The file operations of the F2FS simulator: CF2fsSimulator over its node *)
(* address table and its cache of node pages, as the testers call them,    *)
(* together with the reference file system (CReferenceFs) that the testers *)
(* keep and compare with.                                                  *)
(*                                                                         *)
(* A file is an inode, whose index table names index nodes, whose entries  *)
(* are the data blocks; a directory is a file of dentry blocks (module     *)
(* Dentries).  A data block goes to the log when it is written, a node     *)
(* page stays dirty in the cache until it is flushed; the address table    *)
(* says where in the log a node is, and a checkpoint saves the table.      *)
(* Here the table holds the content of the node at that address, and an    *)
(* index node the content of its data blocks: the log keeps a block for as *)
(* long as an image on the disk needs it (module Segments), and a          *)
(* checkpoint is atomic (module Checkpoint).                               *)
(*                                                                         *)
(* The log may refuse a block for lack of space; Refusals says where.      *)
(***************************************************************************)
EXTENDS Dentries, Sequences

CONSTANTS
    InUse,          \* NID_IN_USE: a node that is not in the log yet
    NodeNr,         \* NODE_NR
    IndexSize,      \* INDEX_SIZE: the blocks of an index node
    IndexTable,     \* INDEX_TABLE_SIZE: the index nodes of an inode
    MaxFile,        \* bound: the blocks of a file
    Lengths,        \* bound: the blocks of a write
    MaxOpen,        \* MAX_OPEN_FILE
    MaxOps,         \* bound: the steps of a behaviour
    MaxGc,          \* bound: the first steps, among which are those of the collector
    Refusals        \* which blocks the log may refuse

Root == 0
Nid == 0 .. NodeNr - 1

(* A directory has one index node, as with the constants of the code (15     *)
(* blocks at most, 32 in an index node).                                     *)
ASSUME FileAssumption ==
    /\ NodeNr \in Nat \ {0} /\ Fids = Nid
    /\ IndexSize \in Nat \ {0} /\ IndexTable \in Nat \ {0}
    /\ IndexSize >= 2 ^ MaxLevel - 1
    /\ MaxFile \in 0 .. IndexSize * IndexTable /\ Lengths \subseteq 1 .. MaxFile
    /\ MaxOpen \in Nat /\ MaxOps \in Nat /\ MaxGc \in Nat
    /\ Refusals \subseteq {"estimate", "file", "dentry", "inode"}

VARIABLES
    fs,     \* the file system: see Fs
    prior,  \* the table on the disk before the last operation
    ref,    \* CReferenceFs: what each path should be
    refAt,  \* the reference at the last checkpoint, and when prior was it
    ops,    \* steps made: operations, and blocks moved
    view    \* auxiliary: the trees of fs, of its last checkpoint and of prior

vars == <<fs, prior, ref, refAt, ops, view>>

-------------------------------------------------------------------------------
(***************************************************************************)
(* Nodes, the address table and the page cache                             *)
(***************************************************************************)
Idx == 0 .. IndexTable - 1
Off == 0 .. IndexSize - 1

FileData == [fid : Nid, off : 0 .. MaxFile - 1]

Inode == [type : {"dir", "file"}, size : 0 .. IndexSize * IndexTable,
          blks : Nat, nlink : {0, 1}, index : [Idx -> Nid \cup {None}]]
IndexNode == [type : {"index"}, ino : Nid, valid : 0 .. IndexSize,
              data : [Off -> FileData \cup DentryBlock \cup {None}]]
Node == Inode \cup IndexNode

\* A cached page: its content, its dirty flag, the reference count of an inode.
Page == [page : Node, dirty : BOOLEAN, ref : {0, 1}]

\* What the log refuses: a block, and what of it.
Refusal == Nat \X {"estimate", "index", "data"}

ASSUME MarkAssumption ==
    InUse # None /\ {None, InUse} \cap (Nid \cup FileData \cup Node \cup Page \cup Refusal) = {}

Fs == [nat : [Nid -> Node \cup {None, InUse}],  \* the address table
       next : 0 .. NodeNr,                      \* next_scan
       free : 0 .. NodeNr,                      \* free_nr
       cache : [Nid -> Page \cup {None}],       \* node_cache
       open : SUBSET Nid,                       \* m_open_files
       saved : [Nid -> Node \cup {None, InUse}],\* the table on the disk
       failed : BOOLEAN]                        \* an exception has been thrown

NewInode(type) ==
    [type |-> type, size |-> 0, blks |-> 0, nlink |-> 0, index |-> [i \in Idx |-> None]]

NewIndex(ino) ==
    [type |-> "index", ino |-> ino, valid |-> 0, data |-> [o \in Off |-> None]]

\* What a reader of node n sees: the cached page before the log.
Content(f) == [n \in Nid |-> IF f.cache[n] # None THEN f.cache[n].page ELSE f.nat[n]]

ReadNode(f, n) ==
    IF f.cache[n] # None THEN f
    ELSE [f EXCEPT !.cache[n] = [page |-> f.nat[n], dirty |-> FALSE, ref |-> 0]]

\* Mutant: the page is not marked.
ModifyClean(f, n, node) == [ReadNode(f, n) EXCEPT !.cache[n].page = node]

Modify(f, n, node) ==
    [ReadNode(f, n) EXCEPT !.cache[n].page = node, !.cache[n].dirty = TRUE]

\* The pages of S that are dirty are written to the log.
DirtyPages(f) == {n \in Nid : f.cache[n] # None /\ f.cache[n].dirty}
Written(f, S) ==
    [n \in Nid |-> IF n \in S \cap DirtyPages(f) THEN f.cache[n].page ELSE f.nat[n]]

\* get_node: the next free node from next_scan on, around the end.
NextFree(f) ==
    LET free  == {n \in Nid : f.nat[n] = None}
        ahead == {n \in free : f.next < NodeNr => n >= f.next}
    IN  Min(IF ahead = {} THEN free ELSE ahead)

TakeNode(f) ==
    [f EXCEPT !.nat[NextFree(f)] = InUse, !.next = NextFree(f) + 1, !.free = @ - 1]

\* put_node
PutNode(f, n) == [f EXCEPT !.nat[n] = None, !.cache[n] = None, !.free = @ + 1]

\* Mutant: the index nodes stay in the cache only.
SyncFsInodes(f) ==
    LET S == {n \in Nid : f.cache[n] # None /\ f.cache[n].page.type # "index"}
    IN  [f EXCEPT !.nat = Written(f, S), !.saved = Written(f, S),
                  !.cache = [n \in Nid |-> IF n \in S THEN [@[n] EXCEPT !.dirty = FALSE] ELSE @[n]]]

\* sync_fs: every dirty page is written, then the checkpoint.
SyncFs(f) ==
    [f EXCEPT !.nat = Written(f, Nid), !.saved = Written(f, Nid),
              !.cache = [n \in Nid |-> IF @[n] = None THEN None ELSE [@[n] EXCEPT !.dirty = FALSE]]]

-------------------------------------------------------------------------------
(***************************************************************************)
(* Files                                                                   *)
(***************************************************************************)

\* The index nodes of an inode that are below its size.
IndexNodes(inode) == {inode.index[i] : i \in {k \in Idx : k * IndexSize < inode.size}} \ {None}

\* Block b of a file, where c is the content of the nodes.
BlockAt(c, ino, b) ==
    LET i == c[ino].index[b \div IndexSize]
    IN  IF i = None THEN None ELSE c[i].data[b % IndexSize]

DirFile(c, ino) ==
    [size |-> c[ino].size, blk |-> [b \in BlkNr |-> BlockAt(c, ino, b)]]

\* FileReadInternal of a directory: its inode and its index node are cached.
ReadDir(f, ino) ==
    LET g == ReadNode(f, ino)
        i == g.cache[ino].page.index[0]
    IN  IF i = None THEN g ELSE ReadNode(g, i)

(* OffsetToIndex for a hole: a new index node, for which a block of the log  *)
(* is reserved; when that is refused the inode has the node all the same.    *)
AddIndex(f, ino, i, granted) ==
    LET n == NextFree(f)
        inode == f.cache[ino].page
        g == Modify(TakeNode(f), ino, [inode EXCEPT !.index[i] = n])
    IN  [g EXCEPT !.nat[n] = IF granted THEN NewIndex(ino) ELSE InUse,
                  !.cache[n] = [page |-> NewIndex(ino), dirty |-> ~granted, ref |-> 0]]

\* Mutant: a block written again is counted again.
WriteBlockCountsAll(f, ino, b, data) ==
    LET i == f.cache[ino].page.index[b \div IndexSize]
        g == ReadNode(f, i)
        h == Modify(g, i, [g.cache[i].page EXCEPT !.valid = @ + 1, !.data[b % IndexSize] = data])
    IN  Modify(h, ino, [h.cache[ino].page EXCEPT !.blks = @ + 1])

\* Mutant: the inode does not count a new block.
WriteBlockUncounted(f, ino, b, data) ==
    LET i == f.cache[ino].page.index[b \div IndexSize]
        g == ReadNode(f, i)
        node == g.cache[i].page
        new == IF node.data[b % IndexSize] = None THEN 1 ELSE 0
    IN  Modify(g, i, [node EXCEPT !.valid = @ + new, !.data[b % IndexSize] = data])

\* An index node with another block, and an inode with one block more.
WithData(node, o, data) ==
    [node EXCEPT !.valid = IF node.data[o] = None THEN @ + 1 ELSE @, !.data[o] = data]
OneMore(inode) == [inode EXCEPT !.blks = @ + 1]

\* A data block of FileWriteInternal, and what the nodes keep of it.
WriteBlock(f, ino, b, data) ==
    LET i == f.cache[ino].page.index[b \div IndexSize]
        node == ReadNode(f, i).cache[i].page
        h == Modify(f, i, WithData(node, b % IndexSize, data))
    IN  IF node.data[b % IndexSize] = None THEN Modify(h, ino, OneMore(h.cache[ino].page)) ELSE h

(* A round of the loop of FileWriteInternal, for block b: s.at is the first  *)
(* block not written.  The loop has ended where a block was not.             *)
WriteRound(s, ino, b, data, no) ==
    LET hole == s.fs.cache[ino].page.index[b \div IndexSize] = None
        g == IF hole THEN AddIndex(s.fs, ino, b \div IndexSize, TRUE) ELSE s.fs
    IN  IF s.at < b \/ (hole /\ s.fs.free = 0) THEN s
        ELSE IF hole /\ no = <<b, "index">>
        THEN [s EXCEPT !.fs = AddIndex(@, ino, b \div IndexSize, FALSE)]
        ELSE IF no = <<b, "data">> THEN [s EXCEPT !.fs = g]
        ELSE [fs |-> WriteBlock(g, ino, b, data[b]), at |-> b + 1]

(* FileWriteInternal of the blocks from .. to - 1, where data[b] is block b  *)
(* and no says what the log refuses: nothing (None), the estimate, or the    *)
(* index node or the data block of one block.  It ends there, or where there *)
(* is no node left.                                                          *)
FileWriteInternal(f, ino, from, to, data, no) ==
    LET upTo[k \in from .. to] ==
          IF k = from THEN [fs |-> f, at |-> from]
          ELSE WriteRound(upTo[k - 1], ino, k - 1, data, no)
    IN  IF no = <<from, "estimate">> THEN [fs |-> f, at |-> from] ELSE upTo[to]

\* The blocks from .. to - 1 that an index node names, and those that are no holes.
Span(i, from, to) == {b \in from .. to - 1 : b \div IndexSize = i}
Used(c, ino, i, from, to) == {b \in Span(i, from, to) : BlockAt(c, ino, b) # None}

\* The index nodes of these blocks up to the first hole of the index table.
Reaches(inode, from, to) ==
    {i \in Idx : /\ Span(i, from, to) # {}
                 /\ \A k \in 0 .. i : Span(k, from, to) # {} => inode.index[k] # None}

\* Those that hold no other block.
Emptied(c, ino, from, to) ==
    {i \in Reaches(c[ino], from, to) :
        c[c[ino].index[i]].valid = Cardinality(Used(c, ino, i, from, to))}

\* What is left of the index node of entry i, and of the inode.
CutIndex(c, ino, i, from, to) ==
    [c[c[ino].index[i]] EXCEPT
        !.valid = @ - Cardinality(Used(c, ino, i, from, to)),
        !.data = [o \in Off |-> IF i * IndexSize + o \in Span(i, from, to) THEN None ELSE @[o]]]

CutInode(c, ino, from, to) ==
    [c[ino] EXCEPT
        !.blks = @ - Cardinality(UNION {Used(c, ino, i, from, to) : i \in Reaches(c[ino], from, to)}),
        !.index = [i \in Idx |-> IF i \in Emptied(c, ino, from, to) THEN None ELSE @[i]]]

\* The page of a node that is not put back.
CutPage(f, ino, from, to, n) ==
    LET c == Content(f)
        reached == Reaches(c[ino], from, to)
        mine == {i \in reached \ Emptied(c, ino, from, to) : c[ino].index[i] = n}
        used == UNION {Used(c, ino, i, from, to) : i \in IF n = ino THEN reached ELSE mine}
        dirty == n \in DirtyPages(f) \/ used # {}
    IN  IF n = ino THEN [page |-> CutInode(c, ino, from, to), dirty |-> dirty, ref |-> f.cache[n].ref]
        ELSE IF mine = {} THEN f.cache[n]
        ELSE [page |-> CutIndex(c, ino, CHOOSE i \in mine : TRUE, from, to), dirty |-> dirty, ref |-> 0]

\* The index nodes that are put back.
Gone(c, ino, from, to) == {c[ino].index[i] : i \in Emptied(c, ino, from, to)}

(* The loop frees the page of an index node at every block where it finds it *)
(* empty; the second time is an exception: it is empty before the last.      *)
FreedTwice(c, ino, from, to) ==
    \E i \in Reaches(c[ino], from, to) :
        /\ Span(i, from, to) # {Max(Span(i, from, to))}
        /\ c[c[ino].index[i]].valid = Cardinality(Used(c, ino, i, from, to) \ {Max(Span(i, from, to))})

(* FileTruncateInternal of the blocks from .. to - 1: an index node that     *)
(* holds no block any more is put back.  The loop stops looking for index    *)
(* nodes at the first hole of the index table.                               *)
Truncate(f, ino, from, to) ==
    LET c == Content(f)
        gone == Gone(c, ino, from, to)
        pages == {ino} \cup {c[ino].index[i] : i \in Idx}
    IN  [f EXCEPT
          !.nat = [n \in Nid |-> IF n \in gone THEN None ELSE @[n]],
          !.free = @ + Cardinality(gone),
          !.failed = @ \/ FreedTwice(c, ino, from, to),
          !.cache = [n \in Nid |-> IF n \in gone THEN None
                                   ELSE IF n \in pages THEN CutPage(f, ino, from, to, n) ELSE @[n]]]

FileRemove(f, ino) == PutNode(Truncate(f, ino, 0, f.cache[ino].page.size), ino)

\* The pages that CloseInode writes and drops.
PagesOf(f, ino) == {ino} \cup IndexNodes(f.cache[ino].page)

(* CloseInode: nothing while the inode is referenced; an inode without a     *)
(* name is removed; else its pages are written and dropped.                  *)
CloseInode(f, ino) ==
    IF f.cache[ino].ref # 0 THEN f
    ELSE IF f.cache[ino].page.nlink = 0 THEN FileRemove(f, ino)
    ELSE [f EXCEPT !.nat = Written(f, PagesOf(f, ino)),
                   !.cache = [n \in Nid |-> IF n \in PagesOf(f, ino) THEN None ELSE @[n]]]

(* add_link: the size is grown first, then the dentry block written.         *)
add_link(f, dir, name, fid, no) ==
    LET d == DirFile(Content(f), dir)
        b == BlockOf[Place(d, name).level][name]
        g == IF Place(d, name).size = d.size THEN f
             ELSE Modify(f, dir, [f.cache[dir].page EXCEPT !.size = Place(d, name).size])
        data == [x \in {b} |-> LinkBlock(d, name, fid)]
        s == FileWriteInternal(g, dir, b, b + 1, data, IF no = None THEN None ELSE <<b, no>>)
    IN  IF HasPlace(d, name) THEN [fs |-> s.fs, ok |-> s.at > b] ELSE [fs |-> f, ok |-> FALSE]

\* Mutant: the checkpoint is left to the next operation.
unlinkNoSync(f, dir, name, fid) ==
    LET d == DirFile(Content(f), dir)
        b == LinkAt(d, name, fid).blk
        data == [x \in {b} |-> UnlinkBlock(d, name, fid)]
    IN  IF UnlinkWrites(d, name, fid)
        THEN FileWriteInternal(f, dir, b, b + 1, data, None).fs
        ELSE Truncate(f, dir, b, b + 1)

\* unlink: the dentry block is written, or truncated when it is empty; then sync_fs.
unlink(f, dir, name, fid) ==
    LET d == DirFile(Content(f), dir)
        b == LinkAt(d, name, fid).blk
        data == [x \in {b} |-> UnlinkBlock(d, name, fid)]
    IN  SyncFs(IF UnlinkWrites(d, name, fid)
               THEN FileWriteInternal(f, dir, b, b + 1, data, None).fs
               ELSE Truncate(f, dir, b, b + 1))

-------------------------------------------------------------------------------
(***************************************************************************)
(* Paths                                                                   *)
(***************************************************************************)
IsInode(node) == node \notin {None, InUse} /\ node.type # "index"
IsDir(node) == IsInode(node) /\ node.type = "dir"

\* FileOpenInternal: the node of a path, None if there is none.
Lookup(c, p) ==
    LET first == FindFile(DirFile(c, Root), p[1])
    IN  IF Len(p) = 1 THEN first
        ELSE IF first = None \/ ~IsDir(c[first]) THEN None
        ELSE FindFile(DirFile(c, first), p[2])

Parent(c, p) == IF Len(p) = 1 THEN Root ELSE Lookup(c, <<p[1]>>)

\* The directories on the way to a path are read.
Walk(f, p) ==
    LET g == ReadDir(f, Root)
    IN  IF Len(p) = 1 THEN g ELSE ReadDir(g, Parent(Content(g), p))

\* What a file system with this content shows: a name without an inode is lost.
Tree(c) ==
    [p \in {q \in Paths : Lookup(c, q) # None} |->
        LET node == c[Lookup(c, p)]
        IN  IF ~IsInode(node) THEN [type |-> "lost", size |-> 0]
            ELSE [type |-> node.type, size |-> IF node.type = "dir" THEN 0 ELSE node.size]]

View(f, old) == [tree |-> Tree(Content(f)), base |-> Tree(f.saved), prev |-> Tree(old)]

-------------------------------------------------------------------------------
(***************************************************************************)
(* The operations of the simulator                                         *)
(***************************************************************************)

(* The operations that write are the set of their outcomes, which depend on  *)
(* what the log refuses.                                                     *)

(* What it may refuse of a dentry block: the estimate or, where that passes  *)
(* (it wraps around when the free blocks are below the reserve), the index   *)
(* node or the block itself; and of a new file the inode.                    *)
DentryRefusals ==
    {None} \cup (Refusals \cap {"estimate"})
           \cup (IF "dentry" \in Refusals THEN {"index", "data"} ELSE {})
InodeRefusals == {FALSE} \cup {"inode" \in Refusals}

(* InternalCreatreFile: a node, the name in the parent, the inode, the       *)
(* checkpoint.  When the inode is refused the node is put back, and the name *)
(* stays.                                                                    *)
Created(f, p, type, no, noInode) ==
    LET g == Walk(f, p)
        parent == Parent(Content(g), p)
        fid == NextFree(g)
        link == add_link(TakeNode(g), parent, p[Len(p)], fid, no)
        inode == [NewInode(type) EXCEPT !.nlink = 1]
        made == [link.fs EXCEPT !.nat[fid] = inode,
                                !.cache[fid] = [page |-> inode, dirty |-> FALSE, ref |-> 1]]
    IN  IF g.free = 0 THEN [fs |-> CloseInode(g, parent), fid |-> None]
        ELSE IF ~link.ok \/ noInode
        THEN [fs |-> PutNode(CloseInode(link.fs, parent), fid), fid |-> None]
        ELSE [fs |-> SyncFs(CloseInode(made, parent)), fid |-> fid]

InternalCreate(f, p, type) ==
    {Created(f, p, type, no, noInode) : no \in DentryRefusals, noInode \in InodeRefusals}

\* FileCreate: the new file is open.
FileCreate(f, p) ==
    {IF r.fid = None THEN r ELSE [r EXCEPT !.fs.open = @ \cup {r.fid}] :
        r \in InternalCreate(f, p, "file")}

\* DirCreate: the new directory is closed.
DirCreate(f, p) ==
    {IF r.fid = None THEN r
     ELSE [r EXCEPT !.fs = CloseInode([@ EXCEPT !.cache[r.fid].ref = 0], r.fid)] :
        r \in InternalCreate(f, p, "dir")}

\* FileDelete, and the same of DirDelete.
Delete(f, p) ==
    LET g == Walk(f, p)
        parent == Parent(Content(g), p)
        fid == Lookup(Content(g), p)
        h == unlink(ReadNode(g, fid), parent, p[Len(p)], fid)
    IN  CloseInode(CloseInode([h EXCEPT !.cache[fid].page.nlink = @ - 1], fid), parent)

\* DirDelete: only of a directory without names.
DirDelete(f, p) ==
    LET g == Walk(f, p)
        fid == Lookup(Content(g), p)
        h == ReadDir(g, fid)
    IN  IF GetChildNumber(DirFile(Content(h), fid)) = 0 THEN [fs |-> Delete(h, p), ok |-> TRUE]
        ELSE [fs |-> CloseInode(CloseInode(h, fid), Parent(Content(h), p)), ok |-> FALSE]

(* FileMove to another name in the same directory: the new name is added,    *)
(* the old one removed.                                                      *)
Moved(f, p, name, no) ==
    LET parent == Parent(Content(f), p)
        fid == Lookup(Content(f), p)
        link == add_link(f, parent, name, fid, no)
    IN  [link EXCEPT !.fs = CloseInode(IF link.ok THEN unlink(@, parent, p[Len(p)], fid) ELSE @,
                                       parent)]

FileMove(f, p, name) == {Moved(Walk(f, p), p, name, no) : no \in DentryRefusals}

FileOpen(f, p) ==
    LET g == Walk(f, p)
        fid == Lookup(Content(g), p)
        h == CloseInode(g, Parent(Content(g), p))
    IN  IF Cardinality(h.open) >= MaxOpen THEN h
        ELSE [ReadNode(h, fid) EXCEPT !.cache[fid].ref = 1, !.open = @ \cup {fid}]

\* FileClose: a checkpoint if CloseInode had anything to write or to remove.
FileClose(f, fid) ==
    LET g == [f EXCEPT !.cache[fid].ref = 0, !.open = @ \ {fid}]
        dirty == g.cache[fid].page.nlink = 0 \/ PagesOf(g, fid) \cap DirtyPages(g) # {}
    IN  IF dirty THEN SyncFs(CloseInode(g, fid)) ELSE CloseInode(g, fid)

\* What the log may refuse of the blocks of a file.
FileRefusals(from, to) ==
    {None} \cup ({from} \X (Refusals \cap {"estimate"}))
           \cup (IF "file" \in Refusals THEN (from .. to - 1) \X {"index", "data"} ELSE {})

\* Mutant: the size is set to what was asked for.
GrownAsked(s, fid, from, to) ==
    LET inode == s.fs.cache[fid].page
    IN  IF s.at = from THEN s
        ELSE [s EXCEPT !.fs = Modify(@, fid, [inode EXCEPT !.size = Max({@, to})])]

\* The size grows by what was written.
Grown(s, fid, from, to) ==
    LET inode == s.fs.cache[fid].page
    IN  IF s.at = from THEN s
        ELSE [s EXCEPT !.fs = Modify(@, fid, [inode EXCEPT !.size = Max({@, s.at})])]

FileWrite(f, fid, from, to) ==
    LET data == [b \in from .. to - 1 |-> [fid |-> fid, off |-> b]]
    IN  {Grown(s, fid, from, to) :
            s \in {FileWriteInternal(f, fid, from, to, data, no) : no \in FileRefusals(from, to)}}

-------------------------------------------------------------------------------
(***************************************************************************)
(* Mounting and checking                                                   *)
(***************************************************************************)

\* Mount (and build_free): the table is loaded, the root inode cached for good.
Mount(image) ==
    LET free == {n \in Nid : image[n] = None}
    IN  [nat |-> image, saved |-> image, open |-> {}, failed |-> FALSE,
         next |-> IF free = {} THEN NodeNr ELSE Min(free),
         free |-> Cardinality(free),
         cache |-> [n \in Nid |-> IF n # Root THEN None
                                  ELSE [page |-> image[n], dirty |-> FALSE, ref |-> 1]]]

\* The inode numbers in a data block, with their slots.
Entries(block) ==
    IF block = None \/ "dentries" \notin DOMAIN block THEN {}
    ELSE {<<s, block.dentries[s].ino>> : s \in {t \in Slot : block.dentries[t] # None}}

\* The nodes that node n names: <<n, where, slot, node>>.
Links(c, n) ==
    IF c[n] \in {None, InUse} THEN {}
    ELSE IF c[n].type = "index"
    THEN UNION {{<<n, o, e[1], e[2]>> : e \in Entries(c[n].data[o])} : o \in Off}
    ELSE {<<n, i, 0, c[n].index[i]>> : i \in {k \in Idx : c[n].index[k] # None}}

\* The nodes that the check finds from the root on.
Reached(c) ==
    LET within[k \in 0 .. NodeNr] ==
          IF k = 0 THEN {Root}
          ELSE LET r == within[k - 1]
               IN  r \cup {l[4] : l \in UNION {Links(c, n) : n \in r}}
    IN  within[NodeNr]

(* fsck does not throw: every node that is named is named once, is there, is *)
(* of the right type, and the counts of blocks are right.                    *)
FsckPasses(c) ==
    LET reached == Reached(c)
        links == UNION {Links(c, n) : n \in reached}
        held(n) == {o \in Off : c[n].data[o] # None}
    IN  /\ \A l \in links : l[4] # Root /\ c[l[4]] \notin {None, InUse}
        /\ \A l \in links : (c[l[1]].type = "index") <=> IsInode(c[l[4]])
        /\ \A k, l \in links : k[4] = l[4] => k = l
        /\ \A n \in reached :
             IF c[n].type = "index" THEN c[n].valid = Cardinality(held(n))
             ELSE c[n].blks = Cardinality(UNION {{i} \X held(i) :
                                 i \in {c[n].index[k] : k \in Idx} \ {None}})

\* fsck_verify with fix: the nodes that were not found are put back.
Fixed(c) == [n \in Nid |-> IF n \in Reached(c) THEN c[n] ELSE None]

(* VerifyState: the paths, types and sizes are those of the reference r, and *)
(* every block holds the data written there.                                 *)
Verifies(c, r) ==
    /\ Tree(c) = [p \in DOMAIN r |-> [type |-> r[p].type, size |-> r[p].size]]
    /\ \A p \in DOMAIN r : r[p].type = "file" =>
         \A b \in 0 .. r[p].size - 1 :
            BlockAt(c, Lookup(c, p), b) = [fid |-> Lookup(c, p), off |-> b]

\* Verifying opens and closes every file: the root directory stays cached.
AfterVerify(f, r) ==
    IF ~Verifies(Content(f), r) THEN [f EXCEPT !.failed = TRUE]
    ELSE IF DOMAIN r = {} THEN f ELSE ReadDir(f, Root)

\* An open file is closed by force.
ForceClose(f, fid) ==
    IF fid \in f.open THEN CloseInode([f EXCEPT !.cache[fid].ref = 0], fid) ELSE f

\* Unmount (every open file is closed, in some order, then sync_fs), Reset and Mount.
Remount(f) ==
    LET closed[n \in 0 .. NodeNr] == IF n = 0 THEN f ELSE ForceClose(closed[n - 1], n - 1)
    IN  Mount(SyncFs(closed[NodeNr]).saved)

-------------------------------------------------------------------------------
(***************************************************************************)
(* The testers: an operation on the file system, and the same on the       *)
(* reference when it succeeds                                              *)
(***************************************************************************)
TypeOK ==
    /\ fs \in Fs /\ prior \in [Nid -> Node \cup {None, InUse}]
    /\ \A r \in {ref, refAt.saved, refAt.prior} :
         /\ DOMAIN r \subseteq Paths
         /\ \A p \in DOMAIN r : r[p] \in [type : {"dir", "file"}, size : 0 .. MaxFile,
                                           fid : Nid, open : BOOLEAN]
    /\ ops \in 0 .. MaxOps

NoPaths == [p \in {} |-> [type |-> "file", size |-> 0, fid |-> Root, open |-> FALSE]]

\* Initialzie: a root directory, and a checkpoint.
Init ==
    LET image == [n \in Nid |-> IF n = Root THEN NewInode("dir") ELSE None]
    IN  /\ fs = Mount(image) /\ prior = image
        /\ ref = NoPaths /\ refAt = [saved |-> NoPaths, prior |-> NoPaths]
        /\ ops = 0 /\ view = View(fs, prior)

Ready == ops < MaxOps /\ ~fs.failed

\* Demount of the reference: every file is closed.
Closed(r) == [p \in DOMAIN r |-> [r[p] EXCEPT !.open = FALSE]]

\* An operation ends with file system f and reference r.
Done(f, r) ==
    /\ fs' = f /\ ref' = r
    /\ prior' = fs.saved
    /\ view' = View(f, fs.saved)
    /\ refAt' = [saved |-> IF f.saved = fs.saved THEN refAt.saved ELSE Closed(r),
                 prior |-> refAt.saved]
    /\ ops' = ops + 1

\* A new path of the reference, in a directory.
IsNew(p) ==
    /\ p \notin DOMAIN ref
    /\ Len(p) = 1 \/ (<<p[1]>> \in DOMAIN ref /\ ref[<<p[1]>>].type = "dir")

AddPath(p, type, fid) ==
    [q \in DOMAIN ref \cup {p} |->
        IF q = p THEN [type |-> type, size |-> 0, fid |-> fid, open |-> type = "file"] ELSE ref[q]]

TestCreateFile(p) ==
    /\ Ready /\ IsNew(p) /\ Cardinality(fs.open) < MaxOpen
    /\ \E r \in FileCreate(fs, p) :
         Done(r.fs, IF r.fid = None THEN ref ELSE AddPath(p, "file", r.fid))

TestCreateDir(p) ==
    /\ Ready /\ IsNew(p)
    /\ \E r \in DirCreate(fs, p) :
         Done(r.fs, IF r.fid = None THEN ref ELSE AddPath(p, "dir", r.fid))

RemoveFile(p) == [q \in DOMAIN ref \ {p} |-> ref[q]]

\* Only a closed file is deleted.
TestDeleteFile(p) ==
    /\ Ready /\ ref[p].type = "file" /\ ~ref[p].open
    /\ \E f \in {Delete(fs, p)} : Done(f, RemoveFile(p))

TestDeleteDir(p) ==
    /\ Ready /\ ref[p].type = "dir" /\ \A q \in DOMAIN ref : Len(q) > Len(p) => q[1] # p[1]
    /\ \E r \in {DirDelete(fs, p)} :
         Done([r.fs EXCEPT !.failed = @ \/ ~r.ok], IF r.ok THEN RemoveFile(p) ELSE ref)

\* MoveFile: the paths below a directory get its new name.
MoveFile(p, q) ==
    LET below(x, top) == Len(x) >= Len(top) /\ SubSeq(x, 1, Len(top)) = top
        moved == {x \in DOMAIN ref : below(x, p)}
        from(y) == p \o SubSeq(y, Len(p) + 1, Len(y))
        to(x) == q \o SubSeq(x, Len(p) + 1, Len(x))
    IN  [y \in (DOMAIN ref \ moved) \cup {to(x) : x \in moved} |->
            IF below(y, q) THEN ref[from(y)] ELSE ref[y]]

\* A closed file or a directory gets another name in its directory.
TestMoveFile(p, name) ==
    LET q == [p EXCEPT ![Len(p)] = name] IN
    /\ Ready /\ ~ref[p].open /\ q \notin DOMAIN ref
    /\ \E r \in FileMove(fs, p, name) : Done(r.fs, IF r.ok THEN MoveFile(p, q) ELSE ref)

TestOpenFile(p) ==
    /\ Ready /\ ref[p].type = "file" /\ ~ref[p].open
    /\ \E f \in {FileOpen(fs, p)} :
         Done(f, IF f.open = fs.open THEN ref ELSE [ref EXCEPT ![p].open = TRUE])

TestCloseFile(p) ==
    /\ Ready /\ ref[p].open
    /\ \E f \in {FileClose(fs, ref[p].fid)} : Done(f, [ref EXCEPT ![p].open = FALSE])

\* The blocks from .. to - 1 are written, or those before the log refuses one.
TestWriteFile(p, from, to) ==
    /\ Ready /\ ref[p].open /\ from <= ref[p].size /\ to <= MaxFile
    /\ \E w \in FileWrite(fs, ref[p].fid, from, to) :
         Done(w.fs, [ref EXCEPT ![p].size = Max({@, w.at})])

TestMount ==
    /\ Ready
    /\ \E f \in {Remount(fs)} : Done(AfterVerify(f, ref), Closed(ref))

(* TestPowerOutage and VerifyForPower: the disk holds the table of the last  *)
(* checkpoint, or the one before the last operation: a copied state starts   *)
(* its own count of writes to take back (CStorage::CopyFrom).  The statistic *)
(* tester, which keeps one file system and may go back further, is not       *)
(* modelled.  fsck repairs the disk, and the latest reference that verifies  *)
(* becomes the current one.                                                  *)
TestPowerOutage(image) ==
    LET history == <<ref, refAt.saved, refAt.prior>>
        match(m) == {i \in 1 .. 3 : Verifies(Content(m), history[i])}
    IN
    /\ Ready
    /\ \E m \in {Mount(Fixed(image))} : \E i \in {Min(match(m) \cup {3})} :
         \E r \in {Closed(history[i])} :
           /\ fs' = [AfterVerify(m, r) EXCEPT !.failed = @ \/ ~FsckPasses(image)]
           /\ ref' = r /\ refAt' = [saved |-> r, prior |-> r]
           /\ prior' = image /\ view' = View(m, image)
    /\ ops' = ops + 1

(* Garbage collection moves a node block: the page is cached, and what is    *)
(* written is the cached page.  (With a clean page nothing changes here.)    *)
GcMoveNode(n) ==
    /\ Ready /\ ops < MaxGc /\ fs.nat[n] \notin {None, InUse}
    /\ fs.cache[n] = None \/ n \in DirtyPages(fs)
    /\ fs' = LET f == ReadNode(fs, n)
             IN  [f EXCEPT !.nat[n] = f.cache[n].page, !.cache[n].dirty = FALSE]
    /\ view' = View(fs', prior)
    /\ ops' = ops + 1
    /\ UNCHANGED <<prior, ref, refAt>>

\* It moves a data block: the index node is cached, and dirty from then on.
GcMoveData(n) ==
    LET node == Content(fs)[n] IN
    /\ Ready /\ ops < MaxGc
    /\ node \notin {None, InUse} /\ node.type = "index" /\ node.valid > 0
    /\ n \notin DirtyPages(fs)
    /\ fs' = Modify(fs, n, node)
    /\ view' = View(fs', prior)
    /\ ops' = ops + 1
    /\ UNCHANGED <<prior, ref, refAt>>

Next ==
    \/ \E p \in Paths : TestCreateFile(p) \/ TestCreateDir(p)
    \/ \E p \in DOMAIN ref :
          \/ TestDeleteFile(p)
          \/ TestDeleteDir(p)
          \/ \E name \in Names : TestMoveFile(p, name)
          \/ TestOpenFile(p)
          \/ TestCloseFile(p)
          \/ \E from \in 0 .. MaxFile, len \in Lengths : TestWriteFile(p, from, from + len)
    \/ TestMount
    \/ \E image \in {fs.saved, prior} : TestPowerOutage(image)
    \/ \E n \in Nid : GcMoveNode(n) \/ GcMoveData(n)

Spec == Init /\ [][Next]_vars

-------------------------------------------------------------------------------
(***************************************************************************)
(* Properties                                                              *)
(***************************************************************************)

(* After every operation the file system is what the reference says: the     *)
(* same paths, types, sizes and open files, each path with the inode the     *)
(* tester knows, and every block below a file's size holding the data        *)
(* written to it.  No operation throws.  It takes partial writes, refused    *)
(* names, reuse of node numbers and index nodes, cached pages of closed      *)
(* files and recovery to go wrong.                                           *)
RefMatches ==
    LET c == Content(fs) IN
    /\ ~fs.failed
    /\ Verifies(c, ref)
    /\ \A p \in DOMAIN ref : Lookup(c, p) = ref[p].fid
    /\ fs.open = {ref[p].fid : p \in {q \in DOMAIN ref : ref[q].open}}

(* The simulator implements a tree with atomic, crash-safe operations: what  *)
(* is in memory, what the last checkpoint would bring back and what a power  *)
(* loss during the last operation would bring back change together, by one   *)
(* operation at a time; creating, removing and renaming are durable when     *)
(* they return (sync_fs in InternalCreatreFile and unlink).                  *)
FT == INSTANCE FileTree WITH
        tree <- view.tree, base <- view.base, prev <- view.prev
ImplementsFileTree == FT!Spec

(* At every moment fsck accepts the table that a power loss would leave:     *)
(* although nodes are put back, taken again and flushed in any order, no     *)
(* checkpoint names a node that is free, of another type or named twice, and *)
(* its counts are right; all it may find are nodes that nobody names, those  *)
(* of a file deleted after its checkpoint (FileDelete).                      *)
FsckClean == FsckPasses(fs.saved)

(* In memory no node is lost or shared: free_nr counts the free nodes, which *)
(* get_node needs to end its scan, each node in use is named once, and the   *)
(* only nodes that nobody names are index nodes without blocks, which a      *)
(* write left beyond the end of a file that was then removed                 *)
(* (FileWriteInternal, FileRemove).                                          *)
NodesAccounted ==
    LET c == Content(fs) IN
    /\ fs.free = Cardinality({n \in Nid : fs.nat[n] = None})
    /\ FsckPasses(c)
    /\ \A n \in Nid \ Reached(c) :
         fs.nat[n] # None => c[n] # InUse /\ c[n].type = "index" /\ c[n].valid = 0

(* The page cache may be dropped at any time but for what is marked dirty:   *)
(* a clean page is the node in the log, a node that has no place in the log  *)
(* yet has a dirty page, and no page outlives its node (CloseInode, put_node *)
(* and the garbage collection each drop or clean pages on their own).        *)
CacheCoherent ==
    \A n \in Nid :
        /\ fs.cache[n] # None => fs.nat[n] # None
        /\ (fs.cache[n] # None /\ ~fs.cache[n].dirty) => fs.cache[n].page = fs.nat[n]
        /\ fs.nat[n] = InUse => n \in DirtyPages(fs)
===============================================================================
