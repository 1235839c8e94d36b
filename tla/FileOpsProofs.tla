---------------------------- MODULE FileOpsProofs -----------------------------
(***************************************************************************)
(* Proofs about FileOps, for any number of nodes, any names and hash, any  *)
(* sizes of the index tables and any length of the behaviours.             *)
(*                                                                         *)
(* The invariant (IInv) says that in memory there is exactly the tree of   *)
(* the reference, and on the disk the trees of the references of the last  *)
(* checkpoints.  TreeOK says what the tree of a reference is: its inodes   *)
(* are the root, one inode for each path, and perhaps some without a name  *)
(* (X); an inode is the file or the directory that the reference says; an  *)
(* index node belongs to one entry of one inode; the counts are right.     *)
(* PagesOK says how the cache stands to the address table.                 *)
(*                                                                         *)
(* The lemmas go from the bottom up: a page and the table; the nodes of    *)
(* one file and what an operation on them leaves of all other files        *)
(* (Local, Same); the entries of one directory (from DentriesProofs); the  *)
(* tree after a change of one directory or file; each operation of the     *)
(* simulator; each action of the testers (Ended, PowerLost, Kept).         *)
(***************************************************************************)
EXTENDS FileOps, DentriesProofs, TLAPS

-------------------------------------------------------------------------------
(* Nodes, trees and pages in order. *)

\* An index node.
IsIndex(node) == node \notin {None, InUse} /\ node.type = "index"

\* The blocks of a file; those an index node holds, and those of a file with their index nodes.
Blocks == 0 .. IndexSize * IndexTable - 1
Held(c, n) == {o \in Off : c[n].data[o] # None}
BlocksOf(c, n) ==
    {z \in Nid \X Off : (\E i \in Idx : c[n].index[i] = z[1]) /\ c[z[1]].data[z[2]] # None}

(* The nodes are in order: the entries of an index table are index nodes,    *)
(* each in one entry of one inode; the counts are right; an index node with  *)
(* blocks belongs to an inode.                                               *)
Indexed(c) ==
    \A n \in Nid, i \in Idx : IsInode(c[n]) /\ c[n].index[i] # None => IsIndex(c[c[n].index[i]])
Apart(c) ==
    \A m, n \in Nid, i, j \in Idx :
        IsInode(c[m]) /\ IsInode(c[n]) /\ c[m].index[i] # None /\ c[m].index[i] = c[n].index[j]
            => m = n /\ i = j
Counted(c) == \A n \in Nid : IsIndex(c[n]) => c[n].valid = Cardinality(Held(c, n))
Summed(c) == \A n \in Nid : IsInode(c[n]) => c[n].blks = Cardinality(BlocksOf(c, n))
Owned(c) ==
    \A n \in Nid : IsIndex(c[n]) /\ c[n].valid # 0 =>
        \E m \in Nid, i \in Idx : IsInode(c[m]) /\ c[m].index[i] = n

NodesOK(c) ==
    /\ c \in [Nid -> Node \cup {None, InUse}]
    /\ Indexed(c) /\ Apart(c) /\ Counted(c) /\ Summed(c) /\ Owned(c)

FileOK(c, n, size) ==
    /\ c[n].size = size
    /\ \A b \in Blocks :
         BlockAt(c, n, b) = IF b < size THEN [fid |-> n, off |-> b] ELSE None

DirNodeOK(c, n) ==
    /\ DirOK(DirFile(c, n))
    /\ \A i \in Idx \ {0} : c[n].index[i] = None
    /\ c[n].index[0] # None =>
         /\ \E b \in BlkNr : c[c[n].index[0]].data[b] # None
         /\ \A o \in Off \ BlkNr : c[c[n].index[0]].data[o] = None

RefFile == [type : {"dir", "file"}, size : 0 .. MaxFile, fid : Nid, open : BOOLEAN]

DirPaths(r) == {<<>>} \cup {p \in DOMAIN r : r[p].type = "dir"}
FidAt(r, p) == IF p = <<>> THEN Root ELSE r[p].fid
FidOrNone(r, p) == IF p \in DOMAIN r THEN r[p].fid ELSE None

\* The reference alone: paths with distinct inodes, each in a directory.
RefOK(r) ==
    /\ DOMAIN r \subseteq Paths
    /\ \A p \in DOMAIN r : r[p] \in RefFile /\ r[p].fid # Root /\ (r[p].type = "dir" => r[p].size = 0)
    /\ \A p, q \in DOMAIN r : r[p].fid = r[q].fid => p = q
    /\ \A p \in DOMAIN r : Len(p) = 2 => <<p[1]>> \in DirPaths(r)

\* The inodes: the root, those of the reference and those of X, which have no name.
FidsOf(r) == {r[p].fid : p \in DOMAIN r}
InodesAre(c, r, X) ==
    /\ {n \in Nid : IsInode(c[n])} = {Root} \cup FidsOf(r) \cup X
    /\ X \cap ({Root} \cup FidsOf(r)) = {}

\* What a path has, and what a directory names.
NodeIs(c, x) ==
    c[x.fid].nlink = 1 /\ c[x.fid].type = x.type /\ (x.type = "file" => FileOK(c, x.fid, x.size))
DirIs(c, r, p) ==
    /\ DirNodeOK(c, FidAt(r, p))
    /\ \A n \in Names : FindFile(DirFile(c, FidAt(r, p)), n) = FidOrNone(r, Append(p, n))

\* The nodes c are the tree of the reference r, and the inodes X.
TreeOK(c, r, X) ==
    /\ RefOK(r) /\ NodesOK(c) /\ InodesAre(c, r, X)
    /\ IsDir(c[Root]) /\ c[Root].nlink = 0
    /\ \A p \in DOMAIN r : NodeIs(c, r[p])
    /\ \A p \in DirPaths(r) : DirIs(c, r, p)

PageOK(a, q, pend) ==
    /\ q # None => a # None
    /\ q # None /\ ~q.dirty => q.page = a
    /\ a = InUse => (q # None /\ q.dirty) \/ pend
    /\ pend => a = InUse /\ q = None

PagesOK(f, P) ==
    /\ f \in Fs
    /\ f.free = Cardinality({n \in Nid : f.nat[n] = None})
    /\ \A n \in Nid : PageOK(f.nat[n], f.cache[n], n \in P)

Refs(f) == {n \in Nid : f.cache[n] # None /\ f.cache[n].ref = 1}
OpenFids(r) == {r[p].fid : p \in {q \in DOMAIN r : r[q].open}}
Skel(r) == [p \in DOMAIN r |-> r[p].fid]

\* The nodes with a page in the cache.
Cached(f) == {n \in Nid : f.cache[n] # None}

\* What most operations leave alone: the open files, the references, the disk.
Keeps(f, g) ==
    g.open = f.open /\ g.saved = f.saved /\ g.failed = f.failed /\ Refs(g) = Refs(f)

-------------------------------------------------------------------------------
(* The page cache. *)

\* The marks are neither nodes nor pages.
LEMMA Marks ==
  /\ None # InUse /\ None \notin Node /\ InUse \notin Node /\ None \notin Page
  /\ None \notin Nid /\ None \notin FileData /\ None \notin DentryBlock
BY MarkAssumption, NoneAssumption

\* The node numbers, the index table and the offsets.
LEMMA Ranges ==
  /\ NodeNr \in Nat \ {0} /\ IndexSize \in Nat \ {0} /\ IndexTable \in Nat \ {0}
  /\ Root \in Nid /\ 0 \in Idx /\ 0 \in Off /\ Fids = Nid
BY FileAssumption DEF Nid, Idx, Off, Root

\* The fields of a file system.
LEMMA FsIs ==
  ASSUME NEW f \in Fs
  PROVE  /\ f.nat \in [Nid -> Node \cup {None, InUse}] /\ f.cache \in [Nid -> Page \cup {None}]
         /\ f.next \in 0 .. NodeNr /\ f.free \in 0 .. NodeNr /\ f.open \in SUBSET Nid
         /\ f.saved \in [Nid -> Node \cup {None, InUse}] /\ f.failed \in BOOLEAN
BY DEF Fs

\* A page of the cache.
LEMMA PageIs ==
  ASSUME NEW f \in Fs, NEW n \in Nid, f.cache[n] # None
  PROVE  /\ f.cache[n] \in Page /\ f.cache[n].page \in Node /\ f.cache[n].dirty \in BOOLEAN
         /\ f.cache[n].ref \in {0, 1}
BY FsIs DEF Page

\* What a reader sees of a node, and what that says about the table.
LEMMA ContentIs ==
  ASSUME NEW f, NEW P, PagesOK(f, P), NEW n \in Nid
  PROVE  /\ Content(f)[n] = IF f.cache[n] # None THEN f.cache[n].page ELSE f.nat[n]
         /\ Content(f)[n] \in Node \cup {None, InUse}
         /\ Content(f)[n] = None <=> f.nat[n] = None
         /\ Content(f)[n] = InUse <=> n \in P
         /\ Content(f)[n] \in Node <=> Content(f)[n] \notin {None, InUse}
         /\ f.cache[n] # None => Content(f)[n] \in Node
<1>1. f \in Fs /\ PageOK(f.nat[n], f.cache[n], n \in P)  BY DEF PagesOK
<1>2. Content(f)[n] = IF f.cache[n] # None THEN f.cache[n].page ELSE f.nat[n]  BY DEF Content
<1>3. f.nat[n] \in Node \cup {None, InUse}  BY <1>1, FsIs
<1>4. CASE f.cache[n] # None
  <2>1. f.cache[n].page \in Node  BY <1>1, <1>4, PageIs
  <2> QED BY <1>1, <1>2, <1>4, <2>1, Marks DEF PageOK
<1>5. CASE f.cache[n] = None
  BY <1>1, <1>2, <1>3, <1>5, Marks DEF PageOK
<1> QED BY <1>4, <1>5

\* As a function of the nodes.
LEMMA ContentFun ==
  ASSUME NEW f, NEW P, PagesOK(f, P)
  PROVE  Content(f) \in [Nid -> Node \cup {None, InUse}]
BY ContentIs DEF Content

\* Two contents that agree on every node are equal.
LEMMA ContentEq ==
  ASSUME NEW f, NEW c, c = [n \in Nid |-> c[n]], \A n \in Nid : Content(f)[n] = c[n]
  PROVE  Content(f) = c
BY DEF Content

\* A page of a node in the cache is what a reader sees.
LEMMA PageSeen ==
  ASSUME NEW f, NEW n \in Cached(f)
  PROVE  n \in Nid /\ f.cache[n] # None /\ f.cache[n].page = Content(f)[n]
BY DEF Cached, Content

\* The address table and one page change, of a node that stays in use.
LEMMA OnePage ==
  ASSUME NEW f, NEW P, PagesOK(f, P), NEW g, NEW n \in Nid, NEW q \in Page,
         g \in Fs, g.nat = f.nat, g.free = f.free, g.cache = [f.cache EXCEPT ![n] = q],
         f.nat[n] # None, n \notin P, q.dirty \/ q.page = f.nat[n], f.nat[n] = InUse => q.dirty
  PROVE  /\ PagesOK(g, P) /\ Content(g) = [Content(f) EXCEPT ![n] = q.page]
         /\ Cached(g) = Cached(f) \cup {n}
         /\ Refs(g) = IF q.ref = 1 THEN Refs(f) \cup {n} ELSE Refs(f) \ {n}
<1>1. f \in Fs /\ q # None  BY Marks DEF PagesOK
<1>2. g.cache[n] = q /\ \A m \in Nid \ {n} : g.cache[m] = f.cache[m]  BY <1>1, FsIs
<1>3. ASSUME NEW m \in Nid PROVE PageOK(g.nat[m], g.cache[m], m \in P)
  <2>1. PageOK(f.nat[m], f.cache[m], m \in P)  BY DEF PagesOK
  <2>2. CASE m # n
    BY <1>2, <2>1, <2>2
  <2>3. CASE m = n
    BY <1>1, <1>2, <2>1, <2>3 DEF PageOK
  <2> QED BY <2>2, <2>3
<1>4. PagesOK(g, P)  BY <1>3 DEF PagesOK
<1>5. Content(g) = [Content(f) EXCEPT ![n] = q.page]  BY <1>1, <1>2 DEF Content
<1>6. Cached(g) = Cached(f) \cup {n}  BY <1>1, <1>2 DEF Cached
<1>7. Refs(g) = IF q.ref = 1 THEN Refs(f) \cup {n} ELSE Refs(f) \ {n}  BY <1>1, <1>2 DEF Refs
<1> QED BY <1>4, <1>5, <1>6, <1>7

\* Another cache makes a file system.
LEMMA FsCache ==
  ASSUME NEW f \in Fs, NEW C \in [Nid -> Page \cup {None}], NEW g, g = [f EXCEPT !.cache = C]
  PROVE  /\ g \in Fs /\ g.nat = f.nat /\ g.next = f.next /\ g.free = f.free /\ g.cache = C
         /\ g.open = f.open /\ g.saved = f.saved /\ g.failed = f.failed
BY DEF Fs

\* A node that is read is in the cache, and nothing else has changed.
LEMMA ReadNodeIs ==
  ASSUME NEW f, NEW P, PagesOK(f, P), NEW n \in Nid, Content(f)[n] \in Node,
         NEW g, g = ReadNode(f, n)
  PROVE  /\ PagesOK(g, P) /\ Content(g) = Content(f) /\ Cached(g) = Cached(f) \cup {n}
         /\ Keeps(f, g) /\ g.free = f.free
<1>1. CASE f.cache[n] # None
  <2>1. g = f  BY <1>1 DEF ReadNode
  <2> QED BY <1>1, <2>1 DEF Keeps, Cached
<1>2. CASE f.cache[n] = None
  <2>1. PICK q : q = [page |-> f.nat[n], dirty |-> FALSE, ref |-> 0]  OBVIOUS
  <2>2. f \in Fs /\ f.nat[n] = Content(f)[n] /\ n \notin P
    BY <1>2, ContentIs, Marks DEF PagesOK
  <2>3. q \in Page /\ q.page = f.nat[n] /\ q.ref # 1  BY <2>1, <2>2 DEF Page
  <2>4. PICK C : C = [f.cache EXCEPT ![n] = q]  OBVIOUS
  <2>5. C \in [Nid -> Page \cup {None}]  BY <2>2, <2>3, <2>4, FsIs
  <2>6. g = [f EXCEPT !.cache = C]  BY <1>2, <2>1, <2>4 DEF ReadNode
  <2>7. /\ g \in Fs /\ g.nat = f.nat /\ g.next = f.next /\ g.free = f.free /\ g.cache = C
        /\ g.open = f.open /\ g.saved = f.saved /\ g.failed = f.failed
    BY <2>2, <2>5, <2>6, FsCache
  <2>8. f.nat[n] # None /\ f.nat[n] # InUse  BY <2>2, Marks
  <2>9. /\ PagesOK(g, P) /\ Content(g) = [Content(f) EXCEPT ![n] = q.page]
        /\ Cached(g) = Cached(f) \cup {n}
        /\ Refs(g) = IF q.ref = 1 THEN Refs(f) \cup {n} ELSE Refs(f) \ {n}
    BY <2>2, <2>3, <2>4, <2>7, <2>8, OnePage
  <2>10. Content(g) = Content(f)  BY <2>2, <2>3, <2>9, ContentFun
  <2>11. Refs(g) = Refs(f)  BY <1>2, <2>3, <2>9 DEF Refs
  <2> QED BY <2>7, <2>9, <2>10, <2>11 DEF Keeps
<1> QED BY <1>1, <1>2

\* A page with another content.
LEMMA PageSet ==
  ASSUME NEW x \in Page, NEW node
  PROVE  [x EXCEPT !.page = node, !.dirty = TRUE] = [page |-> node, dirty |-> TRUE, ref |-> x.ref]
<1>1. PICK y : y = [x EXCEPT !.page = node, !.dirty = TRUE]  OBVIOUS
<1>2. y \in [page : {node}, dirty : {TRUE}, ref : {x.ref}]  BY <1>1 DEF Page
<1> QED BY <1>1, <1>2

\* A node that is modified is in the cache with its new content.
LEMMA ModifyIs ==
  ASSUME NEW f, NEW P, PagesOK(f, P), NEW n \in Nid, Content(f)[n] \in Node,
         NEW node \in Node, NEW g, g = Modify(f, n, node)
  PROVE  /\ PagesOK(g, P) /\ Content(g) = [Content(f) EXCEPT ![n] = node]
         /\ Cached(g) = Cached(f) \cup {n} /\ Keeps(f, g) /\ g.free = f.free
<1>1. PICK h : h = ReadNode(f, n)  OBVIOUS
<1>2. /\ PagesOK(h, P) /\ Content(h) = Content(f) /\ Cached(h) = Cached(f) \cup {n}
      /\ Keeps(f, h) /\ h.free = f.free
  BY <1>1, ReadNodeIs
<1>3. h \in Fs /\ h.cache[n] # None /\ n \notin P /\ h.nat[n] # None
  BY <1>2, ContentIs, Marks DEF PagesOK, Cached
<1>4. PICK q : q = [page |-> node, dirty |-> TRUE, ref |-> h.cache[n].ref]  OBVIOUS
<1>5. q \in Page /\ q.page = node /\ q.dirty /\ q.ref = h.cache[n].ref
  BY <1>3, <1>4, PageIs DEF Page
<1>6. PICK C : C = [h.cache EXCEPT ![n] = q]  OBVIOUS
<1>7. C \in [Nid -> Page \cup {None}]  BY <1>3, <1>5, <1>6, FsIs
<1>8. g = [h EXCEPT !.cache = C]
  <2>1. h.cache[n] \in Page  BY <1>3, PageIs
  <2>2. [h.cache[n] EXCEPT !.page = node, !.dirty = TRUE] = q  BY <1>4, <2>1, PageSet
  <2> QED BY <1>1, <1>3, <1>6, <2>2, FsIs DEF Modify
<1>9. /\ g \in Fs /\ g.nat = h.nat /\ g.next = h.next /\ g.free = h.free /\ g.cache = C
      /\ g.open = h.open /\ g.saved = h.saved /\ g.failed = h.failed
  BY <1>3, <1>7, <1>8, FsCache
<1>10. /\ PagesOK(g, P) /\ Content(g) = [Content(h) EXCEPT ![n] = q.page]
       /\ Cached(g) = Cached(h) \cup {n}
       /\ Refs(g) = IF q.ref = 1 THEN Refs(h) \cup {n} ELSE Refs(h) \ {n}
  BY <1>2, <1>3, <1>5, <1>6, <1>9, OnePage
<1>11. Refs(g) = Refs(h)  BY <1>3, <1>5, <1>10 DEF Refs
<1> QED BY <1>2, <1>5, <1>9, <1>10, <1>11 DEF Keeps

-------------------------------------------------------------------------------
(* Taking and putting back nodes, and writing pages. *)

\* The nodes that are free.
FreeSet(f) == {n \in Nid : f.nat[n] = None}

\* There are NODE_NR nodes.
LEMMA NidFinite == IsFiniteSet(Nid) /\ Cardinality(Nid) = NodeNr
<1>1. NodeNr \in Nat \ {0} /\ 0 \in Int /\ NodeNr - 1 \in Int  BY Ranges
<1> QED BY <1>1, FS_Interval DEF Nid

\* free_nr counts them.
LEMMA FreeIs ==
  ASSUME NEW f, NEW P, PagesOK(f, P)
  PROVE  /\ IsFiniteSet(FreeSet(f)) /\ f.free = Cardinality(FreeSet(f)) /\ f.free \in Nat
         /\ f.free <= NodeNr /\ FreeSet(f) \in SUBSET Nid
         /\ f.free # 0 => FreeSet(f) # {}
<1>1. FreeSet(f) \in SUBSET Nid  BY DEF FreeSet
<1>2. /\ IsFiniteSet(FreeSet(f)) /\ Cardinality(FreeSet(f)) <= NodeNr
      /\ Cardinality(FreeSet(f)) \in Nat
  BY <1>1, NidFinite, FS_Subset, FS_CardinalityType
<1>3. f.free = Cardinality(FreeSet(f))  BY DEF PagesOK, FreeSet
<1> QED BY <1>1, <1>2, <1>3, FS_EmptySet

\* get_node finds a free node.
LEMMA NextFreeIs ==
  ASSUME NEW f, NEW P, PagesOK(f, P), f.free # 0
  PROVE  NextFree(f) \in Nid /\ f.nat[NextFree(f)] = None
<1> DEFINE ahead == {n \in FreeSet(f) : f.next < NodeNr => n >= f.next}
           S == IF ahead = {} THEN FreeSet(f) ELSE ahead
<1>1. S \in SUBSET Nat /\ S # {} /\ S \subseteq FreeSet(f)  BY FreeIs DEF Nid
<1>2. NextFree(f) = Min(S)  BY DEF NextFree, FreeSet
<1>3. Min(S) \in S
  <2> HIDE DEF S
  <2> QED BY <1>1, MinIs
<1> QED BY <1>1, <1>2, <1>3 DEF FreeSet

\* A node that is taken is in use, without a page.
LEMMA TakeNodeIs ==
  ASSUME NEW f, NEW P, PagesOK(f, P), f.free # 0, NEW k, k = NextFree(f),
         NEW g, g = TakeNode(f)
  PROVE  /\ k \in Nid /\ Content(f)[k] = None
         /\ PagesOK(g, P \cup {k}) /\ Content(g) = [Content(f) EXCEPT ![k] = InUse]
         /\ Cached(g) = Cached(f) /\ Keeps(f, g) /\ g.free = f.free - 1
         /\ g.cache = f.cache
<1>1. f \in Fs /\ k \in Nid /\ f.nat[k] = None  BY NextFreeIs DEF PagesOK
<1>2. PICK N : N = [f.nat EXCEPT ![k] = InUse]  OBVIOUS
<1>3. N \in [Nid -> Node \cup {None, InUse}] /\ N[k] = InUse
      /\ \A m \in Nid \ {k} : N[m] = f.nat[m]
  BY <1>1, <1>2, FsIs
<1>4. /\ k + 1 \in 0 .. NodeNr /\ f.free - 1 \in 0 .. NodeNr  BY <1>1, FreeIs, Ranges DEF Nid
<1>5. /\ g \in Fs /\ g.nat = N /\ g.cache = f.cache /\ g.free = f.free - 1
      /\ g.open = f.open /\ g.saved = f.saved /\ g.failed = f.failed
  BY <1>1, <1>2, <1>3, <1>4 DEF TakeNode, Fs
<1>6. FreeSet(g) = FreeSet(f) \ {k} /\ k \in FreeSet(f)  BY <1>1, <1>3, <1>5, Marks DEF FreeSet
<1>7. g.free = Cardinality(FreeSet(g))  BY <1>5, <1>6, FreeIs, CardRemove
<1>8. f.cache[k] = None /\ k \notin P /\ Content(f)[k] = None  BY <1>1, ContentIs, Marks
<1>9. ASSUME NEW m \in Nid PROVE PageOK(g.nat[m], g.cache[m], m \in P \cup {k})
  <2>1. PageOK(f.nat[m], f.cache[m], m \in P)  BY DEF PagesOK
  <2>2. CASE m # k
    BY <1>3, <1>5, <2>1, <2>2 DEF PageOK
  <2>3. CASE m = k
    BY <1>3, <1>5, <1>8, <2>3 DEF PageOK
  <2> QED BY <2>2, <2>3
<1>10. PagesOK(g, P \cup {k})  BY <1>5, <1>7, <1>9 DEF PagesOK, FreeSet
<1>11. Content(g) = [Content(f) EXCEPT ![k] = InUse]  BY <1>1, <1>3, <1>5, <1>8 DEF Content
<1>12. Cached(g) = Cached(f) /\ Keeps(f, g)  BY <1>5 DEF Cached, Keeps, Refs
<1> QED BY <1>1, <1>5, <1>8, <1>10, <1>11, <1>12

Filled(f, k, a, q) == [f EXCEPT !.nat[k] = a, !.cache[k] = q]

\* A node that was taken gets its page, and a place in the log or not.
LEMMA FillIs ==
  ASSUME NEW f, NEW P, NEW k \in Nid, k \notin P, PagesOK(f, P \cup {k}),
         NEW q \in Page, NEW a \in Node \cup {InUse}, q.dirty \/ a = q.page, a = InUse => q.dirty,
         NEW g, g = Filled(f, k, a, q)
  PROVE  /\ PagesOK(g, P) /\ Content(g) = [Content(f) EXCEPT ![k] = q.page]
         /\ Cached(g) = Cached(f) \cup {k} /\ g.free = f.free
         /\ Refs(g) = IF q.ref = 1 THEN Refs(f) \cup {k} ELSE Refs(f)
         /\ g.open = f.open /\ g.saved = f.saved /\ g.failed = f.failed
<1>1. f \in Fs /\ f.nat[k] = InUse /\ f.cache[k] = None  BY DEF PagesOK, PageOK
<1>2. PICK N, C : N = [f.nat EXCEPT ![k] = a] /\ C = [f.cache EXCEPT ![k] = q]  OBVIOUS
<1>3. /\ N \in [Nid -> Node \cup {None, InUse}] /\ N[k] = a /\ C[k] = q
      /\ C \in [Nid -> Page \cup {None}]
      /\ \A m \in Nid \ {k} : N[m] = f.nat[m] /\ C[m] = f.cache[m]
  BY <1>1, <1>2, FsIs
<1>4. /\ g \in Fs /\ g.nat = N /\ g.cache = C /\ g.free = f.free
      /\ g.open = f.open /\ g.saved = f.saved /\ g.failed = f.failed
  BY <1>1, <1>2, <1>3 DEF Fs, Filled
<1>5. a # None /\ q # None  BY Marks
<1>6. {n \in Nid : g.nat[n] = None} = {n \in Nid : f.nat[n] = None}
  BY <1>1, <1>3, <1>4, <1>5, Marks
<1>7. ASSUME NEW m \in Nid PROVE PageOK(g.nat[m], g.cache[m], m \in P)
  <2>1. PageOK(f.nat[m], f.cache[m], m \in P \cup {k})  BY DEF PagesOK
  <2>2. CASE m # k
    BY <1>3, <1>4, <2>1, <2>2 DEF PageOK
  <2>3. CASE m = k
    BY <1>3, <1>4, <1>5, <2>3 DEF PageOK
  <2> QED BY <2>2, <2>3
<1>8. PagesOK(g, P)  BY <1>4, <1>6, <1>7 DEF PagesOK
<1>9. Content(g) = [Content(f) EXCEPT ![k] = q.page]
  <2>1. \A m \in Nid : Content(g)[m] = IF m = k THEN q.page ELSE Content(f)[m]
    BY <1>3, <1>4, <1>5 DEF Content
  <2> QED BY <2>1 DEF Content
<1>10. Cached(g) = Cached(f) \cup {k}  BY <1>3, <1>4, <1>5 DEF Cached
<1>11. Refs(g) = IF q.ref = 1 THEN Refs(f) \cup {k} ELSE Refs(f)
  BY <1>1, <1>3, <1>4, <1>5 DEF Refs
<1> QED BY <1>4, <1>8, <1>9, <1>10, <1>11

\* A node that is put back is free, and has no page.
LEMMA PutNodeIs ==
  ASSUME NEW f, NEW P, PagesOK(f, P), NEW k \in Nid, Content(f)[k] # None,
         NEW g, g = PutNode(f, k)
  PROVE  /\ PagesOK(g, P \ {k}) /\ Content(g) = [Content(f) EXCEPT ![k] = None]
         /\ Cached(g) = Cached(f) \ {k} /\ g.free = f.free + 1 /\ Refs(g) = Refs(f) \ {k}
         /\ g.open = f.open /\ g.saved = f.saved /\ g.failed = f.failed
<1>1. f \in Fs /\ f.nat[k] # None  BY ContentIs DEF PagesOK
<1>2. PICK N, C : N = [f.nat EXCEPT ![k] = None] /\ C = [f.cache EXCEPT ![k] = None]  OBVIOUS
<1>3. /\ N \in [Nid -> Node \cup {None, InUse}] /\ N[k] = None /\ C[k] = None
      /\ C \in [Nid -> Page \cup {None}]
      /\ \A m \in Nid \ {k} : N[m] = f.nat[m] /\ C[m] = f.cache[m]
  BY <1>1, <1>2, FsIs
<1>4. FreeSet(f) \cup {k} \in SUBSET Nid /\ k \notin FreeSet(f)  BY <1>1 DEF FreeSet
<1>5. /\ IsFiniteSet(FreeSet(f) \cup {k}) /\ Cardinality(FreeSet(f) \cup {k}) = f.free + 1
      /\ f.free + 1 <= NodeNr
  BY <1>4, FreeIs, CardAdd, NidFinite, FS_Subset
<1>6. f.free + 1 \in 0 .. NodeNr  BY <1>5, FreeIs, Ranges
<1>7. /\ g \in Fs /\ g.nat = N /\ g.cache = C /\ g.free = f.free + 1
      /\ g.open = f.open /\ g.saved = f.saved /\ g.failed = f.failed
  BY <1>1, <1>2, <1>3, <1>6 DEF Fs, PutNode
<1>8. FreeSet(g) = FreeSet(f) \cup {k}  BY <1>3, <1>7 DEF FreeSet
<1>9. ASSUME NEW m \in Nid PROVE PageOK(g.nat[m], g.cache[m], m \in P \ {k})
  <2>1. PageOK(f.nat[m], f.cache[m], m \in P)  BY DEF PagesOK
  <2>2. CASE m # k
    BY <1>3, <1>7, <2>1, <2>2 DEF PageOK
  <2>3. CASE m = k
    BY <1>3, <1>7, <2>3, Marks DEF PageOK
  <2> QED BY <2>2, <2>3
<1>10. PagesOK(g, P \ {k})  BY <1>5, <1>7, <1>8, <1>9 DEF PagesOK, FreeSet
<1>11. Content(g) = [Content(f) EXCEPT ![k] = None]  BY <1>3, <1>7 DEF Content
<1>12. Cached(g) = Cached(f) \ {k} /\ Refs(g) = Refs(f) \ {k}  BY <1>3, <1>7 DEF Cached, Refs
<1> QED BY <1>7, <1>10, <1>11, <1>12

\* After sync_fs the table on the disk is what a reader sees.
LEMMA SyncFsIs ==
  ASSUME NEW f, PagesOK(f, {}), NEW g, g = SyncFs(f)
  PROVE  /\ PagesOK(g, {}) /\ Content(g) = Content(f) /\ g.saved = Content(f)
         /\ Cached(g) = Cached(f) /\ Refs(g) = Refs(f) /\ g.free = f.free
         /\ g.open = f.open /\ g.failed = f.failed
<1>1. f \in Fs  BY DEF PagesOK
<1>2. PICK N, C : /\ N = Written(f, Nid)
                  /\ C = [n \in Nid |-> IF f.cache[n] = None THEN None
                                        ELSE [f.cache[n] EXCEPT !.dirty = FALSE]]
  OBVIOUS
<1>3. N = Content(f)
  <2>1. ASSUME NEW n \in Nid PROVE N[n] = Content(f)[n]
    <3>1. PageOK(f.nat[n], f.cache[n], n \in {})  BY DEF PagesOK
    <3>2. N[n] = IF f.cache[n] # None /\ f.cache[n].dirty THEN f.cache[n].page ELSE f.nat[n]
      BY <1>2 DEF Written, DirtyPages
    <3> QED BY <3>1, <3>2, ContentIs DEF PageOK
  <2>2. N = [n \in Nid |-> N[n]]  BY <1>2 DEF Written
  <2> QED BY <2>1, <2>2, ContentEq
<1>4. N \in [Nid -> Node \cup {None, InUse}]  BY <1>3, ContentFun
<1>5. ASSUME NEW n \in Nid
      PROVE  /\ f.cache[n] = None => C[n] = None
             /\ f.cache[n] # None => C[n] \in Page /\ C[n].page = f.cache[n].page
                                     /\ C[n].ref = f.cache[n].ref /\ C[n].dirty = FALSE
  <2>1. CASE f.cache[n] # None
    BY <1>1, <1>2, <2>1, PageIs DEF Page
  <2> QED BY <1>2, <2>1
<1>6. C \in [Nid -> Page \cup {None}]  BY <1>2, <1>5
<1>7. /\ g \in Fs /\ g.nat = N /\ g.saved = N /\ g.cache = C /\ g.free = f.free
      /\ g.open = f.open /\ g.failed = f.failed
  <2>1. g = [f EXCEPT !.nat = N, !.saved = N, !.cache = C]  BY <1>2 DEF SyncFs
  <2> QED BY <1>1, <1>4, <1>6, <2>1 DEF Fs
<1>8. {n \in Nid : g.nat[n] = None} = {n \in Nid : f.nat[n] = None}  BY <1>3, <1>7, ContentIs
<1>9. ASSUME NEW m \in Nid PROVE PageOK(g.nat[m], g.cache[m], m \in {})
  <2>1. CASE f.cache[m] = None
    <3>1. g.cache[m] = None  BY <1>5, <1>7, <2>1
    <3>2. Content(f)[m] # InUse  BY ContentIs
    <3> QED BY <1>3, <1>7, <3>1, <3>2 DEF PageOK
  <2>2. CASE f.cache[m] # None
    <3>1. N[m] = f.cache[m].page /\ N[m] \in Node  BY <1>3, <2>2, ContentIs
    <3>2. C[m] # None /\ N[m] = C[m].page /\ N[m] \in Node  BY <1>5, <2>2, <3>1, Marks
    <3> QED BY <1>5, <1>7, <2>2, <3>2, Marks DEF PageOK
  <2> QED BY <2>1, <2>2
<1>10. PagesOK(g, {})  BY <1>7, <1>8, <1>9 DEF PagesOK
<1>11. \A n \in Nid : f.cache[n] # None <=> C[n] # None  BY <1>5, Marks
<1>12. Content(g) = Content(f)
  <2>1. \A n \in Nid : Content(g)[n] = Content(f)[n]  BY <1>3, <1>5, <1>7, <1>11 DEF Content
  <2> QED BY <2>1 DEF Content
<1>13. Cached(g) = Cached(f) /\ Refs(g) = Refs(f)  BY <1>5, <1>7, <1>11 DEF Cached, Refs
<1> QED BY <1>3, <1>7, <1>10, <1>12, <1>13

\* The pages of S are written and dropped.
Dropping(f, S) ==
    [f EXCEPT !.nat = Written(f, S), !.cache = [n \in Nid |-> IF n \in S THEN None ELSE f.cache[n]]]

\* The pages that are written and dropped are in the table.
LEMMA DropIs ==
  ASSUME NEW f, NEW P, PagesOK(f, P), NEW S \in SUBSET Nid, S \cap P = {},
         NEW g, g = Dropping(f, S)
  PROVE  /\ PagesOK(g, P) /\ Content(g) = Content(f)
         /\ Cached(g) = Cached(f) \ S /\ Refs(g) = Refs(f) \ S /\ g.free = f.free
         /\ g.open = f.open /\ g.saved = f.saved /\ g.failed = f.failed
<1>1. f \in Fs  BY DEF PagesOK
<1>2. PICK N, C : /\ N = Written(f, S)
                  /\ C = [n \in Nid |-> IF n \in S THEN None ELSE f.cache[n]]
  OBVIOUS
<1>3. ASSUME NEW n \in Nid
      PROVE  /\ n \notin S => N[n] = f.nat[n] /\ C[n] = f.cache[n]
             /\ n \in S => N[n] = Content(f)[n] /\ C[n] = None
  <2>1. PageOK(f.nat[n], f.cache[n], n \in P)  BY DEF PagesOK
  <2>2. /\ N[n] = IF n \in S /\ f.cache[n] # None /\ f.cache[n].dirty
                  THEN f.cache[n].page ELSE f.nat[n]
        /\ C[n] = IF n \in S THEN None ELSE f.cache[n]
    BY <1>2 DEF Written, DirtyPages
  <2> QED BY <2>1, <2>2, ContentIs DEF PageOK
<1>4. N \in [Nid -> Node \cup {None, InUse}]
  <2>1. \A n \in Nid : N[n] \in Node \cup {None, InUse}  BY <1>1, <1>3, ContentIs, FsIs
  <2> QED BY <1>2, <2>1 DEF Written
<1>5. C \in [Nid -> Page \cup {None}]  BY <1>1, <1>2, FsIs
<1>6. /\ g \in Fs /\ g.nat = N /\ g.cache = C /\ g.free = f.free
      /\ g.open = f.open /\ g.saved = f.saved /\ g.failed = f.failed
  BY <1>1, <1>2, <1>4, <1>5 DEF Fs, Dropping
<1>7. {n \in Nid : g.nat[n] = None} = {n \in Nid : f.nat[n] = None}  BY <1>3, <1>6, ContentIs
<1>8. ASSUME NEW m \in Nid PROVE PageOK(g.nat[m], g.cache[m], m \in P)
  <2>1. PageOK(f.nat[m], f.cache[m], m \in P)  BY DEF PagesOK
  <2>2. CASE m \in S
    <3>1. m \notin P /\ g.cache[m] = None /\ g.nat[m] # InUse  BY <1>3, <1>6, <2>2, ContentIs
    <3> QED BY <3>1 DEF PageOK
  <2>3. CASE m \notin S
    BY <1>3, <1>6, <2>1, <2>3
  <2> QED BY <2>2, <2>3
<1>9. PagesOK(g, P)  BY <1>6, <1>7, <1>8 DEF PagesOK
<1>10. Content(g) = Content(f)
  <2>1. \A n \in Nid : Content(g)[n] = Content(f)[n]  BY <1>3, <1>6 DEF Content
  <2> QED BY <2>1 DEF Content
<1>11. Cached(g) = Cached(f) \ S /\ Refs(g) = Refs(f) \ S  BY <1>3, <1>6 DEF Cached, Refs
<1> QED BY <1>6, <1>9, <1>10, <1>11

-------------------------------------------------------------------------------
(* Inodes, index nodes and their blocks. *)

\* The content with a new index node n for entry i of an inode.
WithIndex(c, ino, i, n) ==
    [m \in Nid |-> IF m = ino THEN [c[ino] EXCEPT !.index[i] = n]
                   ELSE IF m = n THEN NewIndex(ino) ELSE c[m]]

\* The content with a block written at offset o of index node k of an inode.
WithBlock(c, ino, k, o, data) ==
    [m \in Nid |-> IF m = k THEN WithData(c[k], o, data)
                   ELSE IF m = ino /\ c[k].data[o] = None THEN OneMore(c[ino])
                   ELSE c[m]]

\* Inodes and index nodes.
LEMMA Kinds ==
  ASSUME NEW x \in Node \cup {None, InUse}
  PROVE  /\ IsInode(x) <=> x \in Inode
         /\ IsIndex(x) <=> x \in IndexNode
         /\ ~(IsInode(x) /\ IsIndex(x)) /\ x \in Node <=> IsInode(x) \/ IsIndex(x)
BY Marks DEF IsInode, IsIndex, Node, Inode, IndexNode

\* The fields of an inode.
LEMMA InodeIs ==
  ASSUME NEW x \in Inode
  PROVE  /\ x.type \in {"dir", "file"} /\ x.size \in 0 .. IndexSize * IndexTable /\ x.blks \in Nat
         /\ x.nlink \in {0, 1} /\ x.index \in [Idx -> Nid \cup {None}] /\ x \in Node
BY DEF Inode, Node

\* The fields of an index node.
LEMMA IndexIs ==
  ASSUME NEW x \in IndexNode
  PROVE  /\ x.type = "index" /\ x.ino \in Nid /\ x.valid \in 0 .. IndexSize
         /\ x.data \in [Off -> FileData \cup DentryBlock \cup {None}] /\ x \in Node
BY DEF IndexNode, Node

\* An inode with another index node, block count or size.
LEMMA InodeIndex ==
  ASSUME NEW x \in Inode, NEW i \in Idx, NEW n \in Nid \cup {None}, NEW y, y = [x EXCEPT !.index[i] = n]
  PROVE  /\ y \in Inode /\ y.index = [x.index EXCEPT ![i] = n] /\ y.type = x.type
         /\ y.size = x.size /\ y.blks = x.blks /\ y.nlink = x.nlink
BY DEF Inode

\* One block more changes the count of an inode only.
LEMMA OneMoreIs ==
  ASSUME NEW x \in Inode, NEW y, y = OneMore(x)
  PROVE  /\ y \in Inode /\ y.index = x.index /\ y.type = x.type /\ y \in Node
         /\ y.size = x.size /\ y.blks = x.blks + 1 /\ y.nlink = x.nlink
BY DEF Inode, OneMore, Node

\* Another size changes nothing else of an inode.
LEMMA InodeSize ==
  ASSUME NEW x \in Inode, NEW b \in 0 .. IndexSize * IndexTable, NEW y, y = [x EXCEPT !.size = b]
  PROVE  /\ y \in Inode /\ y.index = x.index /\ y.type = x.type
         /\ y.size = b /\ y.blks = x.blks /\ y.nlink = x.nlink
BY DEF Inode

\* A new index node holds no block.
LEMMA NewIndexIs ==
  ASSUME NEW ino \in Nid
  PROVE  /\ NewIndex(ino) \in IndexNode /\ NewIndex(ino).valid = 0
         /\ \A o \in Off : NewIndex(ino).data[o] = None
BY Ranges DEF NewIndex, IndexNode

\* An index node with another block.
LEMMA WithDataIs ==
  ASSUME NEW x \in IndexNode, NEW o \in Off, x.data[o] = None => x.valid < IndexSize,
         NEW data \in FileData \cup DentryBlock, NEW y, y = WithData(x, o, data)
  PROVE  /\ y \in IndexNode /\ y.ino = x.ino /\ y.data = [x.data EXCEPT ![o] = data]
         /\ y.valid = (IF x.data[o] = None THEN x.valid + 1 ELSE x.valid) /\ y \in Node
<1>1. PICK v : v = IF x.data[o] = None THEN x.valid + 1 ELSE x.valid  OBVIOUS
<1>2. v \in 0 .. IndexSize  BY <1>1, IndexIs, Ranges
<1>3. PICK D : D = [x.data EXCEPT ![o] = data]  OBVIOUS
<1>4. D \in [Off -> FileData \cup DentryBlock \cup {None}]  BY <1>3, IndexIs
<1>5. y = [x EXCEPT !.valid = v, !.data = D]  BY <1>1, <1>3 DEF WithData
<1>6. /\ y \in IndexNode /\ y.ino = x.ino /\ y.data = D /\ y.valid = v
  BY <1>2, <1>4, <1>5 DEF IndexNode
<1> QED BY <1>1, <1>3, <1>6 DEF Node

\* OffsetToIndex adds an index node, whatever the log says.
LEMMA AddIndexIs ==
  ASSUME NEW f, NEW P, PagesOK(f, P), f.free # 0, NEW c, c = Content(f),
         NEW ino \in Cached(f), c[ino] \in Inode, NEW i \in Idx, NEW granted \in BOOLEAN,
         NEW g, g = AddIndex(f, ino, i, granted)
  PROVE  \E n \in Nid :
           /\ c[n] = None /\ PagesOK(g, P) /\ Content(g) = WithIndex(c, ino, i, n)
           /\ Cached(g) = Cached(f) \cup {n} /\ Keeps(f, g) /\ g.free = f.free - 1
<1>1. PICK n, t : n = NextFree(f) /\ t = TakeNode(f)  OBVIOUS
<1>2. /\ n \in Nid /\ c[n] = None
      /\ PagesOK(t, P \cup {n}) /\ Content(t) = [c EXCEPT ![n] = InUse]
      /\ Cached(t) = Cached(f) /\ Keeps(f, t) /\ t.free = f.free - 1
  BY <1>1, TakeNodeIs
<1>3. PICK inode : inode = [c[ino] EXCEPT !.index[i] = n]  OBVIOUS
<1>4. inode \in Inode /\ inode \in Node  BY <1>2, <1>3, InodeIndex, InodeIs
<1>5. ino \in Nid /\ f.cache[ino].page = c[ino] /\ ino # n /\ c[ino] \in Node /\ n \notin P
  BY <1>2, PageSeen, InodeIs, ContentIs, Marks
<1>6. Content(t)[ino] \in Node  BY <1>2, <1>5, ContentFun
<1>7. PICK h : h = Modify(t, ino, inode)  OBVIOUS
<1>8. /\ PagesOK(h, P \cup {n}) /\ Content(h) = [Content(t) EXCEPT ![ino] = inode]
      /\ Cached(h) = Cached(t) \cup {ino} /\ Keeps(t, h) /\ h.free = t.free
  <2>1. /\ PagesOK(t, P \cup {n}) /\ ino \in Nid /\ Content(t)[ino] \in Node /\ inode \in Node
        /\ h = Modify(t, ino, inode)
    BY <1>2, <1>4, <1>5, <1>6, <1>7
  <2> QED BY <2>1, ModifyIs
<1>9. PICK q, a : /\ q = [page |-> NewIndex(ino), dirty |-> ~granted, ref |-> 0]
                  /\ a = IF granted THEN NewIndex(ino) ELSE InUse
  OBVIOUS
<1>10. /\ q \in Page /\ a \in Node \cup {InUse} /\ (q.dirty \/ a = q.page) /\ (a = InUse => q.dirty)
       /\ q.page = NewIndex(ino) /\ q.ref = 0
  <2>1. NewIndex(ino) \in Node /\ NewIndex(ino) # InUse  BY <1>5, NewIndexIs, IndexIs, Marks
  <2> QED BY <1>9, <2>1 DEF Page
<1>11. g = Filled(h, n, a, q)  BY <1>1, <1>3, <1>5, <1>7, <1>9 DEF AddIndex, Filled
<1>12. /\ PagesOK(g, P) /\ Content(g) = [Content(h) EXCEPT ![n] = q.page]
       /\ Cached(g) = Cached(h) \cup {n} /\ g.free = h.free
       /\ Refs(g) = IF q.ref = 1 THEN Refs(h) \cup {n} ELSE Refs(h)
       /\ g.open = h.open /\ g.saved = h.saved /\ g.failed = h.failed
  <2>1. /\ n \in Nid /\ n \notin P /\ PagesOK(h, P \cup {n}) /\ q \in Page
        /\ a \in Node \cup {InUse} /\ (q.dirty \/ a = q.page) /\ (a = InUse => q.dirty)
        /\ g = Filled(h, n, a, q)
    BY <1>2, <1>5, <1>8, <1>10, <1>11
  <2> QED BY <2>1, FillIs
<1>13. Keeps(f, g) /\ Cached(g) = Cached(f) \cup {n} /\ g.free = f.free - 1
  BY <1>2, <1>8, <1>10, <1>12 DEF Keeps
<1>14. Content(g) = WithIndex(c, ino, i, n)
  <2>1. c \in [Nid -> Node \cup {None, InUse}]  BY ContentFun
  <2>2. Content(g) = [[[c EXCEPT ![n] = InUse] EXCEPT ![ino] = inode] EXCEPT ![n] = NewIndex(ino)]
    BY <1>2, <1>8, <1>10, <1>12
  <2> QED BY <1>2, <1>3, <1>5, <2>1, <2>2 DEF WithIndex
<1> QED BY <1>2, <1>12, <1>13, <1>14

\* A data block goes into its index node, and is counted when it is new.
LEMMA WriteBlockIs ==
  ASSUME NEW f, NEW P, PagesOK(f, P), NEW c, c = Content(f),
         NEW ino \in Cached(f), c[ino] \in Inode, NEW b, NEW o \in Off, b % IndexSize = o,
         NEW k \in Nid, c[ino].index[b \div IndexSize] = k, c[k] \in IndexNode,
         c[k].data[o] = None => c[k].valid < IndexSize,
         NEW data \in FileData \cup DentryBlock,
         NEW g, g = WriteBlock(f, ino, b, data)
  PROVE  /\ PagesOK(g, P) /\ Content(g) = WithBlock(c, ino, k, o, data)
         /\ Cached(g) = Cached(f) \cup {k} /\ Keeps(f, g) /\ g.free = f.free
<1>1. ino \in Nid /\ f.cache[ino].page = c[ino] /\ c[ino] \in Node /\ c[k] \in Node /\ ino # k
  BY PageSeen, InodeIs, IndexIs
<1>2. ReadNode(f, k).cache[k].page = c[k]
  <2>1. PICK h : h = ReadNode(f, k)  OBVIOUS
  <2>2. Content(h) = c /\ Cached(h) = Cached(f) \cup {k}  BY <1>1, <2>1, ReadNodeIs
  <2> QED BY <2>1, <2>2, PageSeen
<1>3. PICK node : node = WithData(c[k], o, data)  OBVIOUS
<1>4. node \in IndexNode /\ node \in Node  BY <1>3, WithDataIs
<1>5. PICK w : w = Modify(f, k, node)  OBVIOUS
<1>6. /\ PagesOK(w, P) /\ Content(w) = [c EXCEPT ![k] = node]
      /\ Cached(w) = Cached(f) \cup {k} /\ Keeps(f, w) /\ w.free = f.free
  <2>1. /\ PagesOK(f, P) /\ k \in Nid /\ Content(f)[k] \in Node /\ node \in Node
        /\ w = Modify(f, k, node)
    BY <1>1, <1>4, <1>5
  <2> QED BY <2>1, ModifyIs
<1>7. g = IF c[k].data[o] = None THEN Modify(w, ino, OneMore(w.cache[ino].page)) ELSE w
  BY <1>1, <1>2, <1>3, <1>5, Zenon DEF WriteBlock
<1>8. c \in [Nid -> Node \cup {None, InUse}]  BY ContentFun
<1>9. CASE c[k].data[o] # None
  <2>1. Content(g) = WithBlock(c, ino, k, o, data)
    BY <1>1, <1>3, <1>6, <1>7, <1>8, <1>9 DEF WithBlock
  <2> QED BY <1>6, <1>7, <1>9, <2>1
<1>10. CASE c[k].data[o] = None
  <2>1. ino \in Cached(w) /\ Content(w)[ino] = c[ino]  BY <1>1, <1>6, <1>8
  <2>2. w.cache[ino].page = c[ino]  BY <2>1, PageSeen
  <2>3. PICK inode : inode = OneMore(c[ino])  OBVIOUS
  <2>4. inode \in Node  BY <2>3, OneMoreIs
  <2>5. g = Modify(w, ino, inode)  BY <1>7, <1>10, <2>2, <2>3
  <2>6. /\ PagesOK(g, P) /\ Content(g) = [Content(w) EXCEPT ![ino] = inode]
        /\ Cached(g) = Cached(w) \cup {ino} /\ Keeps(w, g) /\ g.free = w.free
    <3>1. /\ PagesOK(w, P) /\ ino \in Nid /\ Content(w)[ino] \in Node /\ inode \in Node
          /\ g = Modify(w, ino, inode)
      BY <1>1, <1>6, <2>1, <2>4, <2>5
    <3> QED BY <3>1, ModifyIs
  <2>7. Content(g) = WithBlock(c, ino, k, o, data)
    BY <1>1, <1>3, <1>6, <1>8, <1>10, <2>3, <2>6 DEF WithBlock
  <2> QED BY <1>6, <2>1, <2>6, <2>7 DEF Keeps
<1> QED BY <1>9, <1>10

\* Some nodes are put back at once.
LEMMA PutAllIs ==
  ASSUME NEW f, NEW P, PagesOK(f, P), NEW S \in SUBSET Nid, S \cap P = {},
         \A n \in S : Content(f)[n] # None,
         NEW g, g \in [nat : [Nid -> Node \cup {None, InUse}], next : 0 .. NodeNr, free : Nat,
                       cache : [Nid -> Page \cup {None}], open : SUBSET Nid,
                       saved : [Nid -> Node \cup {None, InUse}], failed : BOOLEAN],
         g.free = f.free + Cardinality(S),
         \A n \in Nid : g.nat[n] = IF n \in S THEN None ELSE f.nat[n],
         \A n \in Nid : g.cache[n] = IF n \in S THEN None ELSE f.cache[n]
  PROVE  /\ PagesOK(g, P) /\ Content(g) = [n \in Nid |-> IF n \in S THEN None ELSE Content(f)[n]]
         /\ Cached(g) = Cached(f) \ S /\ Refs(g) = Refs(f) \ S
<1>1. FreeSet(g) = FreeSet(f) \cup S /\ FreeSet(f) \cap S = {}
  <2>1. \A n \in S : f.nat[n] # None  BY ContentIs
  <2> QED BY <2>1 DEF FreeSet
<1>2. IsFiniteSet(S) /\ IsFiniteSet(FreeSet(f)) /\ Cardinality(S) \in Nat /\ f.free \in Nat
  BY NidFinite, FS_Subset, FreeIs, FS_CardinalityType
<1>3. Cardinality(FreeSet(g)) = Cardinality(FreeSet(f)) + Cardinality(S)
  <2>1. /\ IsFiniteSet(FreeSet(f) \cup S)
        /\ Cardinality(FreeSet(f) \cup S) =
             Cardinality(FreeSet(f)) + Cardinality(S) - Cardinality(FreeSet(f) \cap S)
    BY <1>2, FS_Union
  <2>2. Cardinality(FreeSet(f) \cap S) = 0  BY <1>1, FS_EmptySet
  <2>3. Cardinality(FreeSet(f)) \in Nat  BY FreeIs
  <2> QED BY <1>1, <1>2, <2>1, <2>2, <2>3
<1>4. g.free = Cardinality(FreeSet(g))  BY <1>3, FreeIs
<1>5. g.free <= NodeNr
  <2>1. FreeSet(g) \in SUBSET Nid  BY DEF FreeSet
  <2> QED BY <1>4, <2>1, NidFinite, FS_Subset
<1>6. g \in Fs
  <2>1. g.free \in 0 .. NodeNr  BY <1>2, <1>5, Ranges
  <2> QED BY <2>1 DEF Fs
<1>7. ASSUME NEW m \in Nid PROVE PageOK(g.nat[m], g.cache[m], m \in P)
  <2>1. PageOK(f.nat[m], f.cache[m], m \in P)  BY DEF PagesOK
  <2>2. CASE m \in S
    <3>1. g.nat[m] = None /\ g.cache[m] = None /\ m \notin P  BY <2>2
    <3> QED BY <3>1, Marks DEF PageOK
  <2>3. CASE m \notin S
    <3>1. g.nat[m] = f.nat[m] /\ g.cache[m] = f.cache[m]  BY <2>3
    <3> QED BY <2>1, <3>1
  <2> QED BY <2>2, <2>3
<1>8. PagesOK(g, P)  BY <1>4, <1>6, <1>7 DEF PagesOK, FreeSet
<1>9. Content(g) = [n \in Nid |-> IF n \in S THEN None ELSE Content(f)[n]]
  <2>1. \A n \in Nid : Content(g)[n] = IF n \in S THEN None ELSE Content(f)[n]  BY DEF Content
  <2> QED BY <2>1 DEF Content
<1>10. Cached(g) = Cached(f) \ S /\ Refs(g) = Refs(f) \ S  BY DEF Cached, Refs
<1> QED BY <1>8, <1>9, <1>10

\* The parts of a file that FileRemove deals with.
RemovesAll(c, ino) ==
    LET x == c[ino] IN
    \A i \in Reaches(x, 0, x.size) :
        /\ x.index[i] \in Nid /\ c[x.index[i]] \in IndexNode
        /\ c[x.index[i]].valid = Cardinality(Used(c, ino, i, 0, x.size))
        /\ IsFiniteSet(Used(c, ino, i, 0, x.size))
        /\ Max(Span(i, 0, x.size)) \in Used(c, ino, i, 0, x.size)

\* The index nodes that it puts back.
GoneOf(x) == {x.index[i] : i \in Reaches(x, 0, x.size)}

\* The content without some nodes.
Without(c, S) == [n \in Nid |-> IF n \in S THEN None ELSE c[n]]

\* FileRemove puts back the inode and its index nodes, and does not throw.
LEMMA FileRemoveIs ==
  ASSUME NEW f, NEW P, PagesOK(f, P), NEW c, c = Content(f), NEW ino \in Cached(f), c[ino] \in Inode,
         RemovesAll(c, ino), ino \notin P,
         NEW S, S = GoneOf(c[ino]) \cup {ino},
         NEW g, g = FileRemove(f, ino)
  PROVE  /\ PagesOK(g, P) /\ Content(g) = Without(c, S)
         /\ Cached(g) = Cached(f) \ S /\ Refs(g) = Refs(f) \ S /\ S \in SUBSET Nid
         /\ g.open = f.open /\ g.saved = f.saved /\ g.failed = f.failed
<1> DEFINE x == c[ino]
           R == Reaches(x, 0, x.size)
           used(i) == Used(c, ino, i, 0, x.size)
           gone == {x.index[i] : i \in R}
<1>1. f \in Fs /\ ino \in Nid /\ f.cache[ino].page = x /\ f.cache[ino] # None
  BY PageSeen DEF PagesOK
<1>2. \A i \in R : x.index[i] \in Nid /\ c[x.index[i]] \in IndexNode /\ x.index[i] # ino
  <2>1. \A i \in R : x.index[i] \in Nid /\ c[x.index[i]] \in IndexNode  BY DEF RemovesAll
  <2>2. x \notin IndexNode  BY DEF Inode, IndexNode
  <2> QED BY <2>1, <2>2
<1>3. gone \in SUBSET Nid /\ ino \notin gone /\ \A n \in gone : c[n] \in Node  BY <1>2, IndexIs
<1>4. Emptied(c, ino, 0, x.size) = R  BY DEF RemovesAll, Emptied
<1>5. ~ \E i \in R : c[x.index[i]].valid = Cardinality(used(i) \ {Max(Span(i, 0, x.size))})
  <2> SUFFICES ASSUME NEW i \in R PROVE c[x.index[i]].valid # Cardinality(used(i) \ {Max(Span(i, 0, x.size))})
    OBVIOUS
  <2>1. /\ IsFiniteSet(used(i)) /\ c[x.index[i]].valid = Cardinality(used(i))
        /\ Max(Span(i, 0, x.size)) \in used(i)
    BY DEF RemovesAll
  <2>2. PICK U, m : U = used(i) /\ m = Max(Span(i, 0, x.size))  OBVIOUS
  <2>3. Cardinality(U \ {m}) = Cardinality(U) - 1 /\ Cardinality(U) \in Nat
    BY <2>1, <2>2, CardRemove, FS_CardinalityType
  <2> QED BY <2>1, <2>2, <2>3
<1>6. PICK t : t = Truncate(f, ino, 0, x.size)  OBVIOUS
<1>7. g = PutNode(t, ino)  BY <1>1, <1>6 DEF FileRemove
<1>8. PICK C : C = [n \in Nid |-> IF n \in gone THEN None
                                 ELSE IF n \in {ino} \cup {x.index[i] : i \in Idx}
                                 THEN CutPage(f, ino, 0, x.size, n) ELSE f.cache[n]]
  OBVIOUS
<1>9. \A n \in Nid \ {ino} : C[n] = IF n \in gone THEN None ELSE f.cache[n]
  <2>1. \A n \in Nid \ {ino} : CutPage(f, ino, 0, x.size, n) = f.cache[n]  BY <1>4 DEF CutPage
  <2> QED BY <1>8, <2>1
<1>10. t = [f EXCEPT !.nat = [n \in Nid |-> IF n \in gone THEN None ELSE f.nat[n]],
                    !.free = f.free + Cardinality(gone), !.failed = f.failed, !.cache = C]
  <2>1. Gone(c, ino, 0, x.size) = gone  BY <1>4 DEF Gone
  <2>2. ~FreedTwice(c, ino, 0, x.size)  BY <1>5 DEF FreedTwice
  <2>3. f.failed = (f.failed \/ FreedTwice(c, ino, 0, x.size))  BY <1>1, <2>2, FsIs
  <2> HIDE DEF gone
  <2> QED BY <1>6, <1>8, <2>1, <2>3 DEF Truncate
<1> HIDE DEF gone, R
<1>11. PICK N, K, T : /\ N = [n \in Nid |-> IF n \in gone \cup {ino} THEN None ELSE f.nat[n]]
                     /\ K = [n \in Nid |-> IF n \in gone \cup {ino} THEN None ELSE f.cache[n]]
                     /\ T = gone \cup {ino}
  OBVIOUS
<1>12. IsFiniteSet(gone) /\ Cardinality(gone) \in Nat /\ Cardinality(T) = Cardinality(gone) + 1
  BY <1>3, <1>11, NidFinite, FS_Subset, CardAdd, FS_CardinalityType
<1>13. /\ g.nat = N /\ g.cache = K /\ g.free = (f.free + Cardinality(gone)) + 1
       /\ g.failed = f.failed /\ g.next = f.next /\ g.open = f.open /\ g.saved = f.saved
       /\ g \in [nat : {N}, next : {f.next}, free : {(f.free + Cardinality(gone)) + 1}, cache : {K},
                 open : {f.open}, saved : {f.saved}, failed : {f.failed}]
  <2>1. N = [[n \in Nid |-> IF n \in gone THEN None ELSE f.nat[n]] EXCEPT ![ino] = None]
    BY <1>1, <1>11
  <2>2. K = [C EXCEPT ![ino] = None]  BY <1>1, <1>8, <1>9, <1>11
  <2> QED BY <1>1, <1>7, <1>10, <2>1, <2>2 DEF PutNode, Fs
<1>14. /\ g \in [nat : [Nid -> Node \cup {None, InUse}], next : 0 .. NodeNr, free : Nat,
                 cache : [Nid -> Page \cup {None}], open : SUBSET Nid,
                 saved : [Nid -> Node \cup {None, InUse}], failed : BOOLEAN]
       /\ g.free = f.free + Cardinality(T)
  <2>1. f.free \in Nat  BY FreeIs
  <2>2. N \in [Nid -> Node \cup {None, InUse}] /\ K \in [Nid -> Page \cup {None}]
    BY <1>1, <1>11, FsIs
  <2>3. (f.free + Cardinality(gone)) + 1 = f.free + Cardinality(T) /\ f.free + Cardinality(T) \in Nat
    BY <1>12, <2>1
  <2> QED BY <1>1, <1>13, <2>2, <2>3, FsIs
<1>15. T \in SUBSET Nid /\ T \cap P = {} /\ \A n \in T : Content(f)[n] # None
  <2>1. \A n \in T : c[n] \in Node /\ n \in Nid  BY <1>1, <1>3, <1>11, InodeIs
  <2> QED BY <2>1, ContentIs, Marks
<1>16. /\ \A n \in Nid : g.nat[n] = IF n \in T THEN None ELSE f.nat[n]
       /\ \A n \in Nid : g.cache[n] = IF n \in T THEN None ELSE f.cache[n]
  BY <1>11, <1>13
<1>17. /\ PagesOK(g, P) /\ Content(g) = [n \in Nid |-> IF n \in T THEN None ELSE Content(f)[n]]
       /\ Cached(g) = Cached(f) \ T /\ Refs(g) = Refs(f) \ T
  BY <1>14, <1>15, <1>16, PutAllIs
<1>18. S = T  BY <1>11 DEF GoneOf, gone, R
<1> QED BY <1>13, <1>15, <1>17, <1>18 DEF Without

-------------------------------------------------------------------------------
(* Blocks, index entries and offsets. *)

\* Quotient and remainder, which determine each other.
LEMMA DivMod ==
  ASSUME NEW b \in Nat
  PROVE  /\ b \div IndexSize \in Nat /\ b % IndexSize \in Off
         /\ b = IndexSize * (b \div IndexSize) + (b % IndexSize)
<1>1. IndexSize \in Int /\ IndexSize > 0 /\ b \in Int  BY Ranges
<1>2. b \div IndexSize \in Nat /\ b % IndexSize \in 0 .. IndexSize - 1  BY <1>1, Ranges
<1>3. b = IndexSize * (b \div IndexSize) + (b % IndexSize)  BY <1>1
<1> QED BY <1>2, <1>3 DEF Off

\* A block number determines its entry and its offset.
LEMMA PlaceUnique ==
  ASSUME NEW i \in Nat, NEW j \in Nat, NEW o \in Off, NEW p \in Off,
         IndexSize * i + o = IndexSize * j + p
  PROVE  i = j /\ o = p
<1>1. PICK s \in Nat \ {0} : s = IndexSize  BY Ranges
<1>2. o \in 0 .. s - 1 /\ p \in 0 .. s - 1 /\ s * i + o = s * j + p  BY <1>1 DEF Off
<1>3. ASSUME i < j PROVE FALSE
  <2>1. s * (i + 1) <= s * j
    <3>1. i + 1 <= j  BY <1>3
    <3> QED BY <3>1
  <2>2. s * (i + 1) = s * i + s  OBVIOUS
  <2> QED BY <1>2, <2>1, <2>2
<1>4. ASSUME j < i PROVE FALSE
  <2>1. s * (j + 1) <= s * i
    <3>1. j + 1 <= i  BY <1>4
    <3> QED BY <3>1
  <2>2. s * (j + 1) = s * j + s  OBVIOUS
  <2> QED BY <1>2, <2>1, <2>2
<1>5. i = j  BY <1>3, <1>4
<1> QED BY <1>2, <1>5

\* The entry and the offset of a block of a file.
LEMMA PlaceOf ==
  ASSUME NEW b \in 0 .. IndexSize * IndexTable - 1
  PROVE  b \in Nat /\ b \div IndexSize \in Idx /\ b % IndexSize \in Off
<1>1. /\ b \in Nat /\ IndexSize \in Nat \ {0} /\ IndexTable \in Nat \ {0}  BY Ranges
<1>2. PICK s \in Nat \ {0}, t \in Nat \ {0}, q \in Nat, r \in Off :
         /\ s = IndexSize /\ t = IndexTable /\ q = b \div IndexSize /\ r = b % IndexSize
         /\ b = s * q + r
  BY <1>1, DivMod
<1>3. s * t \in Nat /\ b < s * t /\ r \in Nat  BY <1>2 DEF Off
<1>4. ASSUME q >= t PROVE FALSE
  <2>1. s * q >= s * t  BY <1>4
  <2> QED BY <1>2, <1>3, <2>1
<1>5. q \in 0 .. t - 1  BY <1>4
<1> QED BY <1>1, <1>2, <1>5, DivMod DEF Idx

\* The block of an entry and an offset.
LEMMA BlockOfPlace ==
  ASSUME NEW i \in Idx, NEW o \in Off
  PROVE  /\ IndexSize * i + o \in 0 .. IndexSize * IndexTable - 1 /\ IndexSize * i + o \in Nat
         /\ (IndexSize * i + o) \div IndexSize = i /\ (IndexSize * i + o) % IndexSize = o
<1>1. PICK s \in Nat \ {0}, t \in Nat \ {0} : s = IndexSize /\ t = IndexTable  BY Ranges
<1>2. i \in 0 .. t - 1 /\ o \in 0 .. s - 1  BY <1>1 DEF Idx, Off
<1>3. PICK b : b = IndexSize * i + o  OBVIOUS
<1>4. b \in Nat /\ b = s * i + o  BY <1>1, <1>2, <1>3
<1>5. s * (i + 1) <= s * t
  <2>1. i + 1 <= t  BY <1>2
  <2> QED BY <2>1, <1>2
<1>6. s * (i + 1) = s * i + s  BY <1>2
<1>7. b \in 0 .. s * t - 1  BY <1>2, <1>4, <1>5, <1>6
<1>8. /\ b \div IndexSize \in Nat /\ b % IndexSize \in Off
      /\ b = IndexSize * (b \div IndexSize) + (b % IndexSize)
  BY <1>4, DivMod
<1>9. b \div IndexSize = i /\ b % IndexSize = o
  <2>1. i \in Nat /\ IndexSize * (b \div IndexSize) + (b % IndexSize) = IndexSize * i + o
    BY <1>2, <1>3, <1>8
  <2> QED BY <1>8, <2>1, PlaceUnique
<1> QED BY <1>1, <1>3, <1>4, <1>7, <1>9

\* The blocks of the first index node.
LEMMA FirstIndex ==
  ASSUME NEW b \in Off
  PROVE  /\ b \in Nat /\ b \div IndexSize = 0 /\ b % IndexSize = b
         /\ b \in 0 .. IndexSize * IndexTable - 1
<1>1. 0 \in Idx /\ IndexSize * 0 + b = b /\ b \in Nat  BY Ranges DEF Off
<1> QED BY <1>1, BlockOfPlace

\* The dentry blocks of a directory are in its first index node.
LEMMA BlkNrOff == BlkNr \subseteq Off
<1>1. MaxLevel \in 0 .. MaxLevel + 1  BY DirAssumption
<1>2. 2 ^ MaxLevel \in Nat \ {0}  BY <1>1, BlkNumPos
<1> QED BY <1>2, FileAssumption DEF BlkNr, Off

-------------------------------------------------------------------------------
(* A dentry block that is truncated. *)

LessInode(x, empty) ==
    [x EXCEPT !.blks = @ - 1, !.index = [i \in Idx |-> IF empty /\ i = 0 THEN None ELSE @[i]]]
LessIndex(y, b) == [y EXCEPT !.valid = @ - 1, !.data = [o \in Off |-> IF o = b THEN None ELSE @[o]]]

\* The content without block b of a directory, whose index node is k.
WithoutBlock(c, ino, k, b) ==
    [m \in Nid |-> IF m = ino THEN LessInode(c[ino], c[k].valid = 1)
                   ELSE IF m # k THEN c[m]
                   ELSE IF c[k].valid = 1 THEN None ELSE LessIndex(c[k], b)]

\* An inode with one block less, whose index node may be gone.
LEMMA LessInodeIs ==
  ASSUME NEW x \in Inode, x.blks # 0, NEW empty \in BOOLEAN, NEW y, y = LessInode(x, empty)
  PROVE  /\ y \in Inode /\ y \in Node /\ y.type = x.type /\ y.size = x.size /\ y.nlink = x.nlink
         /\ y.blks = x.blks - 1
         /\ y.index = [i \in Idx |-> IF empty /\ i = 0 THEN None ELSE x.index[i]]
<1>1. PICK t : t = [i \in Idx |-> IF empty /\ i = 0 THEN None ELSE x.index[i]]  OBVIOUS
<1>2. t \in [Idx -> Nid \cup {None}] /\ x.blks - 1 \in Nat  BY <1>1, InodeIs
<1>3. y = [x EXCEPT !.blks = x.blks - 1, !.index = t]  BY <1>1 DEF LessInode
<1>4. /\ y \in Inode /\ y.type = x.type /\ y.size = x.size /\ y.nlink = x.nlink
      /\ y.blks = x.blks - 1 /\ y.index = t
  BY <1>2, <1>3 DEF Inode
<1> QED BY <1>1, <1>4 DEF Node

\* An index node with one block less.
LEMMA LessIndexIs ==
  ASSUME NEW x \in IndexNode, x.valid # 0, NEW b \in Off, NEW y, y = LessIndex(x, b)
  PROVE  /\ y \in IndexNode /\ y \in Node /\ y.valid = x.valid - 1
         /\ y.data = [o \in Off |-> IF o = b THEN None ELSE x.data[o]]
<1>1. PICK t : t = [o \in Off |-> IF o = b THEN None ELSE x.data[o]]  OBVIOUS
<1>2. t \in [Off -> FileData \cup DentryBlock \cup {None}] /\ x.valid - 1 \in 0 .. IndexSize
  BY <1>1, IndexIs, Ranges
<1>3. y = [x EXCEPT !.valid = x.valid - 1, !.data = t]  BY <1>1 DEF LessIndex
<1>4. y \in IndexNode /\ y.valid = x.valid - 1 /\ y.data = t  BY <1>2, <1>3 DEF IndexNode
<1> QED BY <1>1, <1>4 DEF Node

\* What the loop finds of one block.
OneFound(c, ino, k, b) ==
    /\ Span(0, b, b + 1) = {b} /\ Used(c, ino, 0, b, b + 1) = {b}
    /\ Reaches(c[ino], b, b + 1) = {0}
    /\ Emptied(c, ino, b, b + 1) = (IF c[k].valid = 1 THEN {0} ELSE {})
    /\ Gone(c, ino, b, b + 1) = (IF c[k].valid = 1 THEN {k} ELSE {})
    /\ ~FreedTwice(c, ino, b, b + 1)

\* What Truncate finds when it cuts one block of a directory.
LEMMA OneBlock ==
  ASSUME NEW c, NEW ino \in Nid, c[ino] \in Inode, NEW b \in Off, NEW k \in Nid, c[ino].index[0] = k,
         c[k] \in IndexNode, c[k].data[b] # None, c[k].valid # 0
  PROVE  OneFound(c, ino, k, b)
<1>1. b \in Nat /\ b \div IndexSize = 0 /\ b % IndexSize = b  BY FirstIndex
<1>2. b .. (b + 1) - 1 = {b}  BY <1>1
<1>3. Span(0, b, b + 1) = {b} /\ \A i : i # 0 => Span(i, b, b + 1) = {}  BY <1>1, <1>2 DEF Span
<1>4. k # None /\ 0 \in Idx  BY Marks, Ranges
<1>5. Used(c, ino, 0, b, b + 1) = {b}  BY <1>1, <1>3, <1>4 DEF Used, BlockAt
<1>6. Reaches(c[ino], b, b + 1) = {0}  BY <1>3, <1>4 DEF Reaches
<1>7. Cardinality({b}) = 1  BY FS_Singleton
<1>8. Emptied(c, ino, b, b + 1) = IF c[k].valid = 1 THEN {0} ELSE {}
  BY <1>5, <1>6, <1>7 DEF Emptied
<1>9. Gone(c, ino, b, b + 1) = IF c[k].valid = 1 THEN {k} ELSE {}  BY <1>8 DEF Gone
<1>10. ~FreedTwice(c, ino, b, b + 1)
  <2>1. Max({b}) = b  BY <1>1 DEF Max
  <2>2. Cardinality({b} \ {b}) = 0
    <3>1. {b} \ {b} = {}  OBVIOUS
    <3> QED BY <3>1, FS_EmptySet
  <2> QED BY <1>3, <1>5, <1>6, <2>1, <2>2 DEF FreedTwice
<1> QED BY <1>3, <1>5, <1>6, <1>8, <1>9, <1>10 DEF OneFound

\* The pages that are left.
LEMMA CutPages ==
  ASSUME NEW f, NEW c, c = Content(f), NEW ino \in Nid, c[ino] \in Inode, NEW b \in Off,
         NEW k \in Nid, c[ino].index[0] = k,
         c[k] \in IndexNode, c[k].data[b] # None, c[k].valid # 0, NEW n \in Nid
  PROVE  LET q == CutPage(f, ino, b, b + 1, n) IN
         /\ n = ino => q = [page |-> LessInode(c[ino], c[k].valid = 1), dirty |-> TRUE, ref |-> f.cache[ino].ref]
         /\ n = k /\ c[k].valid # 1 => q = [page |-> LessIndex(c[k], b), dirty |-> TRUE, ref |-> 0]
         /\ n \notin {ino, k} => q = f.cache[n]
<1>1. /\ Span(0, b, b + 1) = {b} /\ Used(c, ino, 0, b, b + 1) = {b}
      /\ Reaches(c[ino], b, b + 1) = {0}
      /\ Emptied(c, ino, b, b + 1) = (IF c[k].valid = 1 THEN {0} ELSE {})
  <2>1. OneFound(c, ino, k, b)  BY OneBlock
  <2> QED BY <2>1 DEF OneFound
<1>2. UNION {Used(c, ino, i, b, b + 1) : i \in {0}} = {b} /\ Cardinality({b}) = 1
  <2>1. {Used(c, ino, i, b, b + 1) : i \in {0}} = {{b}}  BY <1>1
  <2> QED BY <2>1, FS_Singleton
<1>3. CutInode(c, ino, b, b + 1) = LessInode(c[ino], c[k].valid = 1)
  <2>1. Cardinality(UNION {Used(c, ino, i, b, b + 1) : i \in Reaches(c[ino], b, b + 1)}) = 1
    BY <1>1, <1>2
  <2>2. [i \in Idx |-> IF i \in Emptied(c, ino, b, b + 1) THEN None ELSE c[ino].index[i]]
          = [i \in Idx |-> IF c[k].valid = 1 /\ i = 0 THEN None ELSE c[ino].index[i]]
    BY <1>1
  <2> QED BY <2>1, <2>2 DEF CutInode, LessInode
<1>4. CutIndex(c, ino, 0, b, b + 1) = LessIndex(c[k], b)
  <2>1. [o \in Off |-> IF 0 * IndexSize + o \in Span(0, b, b + 1) THEN None ELSE c[k].data[o]]
          = [o \in Off |-> IF o = b THEN None ELSE c[k].data[o]]
    <3>1. \A o \in Off : 0 * IndexSize + o = o  BY Ranges DEF Off
    <3> QED BY <1>1, <3>1
  <2> QED BY <1>1, <1>2, <2>1 DEF CutIndex, LessIndex
<1>5. c[k] \notin Inode /\ k # ino  BY DEF Inode, IndexNode
<1>6. CASE n = ino
  BY <1>1, <1>2, <1>3, <1>5, <1>6 DEF CutPage
<1>7. CASE n = k /\ c[k].valid # 1
  <2>1. {i \in Reaches(c[ino], b, b + 1) \ Emptied(c, ino, b, b + 1) : c[ino].index[i] = n} = {0}
    BY <1>1, <1>7
  <2>2. (CHOOSE i \in {0} : TRUE) = 0  OBVIOUS
  <2>3. CutPage(f, ino, b, b + 1, n) =
          [page |-> CutIndex(c, ino, CHOOSE i \in {0} : TRUE, b, b + 1),
           dirty |-> n \in DirtyPages(f) \/ UNION {Used(c, ino, i, b, b + 1) : i \in {0}} # {}, ref |-> 0]
    BY <1>5, <1>7, <2>1 DEF CutPage
  <2>4. (n \in DirtyPages(f) \/ UNION {Used(c, ino, i, b, b + 1) : i \in {0}} # {}) = TRUE
    BY <1>2
  <2>5. CutIndex(c, ino, CHOOSE i \in {0} : TRUE, b, b + 1) = LessIndex(c[k], b)  BY <1>4, <2>2
  <2>6. CutPage(f, ino, b, b + 1, n) = [page |-> LessIndex(c[k], b), dirty |-> TRUE, ref |-> 0]
    BY <2>3, <2>4, <2>5
  <2> QED BY <1>5, <1>7, <2>6
<1>8. CASE n \notin {ino, k}
  BY <1>1, <1>8 DEF CutPage
<1> QED BY <1>5, <1>6, <1>7, <1>8

\* A truncated dentry block leaves its index node, which goes when it was the last.
LEMMA TruncateIs ==
  ASSUME NEW f, NEW P, PagesOK(f, P), NEW c, c = Content(f), NEW ino \in Cached(f), c[ino] \in Inode,
         NEW b \in Off, NEW k \in Nid, c[ino].index[0] = k,
         c[k] \in IndexNode, c[k].data[b] # None, c[k].valid # 0, c[ino].blks # 0,
         NEW g, g = Truncate(f, ino, b, b + 1)
  PROVE  /\ PagesOK(g, P) /\ Content(g) = WithoutBlock(c, ino, k, b)
         /\ Cached(f) \ {k} \subseteq Cached(g) /\ Refs(g) = Refs(f) \ {k}
         /\ g.open = f.open /\ g.saved = f.saved /\ g.failed = f.failed
<1>1. /\ f \in Fs /\ ino \in Nid /\ f.cache[ino].page = c[ino] /\ f.cache[ino] # None
      /\ c \in [Nid -> Node \cup {None, InUse}]
  BY PageSeen, ContentFun DEF PagesOK
<1>2. k # ino /\ k # None /\ 0 \in Idx /\ c[ino] \in Node /\ c[k] \in Node /\ ino \notin P /\ k \notin P
      /\ f.nat[ino] # None /\ f.nat[k] # None
  <2>1. c[k] \notin Inode  BY DEF Inode, IndexNode
  <2>2. c[ino] \in Node /\ c[k] \in Node  BY InodeIs, IndexIs
  <2> QED BY <1>1, <2>1, <2>2, ContentIs, Marks, Ranges
<1>3. OneFound(c, ino, k, b)  BY <1>1, OneBlock
<1>4. PICK G : G = Gone(c, ino, b, b + 1)  OBVIOUS
<1>5. G = (IF c[k].valid = 1 THEN {k} ELSE {}) /\ f.failed = (f.failed \/ FreedTwice(c, ino, b, b + 1))
  BY <1>1, <1>3, <1>4, FsIs DEF OneFound
<1>6. PICK N, C : /\ N = [n \in Nid |-> IF n \in G THEN None ELSE f.nat[n]]
                  /\ C = [n \in Nid |-> IF n \in G THEN None
                               ELSE IF n \in {ino} \cup {c[ino].index[i] : i \in Idx}
                               THEN CutPage(f, ino, b, b + 1, n) ELSE f.cache[n]]
  OBVIOUS
<1>7. g = [f EXCEPT !.nat = N, !.free = f.free + Cardinality(G), !.failed = f.failed, !.cache = C]
  BY <1>4, <1>5, <1>6 DEF Truncate
<1>8. PICK x, y : x = LessInode(c[ino], c[k].valid = 1) /\ y = LessIndex(c[k], b)  OBVIOUS
<1>9. x \in Node /\ y \in Node  BY <1>8, LessInodeIs, LessIndexIs
<1>10. ASSUME NEW n \in Nid
       PROVE  /\ n = ino => C[n] = [page |-> x, dirty |-> TRUE, ref |-> f.cache[ino].ref]
              /\ n = k /\ c[k].valid # 1 => C[n] = [page |-> y, dirty |-> TRUE, ref |-> 0]
              /\ n = k /\ c[k].valid = 1 => C[n] = None
              /\ n \notin {ino, k} => C[n] = f.cache[n]
  <2>1. PICK q : q = CutPage(f, ino, b, b + 1, n)  OBVIOUS
  <2>2. /\ n = ino => q = [page |-> x, dirty |-> TRUE, ref |-> f.cache[ino].ref]
        /\ n = k /\ c[k].valid # 1 => q = [page |-> y, dirty |-> TRUE, ref |-> 0]
        /\ n \notin {ino, k} => q = f.cache[n]
    BY <1>1, <1>8, <2>1, CutPages
  <2>3. n = k => n \in {c[ino].index[i] : i \in Idx}  BY <1>2
  <2>4. C[n] = IF n \in G THEN None ELSE IF n \in {ino} \cup {c[ino].index[i] : i \in Idx}
               THEN q ELSE f.cache[n]
    BY <1>6, <2>1
  <2> QED BY <1>2, <1>5, <2>2, <2>3, <2>4
<1>11. /\ [page |-> x, dirty |-> TRUE, ref |-> f.cache[ino].ref] \in Page
       /\ [page |-> y, dirty |-> TRUE, ref |-> 0] \in Page
  BY <1>1, <1>9, PageIs DEF Page
<1>12. N \in [Nid -> Node \cup {None, InUse}] /\ C \in [Nid -> Page \cup {None}]
  <2>1. \A n \in Nid : C[n] \in Page \cup {None}  BY <1>1, <1>10, <1>11, FsIs
  <2> QED BY <1>1, <1>6, <2>1, FsIs
<1>13. IsFiniteSet(G) /\ Cardinality(G) \in Nat
  <2>1. G \in SUBSET Nid  BY <1>5
  <2> QED BY <2>1, NidFinite, FS_Subset, FS_CardinalityType
<1>14. /\ g.nat = N /\ g.cache = C /\ g.free = f.free + Cardinality(G) /\ g.next = f.next
       /\ g.open = f.open /\ g.saved = f.saved /\ g.failed = f.failed
  BY <1>1, <1>7 DEF Fs
<1>15. FreeSet(g) = FreeSet(f) \cup G /\ FreeSet(f) \cap G = {}
  BY <1>2, <1>5, <1>6, <1>14 DEF FreeSet
<1>16. g.free = Cardinality(FreeSet(g)) /\ g.free \in 0 .. NodeNr
  <2>1. IsFiniteSet(FreeSet(f)) /\ f.free = Cardinality(FreeSet(f)) /\ f.free \in Nat  BY FreeIs
  <2>2. Cardinality(FreeSet(g)) = Cardinality(FreeSet(f)) + Cardinality(G) - Cardinality(FreeSet(f) \cap G)
    BY <1>13, <1>15, <2>1, FS_Union
  <2>3. Cardinality(FreeSet(f) \cap G) = 0  BY <1>15, FS_EmptySet
  <2>4. FreeSet(g) \in SUBSET Nid  BY DEF FreeSet
  <2>5. Cardinality(FreeSet(g)) <= NodeNr  BY <2>4, NidFinite, FS_Subset
  <2> QED BY <1>13, <1>14, <2>1, <2>2, <2>3, <2>5, Ranges
<1>17. g \in Fs  BY <1>1, <1>7, <1>12, <1>14, <1>16 DEF Fs
<1>18. ASSUME NEW m \in Nid PROVE PageOK(g.nat[m], g.cache[m], m \in P)
  <2>1. PageOK(f.nat[m], f.cache[m], m \in P)  BY DEF PagesOK
  <2>2. CASE m = ino
    <3>1. g.nat[m] = f.nat[m] /\ g.cache[m] # None /\ g.cache[m].dirty /\ g.cache[m] \in Page
      BY <1>2, <1>5, <1>6, <1>10, <1>11, <1>14, <2>2, Marks
    <3> QED BY <1>2, <2>2, <3>1 DEF PageOK
  <2>3. CASE m = k /\ c[k].valid # 1
    <3>1. g.nat[m] = f.nat[m] /\ g.cache[m] # None /\ g.cache[m].dirty /\ g.cache[m] \in Page
      BY <1>2, <1>5, <1>6, <1>10, <1>11, <1>14, <2>3, Marks
    <3> QED BY <1>2, <2>3, <3>1 DEF PageOK
  <2>4. CASE m = k /\ c[k].valid = 1
    <3>1. g.nat[m] = None /\ g.cache[m] = None  BY <1>5, <1>6, <1>10, <1>14, <2>4
    <3> QED BY <1>2, <2>4, <3>1, Marks DEF PageOK
  <2>5. CASE m \notin {ino, k}
    <3>1. g.nat[m] = f.nat[m] /\ g.cache[m] = f.cache[m]  BY <1>5, <1>6, <1>10, <1>14, <2>5
    <3> QED BY <2>1, <3>1
  <2> QED BY <2>2, <2>3, <2>4, <2>5
<1>19. PagesOK(g, P)  BY <1>16, <1>17, <1>18 DEF PagesOK, FreeSet
<1>20. ASSUME NEW m \in Nid PROVE Content(g)[m] = WithoutBlock(c, ino, k, b)[m]
  <2>1. Content(g)[m] = IF g.cache[m] # None THEN g.cache[m].page ELSE g.nat[m]  BY DEF Content
  <2>2. WithoutBlock(c, ino, k, b)[m] = IF m = ino THEN x
                   ELSE IF m # k THEN c[m]
                   ELSE IF c[k].valid = 1 THEN None ELSE y
    BY <1>8 DEF WithoutBlock
  <2>3. CASE m = ino
    <3>1. g.cache[m] # None /\ g.cache[m].page = x  BY <1>10, <1>11, <1>14, <2>3, Marks
    <3> QED BY <2>1, <2>2, <2>3, <3>1
  <2>4. CASE m = k /\ c[k].valid # 1
    <3>1. g.cache[m] # None /\ g.cache[m].page = y  BY <1>10, <1>11, <1>14, <2>4, Marks
    <3> QED BY <1>2, <2>1, <2>2, <2>4, <3>1
  <2>5. CASE m = k /\ c[k].valid = 1
    <3>1. g.nat[m] = None /\ g.cache[m] = None  BY <1>5, <1>6, <1>10, <1>14, <2>5
    <3> QED BY <1>2, <2>1, <2>2, <2>5, <3>1
  <2>6. CASE m \notin {ino, k}
    <3>1. g.nat[m] = f.nat[m] /\ g.cache[m] = f.cache[m]  BY <1>5, <1>6, <1>10, <1>14, <2>6
    <3> QED BY <2>1, <2>2, <2>6, <3>1 DEF Content
  <2> QED BY <2>3, <2>4, <2>5, <2>6
<1>21. Content(g) = WithoutBlock(c, ino, k, b)  BY <1>20 DEF Content, WithoutBlock
<1>22. Cached(f) \ {k} \subseteq Cached(g) /\ Refs(g) = Refs(f) \ {k}
  <2>1. \A n \in Nid \ {ino, k} : g.cache[n] = f.cache[n]  BY <1>10, <1>14
  <2>2. g.cache[ino] # None /\ g.cache[ino].ref = f.cache[ino].ref
    BY <1>1, <1>10, <1>11, <1>14, Marks
  <2>3. k \notin Refs(g)
    <3>1. CASE c[k].valid = 1
      BY <1>10, <1>14, <3>1 DEF Refs
    <3>2. CASE c[k].valid # 1
      <4>1. g.cache[k].ref = 0  BY <1>10, <1>14, <3>2
      <4> QED BY <4>1 DEF Refs
    <3> QED BY <3>1, <3>2
  <2>4. Cached(f) \ {k} \subseteq Cached(g)  BY <1>1, <2>1, <2>2 DEF Cached
  <2>5. ASSUME NEW n \in Nid \ {k} PROVE n \in Refs(g) <=> n \in Refs(f)
    BY <1>1, <2>1, <2>2 DEF Refs
  <2> QED BY <2>3, <2>4, <2>5 DEF Refs
<1> QED BY <1>14, <1>19, <1>21, <1>22

-------------------------------------------------------------------------------
(* Nodes in order. *)

\* The inode and the index nodes of a file are the same in two contents.
Same(c, c2, n) ==
    /\ c2[n] = c[n]
    /\ \A i \in Idx : c[n].index[i] # None => c2[c[n].index[i]] = c[c[n].index[i]]

\* Only the file of inode d, its size, its index table and its index nodes, has changed.
Local(c, c2, d) ==
    /\ NodesOK(c2)
    /\ \A n \in Nid : IsInode(c2[n]) <=> IsInode(c[n])
    /\ c2[d].type = c[d].type /\ c2[d].nlink = c[d].nlink
    /\ \A n \in Nid \ {d} : IsInode(c[n]) => Same(c, c2, n)

\* What the order of the nodes says about an inode, and about its index nodes.
LEMMA InodeOK ==
  ASSUME NEW c, NodesOK(c), NEW d \in Nid, IsInode(c[d])
  PROVE  /\ c[d] \in Inode /\ c[d].index \in [Idx -> Nid \cup {None}]
         /\ \A i \in Idx : c[d].index[i] # None =>
              c[d].index[i] \in Nid /\ IsIndex(c[c[d].index[i]]) /\ c[c[d].index[i]] \in IndexNode
<1>1. c[d] \in Node \cup {None, InUse}  BY DEF NodesOK
<1>2. c[d] \in Inode /\ c[d].index \in [Idx -> Nid \cup {None}]  BY <1>1, Kinds, InodeIs
<1>3. ASSUME NEW i \in Idx, c[d].index[i] # None
      PROVE  c[d].index[i] \in Nid /\ IsIndex(c[c[d].index[i]]) /\ c[c[d].index[i]] \in IndexNode
  <2>1. c[d].index[i] \in Nid  BY <1>2, <1>3
  <2>2. IsIndex(c[c[d].index[i]])  BY <1>3 DEF NodesOK, Indexed
  <2>3. c[c[d].index[i]] \in Node \cup {None, InUse}  BY <2>1 DEF NodesOK
  <2> QED BY <2>1, <2>2, <2>3, Kinds
<1> QED BY <1>2, <1>3

\* Every node is of one kind.
LEMMA KindOf ==
  ASSUME NEW c, NodesOK(c), NEW n \in Nid
  PROVE  /\ IsInode(c[n]) <=> c[n] \in Inode
         /\ IsIndex(c[n]) <=> c[n] \in IndexNode
         /\ ~(IsInode(c[n]) /\ IsIndex(c[n]))
         /\ c[n] \in Node <=> IsInode(c[n]) \/ IsIndex(c[n])
         /\ c[n] \in Node \cup {None, InUse}
         /\ c[n] \in {None, InUse} => ~IsInode(c[n]) /\ ~IsIndex(c[n])
<1>1. c[n] \in Node \cup {None, InUse}  BY DEF NodesOK
<1>2. c[n] \in {None, InUse} => ~IsInode(c[n]) /\ ~IsIndex(c[n])  BY DEF IsInode, IsIndex
<1> QED BY <1>1, <1>2, Kinds

\* The counted sets are finite.
LEMMA CountedFinite ==
  ASSUME NEW c, NEW n
  PROVE  /\ IsFiniteSet(Off) /\ Cardinality(Off) = IndexSize
         /\ IsFiniteSet(Held(c, n)) /\ IsFiniteSet(BlocksOf(c, n))
         /\ Cardinality(Held(c, n)) \in Nat /\ Cardinality(BlocksOf(c, n)) \in Nat
<1>1. IsFiniteSet(Off) /\ Cardinality(Off) = IndexSize
  <2>1. IndexSize \in Nat \ {0} /\ 0 \in Int /\ IndexSize - 1 \in Int  BY Ranges
  <2> QED BY <2>1, FS_Interval DEF Off
<1>2. IsFiniteSet(Nid \X Off)  BY <1>1, NidFinite, FS_Product
<1>3. Held(c, n) \in SUBSET Off /\ BlocksOf(c, n) \in SUBSET (Nid \X Off)  BY DEF Held, BlocksOf
<1>4. IsFiniteSet(Held(c, n)) /\ IsFiniteSet(BlocksOf(c, n))  BY <1>1, <1>2, <1>3, FS_Subset
<1> QED BY <1>1, <1>4, FS_CardinalityType

\* An index node with a hole has room for a block.
LEMMA HasRoom ==
  ASSUME NEW c, NodesOK(c), NEW k \in Nid, IsIndex(c[k]), NEW o \in Off, c[k].data[o] = None
  PROVE  c[k].valid < IndexSize
<1>1. Held(c, k) \subseteq Off \ {o}  BY DEF Held
<1>2. IsFiniteSet(Off \ {o}) /\ Cardinality(Off \ {o}) = IndexSize - 1
  BY CountedFinite, CardRemove
<1>3. Cardinality(Held(c, k)) <= IndexSize - 1  BY <1>1, <1>2, FS_Subset
<1>4. c[k].valid = Cardinality(Held(c, k)) /\ Cardinality(Held(c, k)) \in Nat
  BY CountedFinite DEF NodesOK, Counted
<1> QED BY <1>3, <1>4, Ranges

\* A block of an index node makes its count, and that of the inode, positive.
LEMMA CountsPos ==
  ASSUME NEW c, NodesOK(c), NEW d \in Nid, IsInode(c[d]), NEW i \in Idx, NEW k, k = c[d].index[i],
         k # None, NEW o \in Off, c[k].data[o] # None
  PROVE  c[k].valid # 0 /\ c[d].blks # 0
<1>1. k \in Nid /\ IsIndex(c[k])  BY InodeOK
<1>2. o \in Held(c, k) /\ <<k, o>> \in BlocksOf(c, d)  BY <1>1 DEF Held, BlocksOf
<1>3. Cardinality(Held(c, k)) # 0 /\ Cardinality(BlocksOf(c, d)) # 0
  BY <1>2, CountedFinite, CardPos
<1> QED BY <1>1, <1>3 DEF NodesOK, Counted, Summed

-------------------------------------------------------------------------------
\* The same file: the same blocks.
LEMMA SameFile ==
  ASSUME NEW c, NEW c2, NodesOK(c), NEW n \in Nid, IsInode(c[n]), Same(c, c2, n)
  PROVE  /\ \A b \in Blocks : BlockAt(c2, n, b) = BlockAt(c, n, b)
         /\ DirFile(c2, n) = DirFile(c, n)
         /\ \A s : FileOK(c, n, s) => FileOK(c2, n, s)
         /\ DirNodeOK(c, n) => DirNodeOK(c2, n)
         /\ IsInode(c2[n]) /\ BlocksOf(c2, n) = BlocksOf(c, n)
<1>1. /\ c2[n] = c[n]
      /\ \A i \in Idx : c[n].index[i] # None => c2[c[n].index[i]] = c[c[n].index[i]]
  BY DEF Same
<1>2. \A b \in Blocks : BlockAt(c2, n, b) = BlockAt(c, n, b)
  <2> SUFFICES ASSUME NEW b \in Blocks PROVE BlockAt(c2, n, b) = BlockAt(c, n, b)
    OBVIOUS
  <2>1. b \div IndexSize \in Idx  BY PlaceOf DEF Blocks
  <2> QED BY <1>1, <2>1 DEF BlockAt
<1>3. DirFile(c2, n) = DirFile(c, n)
  <2>1. \A b \in BlkNr : b \in Blocks  BY BlkNrOff, FirstIndex DEF Blocks
  <2> QED BY <1>1, <1>2, <2>1 DEF DirFile
<1>4. \A s : FileOK(c, n, s) => FileOK(c2, n, s)  BY <1>1, <1>2 DEF FileOK
<1>5. DirNodeOK(c, n) => DirNodeOK(c2, n)  BY <1>1, <1>3, Ranges DEF DirNodeOK
<1>6. BlocksOf(c2, n) = BlocksOf(c, n)
  <2>1. \A z \in Nid \X Off : z[1] # None  BY Marks
  <2> QED BY <1>1, <2>1 DEF BlocksOf
<1> QED BY <1>1, <1>2, <1>3, <1>4, <1>5, <1>6

\* A file that two steps leave alone.
LEMMA SameTrans ==
  ASSUME NEW c, NEW c2, NEW c3, NEW n, Same(c, c2, n), Same(c2, c3, n)
  PROVE  Same(c, c3, n)
BY DEF Same

\* Two steps that change the same inode only.
LEMMA LocalTrans ==
  ASSUME NEW c, NEW c2, NEW c3, NEW d, Local(c, c2, d), Local(c2, c3, d)
  PROVE  Local(c, c3, d)
BY SameTrans DEF Local

\* No step at all.
LEMMA LocalRefl ==
  ASSUME NEW c, NEW d, NodesOK(c)
  PROVE  Local(c, c, d)
BY DEF Local, Same

-------------------------------------------------------------------------------
(* What the operations do to the nodes of a file. *)

\* A new index node holds no block yet.
LEMMA WithIndexIs ==
  ASSUME NEW c, NodesOK(c), NEW d \in Nid, IsInode(c[d]), NEW i \in Idx, c[d].index[i] = None,
         NEW n \in Nid, c[n] = None, NEW c2, c2 = WithIndex(c, d, i, n)
  PROVE  /\ Local(c, c2, d) /\ c2[d].size = c[d].size
         /\ c2[d].index = [c[d].index EXCEPT ![i] = n] /\ c2[n] = NewIndex(d)
         /\ \A b \in Blocks : BlockAt(c2, d, b) = BlockAt(c, d, b)
<1>1. c[d] \in Inode /\ c[d].index \in [Idx -> Nid \cup {None}] /\ n # d /\ ~IsInode(c[n]) /\ ~IsIndex(c[n])
  BY InodeOK, KindOf
<1>2. PICK y : y = [c[d] EXCEPT !.index[i] = n]  OBVIOUS
<1>3. /\ y \in Inode /\ y.index = [c[d].index EXCEPT ![i] = n] /\ y.type = c[d].type
      /\ y.size = c[d].size /\ y.blks = c[d].blks /\ y.nlink = c[d].nlink
  BY <1>1, <1>2, InodeIndex, SMTT(40)
<1>4. c2 = [m \in Nid |-> IF m = d THEN y ELSE IF m = n THEN NewIndex(d) ELSE c[m]]
  BY <1>2 DEF WithIndex
<1>5. c2[d] = y /\ c2[n] = NewIndex(d) /\ \A m \in Nid \ {d, n} : c2[m] = c[m]  BY <1>1, <1>4
<1>6. NewIndex(d) \in IndexNode /\ NewIndex(d).valid = 0 /\ \A o \in Off : NewIndex(d).data[o] = None
  BY NewIndexIs
<1>7. c2 \in [Nid -> Node \cup {None, InUse}]
  <2>1. \A m \in Nid : c[m] \in Node \cup {None, InUse}  BY KindOf
  <2>2. y \in Node /\ NewIndex(d) \in Node  BY <1>3, <1>6, InodeIs, IndexIs
  <2> QED BY <1>4, <2>1, <2>2
<1>8. ASSUME NEW m \in Nid
      PROVE  (IsInode(c2[m]) <=> IsInode(c[m])) /\ (IsIndex(c2[m]) <=> (IsIndex(c[m]) \/ m = n))
  <2>1. IsInode(y) /\ ~IsIndex(y) /\ IsIndex(NewIndex(d)) /\ ~IsInode(NewIndex(d))
    BY <1>3, <1>6, Kinds, InodeIs, IndexIs
  <2>2. ~IsIndex(c[d])  BY KindOf
  <2> QED BY <1>1, <1>5, <2>1, <2>2
<1>9. \A m \in Nid, j \in Idx : IsInode(c[m]) => c[m].index[j] # n
  <2>1. n # None  BY Marks
  <2> QED BY <1>1, <2>1 DEF NodesOK, Indexed
<1>10. \A m \in Nid, j \in Idx : IsInode(c[m]) => c2[m].index[j] = IF m = d /\ j = i THEN n ELSE c[m].index[j]
  <2>1. \A m \in Nid : IsInode(c[m]) => m # n  BY <1>1
  <2> QED BY <1>1, <1>3, <1>5, <2>1
<1>11. Indexed(c2)
  <2> SUFFICES ASSUME NEW m \in Nid, NEW j \in Idx, IsInode(c2[m]), c2[m].index[j] # None
               PROVE  IsIndex(c2[c2[m].index[j]])
    BY DEF Indexed
  <2>1. IsInode(c[m])  BY <1>8
  <2>2. CASE m = d /\ j = i
    BY <1>8, <1>10, <2>1, <2>2
  <2>3. CASE ~(m = d /\ j = i)
    <3>1. c2[m].index[j] = c[m].index[j]  BY <1>10, <2>1, <2>3
    <3>2. c[m].index[j] \in Nid /\ IsIndex(c[c[m].index[j]])  BY <2>1, <3>1, InodeOK
    <3> QED BY <1>8, <3>1, <3>2
  <2> QED BY <2>2, <2>3
<1>12. Apart(c2)
  <2>1. Apart(c)  BY DEF NodesOK
  <2>2. n # None  BY Marks
  <2> QED BY <1>8, <1>9, <1>10, <2>1, <2>2 DEF Apart
<1>13. Counted(c2)
  <2> SUFFICES ASSUME NEW m \in Nid, IsIndex(c2[m]) PROVE c2[m].valid = Cardinality(Held(c2, m))
    BY DEF Counted
  <2>1. CASE m = n
    <3>1. Held(c2, m) = {}  BY <1>5, <1>6, <2>1 DEF Held
    <3> QED BY <1>5, <1>6, <2>1, <3>1, FS_EmptySet
  <2>2. CASE m # n
    <3>1. IsIndex(c[m]) /\ m # d  BY <1>8, <2>2, KindOf
    <3>2. c2[m] = c[m]  BY <1>5, <2>2, <3>1
    <3> QED BY <3>1, <3>2 DEF NodesOK, Counted, Held
  <2> QED BY <2>1, <2>2
<1>14. \A m \in Nid : IsInode(c[m]) => BlocksOf(c2, m) = BlocksOf(c, m)
  <2> SUFFICES ASSUME NEW m \in Nid, IsInode(c[m]), NEW z \in Nid \X Off
               PROVE  z \in BlocksOf(c2, m) <=> z \in BlocksOf(c, m)
    BY DEF BlocksOf
  <2>1. CASE z[1] = n
    <3>1. c2[z[1]].data[z[2]] = None  BY <1>5, <1>6, <2>1
    <3> QED BY <1>9, <2>1, <3>1 DEF BlocksOf
  <2>2. CASE z[1] # n
    <3>1. (\E j \in Idx : c2[m].index[j] = z[1]) <=> (\E j \in Idx : c[m].index[j] = z[1])
      <4>1. z[1] # None  BY Marks
      <4> QED BY <1>10, <2>2, <4>1
    <3>2. (\E j \in Idx : c[m].index[j] = z[1]) => c2[z[1]] = c[z[1]]
      <4>1. (\E j \in Idx : c[m].index[j] = z[1]) => z[1] # d
        <5>1. \A j \in Idx : c[m].index[j] # d
          <6>1. ~IsIndex(c[d]) /\ d # None  BY KindOf, Marks
          <6> QED BY <6>1 DEF NodesOK, Indexed
        <5> QED BY <5>1
      <4> QED BY <1>5, <2>2, <4>1
    <3> QED BY <3>1, <3>2 DEF BlocksOf
  <2> QED BY <2>1, <2>2
<1>15. Summed(c2)
  <2>1. \A m \in Nid : IsInode(c[m]) => c2[m].blks = c[m].blks  BY <1>1, <1>3, <1>5
  <2> QED BY <1>8, <1>14, <2>1 DEF NodesOK, Summed
<1>16. Owned(c2)
  <2> SUFFICES ASSUME NEW m \in Nid, IsIndex(c2[m]), c2[m].valid # 0
               PROVE  \E e \in Nid, j \in Idx : IsInode(c2[e]) /\ c2[e].index[j] = m
    BY DEF Owned
  <2>1. m # n  BY <1>5, <1>6
  <2>2. IsIndex(c[m]) /\ c2[m] = c[m]  BY <1>5, <1>8, <2>1, KindOf
  <2>3. PICK e \in Nid, j \in Idx : IsInode(c[e]) /\ c[e].index[j] = m
    BY <2>2 DEF NodesOK, Owned
  <2>4. ~(e = d /\ j = i)  BY <2>3, Marks
  <2> QED BY <1>8, <1>10, <2>3, <2>4
<1>17. NodesOK(c2)  BY <1>7, <1>11, <1>12, <1>13, <1>15, <1>16 DEF NodesOK
<1>18. ASSUME NEW m \in Nid \ {d}, IsInode(c[m]) PROVE Same(c, c2, m)
  <2>1. m # n  BY <1>1, <1>18
  <2>2. \A j \in Idx : c[m].index[j] # None => c[m].index[j] \in Nid \ {d, n}
    BY <1>9, <1>18, InodeOK, KindOf
  <2> QED BY <1>5, <1>18, <2>1, <2>2 DEF Same
<1>19. Local(c, c2, d)  BY <1>3, <1>5, <1>8, <1>17, <1>18 DEF Local
<1>20. ASSUME NEW b \in Blocks PROVE BlockAt(c2, d, b) = BlockAt(c, d, b)
  <2>1. b \div IndexSize \in Idx /\ b % IndexSize \in Off  BY PlaceOf DEF Blocks
  <2>2. PICK j \in Idx : j = b \div IndexSize  BY <2>1
  <2>3. CASE j = i
    <3>1. n # None /\ c2[d].index[j] = n  BY <1>10, <2>3, Marks
    <3> QED BY <1>5, <1>6, <2>1, <2>2, <2>3, <3>1 DEF BlockAt
  <2>4. CASE j # i
    <3>1. c2[d].index[j] = c[d].index[j]  BY <1>10, <2>4
    <3>2. c[d].index[j] # None => c[d].index[j] \in Nid \ {d, n}  BY <1>9, InodeOK, KindOf
    <3> QED BY <1>5, <2>2, <3>1, <3>2 DEF BlockAt
  <2> QED BY <2>3, <2>4
<1> QED BY <1>3, <1>5, <1>19, <1>20

-------------------------------------------------------------------------------
(* Blocks and index nodes that come and go. *)

\* Nodes of the same kinds with the same index tables.
LEMMA SameTables ==
  ASSUME NEW c, NodesOK(c), NEW c2, c2 \in [Nid -> Node \cup {None, InUse}],
         \A m \in Nid : (IsInode(c2[m]) <=> IsInode(c[m])) /\ (IsIndex(c2[m]) <=> IsIndex(c[m])),
         \A m \in Nid : IsInode(c[m]) => c2[m].index = c[m].index,
         \A m \in Nid : IsIndex(c[m]) => c2[m].valid = Cardinality(Held(c2, m)),
         \A m \in Nid : IsInode(c[m]) => c2[m].blks = Cardinality(BlocksOf(c2, m)),
         \A m \in Nid : IsIndex(c[m]) /\ c2[m].valid # 0 =>
            \/ c[m].valid # 0
            \/ \E e \in Nid, j \in Idx : IsInode(c[e]) /\ c[e].index[j] = m
  PROVE  NodesOK(c2)
<1>1. Indexed(c2)
  <2> SUFFICES ASSUME NEW m \in Nid, NEW j \in Idx, IsInode(c2[m]), c2[m].index[j] # None
               PROVE  IsIndex(c2[c2[m].index[j]])
    BY DEF Indexed
  <2>1. IsInode(c[m]) /\ c2[m].index[j] = c[m].index[j]  OBVIOUS
  <2>2. c[m].index[j] \in Nid /\ IsIndex(c[c[m].index[j]])  BY <2>1, InodeOK
  <2> QED BY <2>1, <2>2
<1>2. Apart(c2)  BY DEF NodesOK, Apart
<1>3. Counted(c2) /\ Summed(c2)  BY DEF Counted, Summed
<1>4. Owned(c2)
  <2> SUFFICES ASSUME NEW m \in Nid, IsIndex(c2[m]), c2[m].valid # 0
               PROVE  \E e \in Nid, j \in Idx : IsInode(c2[e]) /\ c2[e].index[j] = m
    BY DEF Owned
  <2>1. \E e \in Nid, j \in Idx : IsInode(c[e]) /\ c[e].index[j] = m  BY DEF NodesOK, Owned
  <2> QED BY <2>1
<1> QED BY <1>1, <1>2, <1>3, <1>4 DEF NodesOK

\* A file is the same when neither its inode nor its index nodes change.
LEMMA SameWhere ==
  ASSUME NEW c, NodesOK(c), NEW c2, NEW m \in Nid, IsInode(c[m]), NEW S,
         \A n \in Nid \ S : c2[n] = c[n], m \notin S, \A j \in Idx : c[m].index[j] \notin S
  PROVE  Same(c, c2, m)
<1>1. \A j \in Idx : c[m].index[j] # None => c[m].index[j] \in Nid \ S  BY InodeOK
<1> QED BY <1>1 DEF Same

\* An index node of one inode is in no other index table, and is no inode.
LEMMA OnlyHere ==
  ASSUME NEW c, NodesOK(c), NEW d \in Nid, IsInode(c[d]), NEW i \in Idx, NEW k, k = c[d].index[i], k # None
  PROVE  /\ k \in Nid /\ k # d /\ ~IsInode(c[k]) /\ IsIndex(c[k]) /\ c[k] \in IndexNode
         /\ \A m \in Nid \ {d} : IsInode(c[m]) => \A j \in Idx : c[m].index[j] # k
         /\ \A j \in Idx \ {i} : c[d].index[j] # k
         /\ \A m \in Nid : IsInode(c[m]) => \A j \in Idx : c[m].index[j] # d
<1>1. k \in Nid /\ IsIndex(c[k]) /\ c[k] \in IndexNode  BY InodeOK
<1>2. k # d /\ ~IsInode(c[k]) /\ ~IsIndex(c[d]) /\ d # None  BY <1>1, KindOf, Marks
<1>3. Apart(c) /\ Indexed(c)  BY DEF NodesOK
<1>4. \A m \in Nid \ {d} : IsInode(c[m]) => \A j \in Idx : c[m].index[j] # k  BY <1>3 DEF Apart
<1>5. \A j \in Idx \ {i} : c[d].index[j] # k  BY <1>3 DEF Apart
<1>6. \A m \in Nid : IsInode(c[m]) => \A j \in Idx : c[m].index[j] # d
  BY <1>2, <1>3 DEF Indexed
<1> QED BY <1>1, <1>2, <1>4, <1>5, <1>6

\* One block of one index node differs.
LEMMA OneBlockAt ==
  ASSUME NEW c, NodesOK(c), NEW d \in Nid, IsInode(c[d]), NEW i \in Idx, NEW k, k = c[d].index[i], k # None,
         NEW o \in Off, NEW v, NEW c2, c2[d].index = c[d].index,
         \A m \in Nid \ {d, k} : c2[m] = c[m],
         \A p \in Off : c2[k].data[p] = IF p = o THEN v ELSE c[k].data[p],
         NEW b \in Blocks
  PROVE  BlockAt(c2, d, b) = IF b = IndexSize * i + o THEN v ELSE BlockAt(c, d, b)
<1>1. b \div IndexSize \in Idx /\ b % IndexSize \in Off /\ b \in Nat  BY PlaceOf DEF Blocks
<1>2. PICK j \in Idx, p \in Off : j = b \div IndexSize /\ p = b % IndexSize  BY <1>1
<1>3. b = IndexSize * i + o <=> j = i /\ p = o
  <2>1. b = IndexSize * j + p  BY <1>1, <1>2, DivMod
  <2>2. i \in Nat /\ j \in Nat  BY DEF Idx
  <2> QED BY <2>1, <2>2, PlaceUnique
<1>4. CASE j = i
  BY <1>2, <1>3, <1>4 DEF BlockAt
<1>5. CASE j # i
  <2>1. c[d].index[j] # None => c[d].index[j] \in Nid \ {d, k}  BY <1>5, OnlyHere, InodeOK
  <2> QED BY <1>2, <1>3, <1>5, <2>1 DEF BlockAt
<1> QED BY <1>4, <1>5

\* A block that is written.
LEMMA WithBlockIs ==
  ASSUME NEW c, NodesOK(c), NEW d \in Nid, IsInode(c[d]), NEW i \in Idx, NEW k, k = c[d].index[i], k # None,
         NEW o \in Off, NEW data \in FileData \cup DentryBlock, NEW c2, c2 = WithBlock(c, d, k, o, data)
  PROVE  /\ Local(c, c2, d) /\ c2[d].size = c[d].size /\ c2[d].index = c[d].index
         /\ c2[k].data[o] # None /\ \A p \in Off \ {o} : c2[k].data[p] = c[k].data[p]
         /\ \A b \in Blocks : BlockAt(c2, d, b) = IF b = IndexSize * i + o THEN data ELSE BlockAt(c, d, b)
<1>1. /\ k \in Nid /\ k # d /\ ~IsInode(c[k]) /\ IsIndex(c[k]) /\ c[k] \in IndexNode
      /\ \A m \in Nid \ {d} : IsInode(c[m]) => \A j \in Idx : c[m].index[j] # k
      /\ \A j \in Idx \ {i} : c[d].index[j] # k
      /\ \A m \in Nid : IsInode(c[m]) => \A j \in Idx : c[m].index[j] # d
  BY OnlyHere
<1>2. c[d] \in Inode /\ ~IsIndex(c[d])  BY InodeOK, KindOf
<1>3. c[k].data[o] = None => c[k].valid < IndexSize  BY <1>1, HasRoom
<1>4. PICK y, x : y = WithData(c[k], o, data) /\ x = IF c[k].data[o] = None THEN OneMore(c[d]) ELSE c[d]
  OBVIOUS
<1>5. /\ y \in IndexNode /\ y.data = [c[k].data EXCEPT ![o] = data] /\ y \in Node
      /\ y.valid = IF c[k].data[o] = None THEN c[k].valid + 1 ELSE c[k].valid
  BY <1>1, <1>3, <1>4, WithDataIs
<1>6. /\ x \in Inode /\ x.index = c[d].index /\ x.type = c[d].type /\ x \in Node
      /\ x.size = c[d].size /\ x.nlink = c[d].nlink
      /\ x.blks = IF c[k].data[o] = None THEN c[d].blks + 1 ELSE c[d].blks
  BY <1>2, <1>4, OneMoreIs, InodeIs
<1>7. c2 = [m \in Nid |-> IF m = k THEN y ELSE IF m = d THEN x ELSE c[m]]  BY <1>4 DEF WithBlock
<1>8. c2[d] = x /\ c2[k] = y /\ \A m \in Nid \ {d, k} : c2[m] = c[m]  BY <1>1, <1>7
<1>9. c2 \in [Nid -> Node \cup {None, InUse}]  BY <1>5, <1>6, <1>7, KindOf
<1>10. \A m \in Nid : (IsInode(c2[m]) <=> IsInode(c[m])) /\ (IsIndex(c2[m]) <=> IsIndex(c[m]))
  <2>1. IsInode(x) /\ ~IsIndex(x) /\ IsIndex(y) /\ ~IsInode(y)  BY <1>5, <1>6, Kinds
  <2> QED BY <1>1, <1>2, <1>8, <2>1
<1>11. \A m \in Nid : IsInode(c[m]) => c2[m].index = c[m].index  BY <1>1, <1>6, <1>8
<1>12. data # None  BY Marks
<1>13. \A p \in Off : c2[k].data[p] = IF p = o THEN data ELSE c[k].data[p]
  BY <1>1, <1>5, <1>8, IndexIs
<1>14. ASSUME NEW m \in Nid, IsIndex(c[m]) PROVE c2[m].valid = Cardinality(Held(c2, m))
  <2>1. c[m].valid = Cardinality(Held(c, m))  BY <1>14 DEF NodesOK, Counted
  <2>2. CASE m # k
    <3>1. c2[m] = c[m]  BY <1>2, <1>8, <1>14, <2>2
    <3> QED BY <2>1, <3>1 DEF Held
  <2>3. CASE m = k /\ c[k].data[o] = None
    <3>1. Held(c2, k) = Held(c, k) \cup {o} /\ o \notin Held(c, k)
      BY <1>12, <1>13, <2>3 DEF Held
    <3>2. IsFiniteSet(Held(c, k))  BY CountedFinite
    <3>3. Cardinality(Held(c2, k)) = Cardinality(Held(c, k)) + 1  BY <3>1, <3>2, CardAdd
    <3> QED BY <1>5, <1>8, <2>1, <2>3, <3>3
  <2>4. CASE m = k /\ c[k].data[o] # None
    <3>1. Held(c2, k) = Held(c, k)  BY <1>12, <1>13, <2>4 DEF Held
    <3> QED BY <1>5, <1>8, <2>1, <2>4, <3>1
  <2> QED BY <2>2, <2>3, <2>4
<1>15. ASSUME NEW m \in Nid \ {d}, IsInode(c[m]) PROVE Same(c, c2, m)
  <2>1. /\ \A n \in Nid \ {d, k} : c2[n] = c[n]
        /\ m \in Nid /\ m \notin {d, k} /\ \A j \in Idx : c[m].index[j] \notin {d, k}
    BY <1>1, <1>8, <1>15
  <2> QED BY <1>15, <2>1, SameWhere
<1>16. ASSUME NEW m \in Nid, IsInode(c[m]) PROVE c2[m].blks = Cardinality(BlocksOf(c2, m))
  <2>1. c[m].blks = Cardinality(BlocksOf(c, m))  BY <1>16 DEF NodesOK, Summed
  <2>2. CASE m # d
    <3>1. Same(c, c2, m)  BY <1>15, <1>16, <2>2
    <3>2. BlocksOf(c2, m) = BlocksOf(c, m) /\ c2[m] = c[m]  BY <1>16, <3>1, SameFile DEF Same
    <3> QED BY <2>1, <3>2
  <2>3. CASE m = d
    <3>1. \A z \in Nid \X Off : z \in BlocksOf(c2, d) <=>
             (\E j \in Idx : c[d].index[j] = z[1]) /\ c2[z[1]].data[z[2]] # None
      BY <1>6, <1>8 DEF BlocksOf
    <3>2. ASSUME NEW z \in Nid \X Off
          PROVE  z \in BlocksOf(c2, d) <=> z \in BlocksOf(c, d) \/ z = <<k, o>>
      <4>1. CASE z[1] = k
        <5>1. z = <<k, o>> <=> z[2] = o  BY <4>1
        <5>2. c2[z[1]].data[z[2]] = IF z[2] = o THEN data ELSE c[k].data[z[2]]  BY <1>13, <4>1
        <5> QED BY <1>12, <3>1, <4>1, <5>1, <5>2, Zenon DEF BlocksOf
      <4>2. CASE z[1] # k
        <5>1. (\E j \in Idx : c[d].index[j] = z[1]) => c2[z[1]] = c[z[1]]  BY <1>1, <1>8, <4>2
        <5> QED BY <3>1, <4>2, <5>1 DEF BlocksOf
      <4> QED BY <4>1, <4>2
    <3>3. BlocksOf(c2, d) = BlocksOf(c, d) \cup {<<k, o>>}
      <4>1. BlocksOf(c2, d) \subseteq Nid \X Off /\ BlocksOf(c, d) \subseteq Nid \X Off /\ <<k, o>> \in Nid \X Off
        BY <1>1 DEF BlocksOf
      <4> QED BY <3>2, <4>1
    <3>4. CASE c[k].data[o] = None
      <4>1. <<k, o>> \notin BlocksOf(c, d)  BY <3>4 DEF BlocksOf
      <4>2. IsFiniteSet(BlocksOf(c, d))  BY CountedFinite
      <4>3. Cardinality(BlocksOf(c2, d)) = Cardinality(BlocksOf(c, d)) + 1
        BY <3>3, <4>1, <4>2, CardAdd
      <4> QED BY <1>6, <1>8, <2>1, <2>3, <3>4, <4>3
    <3>5. CASE c[k].data[o] # None
      <4>1. <<k, o>> \in BlocksOf(c, d)  BY <1>1, <3>5 DEF BlocksOf
      <4>2. BlocksOf(c2, d) = BlocksOf(c, d)  BY <3>3, <4>1
      <4> QED BY <1>6, <1>8, <2>1, <2>3, <3>5, <4>2
    <3> QED BY <3>4, <3>5
  <2> QED BY <2>2, <2>3
<1>17. ASSUME NEW m \in Nid, IsIndex(c[m]), c2[m].valid # 0
       PROVE  c[m].valid # 0 \/ \E e \in Nid, j \in Idx : IsInode(c[e]) /\ c[e].index[j] = m
  <2>1. m # d  BY <1>2, <1>17
  <2> QED BY <1>8, <1>17, <2>1
<1>18. NodesOK(c2)  BY <1>9, <1>10, <1>11, <1>14, <1>16, <1>17, SameTables
<1>19. Local(c, c2, d)  BY <1>6, <1>8, <1>10, <1>15, <1>18 DEF Local
<1>20. ASSUME NEW b \in Blocks
       PROVE  BlockAt(c2, d, b) = IF b = IndexSize * i + o THEN data ELSE BlockAt(c, d, b)
  BY <1>6, <1>8, <1>13, OneBlockAt
<1> QED BY <1>6, <1>8, <1>12, <1>13, <1>19, <1>20

\* The content with another node.
Put(c, d, y) == [c EXCEPT ![d] = y]

\* An inode changes but for its index table and its block count.
LEMMA InodeChanged ==
  ASSUME NEW c, NodesOK(c), NEW d \in Nid, IsInode(c[d]), NEW y \in Inode,
         y.index = c[d].index, y.blks = c[d].blks, NEW c2, c2 = Put(c, d, y)
  PROVE  /\ NodesOK(c2) /\ \A n \in Nid : IsInode(c2[n]) <=> IsInode(c[n])
         /\ c2[d] = y /\ \A n \in Nid \ {d} : c2[n] = c[n]
         /\ \A n \in Nid \ {d} : IsInode(c[n]) => Same(c, c2, n)
         /\ \A b \in Blocks : BlockAt(c2, d, b) = BlockAt(c, d, b)
<1>1. c \in [Nid -> Node \cup {None, InUse}] /\ ~IsIndex(c[d])  BY KindOf DEF NodesOK
<1>2. c2[d] = y /\ \A n \in Nid \ {d} : c2[n] = c[n]  BY <1>1 DEF Put
<1>3. y \in Node /\ IsInode(y) /\ ~IsIndex(y)  BY InodeIs, Kinds
<1>4. c2 \in [Nid -> Node \cup {None, InUse}]  BY <1>1, <1>3 DEF Put
<1>5. \A m \in Nid : (IsInode(c2[m]) <=> IsInode(c[m])) /\ (IsIndex(c2[m]) <=> IsIndex(c[m]))
  BY <1>1, <1>2, <1>3
<1>6. \A m \in Nid : IsInode(c[m]) => c2[m].index = c[m].index  BY <1>2
<1>7. \A m \in Nid : IsIndex(c[m]) => c2[m] = c[m]  BY <1>1, <1>2
<1>8. \A m \in Nid : IsIndex(c[m]) => c2[m].valid = Cardinality(Held(c2, m))
  BY <1>7 DEF NodesOK, Counted, Held
<1>9. ASSUME NEW m \in Nid, IsInode(c[m]) PROVE BlocksOf(c2, m) = BlocksOf(c, m)
  <2>1. \A z \in Nid \X Off : (\E j \in Idx : c[m].index[j] = z[1]) => c2[z[1]] = c[z[1]]
    <3> SUFFICES ASSUME NEW z \in Nid \X Off, NEW j \in Idx, c[m].index[j] = z[1]
                 PROVE  c2[z[1]] = c[z[1]]
      OBVIOUS
    <3>1. z[1] \in Nid /\ z[1] # None  BY Marks
    <3>2. IsIndex(c[z[1]])  BY <1>9, <3>1, InodeOK
    <3> QED BY <1>7, <3>1, <3>2
  <2> QED BY <1>6, <1>9, <2>1 DEF BlocksOf
<1>10. \A m \in Nid : IsInode(c[m]) => c2[m].blks = Cardinality(BlocksOf(c2, m))
  BY <1>2, <1>9 DEF NodesOK, Summed
<1>11. \A m \in Nid : IsIndex(c[m]) /\ c2[m].valid # 0 =>
          c[m].valid # 0 \/ \E e \in Nid, j \in Idx : IsInode(c[e]) /\ c[e].index[j] = m
  BY <1>7
<1>12. NodesOK(c2)  BY <1>4, <1>5, <1>6, <1>8, <1>10, <1>11, SameTables
<1>13. ASSUME NEW m \in Nid \ {d}, IsInode(c[m]) PROVE Same(c, c2, m)
  <2>1. \A j \in Idx : c[m].index[j] \notin {d}
    <3>1. d # None  BY Marks
    <3> QED BY <1>1, <1>13, <3>1 DEF NodesOK, Indexed
  <2> QED BY <1>2, <1>13, <2>1, SameWhere
<1>14. ASSUME NEW b \in Blocks PROVE BlockAt(c2, d, b) = BlockAt(c, d, b)
  <2>1. b \div IndexSize \in Idx  BY PlaceOf DEF Blocks
  <2>2. \A j \in Idx : c[d].index[j] # None => c2[c[d].index[j]] = c[c[d].index[j]]
    BY <1>7, InodeOK
  <2> QED BY <1>2, <2>1, <2>2 DEF BlockAt
<1> QED BY <1>2, <1>5, <1>12, <1>13, <1>14

\* Another size.
Resized(c, d, s) == Put(c, d, [c[d] EXCEPT !.size = s])

\* Setting the size of an inode changes no block.
LEMMA ResizedIs ==
  ASSUME NEW c, NodesOK(c), NEW d \in Nid, IsInode(c[d]), NEW s \in 0 .. IndexSize * IndexTable,
         NEW c2, c2 = Resized(c, d, s)
  PROVE  /\ Local(c, c2, d) /\ c2[d].size = s /\ c2[d].index = c[d].index
         /\ \A n \in Nid \ {d} : c2[n] = c[n]
         /\ \A b \in Blocks : BlockAt(c2, d, b) = BlockAt(c, d, b)
<1>1. c[d] \in Inode  BY InodeOK
<1>2. PICK y : y = [c[d] EXCEPT !.size = s]  OBVIOUS
<1>3. /\ y \in Inode /\ y.index = c[d].index /\ y.type = c[d].type
      /\ y.size = s /\ y.blks = c[d].blks /\ y.nlink = c[d].nlink
  BY <1>1, <1>2, InodeSize
<1>4. c2 = Put(c, d, y)  BY <1>2 DEF Resized
<1>5. /\ NodesOK(c2) /\ \A n \in Nid : IsInode(c2[n]) <=> IsInode(c[n])
      /\ c2[d] = y /\ \A n \in Nid \ {d} : c2[n] = c[n]
      /\ \A n \in Nid \ {d} : IsInode(c[n]) => Same(c, c2, n)
      /\ \A b \in Blocks : BlockAt(c2, d, b) = BlockAt(c, d, b)
  BY <1>3, <1>4, InodeChanged
<1> QED BY <1>3, <1>5 DEF Local

\* A block that is truncated, when others are left in its index node.
LEMMA LessBlockIs ==
  ASSUME NEW c, NodesOK(c), NEW d \in Nid, IsInode(c[d]), NEW k, k = c[d].index[0], k # None,
         NEW o \in Off, c[k].data[o] # None, c[k].valid # 1, NEW c2, c2 = WithoutBlock(c, d, k, o)
  PROVE  /\ Local(c, c2, d) /\ c2[d].size = c[d].size /\ c2[d].index = c[d].index
         /\ \A p \in Off : c2[k].data[p] = IF p = o THEN None ELSE c[k].data[p]
         /\ c2[k].valid # 0
         /\ \A b \in Blocks : BlockAt(c2, d, b) = IF b = o THEN None ELSE BlockAt(c, d, b)
<1>1. 0 \in Idx  BY Ranges
<1>2. /\ k \in Nid /\ k # d /\ ~IsInode(c[k]) /\ IsIndex(c[k]) /\ c[k] \in IndexNode
      /\ \A m \in Nid \ {d} : IsInode(c[m]) => \A j \in Idx : c[m].index[j] # k
      /\ \A j \in Idx \ {0} : c[d].index[j] # k
      /\ \A m \in Nid : IsInode(c[m]) => \A j \in Idx : c[m].index[j] # d
  BY <1>1, OnlyHere
<1>3. c[d] \in Inode /\ ~IsIndex(c[d])  BY InodeOK, KindOf
<1>4. c[k].valid # 0 /\ c[d].blks # 0  BY <1>1, CountsPos
<1>5. PICK y, x : y = LessIndex(c[k], o) /\ x = LessInode(c[d], FALSE)  OBVIOUS
<1>6. /\ y \in IndexNode /\ y \in Node /\ y.valid = c[k].valid - 1
      /\ y.data = [p \in Off |-> IF p = o THEN None ELSE c[k].data[p]]
  BY <1>2, <1>4, <1>5, LessIndexIs
<1>7. /\ x \in Inode /\ x.index = c[d].index /\ x.type = c[d].type /\ x \in Node
      /\ x.size = c[d].size /\ x.nlink = c[d].nlink /\ x.blks = c[d].blks - 1
  <2>1. /\ x \in Inode /\ x \in Node /\ x.type = c[d].type /\ x.size = c[d].size
        /\ x.nlink = c[d].nlink /\ x.blks = c[d].blks - 1
        /\ x.index = [i \in Idx |-> IF FALSE /\ i = 0 THEN None ELSE c[d].index[i]]
    BY <1>3, <1>4, <1>5, LessInodeIs
  <2>2. x.index = c[d].index  BY <1>3, <2>1, InodeIs
  <2> QED BY <2>1, <2>2
<1>8. c2 = [m \in Nid |-> IF m = d THEN x ELSE IF m = k THEN y ELSE c[m]]
  <2>1. (c[k].valid = 1) = FALSE  OBVIOUS
  <2> QED BY <1>5, <2>1 DEF WithoutBlock
<1>9. c2[d] = x /\ c2[k] = y /\ \A m \in Nid \ {d, k} : c2[m] = c[m]  BY <1>2, <1>8
<1>10. c2 \in [Nid -> Node \cup {None, InUse}]  BY <1>6, <1>7, <1>8, KindOf
<1>11. \A m \in Nid : (IsInode(c2[m]) <=> IsInode(c[m])) /\ (IsIndex(c2[m]) <=> IsIndex(c[m]))
  <2>1. IsInode(x) /\ ~IsIndex(x) /\ IsIndex(y) /\ ~IsInode(y)  BY <1>6, <1>7, Kinds
  <2> QED BY <1>2, <1>3, <1>9, <2>1
<1>12. \A m \in Nid : IsInode(c[m]) => c2[m].index = c[m].index  BY <1>2, <1>7, <1>9
<1>13. \A p \in Off : c2[k].data[p] = IF p = o THEN None ELSE c[k].data[p]  BY <1>6, <1>9
<1>14. ASSUME NEW m \in Nid, IsIndex(c[m]) PROVE c2[m].valid = Cardinality(Held(c2, m))
  <2>1. c[m].valid = Cardinality(Held(c, m))  BY <1>14 DEF NodesOK, Counted
  <2>2. CASE m # k
    <3>1. c2[m] = c[m]  BY <1>3, <1>9, <1>14, <2>2
    <3> QED BY <2>1, <3>1 DEF Held
  <2>3. CASE m = k
    <3>1. Held(c2, k) = Held(c, k) \ {o} /\ o \in Held(c, k)  BY <1>13 DEF Held
    <3>2. IsFiniteSet(Held(c, k))  BY CountedFinite
    <3>3. Cardinality(Held(c2, k)) = Cardinality(Held(c, k)) - 1  BY <3>1, <3>2, CardRemove
    <3> QED BY <1>6, <1>9, <2>1, <2>3, <3>3
  <2> QED BY <2>2, <2>3
<1>15. ASSUME NEW m \in Nid \ {d}, IsInode(c[m]) PROVE Same(c, c2, m)
  <2>1. /\ \A n \in Nid \ {d, k} : c2[n] = c[n]
        /\ m \in Nid /\ m \notin {d, k} /\ \A j \in Idx : c[m].index[j] \notin {d, k}
    BY <1>2, <1>9, <1>15
  <2> QED BY <1>15, <2>1, SameWhere
<1>16. ASSUME NEW m \in Nid, IsInode(c[m]) PROVE c2[m].blks = Cardinality(BlocksOf(c2, m))
  <2>1. c[m].blks = Cardinality(BlocksOf(c, m))  BY <1>16 DEF NodesOK, Summed
  <2>2. CASE m # d
    <3>1. Same(c, c2, m)  BY <1>15, <1>16, <2>2
    <3>2. BlocksOf(c2, m) = BlocksOf(c, m) /\ c2[m] = c[m]  BY <1>16, <3>1, SameFile DEF Same
    <3> QED BY <2>1, <3>2
  <2>3. CASE m = d
    <3>1. \A z \in Nid \X Off : z \in BlocksOf(c2, d) <=>
             (\E j \in Idx : c[d].index[j] = z[1]) /\ c2[z[1]].data[z[2]] # None
      BY <1>7, <1>9 DEF BlocksOf
    <3>2. ASSUME NEW z \in Nid \X Off
          PROVE  z \in BlocksOf(c2, d) <=> z \in BlocksOf(c, d) /\ z # <<k, o>>
      <4>1. CASE z[1] = k
        <5>1. z = <<k, o>> <=> z[2] = o  BY <4>1
        <5>2. c2[z[1]].data[z[2]] = IF z[2] = o THEN None ELSE c[k].data[z[2]]  BY <1>13, <4>1
        <5> QED BY <3>1, <4>1, <5>1, <5>2, Zenon DEF BlocksOf
      <4>2. CASE z[1] # k
        <5>1. (\E j \in Idx : c[d].index[j] = z[1]) => c2[z[1]] = c[z[1]]  BY <1>2, <1>9, <4>2
        <5> QED BY <3>1, <4>2, <5>1 DEF BlocksOf
      <4> QED BY <4>1, <4>2
    <3>3. BlocksOf(c2, d) = BlocksOf(c, d) \ {<<k, o>>}
      <4>1. BlocksOf(c2, d) \subseteq Nid \X Off /\ BlocksOf(c, d) \subseteq Nid \X Off
        BY DEF BlocksOf
      <4> QED BY <3>2, <4>1
    <3>4. <<k, o>> \in BlocksOf(c, d)  BY <1>1, <1>2 DEF BlocksOf
    <3>5. IsFiniteSet(BlocksOf(c, d))  BY CountedFinite
    <3>6. Cardinality(BlocksOf(c2, d)) = Cardinality(BlocksOf(c, d)) - 1
      BY <3>3, <3>4, <3>5, CardRemove
    <3> QED BY <1>7, <1>9, <2>1, <2>3, <3>6
  <2> QED BY <2>2, <2>3
<1>17. ASSUME NEW m \in Nid, IsIndex(c[m]), c2[m].valid # 0
       PROVE  c[m].valid # 0 \/ \E e \in Nid, j \in Idx : IsInode(c[e]) /\ c[e].index[j] = m
  <2>1. m # d  BY <1>3, <1>17
  <2> QED BY <1>4, <1>9, <1>17, <2>1
<1>18. NodesOK(c2)  BY <1>10, <1>11, <1>12, <1>14, <1>16, <1>17, SameTables
<1>19. Local(c, c2, d)  BY <1>7, <1>9, <1>11, <1>15, <1>18 DEF Local
<1>20. ASSUME NEW b \in Blocks PROVE BlockAt(c2, d, b) = IF b = o THEN None ELSE BlockAt(c, d, b)
  <2>1. BlockAt(c2, d, b) = IF b = IndexSize * 0 + o THEN None ELSE BlockAt(c, d, b)
    BY <1>1, <1>7, <1>9, <1>13, OneBlockAt, SMTT(40)
  <2>2. IndexSize * 0 + o = o  BY Ranges DEF Off
  <2> QED BY <2>1, <2>2
<1>21. c2[k].valid # 0
  <2>1. c[k].valid \in Nat  BY <1>2, IndexIs
  <2> QED BY <1>6, <1>9, <2>1
<1> QED BY <1>7, <1>9, <1>13, <1>19, <1>20, <1>21

\* An index node is in one entry of one inode.
LEMMA ApartIs ==
  ASSUME NEW c, Apart(c), NEW m \in Nid, NEW n \in Nid, NEW i \in Idx, NEW j \in Idx,
         IsInode(c[m]), IsInode(c[n]), c[m].index[i] # None, c[m].index[i] = c[n].index[j]
  PROVE  m = n /\ i = j
BY DEF Apart

\* Some nodes go: neither inodes that stay, nor their index nodes.
LEMMA Dropped ==
  ASSUME NEW c, NodesOK(c), NEW c2, NEW S \in SUBSET Nid, NEW D \in SUBSET Nid,
         c2 \in [Nid -> Node \cup {None, InUse}],
         \A m \in S : c2[m] \in {None, InUse},
         \A m \in Nid \ (S \cup D) : c2[m] = c[m],
         \A m \in D \ S : IsInode(c[m]) /\ c2[m] \in Inode /\ c2[m].blks = Cardinality(BlocksOf(c2, m)),
         \A m \in D \ S : \A j \in Idx : c2[m].index[j] = IF c[m].index[j] \in S THEN None ELSE c[m].index[j],
         \A m \in Nid \ (S \cup D) : IsInode(c[m]) => \A j \in Idx : c[m].index[j] \notin S,
         \A m \in S : IsInode(c[m]) => \A j \in Idx :
             c[m].index[j] # None /\ c[m].index[j] \notin S => c[c[m].index[j]].valid = 0
  PROVE  /\ NodesOK(c2) /\ \A n \in Nid : IsInode(c2[n]) <=> IsInode(c[n]) /\ n \notin S
         /\ \A n \in Nid \ (S \cup D) : IsInode(c[n]) => Same(c, c2, n)
<1>1. \A m \in Nid : c2[m] \in Node \cup {None, InUse} /\ c[m] \in Node \cup {None, InUse}
  BY KindOf
<1>2. \A m \in S : ~IsInode(c2[m]) /\ ~IsIndex(c2[m])  BY DEF IsInode, IsIndex
<1>3. \A m \in D \ S : IsInode(c2[m]) /\ ~IsIndex(c2[m]) /\ ~IsIndex(c[m])
  BY <1>1, Kinds, KindOf
<1>4. \A n \in Nid : /\ IsInode(c2[n]) <=> IsInode(c[n]) /\ n \notin S
                     /\ IsIndex(c2[n]) <=> IsIndex(c[n]) /\ n \notin S
  BY <1>2, <1>3
<1>5. \A n \in Nid : IsIndex(c2[n]) => c2[n] = c[n]  BY <1>3, <1>4
<1>6. \A m \in Nid \ S : IsInode(c[m]) => \A j \in Idx :
         c2[m].index[j] = IF c[m].index[j] \in S THEN None ELSE c[m].index[j]
  OBVIOUS
<1>7. Indexed(c2)
  <2> SUFFICES ASSUME NEW m \in Nid, NEW j \in Idx, IsInode(c2[m]), c2[m].index[j] # None
               PROVE  IsIndex(c2[c2[m].index[j]])
    BY DEF Indexed
  <2>1. IsInode(c[m]) /\ m \notin S  BY <1>4
  <2>2. c2[m].index[j] = c[m].index[j] /\ c[m].index[j] \notin S  BY <1>6, <2>1
  <2>3. c[m].index[j] \in Nid /\ IsIndex(c[c[m].index[j]])  BY <2>1, <2>2, InodeOK
  <2> QED BY <1>4, <2>2, <2>3
<1>8. Apart(c2)
  <2>1. Apart(c)  BY DEF NodesOK
  <2> SUFFICES ASSUME NEW m \in Nid, NEW n \in Nid, NEW i \in Idx, NEW j \in Idx,
                      IsInode(c2[m]), IsInode(c2[n]), c2[m].index[i] # None,
                      c2[m].index[i] = c2[n].index[j]
               PROVE  m = n /\ i = j
    BY DEF Apart
  <2>2. IsInode(c[m]) /\ m \notin S /\ IsInode(c[n]) /\ n \notin S  BY <1>4
  <2>3. c2[m].index[i] = c[m].index[i] /\ c2[n].index[j] = c[n].index[j]  BY <1>6, <2>2
  <2>4. c[m].index[i] # None /\ c[m].index[i] = c[n].index[j]  BY <2>3
  <2> QED BY <2>1, <2>2, <2>4, ApartIs
<1>9. Counted(c2)  BY <1>4, <1>5 DEF NodesOK, Counted, Held
<1>10. ASSUME NEW m \in Nid \ (S \cup D), IsInode(c[m]) PROVE Same(c, c2, m)
  <2>1. \A j \in Idx : c[m].index[j] # None => c2[c[m].index[j]] = c[c[m].index[j]]
    <3> SUFFICES ASSUME NEW j \in Idx, c[m].index[j] # None
                 PROVE  c2[c[m].index[j]] = c[c[m].index[j]]
      OBVIOUS
    <3>1. c[m].index[j] \in Nid /\ IsIndex(c[c[m].index[j]]) /\ c[m].index[j] \notin S
      BY <1>10, InodeOK
    <3> QED BY <1>4, <1>5, <3>1
  <2> QED BY <1>10, <2>1 DEF Same
<1>11. Summed(c2)
  <2> SUFFICES ASSUME NEW m \in Nid, IsInode(c2[m]) PROVE c2[m].blks = Cardinality(BlocksOf(c2, m))
    BY DEF Summed
  <2>1. IsInode(c[m]) /\ m \notin S  BY <1>4
  <2>2. CASE m \notin D
    <3>1. Same(c, c2, m)  BY <1>10, <2>1, <2>2
    <3>2. BlocksOf(c2, m) = BlocksOf(c, m) /\ c2[m] = c[m]  BY <2>1, <3>1, SameFile DEF Same
    <3> QED BY <2>1, <3>2 DEF NodesOK, Summed
  <2> QED BY <2>1, <2>2
<1>12. Owned(c2)
  <2> SUFFICES ASSUME NEW m \in Nid, IsIndex(c2[m]), c2[m].valid # 0
               PROVE  \E e \in Nid, j \in Idx : IsInode(c2[e]) /\ c2[e].index[j] = m
    BY DEF Owned
  <2>1. IsIndex(c[m]) /\ c[m].valid # 0 /\ m \notin S  BY <1>4, <1>5
  <2>2. PICK e \in Nid, j \in Idx : IsInode(c[e]) /\ c[e].index[j] = m
    BY <2>1 DEF NodesOK, Owned
  <2>3. m # None  BY Marks
  <2>4. e \notin S  BY <2>1, <2>2, <2>3
  <2> QED BY <1>4, <1>6, <2>1, <2>2, <2>4
<1>13. NodesOK(c2)  BY <1>7, <1>8, <1>9, <1>11, <1>12 DEF NodesOK
<1> QED BY <1>4, <1>10, <1>13

\* The last block of the first index node is truncated: the index node goes.
LEMMA LastBlockIs ==
  ASSUME NEW c, NodesOK(c), NEW d \in Nid, IsInode(c[d]), NEW k, k = c[d].index[0], k # None,
         \A i \in Idx \ {0} : c[d].index[i] = None,
         NEW o \in Off, c[k].data[o] # None, c[k].valid = 1, NEW c2, c2 = WithoutBlock(c, d, k, o)
  PROVE  /\ Local(c, c2, d) /\ c2[d].size = c[d].size /\ \A i \in Idx : c2[d].index[i] = None
         /\ \A b \in Blocks : BlockAt(c2, d, b) = None /\ (b # o => BlockAt(c, d, b) = None)
<1>1. 0 \in Idx  BY Ranges
<1>2. /\ k \in Nid /\ k # d /\ ~IsInode(c[k]) /\ IsIndex(c[k]) /\ c[k] \in IndexNode
      /\ \A m \in Nid \ {d} : IsInode(c[m]) => \A j \in Idx : c[m].index[j] # k
      /\ \A m \in Nid : IsInode(c[m]) => \A j \in Idx : c[m].index[j] # d
  BY <1>1, OnlyHere
<1>3. c[d] \in Inode /\ c[d].blks # 0  BY <1>1, InodeOK, CountsPos
<1>4. PICK x : x = LessInode(c[d], TRUE)  OBVIOUS
<1>5. /\ x \in Inode /\ x \in Node /\ x.type = c[d].type /\ x.size = c[d].size
      /\ x.nlink = c[d].nlink /\ x.blks = c[d].blks - 1
      /\ x.index = [i \in Idx |-> IF TRUE /\ i = 0 THEN None ELSE c[d].index[i]]
  BY <1>3, <1>4, LessInodeIs
<1>6. \A i \in Idx : x.index[i] = None  BY <1>5
<1>7. c2 = [m \in Nid |-> IF m = d THEN x ELSE IF m = k THEN None ELSE c[m]]
  <2>1. (c[k].valid = 1) = TRUE  OBVIOUS
  <2> QED BY <1>4, <2>1 DEF WithoutBlock
<1>8. c2[d] = x /\ c2[k] = None /\ \A m \in Nid \ {d, k} : c2[m] = c[m]  BY <1>2, <1>7
<1>9. c2 \in [Nid -> Node \cup {None, InUse}]  BY <1>5, <1>7, KindOf
<1>10. Held(c, k) = {o}
  <2>1. o \in Held(c, k)  BY DEF Held
  <2>2. IsFiniteSet(Held(c, k))  BY CountedFinite
  <2>3. Cardinality(Held(c, k)) = 1  BY <1>2 DEF NodesOK, Counted
  <2> QED BY <2>1, <2>3, <2>2, CardOne
<1>11. x.blks = 0
  <2>1. BlocksOf(c, d) = {<<k, o>>}
    <3>1. \A z \in Nid \X Off : z \in BlocksOf(c, d) <=> z[1] = k /\ z[2] \in Held(c, k)
      <4>1. \A z \in Nid \X Off : (\E j \in Idx : c[d].index[j] = z[1]) <=> z[1] = k
        <5>1. \A z \in Nid \X Off : z[1] # None  BY Marks
        <5> QED BY <1>1, <5>1
      <4> QED BY <4>1 DEF BlocksOf, Held
    <3>2. \A z \in Nid \X Off : z = <<k, o>> <=> z[1] = k /\ z[2] = o  OBVIOUS
    <3>3. BlocksOf(c, d) \subseteq Nid \X Off /\ <<k, o>> \in Nid \X Off  BY <1>2 DEF BlocksOf
    <3> QED BY <1>10, <3>1, <3>2, <3>3
  <2>2. c[d].blks = 1  BY <2>1, FS_Singleton DEF NodesOK, Summed
  <2> QED BY <1>5, <2>2
<1>12. Cardinality(BlocksOf(c2, d)) = 0
  <2>1. BlocksOf(c2, d) = {}
    <3>1. \A z \in Nid \X Off : z[1] # None  BY Marks
    <3> QED BY <1>6, <1>8, <3>1 DEF BlocksOf
  <2> QED BY <2>1, FS_EmptySet
<1>13. PICK S, D : S = {k} /\ D = {d}  OBVIOUS
<1>14. /\ NodesOK(c2) /\ \A n \in Nid : IsInode(c2[n]) <=> IsInode(c[n]) /\ n \notin S
       /\ \A n \in Nid \ (S \cup D) : IsInode(c[n]) => Same(c, c2, n)
  <2>1. /\ S \in SUBSET Nid /\ D \in SUBSET Nid
        /\ \A m \in S : c2[m] \in {None, InUse}
        /\ \A m \in Nid \ (S \cup D) : c2[m] = c[m]
    BY <1>2, <1>8, <1>13
  <2>2. \A m \in D \ S : IsInode(c[m]) /\ c2[m] \in Inode /\ c2[m].blks = Cardinality(BlocksOf(c2, m))
    BY <1>5, <1>8, <1>11, <1>12, <1>13
  <2>3. \A m \in D \ S : \A j \in Idx : c2[m].index[j] = IF c[m].index[j] \in S THEN None ELSE c[m].index[j]
    BY <1>6, <1>8, <1>13
  <2>4. /\ \A m \in Nid \ (S \cup D) : IsInode(c[m]) => \A j \in Idx : c[m].index[j] \notin S
        /\ \A m \in S : IsInode(c[m]) => \A j \in Idx :
             c[m].index[j] # None /\ c[m].index[j] \notin S => c[c[m].index[j]].valid = 0
    BY <1>2, <1>13
  <2> QED BY <1>9, <2>1, <2>2, <2>3, <2>4, Dropped, SMTT(40)
<1>15. Local(c, c2, d)
  <2>1. \A n \in Nid : IsInode(c2[n]) <=> IsInode(c[n])  BY <1>2, <1>13, <1>14
  <2>2. \A n \in Nid \ {d} : IsInode(c[n]) => Same(c, c2, n)  BY <1>2, <1>13, <1>14
  <2> QED BY <1>5, <1>8, <1>14, <2>1, <2>2, Zenon DEF Local
<1>16. ASSUME NEW b \in Blocks PROVE BlockAt(c2, d, b) = None /\ (b # o => BlockAt(c, d, b) = None)
  <2>1. b \div IndexSize \in Idx /\ b % IndexSize \in Off /\ b \in Nat  BY PlaceOf DEF Blocks
  <2>2. BlockAt(c2, d, b) = None  BY <1>6, <1>8, <2>1 DEF BlockAt
  <2>3. CASE b \div IndexSize # 0
    BY <2>1, <2>2, <2>3 DEF BlockAt
  <2>4. CASE b \div IndexSize = 0
    <3>1. b = IndexSize * 0 + (b % IndexSize)  BY <2>1, <2>4, DivMod
    <3>2. b = b % IndexSize  BY <2>1, <3>1, Ranges DEF Off
    <3>3. b # o => c[k].data[b % IndexSize] = None  BY <1>10, <2>1, <3>2 DEF Held
    <3> QED BY <2>2, <2>4, <3>3, Zenon DEF BlockAt
  <2> QED BY <2>3, <2>4
<1> QED BY <1>5, <1>6, <1>8, <1>16, <1>15

\* An inode and the index nodes that go with it.
LEMMA RemovedIs ==
  ASSUME NEW c, NodesOK(c), NEW d \in Nid, IsInode(c[d]), NEW S \in SUBSET Nid, d \in S,
         \A n \in S \ {d} : \E i \in Idx : n = c[d].index[i],
         \A i \in Idx : c[d].index[i] # None /\ c[d].index[i] \notin S => c[c[d].index[i]].valid = 0,
         NEW c2, c2 = Without(c, S)
  PROVE  /\ NodesOK(c2) /\ \A n \in Nid : IsInode(c2[n]) <=> IsInode(c[n]) /\ n # d
         /\ \A n \in Nid \ {d} : IsInode(c[n]) => Same(c, c2, n)
<1>1. PICK D : D = {n \in Nid : n \in {}}  OBVIOUS
<1>2. D \in SUBSET Nid /\ \A m : m \notin D  BY <1>1
<1>3. \A n \in Nid : c2[n] = IF n \in S THEN None ELSE c[n]  BY DEF Without
<1>4. c2 \in [Nid -> Node \cup {None, InUse}]  BY KindOf DEF Without
<1>5. ASSUME NEW n \in S \ {d}
      PROVE  ~IsInode(c[n]) /\ \A m \in Nid \ {d} : IsInode(c[m]) => \A j \in Idx : c[m].index[j] # n
  <2>1. PICK i \in Idx : n = c[d].index[i]  OBVIOUS
  <2>2. n # None  BY Marks
  <2> QED BY <2>1, <2>2, OnlyHere
<1>6. \A m \in Nid : IsInode(c[m]) => \A j \in Idx : c[m].index[j] # d
  <2>1. d # None /\ ~IsIndex(c[d])  BY Marks, KindOf
  <2> QED BY <2>1 DEF NodesOK, Indexed
<1>7. \A m \in Nid \ (S \cup D) : IsInode(c[m]) => \A j \in Idx : c[m].index[j] \notin S
  BY <1>5, <1>6
<1>8. \A m \in S : IsInode(c[m]) => \A j \in Idx :
         c[m].index[j] # None /\ c[m].index[j] \notin S => c[c[m].index[j]].valid = 0
  BY <1>5
<1>9. /\ \A m \in S : c2[m] \in {None, InUse}
      /\ \A m \in Nid \ (S \cup D) : c2[m] = c[m]
      /\ \A m \in D \ S : IsInode(c[m]) /\ c2[m] \in Inode /\ c2[m].blks = Cardinality(BlocksOf(c2, m))
      /\ \A m \in D \ S : \A j \in Idx : c2[m].index[j] = IF c[m].index[j] \in S THEN None ELSE c[m].index[j]
  BY <1>2, <1>3
<1>10. /\ NodesOK(c2) /\ \A n \in Nid : IsInode(c2[n]) <=> IsInode(c[n]) /\ n \notin S
       /\ \A n \in Nid \ (S \cup D) : IsInode(c[n]) => Same(c, c2, n)
  BY <1>2, <1>4, <1>7, <1>8, <1>9, Dropped
<1>11. \A n \in Nid : IsInode(c[n]) => (n \in S <=> n = d)  BY <1>5
<1> QED BY <1>2, <1>10, <1>11

\* A node without a content is marked otherwise.
LEMMA MarkedIs ==
  ASSUME NEW c, NodesOK(c), NEW n \in Nid, c[n] \in {None, InUse}, NEW v \in {None, InUse},
         NEW c2, c2 = Put(c, n, v)
  PROVE  /\ NodesOK(c2) /\ \A m \in Nid : IsInode(c2[m]) <=> IsInode(c[m])
         /\ \A m \in Nid : IsInode(c[m]) => Same(c, c2, m)
<1>1. PICK S, D : S = {n} /\ D = {m \in Nid : m \in {}}  OBVIOUS
<1>2. S \in SUBSET Nid /\ D \in SUBSET Nid /\ \A m : m \notin D  BY <1>1
<1>3. c \in [Nid -> Node \cup {None, InUse}] /\ ~IsInode(c[n]) /\ ~IsIndex(c[n]) /\ n # None
  BY KindOf, Marks DEF NodesOK
<1>4. c2[n] = v /\ \A m \in Nid \ {n} : c2[m] = c[m]  BY <1>3 DEF Put
<1>5. c2 \in [Nid -> Node \cup {None, InUse}]  BY <1>3 DEF Put
<1>6. /\ \A m \in S : c2[m] \in {None, InUse}
      /\ \A m \in Nid \ (S \cup D) : c2[m] = c[m]
      /\ \A m \in D \ S : IsInode(c[m]) /\ c2[m] \in Inode /\ c2[m].blks = Cardinality(BlocksOf(c2, m))
      /\ \A m \in D \ S : \A j \in Idx : c2[m].index[j] = IF c[m].index[j] \in S THEN None ELSE c[m].index[j]
  BY <1>1, <1>2, <1>4
<1>7. \A m \in Nid \ (S \cup D) : IsInode(c[m]) => \A j \in Idx : c[m].index[j] \notin S
  BY <1>1, <1>3 DEF NodesOK, Indexed
<1>8. \A m \in S : IsInode(c[m]) => \A j \in Idx :
         c[m].index[j] # None /\ c[m].index[j] \notin S => c[c[m].index[j]].valid = 0
  BY <1>1, <1>3
<1>9. /\ NodesOK(c2) /\ \A m \in Nid : IsInode(c2[m]) <=> IsInode(c[m]) /\ m \notin S
      /\ \A m \in Nid \ (S \cup D) : IsInode(c[m]) => Same(c, c2, m)
  BY <1>2, <1>5, <1>6, <1>7, <1>8, Dropped
<1> QED BY <1>1, <1>2, <1>3, <1>9

\* A new inode, without index nodes.
LEMMA NewFileIs ==
  ASSUME NEW c, NodesOK(c), NEW n \in Nid, c[n] \in {None, InUse}, NEW y \in Inode, y.blks = 0,
         \A i \in Idx : y.index[i] = None, NEW c2, c2 = Put(c, n, y)
  PROVE  /\ NodesOK(c2) /\ \A m \in Nid : IsInode(c2[m]) <=> IsInode(c[m]) \/ m = n
         /\ \A m \in Nid : IsInode(c[m]) => Same(c, c2, m)
         /\ c2[n] = y /\ \A b \in Blocks : BlockAt(c2, n, b) = None
<1>1. c \in [Nid -> Node \cup {None, InUse}] /\ ~IsInode(c[n]) /\ ~IsIndex(c[n]) /\ n # None
  BY KindOf, Marks DEF NodesOK
<1>2. c2[n] = y /\ \A m \in Nid \ {n} : c2[m] = c[m]  BY <1>1 DEF Put
<1>3. c2 \in [Nid -> Node \cup {None, InUse}] /\ IsInode(y) /\ ~IsIndex(y)
  <2>1. y \in Node  BY InodeIs
  <2> QED BY <1>1, <2>1, Kinds DEF Put
<1>4. \A m \in Nid : (IsInode(c2[m]) <=> IsInode(c[m]) \/ m = n) /\ (IsIndex(c2[m]) <=> IsIndex(c[m]))
  BY <1>1, <1>2, <1>3
<1>5. ASSUME NEW m \in Nid, IsInode(c[m]) PROVE Same(c, c2, m)
  <2>1. m \notin {n} /\ \A j \in Idx : c[m].index[j] \notin {n}
    BY <1>1, <1>5 DEF NodesOK, Indexed
  <2> QED BY <1>2, <1>5, <2>1, SameWhere
<1>6. Indexed(c2)
  <2> SUFFICES ASSUME NEW m \in Nid, NEW j \in Idx, IsInode(c2[m]), c2[m].index[j] # None
               PROVE  IsIndex(c2[c2[m].index[j]])
    BY DEF Indexed
  <2>1. m # n  BY <1>2
  <2>2. IsInode(c[m]) /\ c2[m] = c[m]  BY <1>2, <1>4, <2>1
  <2>3. c[m].index[j] \in Nid /\ IsIndex(c[c[m].index[j]])  BY <2>2, InodeOK
  <2> QED BY <1>4, <2>2, <2>3
<1>7. Apart(c2)
  <2> SUFFICES ASSUME NEW m \in Nid, NEW e \in Nid, NEW i \in Idx, NEW j \in Idx,
                      IsInode(c2[m]), IsInode(c2[e]), c2[m].index[i] # None,
                      c2[m].index[i] = c2[e].index[j]
               PROVE  m = e /\ i = j
    BY DEF Apart
  <2>1. m # n /\ e # n  BY <1>2
  <2>2. IsInode(c[m]) /\ c2[m] = c[m] /\ IsInode(c[e]) /\ c2[e] = c[e]  BY <1>2, <1>4, <2>1
  <2>3. Apart(c) /\ c[m].index[i] # None /\ c[m].index[i] = c[e].index[j]  BY <2>2 DEF NodesOK
  <2> QED BY <2>2, <2>3, ApartIs
<1>8. \A m \in Nid : IsIndex(c[m]) => c2[m] = c[m]  BY <1>1, <1>2
<1>9. Counted(c2)  BY <1>4, <1>8 DEF NodesOK, Counted, Held
<1>10. Summed(c2)
  <2> SUFFICES ASSUME NEW m \in Nid, IsInode(c2[m]) PROVE c2[m].blks = Cardinality(BlocksOf(c2, m))
    BY DEF Summed
  <2>1. CASE m = n
    <3>1. BlocksOf(c2, m) = {}
      <4>1. \A z \in Nid \X Off : z[1] # None  BY Marks
      <4> QED BY <1>2, <2>1, <4>1 DEF BlocksOf
    <3> QED BY <1>2, <2>1, <3>1, FS_EmptySet
  <2>2. CASE m # n
    <3>1. IsInode(c[m]) /\ Same(c, c2, m)  BY <1>4, <1>5, <2>2
    <3>2. BlocksOf(c2, m) = BlocksOf(c, m) /\ c2[m] = c[m]  BY <3>1, SameFile DEF Same
    <3> QED BY <3>1, <3>2 DEF NodesOK, Summed
  <2> QED BY <2>1, <2>2
<1>11. Owned(c2)
  <2> SUFFICES ASSUME NEW m \in Nid, IsIndex(c2[m]), c2[m].valid # 0
               PROVE  \E e \in Nid, j \in Idx : IsInode(c2[e]) /\ c2[e].index[j] = m
    BY DEF Owned
  <2>1. IsIndex(c[m]) /\ c[m].valid # 0  BY <1>4, <1>8
  <2>2. PICK e \in Nid, j \in Idx : IsInode(c[e]) /\ c[e].index[j] = m
    BY <2>1 DEF NodesOK, Owned
  <2>3. IsInode(c2[e]) /\ c2[e] = c[e]  BY <1>1, <1>2, <1>4, <2>2
  <2> QED BY <2>2, <2>3
<1>12. NodesOK(c2)  BY <1>3, <1>6, <1>7, <1>9, <1>10, <1>11 DEF NodesOK
<1>13. ASSUME NEW b \in Blocks PROVE BlockAt(c2, n, b) = None
  <2>1. b \div IndexSize \in Idx  BY PlaceOf DEF Blocks
  <2> QED BY <1>2, <2>1 DEF BlockAt
<1> QED BY <1>2, <1>4, <1>5, <1>12, <1>13

-------------------------------------------------------------------------------
(* Removing a file. *)

\* The blocks below the size that an index node names are as many as it holds.
LEMMA SpanCounts ==
  ASSUME NEW c, NodesOK(c), NEW d \in Nid, IsInode(c[d]), NEW s \in 0 .. IndexSize * IndexTable,
         \A b \in Blocks : BlockAt(c, d, b) # None <=> b < s,
         NEW i \in Idx, NEW k, k = c[d].index[i], k # None
  PROVE  /\ c[k].valid = Cardinality(Span(i, 0, s)) /\ IsFiniteSet(Span(i, 0, s))
         /\ \A b \in Span(i, 0, s) : b \in Blocks /\ b < s /\ b \div IndexSize = i
<1>1. IndexSize * IndexTable \in Nat /\ s \in Nat  BY Ranges
<1>2. \A b \in Span(i, 0, s) : b \in Blocks /\ b < s /\ b \div IndexSize = i
  BY <1>1 DEF Span, Blocks
<1>3. \A o \in Off : /\ IndexSize * i + o \in Blocks
                     /\ (IndexSize * i + o) \div IndexSize = i /\ (IndexSize * i + o) % IndexSize = o
  BY BlockOfPlace DEF Blocks
<1>4. \A o \in Off : o \in Held(c, k) <=> IndexSize * i + o < s  BY <1>3 DEF Held, BlockAt
<1>5. PICK h : h = [o \in Held(c, k) |-> IndexSize * i + o]  OBVIOUS
<1>6. \A o \in Held(c, k) : o \in Off /\ h[o] = IndexSize * i + o  BY <1>5 DEF Held
<1>7. \A o \in Held(c, k) : h[o] \in Span(i, 0, s)
  <2> SUFFICES ASSUME NEW o \in Held(c, k) PROVE h[o] \in Span(i, 0, s)
    OBVIOUS
  <2>1. h[o] = IndexSize * i + o /\ o \in Off  BY <1>6
  <2>2. IndexSize * i + o \in Blocks /\ (IndexSize * i + o) \div IndexSize = i /\ IndexSize * i + o < s
    BY <1>3, <1>4, <2>1
  <2>3. h[o] < s /\ h[o] \in Blocks /\ h[o] \div IndexSize = i  BY <2>1, <2>2
  <2>4. h[o] \in Nat  BY <1>1, <2>3 DEF Blocks
  <2> QED BY <1>1, <2>3, <2>4 DEF Span
<1>8. h \in [Held(c, k) -> Span(i, 0, s)]  BY <1>5, <1>7
<1>9. \A a, b \in Held(c, k) : h[a] = h[b] => a = b  BY <1>3, <1>6
<1>10. \A b \in Span(i, 0, s) : \E o \in Held(c, k) : h[o] = b
  <2> SUFFICES ASSUME NEW b \in Span(i, 0, s) PROVE \E o \in Held(c, k) : h[o] = b
    OBVIOUS
  <2>1. b \in Blocks /\ b < s /\ b \div IndexSize = i  BY <1>2
  <2>2. b % IndexSize \in Off /\ b = IndexSize * i + (b % IndexSize)
    BY <2>1, PlaceOf, DivMod DEF Blocks
  <2>3. b % IndexSize \in Held(c, k)  BY <1>4, <2>1, <2>2
  <2> QED BY <1>6, <2>2, <2>3
<1>11. h \in Bijection(Held(c, k), Span(i, 0, s))
  BY <1>8, <1>9, <1>10 DEF Bijection, Injection, Surjection, IsInjective
<1>12. IsFiniteSet(Held(c, k))  BY CountedFinite
<1>13. IsFiniteSet(Span(i, 0, s)) /\ Cardinality(Span(i, 0, s)) = Cardinality(Held(c, k))
  BY <1>11, <1>12, FS_Bijection DEF ExistsBijection
<1>14. c[k].valid = Cardinality(Held(c, k))
  <2>1. k \in Nid /\ IsIndex(c[k])  BY InodeOK
  <2> QED BY <2>1 DEF NodesOK, Counted
<1> QED BY <1>2, <1>13, <1>14

\* What FileRemove puts back of an inode, and what it may leave.
Removable(c, d) ==
    /\ RemovesAll(c, d)
    /\ \A n \in GoneOf(c[d]) : \E i \in Idx : n = c[d].index[i]
    /\ \A i \in Idx : c[d].index[i] # None /\ c[d].index[i] \notin GoneOf(c[d])
         => c[c[d].index[i]].valid = 0

\* The block of a file that its size covers is no hole.
LEMMA FileBlocks ==
  ASSUME NEW c, NEW d \in Nid, NEW s \in 0 .. MaxFile, FileOK(c, d, s), NEW b \in Blocks
  PROVE  BlockAt(c, d, b) # None <=> b < s
<1>1. BlockAt(c, d, b) = IF b < s THEN [fid |-> d, off |-> b] ELSE None  BY DEF FileOK
<1>2. CASE b < s
  <2>1. b \in Nat /\ MaxFile \in Nat  BY PlaceOf, FileAssumption DEF Blocks
  <2>2. b \in 0 .. MaxFile - 1  BY <1>2, <2>1
  <2>3. [fid |-> d, off |-> b] \in FileData  BY <2>2 DEF FileData
  <2>4. BlockAt(c, d, b) \in FileData  BY <1>1, <1>2, <2>3
  <2> QED BY <1>2, <2>4, Marks
<1> QED BY <1>1, <1>2

\* A file without holes can be removed.
LEMMA FileRemovable ==
  ASSUME NEW c, NodesOK(c), NEW d \in Nid, IsInode(c[d]), NEW s \in 0 .. MaxFile, FileOK(c, d, s)
  PROVE  Removable(c, d)
<1>1. c[d] \in Inode /\ c[d].size = s /\ s \in 0 .. IndexSize * IndexTable /\ s \in Nat
  BY InodeOK, InodeIs, FileAssumption DEF FileOK
<1>2. \A b \in Blocks : BlockAt(c, d, b) # None <=> b < s  BY FileBlocks
<1>3. ASSUME NEW i \in Idx, c[d].index[i] # None
      PROVE  /\ c[d].index[i] \in Nid /\ c[c[d].index[i]] \in IndexNode
             /\ c[c[d].index[i]].valid = Cardinality(Span(i, 0, s)) /\ IsFiniteSet(Span(i, 0, s))
             /\ \A b \in Span(i, 0, s) : b \in Blocks /\ b < s /\ b \div IndexSize = i
  BY <1>1, <1>2, <1>3, SpanCounts, InodeOK
<1>4. ASSUME NEW i \in Idx, Span(i, 0, s) # {} PROVE c[d].index[i] # None
  <2>1. PICK b \in Span(i, 0, s) : TRUE  BY <1>4
  <2>2. b \in Blocks /\ b < s /\ b \div IndexSize = i  BY <1>1, <2>1, Ranges DEF Span, Blocks
  <2>3. BlockAt(c, d, b) # None  BY <1>2, <2>2
  <2> QED BY <2>2, <2>3 DEF BlockAt
<1>5. \A i \in Idx : i \in Reaches(c[d], 0, s) <=> Span(i, 0, s) # {}
  <2>1. \A i \in Idx : 0 .. i \subseteq Idx  BY Ranges DEF Idx
  <2> QED BY <1>4, <2>1 DEF Reaches
<1>6. \A i \in Idx : c[d].index[i] # None => Used(c, d, i, 0, s) = Span(i, 0, s)
  BY <1>2, <1>3 DEF Used
<1>7. RemovesAll(c, d)
  <2> SUFFICES ASSUME NEW i \in Reaches(c[d], 0, s)
               PROVE  /\ c[d].index[i] \in Nid /\ c[c[d].index[i]] \in IndexNode
                      /\ c[c[d].index[i]].valid = Cardinality(Used(c, d, i, 0, s))
                      /\ IsFiniteSet(Used(c, d, i, 0, s))
                      /\ Max(Span(i, 0, s)) \in Used(c, d, i, 0, s)
    BY <1>1 DEF RemovesAll
  <2>1. i \in Idx /\ Span(i, 0, s) # {}  BY DEF Reaches
  <2>2. c[d].index[i] # None  BY <1>4, <2>1
  <2>3. Span(i, 0, s) \in SUBSET (0 .. s)  BY <1>1 DEF Span
  <2>4. Max(Span(i, 0, s)) \in Span(i, 0, s)  BY <1>1, <2>1, <2>3, MaxIn
  <2> QED BY <1>3, <1>6, <2>1, <2>2, <2>4
<1>8. \A n \in GoneOf(c[d]) : \E i \in Idx : n = c[d].index[i]  BY DEF GoneOf, Reaches
<1>9. ASSUME NEW i \in Idx, c[d].index[i] # None, c[d].index[i] \notin GoneOf(c[d])
      PROVE  c[c[d].index[i]].valid = 0
  <2>1. i \notin Reaches(c[d], 0, s)  BY <1>1, <1>9 DEF GoneOf
  <2>2. Span(i, 0, s) = {}  BY <1>5, <2>1
  <2> QED BY <1>3, <1>9, <2>2, FS_EmptySet
<1> QED BY <1>7, <1>8, <1>9 DEF Removable

\* So can an inode without index nodes.
LEMMA EmptyRemovable ==
  ASSUME NEW c, NEW d, \A i \in Idx : c[d].index[i] = None
  PROVE  Removable(c, d) /\ GoneOf(c[d]) = {}
<1>1. Reaches(c[d], 0, c[d].size) = {}
  <2>1. \A i \in Idx : i \in 0 .. i  BY Ranges DEF Idx
  <2> QED BY <2>1 DEF Reaches
<1>2. GoneOf(c[d]) = {}  BY <1>1 DEF GoneOf
<1> QED BY <1>1, <1>2 DEF Removable, RemovesAll

-------------------------------------------------------------------------------
(* Reading a directory and closing an inode. *)

\* What reading leaves alone: all a reader sees, and the pages that are cached.
Reads(f, g, P) ==
    PagesOK(g, P) /\ Content(g) = Content(f) /\ Cached(f) \subseteq Cached(g) /\ Keeps(f, g) /\ g.free = f.free

\* Reading twice is reading.
LEMMA ReadsTrans ==
  ASSUME NEW f, NEW g, NEW h, NEW P, Reads(f, g, P), Reads(g, h, P)
  PROVE  Reads(f, h, P)
BY DEF Reads, Keeps

\* Caching the page of a node is reading.
LEMMA ReadNodeReads ==
  ASSUME NEW f, NEW P, PagesOK(f, P), NEW n \in Nid, Content(f)[n] \in Node, NEW g, g = ReadNode(f, n)
  PROVE  Reads(f, g, P) /\ n \in Cached(g)
<1>1. /\ PagesOK(g, P) /\ Content(g) = Content(f) /\ Cached(g) = Cached(f) \cup {n}
      /\ Keeps(f, g) /\ g.free = f.free
  BY ReadNodeIs
<1> QED BY <1>1 DEF Reads

\* Reading a directory caches its inode, and changes nothing a reader sees.
LEMMA ReadDirIs ==
  ASSUME NEW f, NEW P, PagesOK(f, P), NEW c, c = Content(f), NodesOK(c), NEW d \in Nid, IsInode(c[d]),
         NEW g, g = ReadDir(f, d)
  PROVE  Reads(f, g, P) /\ d \in Cached(g)
<1>1. c[d] \in Node  BY KindOf
<1>2. PICK h : h = ReadNode(f, d)  OBVIOUS
<1>3. Reads(f, h, P) /\ d \in Cached(h)  BY <1>1, <1>2, ReadNodeReads
<1>4. h.cache[d].page = c[d]  BY <1>3, PageSeen DEF Reads
<1>5. CASE c[d].index[0] = None
  <2>1. g = h  BY <1>2, <1>4, <1>5 DEF ReadDir
  <2> QED BY <1>3, <2>1
<1>6. CASE c[d].index[0] # None
  <2>1. PICK i : i = c[d].index[0]  OBVIOUS
  <2>2. i \in Nid /\ IsIndex(c[i]) /\ c[i] \in Node  BY <1>6, <2>1, InodeOK, KindOf, Ranges
  <2>3. g = ReadNode(h, i)  BY <1>2, <1>4, <1>6, <2>1 DEF ReadDir
  <2>4. PagesOK(h, P) /\ Content(h)[i] \in Node  BY <1>3, <2>2 DEF Reads
  <2>5. Reads(h, g, P)  BY <2>2, <2>3, <2>4, ReadNodeReads
  <2> QED BY <1>3, <2>5, ReadsTrans DEF Reads
<1> QED BY <1>5, <1>6

\* The references are those of inodes.
RefsOK(f) == \A n \in Refs(f) : IsInode(Content(f)[n])

\* A page is referenced or not.
LEMMA RefIs ==
  ASSUME NEW f, NEW P, PagesOK(f, P), NEW n \in Cached(f)
  PROVE  /\ f.cache[n].ref # 0 <=> n \in Refs(f)
         /\ n \in Nid /\ f.cache[n].page = Content(f)[n]
<1>1. f \in Fs /\ n \in Nid /\ f.cache[n] # None /\ f.cache[n].page = Content(f)[n]
  BY PageSeen DEF PagesOK
<1>2. f.cache[n].ref \in {0, 1}  BY <1>1, PageIs
<1> QED BY <1>1, <1>2 DEF Refs

\* An inode with a name that is closed: the pages of the other inodes stay.
LEMMA CloseKept ==
  ASSUME NEW f, NEW P, PagesOK(f, P), NEW c, c = Content(f), NodesOK(c), RefsOK(f),
         NEW d \in Cached(f), IsInode(c[d]), d \in Refs(f) \/ c[d].nlink = 1,
         NEW g, g = CloseInode(f, d)
  PROVE  /\ PagesOK(g, P) /\ Content(g) = c /\ Keeps(f, g) /\ g.free = f.free /\ RefsOK(g)
         /\ \A n \in Cached(f) \ {d} : IsInode(c[n]) => n \in Cached(g)
         /\ d \in Refs(f) => d \in Cached(g)
<1>1. (f.cache[d].ref # 0 <=> d \in Refs(f)) /\ d \in Nid /\ f.cache[d].page = c[d]  BY RefIs
<1>2. CASE d \in Refs(f)
  <2>1. g = f  BY <1>1, <1>2 DEF CloseInode
  <2> QED BY <2>1 DEF Keeps
<1>3. CASE d \notin Refs(f)
  <2>1. PICK S : S = PagesOf(f, d)  OBVIOUS
  <2>2. g = Dropping(f, S)  BY <1>1, <1>3, <2>1 DEF CloseInode, Dropping
  <2>3. \A n \in S : n = d \/ (n \in Nid /\ IsIndex(c[n]))
    <3>1. S = {d} \cup IndexNodes(c[d])  BY <1>1, <2>1 DEF PagesOf
    <3>2. \A n \in IndexNodes(c[d]) : \E i \in Idx : n = c[d].index[i] /\ n # None
      BY DEF IndexNodes
    <3> QED BY <1>1, <3>1, <3>2, InodeOK
  <2>4. S \in SUBSET Nid /\ S \cap P = {}
    <3>1. \A n \in S : n \in Nid /\ c[n] \in Node  BY <1>1, <2>3, KindOf
    <3>2. \A n \in S : n \notin P  BY <3>1, ContentIs, Marks
    <3> QED BY <3>1, <3>2
  <2>5. /\ PagesOK(g, P) /\ Content(g) = Content(f)
        /\ Cached(g) = Cached(f) \ S /\ Refs(g) = Refs(f) \ S /\ g.free = f.free
        /\ g.open = f.open /\ g.saved = f.saved /\ g.failed = f.failed
    BY <2>2, <2>4, DropIs
  <2>6. \A n \in Nid : IsIndex(c[n]) => ~IsInode(c[n])  BY KindOf
  <2>7. Refs(g) = Refs(f)
    <3>1. \A n \in Refs(f) : n \in Nid /\ IsInode(c[n])  BY DEF RefsOK, Refs
    <3> QED BY <1>3, <2>3, <2>5, <2>6, <3>1
  <2>8. \A n \in Cached(f) \ {d} : IsInode(c[n]) => n \in Cached(g)  BY <2>3, <2>5, <2>6
  <2> QED BY <1>3, <2>5, <2>7, <2>8 DEF Keeps, RefsOK
<1> QED BY <1>2, <1>3

\* An inode without a name that is closed is removed.
LEMMA CloseGone ==
  ASSUME NEW f, NEW P, PagesOK(f, P), NEW c, c = Content(f), NodesOK(c), RefsOK(f),
         NEW d \in Cached(f), IsInode(c[d]), d \notin Refs(f), c[d].nlink = 0, Removable(c, d),
         NEW g, g = CloseInode(f, d)
  PROVE  /\ PagesOK(g, P) /\ NodesOK(Content(g)) /\ Keeps(f, g) /\ RefsOK(g)
         /\ \A n \in Nid : IsInode(Content(g)[n]) <=> IsInode(c[n]) /\ n # d
         /\ \A n \in Nid \ {d} : IsInode(c[n]) => Same(c, Content(g), n)
         /\ \A n \in Cached(f) \ {d} : IsInode(c[n]) => n \in Cached(g)
<1>1. (f.cache[d].ref # 0 <=> d \in Refs(f)) /\ d \in Nid /\ f.cache[d].page = c[d]  BY RefIs
<1>2. g = FileRemove(f, d)  BY <1>1 DEF CloseInode
<1>3. PICK S : S = GoneOf(c[d]) \cup {d}  OBVIOUS
<1>4. c[d] \in Inode /\ c[d] \in Node  BY <1>1, KindOf
<1>5. d \notin P  BY <1>1, <1>4, ContentIs, Marks
<1>6. /\ PagesOK(g, P) /\ Content(g) = Without(c, S)
      /\ Cached(g) = Cached(f) \ S /\ Refs(g) = Refs(f) \ S /\ S \in SUBSET Nid
      /\ g.open = f.open /\ g.saved = f.saved /\ g.failed = f.failed
  <2>1. RemovesAll(c, d)  BY DEF Removable
  <2> QED BY <1>2, <1>3, <1>4, <1>5, <2>1, FileRemoveIs
<1>7. /\ \A n \in S \ {d} : \E i \in Idx : n = c[d].index[i]
      /\ \A i \in Idx : c[d].index[i] # None /\ c[d].index[i] \notin S => c[c[d].index[i]].valid = 0
      /\ d \in S
  BY <1>3 DEF Removable
<1>8. PICK c2 : c2 = Without(c, S)  OBVIOUS
<1>9. Content(g) = c2  BY <1>6, <1>8
<1>10. /\ NodesOK(c2) /\ \A n \in Nid : IsInode(c2[n]) <=> IsInode(c[n]) /\ n # d
       /\ \A n \in Nid \ {d} : IsInode(c[n]) => Same(c, c2, n)
  BY <1>1, <1>6, <1>7, <1>8, RemovedIs
<1>11. \A n \in S \ {d} : ~IsInode(c[n])
  <2> SUFFICES ASSUME NEW n \in S \ {d} PROVE ~IsInode(c[n])
    OBVIOUS
  <2>1. PICK i \in Idx : n = c[d].index[i]  BY <1>7
  <2>2. n \in Nid /\ n # None  BY <1>6, Marks
  <2> QED BY <1>1, <2>1, <2>2, OnlyHere
<1>12. Refs(g) = Refs(f) /\ RefsOK(g)
  <2>1. \A n \in Refs(f) : n \in Nid /\ IsInode(c[n]) /\ n # d  BY DEF RefsOK, Refs
  <2>2. Refs(g) = Refs(f)  BY <1>6, <1>11, <2>1
  <2> QED BY <1>9, <1>10, <2>1, <2>2 DEF RefsOK
<1>13. \A n \in Cached(f) \ {d} : IsInode(c[n]) => n \in Cached(g)  BY <1>6, <1>11
<1> QED BY <1>6, <1>9, <1>10, <1>12, <1>13 DEF Keeps

-------------------------------------------------------------------------------
(* Writing blocks. *)

\* The blocks from .. at - 1 of inode d are written, between file systems f and g.
Wrote(f, g, P, d, from, at, data) ==
    /\ PagesOK(g, P) /\ Keeps(f, g) /\ Cached(f) \subseteq Cached(g)
    /\ Local(Content(f), Content(g), d) /\ Content(g)[d].size = Content(f)[d].size
    /\ \A b \in Blocks : BlockAt(Content(g), d, b) =
         IF from <= b /\ b < at THEN data[b] ELSE BlockAt(Content(f), d, b)

\* Writing no block.
LEMMA WroteNone ==
  ASSUME NEW f, NEW P, PagesOK(f, P), NodesOK(Content(f)), NEW d, NEW from \in Nat, NEW data
  PROVE  Wrote(f, f, P, d, from, from, data)
<1>1. Local(Content(f), Content(f), d)  BY LocalRefl
<1>2. \A b \in Blocks : ~(from <= b /\ b < from)  BY PlaceOf DEF Blocks
<1> QED BY <1>1, <1>2 DEF Wrote, Keeps

\* Writing some blocks, and then those that follow.
LEMMA WroteTrans ==
  ASSUME NEW f, NEW g, NEW h, NEW P, NEW d, NEW from \in Nat, NEW mid \in Nat, NEW at \in Nat, NEW data,
         from <= mid, mid <= at, Wrote(f, g, P, d, from, mid, data), Wrote(g, h, P, d, mid, at, data)
  PROVE  Wrote(f, h, P, d, from, at, data)
<1>1. Local(Content(f), Content(h), d)  BY LocalTrans DEF Wrote
<1>2. \A b \in Blocks : b \in Nat  BY PlaceOf DEF Blocks
<1>3. ASSUME NEW b \in Blocks
      PROVE  BlockAt(Content(h), d, b) = IF from <= b /\ b < at THEN data[b] ELSE BlockAt(Content(f), d, b)
  <2>1. /\ BlockAt(Content(h), d, b) = IF mid <= b /\ b < at THEN data[b] ELSE BlockAt(Content(g), d, b)
        /\ BlockAt(Content(g), d, b) = IF from <= b /\ b < mid THEN data[b] ELSE BlockAt(Content(f), d, b)
    BY DEF Wrote
  <2> QED BY <1>2, <2>1
<1> QED BY <1>1, <1>3 DEF Wrote, Keeps

\* Inode d gets an index node in entry i, granted or not.
IndexAdded(f, g, d, i) == \E granted \in BOOLEAN : g = AddIndex(f, d, i, granted)

\* A new index node, as a write of no block.
LEMMA HoleFilled ==
  ASSUME NEW f, NEW P, PagesOK(f, P), NEW c, c = Content(f), NodesOK(c), f.free # 0,
         NEW d \in Cached(f), IsInode(c[d]), NEW i \in Idx, c[d].index[i] = None,
         NEW g, IndexAdded(f, g, d, i), NEW at \in Nat, NEW data
  PROVE  /\ Wrote(f, g, P, d, at, at, data) /\ Content(g)[d].index[i] # None
         /\ \A j \in Idx \ {i} : Content(g)[d].index[j] = c[d].index[j]
<1>1. d \in Nid /\ c[d] \in Inode /\ c[d].index \in [Idx -> Nid \cup {None}]
  BY PageSeen, InodeOK
<1>2. PICK n \in Nid :
         /\ c[n] = None /\ PagesOK(g, P) /\ Content(g) = WithIndex(c, d, i, n)
         /\ Cached(g) = Cached(f) \cup {n} /\ Keeps(f, g) /\ g.free = f.free - 1
  <2>1. PICK granted \in BOOLEAN : g = AddIndex(f, d, i, granted)  BY DEF IndexAdded
  <2> QED BY <1>1, <2>1, AddIndexIs
<1>3. PICK c2 : c2 = WithIndex(c, d, i, n)  OBVIOUS
<1>4. /\ Local(c, c2, d) /\ c2[d].size = c[d].size
      /\ c2[d].index = [c[d].index EXCEPT ![i] = n] /\ c2[n] = NewIndex(d)
      /\ \A b \in Blocks : BlockAt(c2, d, b) = BlockAt(c, d, b)
  BY <1>1, <1>2, <1>3, WithIndexIs
<1>5. \A b \in Blocks : ~(at <= b /\ b < at)  BY PlaceOf DEF Blocks
<1>6. Wrote(f, g, P, d, at, at, data)  BY <1>2, <1>3, <1>4, <1>5 DEF Wrote
<1>7. n # None  BY Marks
<1> QED BY <1>1, <1>2, <1>3, <1>4, <1>6, <1>7

\* A block of an index node that is there.
LEMMA BlockWritten ==
  ASSUME NEW f, NEW P, PagesOK(f, P), NEW c, c = Content(f), NodesOK(c),
         NEW d \in Cached(f), IsInode(c[d]), NEW b \in Blocks, NEW i, i = b \div IndexSize,
         c[d].index[i] # None, NEW data, data[b] \in FileData \cup DentryBlock,
         NEW g, g = WriteBlock(f, d, b, data[b])
  PROVE  Wrote(f, g, P, d, b, b + 1, data) /\ Content(g)[d].index = c[d].index
<1>1. d \in Nid /\ c[d] \in Inode /\ b \in Nat /\ i \in Idx /\ b % IndexSize \in Off
  BY PageSeen, InodeOK, PlaceOf DEF Blocks
<1>2. PICK k, o, x : k = c[d].index[i] /\ o = b % IndexSize /\ x = data[b]  OBVIOUS
<1>3. k \in Nid /\ IsIndex(c[k]) /\ c[k] \in IndexNode /\ k # None /\ o \in Off
  BY <1>1, <1>2, InodeOK
<1>4. c[k].data[o] = None => c[k].valid < IndexSize  BY <1>3, HasRoom
<1>5. /\ PagesOK(g, P) /\ Content(g) = WithBlock(c, d, k, o, x)
      /\ Cached(g) = Cached(f) \cup {k} /\ Keeps(f, g) /\ g.free = f.free
  <2>1. /\ c[d] \in Inode /\ o \in Off /\ b % IndexSize = o /\ k \in Nid
        /\ c[d].index[b \div IndexSize] = k /\ c[k] \in IndexNode
        /\ x \in FileData \cup DentryBlock /\ g = WriteBlock(f, d, b, x)
    BY <1>1, <1>2, <1>3
  <2> QED BY <1>4, <2>1, WriteBlockIs
<1>6. PICK c2 : c2 = WithBlock(c, d, k, o, x)  OBVIOUS
<1>7. /\ Local(c, c2, d) /\ c2[d].size = c[d].size /\ c2[d].index = c[d].index
      /\ \A p \in Blocks : BlockAt(c2, d, p) = IF p = IndexSize * i + o THEN x ELSE BlockAt(c, d, p)
  <2>1. x \in FileData \cup DentryBlock  BY <1>2
  <2> QED BY <1>1, <1>2, <1>3, <1>6, <2>1, WithBlockIs
<1>8. b = IndexSize * i + o  BY <1>1, <1>2, DivMod
<1>9. ASSUME NEW p \in Blocks
      PROVE  BlockAt(c2, d, p) = IF b <= p /\ p < b + 1 THEN data[p] ELSE BlockAt(c, d, p)
  <2>1. p \in Nat  BY PlaceOf DEF Blocks
  <2>2. b <= p /\ p < b + 1 <=> p = b  BY <1>1, <2>1
  <2>3. BlockAt(c2, d, p) = IF p = b THEN x ELSE BlockAt(c, d, p)  BY <1>7, <1>8
  <2> QED BY <1>2, <2>2, <2>3
<1>10. Wrote(f, g, P, d, b, b + 1, data)  BY <1>5, <1>6, <1>7, <1>9 DEF Wrote
<1> QED BY <1>5, <1>6, <1>7, <1>10

\* A round of the loop that reaches its block.
LEMMA RoundIs ==
  ASSUME NEW f, NEW P, PagesOK(f, P), NEW c, c = Content(f), NodesOK(c),
         NEW d \in Cached(f), IsInode(c[d]), NEW b \in Blocks, NEW i, i = b \div IndexSize,
         NEW data, data[b] \in FileData \cup DentryBlock, NEW no,
         NEW s, s.fs = f, s.at = b, s = [fs |-> f, at |-> b],
         NEW t, t = WriteRound(s, d, b, data, no)
  PROVE  /\ t.at \in {b, b + 1} /\ Wrote(f, t.fs, P, d, b, t.at, data)
         /\ \A j \in Idx \ {i} : Content(t.fs)[d].index[j] = c[d].index[j]
         /\ no = None /\ t.at = b => t.fs = f
         /\ no = None /\ c[d].index[i] # None => t.at = b + 1
<1>1. d \in Nid /\ c[d] \in Inode /\ b \in Nat /\ i \in Idx /\ f.cache[d].page = c[d]
  BY PageSeen, InodeOK, PlaceOf DEF Blocks
<1>2. ~(b < b) /\ b # b + 1  BY <1>1
<1>3. no = None => no # <<b, "index">> /\ no # <<b, "data">>
  <2>1. <<b, "index">> \in Refusal /\ <<b, "data">> \in Refusal  BY <1>1 DEF Refusal
  <2> QED BY <2>1, MarkAssumption
<1>4. Wrote(f, f, P, d, b, b, data)  BY <1>1, WroteNone
<1>5. CASE c[d].index[i] = None /\ f.free = 0
  <2>1. t = s  BY <1>1, <1>2, <1>5 DEF WriteRound
  <2> QED BY <1>4, <1>5, <2>1
<1>6. CASE c[d].index[i] = None /\ f.free # 0 /\ no = <<b, "index">>
  <2>1. PICK g : g = AddIndex(f, d, i, FALSE)  OBVIOUS
  <2>2. t = [s EXCEPT !.fs = g]  BY <1>1, <1>2, <1>6, <2>1 DEF WriteRound
  <2>3. t.fs = g /\ t.at = b  BY <2>2
  <2>4. /\ Wrote(f, g, P, d, b, b, data)
        /\ \A j \in Idx \ {i} : Content(g)[d].index[j] = c[d].index[j]
    <3>1. f.free # 0 /\ i \in Idx /\ c[d].index[i] = None /\ b \in Nat
          /\ IndexAdded(f, g, d, i)
      BY <1>1, <1>6, <2>1 DEF IndexAdded
    <3> QED BY <3>1, HoleFilled
  <2> QED BY <1>3, <1>6, <2>3, <2>4
<1>7. CASE ~(c[d].index[i] = None /\ f.free = 0) /\ ~(c[d].index[i] = None /\ no = <<b, "index">>)
  <2>1. PICK g : g = IF c[d].index[i] = None THEN AddIndex(f, d, i, TRUE) ELSE f  OBVIOUS
  <2>2. /\ Wrote(f, g, P, d, b, b, data) /\ Content(g)[d].index[i] # None
        /\ \A j \in Idx \ {i} : Content(g)[d].index[j] = c[d].index[j]
    <3>1. CASE c[d].index[i] = None
      <4>1. f.free # 0 /\ i \in Idx /\ c[d].index[i] = None /\ b \in Nat
            /\ IndexAdded(f, g, d, i)
        BY <1>1, <1>7, <2>1, <3>1 DEF IndexAdded
      <4> QED BY <4>1, HoleFilled
    <3>2. CASE c[d].index[i] # None
      BY <1>4, <2>1, <3>2
    <3> QED BY <3>1, <3>2
  <2>3. t = IF no = <<b, "data">> THEN [s EXCEPT !.fs = g]
            ELSE [fs |-> WriteBlock(g, d, b, data[b]), at |-> b + 1]
    BY <1>1, <1>2, <1>7, <2>1 DEF WriteRound
  <2>4. CASE no = <<b, "data">>
    <3>1. t.fs = g /\ t.at = b  BY <2>3, <2>4
    <3> QED BY <1>3, <2>2, <2>4, <3>1
  <2>5. CASE no # <<b, "data">>
    <3>1. t.at = b + 1 /\ t.fs = WriteBlock(g, d, b, data[b])  BY <2>3, <2>5
    <3>2. PICK h, e : h = t.fs /\ e = Content(g)  OBVIOUS
    <3>3. /\ PagesOK(g, P) /\ NodesOK(e) /\ d \in Cached(g) /\ IsInode(e[d]) /\ e[d].index[i] # None
          /\ h = WriteBlock(g, d, b, data[b])
      BY <1>1, <2>2, <3>1, <3>2 DEF Wrote, Local
    <3>4. Wrote(g, h, P, d, b, b + 1, data) /\ Content(h)[d].index = e[d].index
      BY <3>2, <3>3, BlockWritten
    <3>5. Wrote(f, h, P, d, b, b + 1, data)
      <4>1. b + 1 \in Nat /\ b <= b /\ b <= b + 1  BY <1>1
      <4> QED BY <1>1, <2>2, <3>4, <4>1, WroteTrans
    <3> QED BY <1>2, <2>2, <3>1, <3>2, <3>4, <3>5
  <2> QED BY <2>4, <2>5
<1> QED BY <1>5, <1>6, <1>7

\* A state of the loop, and the states of the loop as a function.
IsLoop(s) == s = [fs |-> s.fs, at |-> s.at]
UpTo(u, f, d, from, to, data, no) ==
    u = [k \in from .. to |-> IF k = from THEN [fs |-> f, at |-> from]
                              ELSE WriteRound(u[k - 1], d, k - 1, data, no)]

\* A round leaves a state of the loop.
LEMMA RoundShape ==
  ASSUME NEW s, IsLoop(s), NEW d, NEW b, NEW data, NEW no, NEW t, t = WriteRound(s, d, b, data, no)
  PROVE  IsLoop(t)
<1>1. PICK x, y : s = [fs |-> x, at |-> y]  BY DEF IsLoop
<1>2. PICK g, i : g = (IF s.fs.cache[d].page.index[b \div IndexSize] = None
                       THEN AddIndex(s.fs, d, b \div IndexSize, TRUE) ELSE s.fs)
                  /\ i = AddIndex(s.fs, d, b \div IndexSize, FALSE)
  OBVIOUS
<1>3. PICK w : w = WriteBlock(g, d, b, data[b])  OBVIOUS
<1>4. t \in {s, [s EXCEPT !.fs = i], [s EXCEPT !.fs = g], [fs |-> w, at |-> b + 1]}
  BY <1>2, <1>3, Zenon DEF WriteRound
<1> QED BY <1>1, <1>4 DEF IsLoop

\* The loop has its states.
LEMMA UpToExists ==
  ASSUME NEW f, NEW d, NEW from \in Nat, NEW to \in Nat, from <= to, NEW data, NEW no
  PROVE  \E u : UpTo(u, f, d, from, to, data, no)
<1> DEFINE S == {n \in Nat : \E u : UpTo(u, f, d, from, from + n, data, no)}
<1>1. 0 \in S
  <2>1. PICK u : u = [k \in from .. from + 0 |-> [fs |-> f, at |-> from]]  OBVIOUS
  <2>2. \A k \in from .. from + 0 : k = from  OBVIOUS
  <2>3. UpTo(u, f, d, from, from + 0, data, no)  BY <2>1, <2>2 DEF UpTo
  <2> QED BY <2>3
<1>2. ASSUME NEW n \in Nat, n \in S
      PROVE  n + 1 \in S
  <2>1. PICK u : UpTo(u, f, d, from, from + n, data, no)  BY <1>2
  <2>2. PICK m \in Nat : m = from + n  OBVIOUS
  <2>3. PICK w : w = [k \in from .. m + 1 |-> IF k <= m THEN u[k] ELSE WriteRound(u[m], d, m, data, no)]
    OBVIOUS
  <2>4. ASSUME NEW k \in from .. m + 1
        PROVE  w[k] = IF k = from THEN [fs |-> f, at |-> from] ELSE WriteRound(w[k - 1], d, k - 1, data, no)
    <3>1. CASE k <= m
      <4>1. k \in from .. m /\ (k # from => k - 1 \in from .. m + 1 /\ k - 1 <= m)
        BY <2>2, <3>1
      <4>2. w[k] = u[k] /\ (k # from => w[k - 1] = u[k - 1])  BY <2>3, <3>1, <4>1
      <4>3. u[k] = IF k = from THEN [fs |-> f, at |-> from] ELSE WriteRound(u[k - 1], d, k - 1, data, no)
        BY <2>1, <2>2, <4>1 DEF UpTo
      <4> QED BY <4>2, <4>3
    <3>2. CASE ~(k <= m)
      <4>1. k = m + 1 /\ k - 1 = m /\ m \in from .. m + 1 /\ m <= m /\ k # from  BY <2>2, <3>2
      <4>2. w[k] = WriteRound(u[m], d, m, data, no) /\ w[m] = u[m]  BY <2>3, <3>2, <4>1
      <4> QED BY <4>1, <4>2
    <3> QED BY <3>1, <3>2
  <2>5. UpTo(w, f, d, from, m + 1, data, no)  BY <2>3, <2>4 DEF UpTo
  <2>6. m + 1 = from + (n + 1)  BY <2>2
  <2> QED BY <2>5, <2>6
<1> HIDE DEF S
<1>3. Nat \subseteq S  BY <1>1, <1>2, Induct
<1>4. to - from \in Nat /\ from + (to - from) = to  OBVIOUS
<1>5. to - from \in S  BY <1>3, <1>4
<1> QED BY <1>4, <1>5 DEF S

\* FileWriteInternal ends with the last of them.
LEMMA WriteEnds ==
  ASSUME NEW f, NEW d, NEW from \in Nat, NEW to \in Nat, from <= to, NEW data, NEW no,
         NEW t, t = FileWriteInternal(f, d, from, to, data, no)
  PROVE  \/ no = <<from, "estimate">> /\ t = [fs |-> f, at |-> from]
         \/ \E u : UpTo(u, f, d, from, to, data, no) /\ t = u[to]
<1>1. PICK u : u = CHOOSE v : UpTo(v, f, d, from, to, data, no)  OBVIOUS
<1>2. UpTo(u, f, d, from, to, data, no)  BY <1>1, UpToExists
<1>3. t = IF no = <<from, "estimate">> THEN [fs |-> f, at |-> from] ELSE u[to]
  BY <1>1 DEF FileWriteInternal, UpTo
<1> QED BY <1>2, <1>3

\* The blocks that the loop has written before block k.
WroteUpTo(s, f, P, d, from, k, data) ==
    /\ IsLoop(s) /\ s.at \in from .. k /\ Wrote(f, s.fs, P, d, from, s.at, data)

\* The rounds of the loop write the blocks up to the one where it ends.
LEMMA WriteLoop ==
  ASSUME NEW f, NEW P, PagesOK(f, P), NEW c, c = Content(f), NodesOK(c),
         NEW d \in Cached(f), IsInode(c[d]), NEW from \in Nat, NEW to \in Nat, from <= to,
         to <= IndexSize * IndexTable,
         NEW data, \A b \in from .. to - 1 : data[b] \in FileData \cup DentryBlock, NEW no,
         NEW u, UpTo(u, f, d, from, to, data, no)
  PROVE  WroteUpTo(u[to], f, P, d, from, to, data)
<1> DEFINE S == {n \in Nat : from + n <= to => WroteUpTo(u[from + n], f, P, d, from, from + n, data)}
<1>1. 0 \in S
  <2>1. u[from + 0] = [fs |-> f, at |-> from] /\ from + 0 = from /\ from \in from .. from
    BY DEF UpTo
  <2>2. Wrote(f, f, P, d, from, from, data)  BY WroteNone
  <2> QED BY <2>1, <2>2 DEF WroteUpTo, IsLoop
<1>2. ASSUME NEW n \in Nat, n \in S
      PROVE  n + 1 \in S
  <2>1. SUFFICES ASSUME from + (n + 1) <= to
                 PROVE  WroteUpTo(u[from + (n + 1)], f, P, d, from, from + (n + 1), data)
    OBVIOUS
  <2>2. PICK b \in Nat : b = from + n  OBVIOUS
  <2>3. /\ from + (n + 1) = b + 1 /\ from <= b /\ b <= to /\ b < to /\ b + 1 # from
        /\ b + 1 \in from .. to /\ (b + 1) - 1 = b
    BY <2>1, <2>2
  <2>4. PICK s : s = u[b]  OBVIOUS
  <2>5. WroteUpTo(s, f, P, d, from, b, data)  BY <1>2, <2>2, <2>3, <2>4
  <2>6. PICK t : t = WriteRound(s, d, b, data, no)  OBVIOUS
  <2>7. u[b + 1] = t  BY <2>3, <2>4, <2>6 DEF UpTo
  <2>8. PICK a, g : a = s.at /\ g = s.fs  OBVIOUS
  <2>9. a \in Nat /\ from <= a /\ a <= b /\ Wrote(f, g, P, d, from, a, data) /\ s = [fs |-> g, at |-> a]
    BY <2>5, <2>8 DEF WroteUpTo, IsLoop
  <2>10. IsLoop(t)  BY <2>5, <2>6, RoundShape DEF WroteUpTo
  <2>11. WroteUpTo(t, f, P, d, from, b + 1, data)
    <3>1. CASE a < b
      <4>1. t = s  BY <2>6, <2>8, <3>1 DEF WriteRound
      <4>2. a \in from .. b + 1  BY <2>9
      <4> QED BY <2>8, <2>9, <2>10, <4>1, <4>2 DEF WroteUpTo
    <3>2. CASE a = b
      <4>1. PICK e, i : e = Content(g) /\ i = b \div IndexSize  OBVIOUS
      <4>2. /\ PagesOK(g, P) /\ NodesOK(e) /\ d \in Cached(g) /\ IsInode(e[d])
        BY <2>9, <4>1, PageSeen DEF Wrote, Local
      <4>3. b \in Blocks /\ data[b] \in FileData \cup DentryBlock  BY <2>3, Ranges DEF Blocks
      <4>4. s.fs = g /\ s.at = b /\ s = [fs |-> g, at |-> b]  BY <2>8, <2>9, <3>2
      <4>5. t.at \in {b, b + 1} /\ Wrote(g, t.fs, P, d, b, t.at, data)
        BY <2>6, <4>1, <4>2, <4>3, <4>4, RoundIs
      <4>6. PICK h, x : h = t.fs /\ x = t.at  OBVIOUS
      <4>7. x \in Nat /\ b <= x /\ x \in from .. b + 1 /\ Wrote(g, h, P, d, b, x, data)
            /\ Wrote(f, g, P, d, from, b, data)
        BY <2>3, <2>9, <3>2, <4>5, <4>6
      <4>8. Wrote(f, h, P, d, from, x, data)  BY <2>3, <4>7, WroteTrans
      <4> QED BY <2>10, <4>6, <4>7, <4>8 DEF WroteUpTo
    <3> QED BY <2>9, <3>1, <3>2
  <2> QED BY <2>3, <2>7, <2>11
<1> HIDE DEF S
<1>3. Nat \subseteq S  BY <1>1, <1>2, Induct
<1>4. to - from \in Nat /\ from + (to - from) = to  OBVIOUS
<1>5. to - from \in S  BY <1>3, <1>4
<1> QED BY <1>4, <1>5 DEF S

\* FileWriteInternal writes the blocks up to one that is refused.
LEMMA FileWrittenIs ==
  ASSUME NEW f, NEW P, PagesOK(f, P), NEW c, c = Content(f), NodesOK(c),
         NEW d \in Cached(f), IsInode(c[d]), NEW from \in Nat, NEW to \in Nat, from <= to,
         to <= IndexSize * IndexTable,
         NEW data, \A b \in from .. to - 1 : data[b] \in FileData \cup DentryBlock, NEW no,
         NEW t, t = FileWriteInternal(f, d, from, to, data, no)
  PROVE  WroteUpTo(t, f, P, d, from, to, data)
<1>1. CASE t = [fs |-> f, at |-> from]
  <2>1. Wrote(f, f, P, d, from, from, data) /\ from \in from .. to  BY WroteNone
  <2> QED BY <1>1, <2>1 DEF WroteUpTo, IsLoop
<1>2. ASSUME NEW u, UpTo(u, f, d, from, to, data, no), t = u[to]
      PROVE  WroteUpTo(t, f, P, d, from, to, data)
  BY <1>2, WriteLoop
<1> QED BY <1>1, <1>2, WriteEnds

\* One block of a directory, where the log only refuses the estimate: all or nothing.
LEMMA DirWritten ==
  ASSUME NEW f, NEW P, PagesOK(f, P), NEW c, c = Content(f), NodesOK(c),
         NEW d \in Cached(f), IsInode(c[d]), NEW b \in BlkNr, NEW x \in DentryBlock,
         NEW no, no = None \/ no = <<b, "estimate">>, NEW data, data = [y \in {b} |-> x],
         NEW t, t = FileWriteInternal(f, d, b, b + 1, data, no), NEW g, g = t.fs
  PROVE  /\ t.at \in {b, b + 1} /\ (t.at = b => g = f)
         /\ PagesOK(g, P) /\ Keeps(f, g) /\ Cached(f) \subseteq Cached(g)
         /\ Local(c, Content(g), d) /\ Content(g)[d].size = c[d].size
         /\ \A j \in Idx \ {0} : Content(g)[d].index[j] = c[d].index[j]
         /\ t.at = b + 1 => \A a \in Blocks : BlockAt(Content(g), d, a) = IF a = b THEN x ELSE BlockAt(c, d, a)
         /\ no = None /\ c[d].index[0] # None => t.at = b + 1
<1>1. b \in Off /\ b \in Nat /\ b \in Blocks /\ b \div IndexSize = 0
  BY BlkNrOff, FirstIndex DEF Blocks
<1>2. data[b] = x /\ data[b] \in FileData \cup DentryBlock  OBVIOUS
<1>3. b + 1 \in Nat /\ b <= b + 1 /\ b # b + 1  BY <1>1
<1>4. CASE t = [fs |-> f, at |-> b] /\ no = <<b, "estimate">>
  <2>1. Local(c, c, d)  BY LocalRefl
  <2>2. no # None
    <3>1. <<b, "estimate">> \in Refusal  BY <1>1 DEF Refusal
    <3> QED BY <1>4, <3>1, MarkAssumption
  <2> QED BY <1>3, <1>4, <2>1, <2>2 DEF Keeps
<1>5. ASSUME NEW u, UpTo(u, f, d, b, b + 1, data, no), t = u[b + 1]
      PROVE  /\ t.at \in {b, b + 1} /\ Wrote(f, g, P, d, b, t.at, data)
             /\ \A j \in Idx \ {0} : Content(g)[d].index[j] = c[d].index[j]
             /\ no = None /\ t.at = b => g = f
             /\ no = None /\ c[d].index[0] # None => t.at = b + 1
  <2>1. PICK s : s = [fs |-> f, at |-> b]  OBVIOUS
  <2>2. u[b] = s /\ u[b + 1] = WriteRound(u[b], d, b, data, no)
    <3>1. b \in b .. b + 1 /\ b + 1 \in b .. b + 1 /\ (b + 1) - 1 = b  BY <1>1
    <3> QED BY <1>3, <1>5, <2>1, <3>1 DEF UpTo
  <2>3. s.fs = f /\ s.at = b /\ t = WriteRound(s, d, b, data, no)  BY <1>5, <2>1, <2>2
  <2>4. PICK i : i = b \div IndexSize  OBVIOUS
  <2> QED BY <1>1, <1>2, <2>1, <2>3, <2>4, RoundIs
<1>6. ASSUME NEW u, UpTo(u, f, d, b, b + 1, data, no), t = u[b + 1], no = None
      PROVE  /\ t.at \in {b, b + 1} /\ (t.at = b => g = f)
             /\ PagesOK(g, P) /\ Keeps(f, g) /\ Cached(f) \subseteq Cached(g)
             /\ Local(c, Content(g), d) /\ Content(g)[d].size = c[d].size
             /\ \A j \in Idx \ {0} : Content(g)[d].index[j] = c[d].index[j]
             /\ t.at = b + 1 =>
                  \A a \in Blocks : BlockAt(Content(g), d, a) = IF a = b THEN x ELSE BlockAt(c, d, a)
             /\ no = None /\ c[d].index[0] # None => t.at = b + 1
  <2>1. /\ t.at \in {b, b + 1} /\ Wrote(f, g, P, d, b, t.at, data)
        /\ \A j \in Idx \ {0} : Content(g)[d].index[j] = c[d].index[j]
        /\ no = None /\ t.at = b => g = f
        /\ no = None /\ c[d].index[0] # None => t.at = b + 1
    BY <1>5, <1>6
  <2>2. ASSUME t.at = b + 1, NEW a \in Blocks
        PROVE  BlockAt(Content(g), d, a) = IF a = b THEN x ELSE BlockAt(c, d, a)
    <3>1. BlockAt(Content(g), d, a) = IF b <= a /\ a < b + 1 THEN data[a] ELSE BlockAt(c, d, a)
      BY <2>1, <2>2 DEF Wrote
    <3>2. a \in Nat  BY PlaceOf DEF Blocks
    <3>3. b <= a /\ a < b + 1 <=> a = b  BY <1>1, <3>2
    <3> QED BY <1>2, <3>1, <3>3
  <2> QED BY <1>6, <2>1, <2>2 DEF Wrote
<1>7. \/ no = <<b, "estimate">> /\ t = [fs |-> f, at |-> b]
      \/ \E u : UpTo(u, f, d, b, b + 1, data, no) /\ t = u[b + 1]
  BY <1>1, <1>3, WriteEnds
<1>8. CASE no = None
  <2>1. no # <<b, "estimate">>
    <3>1. <<b, "estimate">> \in Refusal  BY <1>1 DEF Refusal
    <3> QED BY <1>8, <3>1, MarkAssumption
  <2>2. PICK u : UpTo(u, f, d, b, b + 1, data, no) /\ t = u[b + 1]  BY <1>7, <2>1
  <2> QED BY <1>6, <1>8, <2>2
<1>9. CASE no = <<b, "estimate">>
  <2>1. t = [fs |-> f, at |-> b]  BY <1>9 DEF FileWriteInternal
  <2> QED BY <1>4, <1>9, <2>1
<1> QED BY <1>8, <1>9

\* The directory file of an inode.
LEMMA DirFileIs ==
  ASSUME NEW c, NEW d
  PROVE  /\ DirFile(c, d).size = c[d].size
         /\ DirFile(c, d) = [size |-> c[d].size, blk |-> DirFile(c, d).blk]
         /\ DirFile(c, d).blk = [b \in BlkNr |-> BlockAt(c, d, b)]
BY DEF DirFile

\* The same, with the blocks of the file.
LEMMA DirNodeIs ==
  ASSUME NEW c, NodesOK(c), NEW d \in Nid, IsInode(c[d])
  PROVE  DirNodeOK(c, d) <=>
           /\ DirOK(DirFile(c, d))
           /\ \A i \in Idx \ {0} : c[d].index[i] = None
           /\ c[d].index[0] # None => \E b \in BlkNr : BlockAt(c, d, b) # None
           /\ \A o \in Off \ BlkNr : BlockAt(c, d, o) = None
<1>1. \A o \in Off : o \div IndexSize = 0 /\ o % IndexSize = o  BY FirstIndex
<1>2. \A o \in Off : BlockAt(c, d, o) = IF c[d].index[0] = None THEN None ELSE c[c[d].index[0]].data[o]
  BY <1>1 DEF BlockAt
<1> QED BY <1>2, BlkNrOff DEF DirNodeOK

-------------------------------------------------------------------------------
(* add_link and unlink. *)

\* Only directory d has changed between f and g, and inodes stay cached.
DirStep(f, g, P, d) ==
    /\ PagesOK(g, P) /\ g.open = f.open /\ g.failed = f.failed /\ Refs(g) = Refs(f)
    /\ \A n \in Cached(f) : IsInode(Content(f)[n]) => n \in Cached(g)
    /\ Local(Content(f), Content(g), d) /\ DirNodeOK(Content(g), d)

\* The block that add_link writes is a dentry block.
LEMMA LinkBlockIs ==
  ASSUME NEW d, DirOK(d), NEW n \in Names, NEW f \in Fids, FindFile(d, n) = None, HasPlace(d, n),
         NEW b, b = BlockOf[Place(d, n).level][n]
  PROVE  b \in BlkNr /\ LinkBlock(d, n, f) \in DentryBlock
<1>1. PICK e : e = AddLink(d, n, f)  OBVIOUS
<1>2. DirOK(e) /\ \E i \in BlkNr, s \in Slot : Adds(d, e, i, s, n, f)  BY <1>1, AddLinkIs
<1>3. PICK i \in BlkNr, s \in Slot : ~Has(d, i, s) /\ Has(e, i, s)  BY <1>2 DEF Adds
<1>4. b \in BlkNr  BY PlaceIs, BlockOfIs
<1>5. d.blk \in [BlkNr -> DentryBlock \cup {None}] /\ e.blk \in [BlkNr -> DentryBlock \cup {None}]
  BY <1>2 DEF DirOK
<1>6. PICK x : x = LinkBlock(d, n, f)  OBVIOUS
<1>7. e.blk = [d.blk EXCEPT ![b] = x]  BY <1>1, <1>6 DEF AddLink
<1>8. i = b  BY <1>3, <1>5, <1>7 DEF Has
<1>9. e.blk[b] = x /\ e.blk[b] # None  BY <1>3, <1>4, <1>5, <1>7, <1>8 DEF Has
<1> QED BY <1>4, <1>5, <1>6, <1>9

\* The size that add_link gives a directory is one that a file may have.
LEMMA PlaceSize ==
  ASSUME NEW d, DirOK(d), NEW n \in Names, HasPlace(d, n)
  PROVE  Place(d, n).size \in 0 .. IndexSize * IndexTable
<1>1. PICK k \in 0 .. MaxLevel : Place(d, n).size = 2 ^ k - 1  BY PlaceIs
<1>2. 2 ^ k - 1 \in 0 .. 2 ^ MaxLevel - 1  BY DepthIs
<1>3. PICK m : m = 2 ^ MaxLevel - 1  OBVIOUS
<1>4. m <= IndexSize /\ m \in Int
  <2>1. MaxLevel \in Nat  BY DirAssumption
  <2>2. 2 ^ MaxLevel \in Nat  BY <2>1, PowerIs
  <2> QED BY <1>3, <2>2, FileAssumption
<1>5. IndexSize <= IndexSize * IndexTable /\ IndexSize * IndexTable \in Nat  BY Ranges
<1> QED BY <1>1, <1>2, <1>3, <1>4, <1>5, Ranges

\* The size is grown, or it is right.
Sized(f, d, z) ==
    IF z = DirFile(Content(f), d).size THEN f ELSE Modify(f, d, [f.cache[d].page EXCEPT !.size = z])

\* add_link grows the size of a directory before it writes the block.
LEMMA SizedIs ==
  ASSUME NEW f, NEW P, PagesOK(f, P), NEW c, c = Content(f), NodesOK(c),
         NEW d \in Cached(f), IsInode(c[d]), NEW z \in 0 .. IndexSize * IndexTable,
         NEW g, g = Sized(f, d, z), NEW e, e = Content(g)
  PROVE  /\ PagesOK(g, P) /\ Keeps(f, g) /\ Cached(g) = Cached(f) /\ g.free = f.free
         /\ Local(c, e, d) /\ e[d].size = z /\ e[d].index = c[d].index
         /\ \A b \in Blocks : BlockAt(e, d, b) = BlockAt(c, d, b)
<1>1. d \in Nid /\ f.cache[d].page = c[d] /\ c[d] \in Inode  BY PageSeen, KindOf
<1>2. DirFile(c, d).size = c[d].size  BY DirFileIs
<1>3. CASE z = c[d].size
  <2>1. g = f  BY <1>2, <1>3 DEF Sized
  <2>2. Local(c, c, d)  BY LocalRefl
  <2> QED BY <1>3, <2>1, <2>2 DEF Keeps
<1>4. CASE z # c[d].size
  <2>1. PICK y : y = [c[d] EXCEPT !.size = z]  OBVIOUS
  <2>2. y \in Node /\ c[d] \in Node  BY <1>1, <2>1 DEF Inode, Node
  <2>3. g = Modify(f, d, y)  BY <1>1, <1>2, <1>4, <2>1 DEF Sized
  <2>4. /\ PagesOK(g, P) /\ e = [c EXCEPT ![d] = y]
        /\ Cached(g) = Cached(f) \cup {d} /\ Keeps(f, g) /\ g.free = f.free
    BY <1>1, <2>2, <2>3, ModifyIs
  <2>5. e = Resized(c, d, z)  BY <2>1, <2>4 DEF Resized, Put
  <2>6. /\ Local(c, e, d) /\ e[d].size = z /\ e[d].index = c[d].index
        /\ \A b \in Blocks : BlockAt(e, d, b) = BlockAt(c, d, b)
    BY <1>1, <2>5, ResizedIs
  <2> QED BY <2>4, <2>6
<1> QED BY <1>3, <1>4

\* add_link adds the name or leaves the names alone.
LEMMA LinkedIs ==
  ASSUME NEW f, NEW P, PagesOK(f, P), NEW c, c = Content(f), NodesOK(c),
         NEW d \in Cached(f), IsInode(c[d]), DirNodeOK(c, d), NEW n \in Names, NEW fid \in Nid,
         FindFile(DirFile(c, d), n) = None, NEW no \in {None, "estimate"},
         NEW r, r = add_link(f, d, n, fid, no), NEW g, g = r.fs
  PROVE  /\ DirStep(f, g, P, d) /\ g.saved = f.saved /\ r = [fs |-> g, ok |-> r.ok] /\ r.ok \in BOOLEAN
         /\ FindFile(DirFile(Content(g), d), n) = IF r.ok THEN fid ELSE None
         /\ \A m \in Names \ {n} : FindFile(DirFile(Content(g), d), m) = FindFile(DirFile(c, d), m)
<1>1. PICK D : D = DirFile(c, d)  OBVIOUS
<1>2. DirOK(D) /\ FindFile(D, n) = None /\ d \in Nid  BY <1>1, PageSeen DEF DirNodeOK
<1>3. CASE ~HasPlace(D, n)
  <2>1. r = [fs |-> f, ok |-> FALSE]  BY <1>1, <1>3 DEF add_link
  <2>2. g = f /\ r.ok = FALSE  BY <2>1
  <2>3. Local(c, c, d)  BY LocalRefl
  <2> QED BY <2>1, <2>2, <2>3 DEF DirStep
<1>4. CASE HasPlace(D, n)
  <2>1. PICK b, z, x : b = BlockOf[Place(D, n).level][n] /\ z = Place(D, n).size /\ x = LinkBlock(D, n, fid)
    OBVIOUS
  <2>2. b \in BlkNr /\ x \in DentryBlock /\ z \in 0 .. IndexSize * IndexTable
    BY <1>2, <1>4, <2>1, LinkBlockIs, PlaceSize, Ranges
  <2>3. PICK h : h = Sized(f, d, z)  OBVIOUS
  <2>4. PICK e : e = Content(h)  OBVIOUS
  <2>5. /\ PagesOK(h, P) /\ Keeps(f, h) /\ Cached(h) = Cached(f)
        /\ Local(c, e, d) /\ e[d].size = z /\ e[d].index = c[d].index
        /\ \A a \in Blocks : BlockAt(e, d, a) = BlockAt(c, d, a)
    BY <2>2, <2>3, <2>4, SizedIs
  <2>6. PICK ref1 : ref1 = IF no = None THEN None ELSE <<b, no>>  OBVIOUS
  <2>7. ref1 = None \/ ref1 = <<b, "estimate">>  BY <2>6
  <2>8. PICK data : data = [y \in {b} |-> x]  OBVIOUS
  <2>9. PICK t : t = FileWriteInternal(h, d, b, b + 1, data, ref1)  OBVIOUS
  <2>10. r = [fs |-> t.fs, ok |-> t.at > b]
    BY <1>1, <1>4, <2>1, <2>3, <2>6, <2>9, <2>8 DEF add_link, Sized
  <2>11. PICK c2 : c2 = Content(g)  OBVIOUS
  <2>12. g = t.fs /\ r.ok = (t.at > b)  BY <2>10
  <2>13. NodesOK(e) /\ IsInode(e[d]) /\ d \in Cached(h)  BY <1>2, <2>5 DEF Local
  <2>14. /\ t.at \in {b, b + 1} /\ (t.at = b => g = h)
         /\ PagesOK(g, P) /\ Keeps(h, g) /\ Cached(h) \subseteq Cached(g)
         /\ Local(e, c2, d) /\ c2[d].size = e[d].size
         /\ \A j \in Idx \ {0} : c2[d].index[j] = e[d].index[j]
         /\ t.at = b + 1 => \A a \in Blocks : BlockAt(c2, d, a) = IF a = b THEN x ELSE BlockAt(e, d, a)
    <3>1. PagesOK(h, P) /\ b \in BlkNr /\ x \in DentryBlock /\ g = t.fs  BY <2>2, <2>5, <2>12
    <3> QED BY <2>4, <2>7, <2>9, <2>11, <2>13, <2>8, <3>1, DirWritten
  <2>15. Local(c, c2, d) /\ Keeps(f, g) /\ Cached(f) \subseteq Cached(g) /\ c2[d].size = z
         /\ NodesOK(c2) /\ IsInode(c2[d])
    <3>1. Local(c, c2, d)  BY <2>5, <2>14, LocalTrans
    <3> QED BY <1>2, <2>5, <2>14, <3>1 DEF Keeps, Local
  <2>16. PICK E : E = DirFile(c2, d)  OBVIOUS
  <2>17. b \in Nat /\ b \in Blocks /\ \A o \in Off : o \in Blocks
    BY <2>2, BlkNrOff, FirstIndex DEF Blocks
  <2>18. E = [size |-> z, blk |-> E.blk] /\ E.blk = [a \in BlkNr |-> BlockAt(c2, d, a)]
         /\ D = [size |-> D.size, blk |-> D.blk] /\ D.blk = [a \in BlkNr |-> BlockAt(c, d, a)]
    BY <1>1, <2>15, <2>16, DirFileIs
  <2>19. CASE t.at = b
    <3>1. ~(t.at > b) /\ g = h  BY <2>14, <2>17, <2>19
    <3>2. (t.at > b) = FALSE
      <4>1. (t.at > b) \in BOOLEAN  BY <2>17, <2>19
      <4> QED BY <3>1, <4>1, Zenon
    <3>3. r.ok = FALSE /\ g = h  BY <2>12, <3>1, <3>2, Zenon
    <3>4. c2 = e  BY <2>4, <2>11, <3>3
    <3>5. E.blk = D.blk  BY <2>5, <2>17, <2>18, <3>4, BlkNrOff
    <3>6. E = AddLinkRefused(D, n)  BY <2>1, <2>18, <3>5 DEF AddLinkRefused
    <3>7. DirOK(E) /\ \A m \in Names : FindFile(E, m) = FindFile(D, m)
      BY <1>2, <1>4, <3>6, AddLinkRefusedIs
    <3>8. DirNodeOK(c2, d)
      <4>1. /\ DirOK(DirFile(e, d)) /\ \A i \in Idx \ {0} : e[d].index[i] = None
            /\ e[d].index[0] # None => \E a \in BlkNr : BlockAt(e, d, a) # None
        <5>1. c[d].index[0] # None => \E a \in BlkNr : BlockAt(c, d, a) # None
          BY <1>2, DirNodeIs
        <5>2. \A i \in Idx \ {0} : c[d].index[i] = None  BY <1>2, DirNodeIs
        <5> QED BY <2>5, <2>16, <2>17, <3>4, <3>7, <5>1, <5>2, BlkNrOff
      <4>2. \A o \in Off \ BlkNr : BlockAt(c, d, o) = None  BY <1>2, DirNodeIs
      <4>3. \A o \in Off \ BlkNr : BlockAt(e, d, o) = None  BY <2>5, <2>17, <4>2
      <4> QED BY <1>2, <2>13, <3>4, <4>1, <4>3, DirNodeIs
    <3> QED BY <1>1, <1>2, <2>10, <2>11, <2>12, <2>14, <2>15, <2>16, <3>3, <3>7, <3>8 DEF DirStep, Keeps
  <2>20. CASE t.at = b + 1
    <3>1. t.at > b  BY <2>17, <2>20
    <3>2. r.ok = TRUE  BY <2>12, <3>1, Zenon
    <3>3. \A a \in Blocks : BlockAt(c2, d, a) = IF a = b THEN x ELSE BlockAt(c, d, a)
      BY <2>5, <2>14, <2>20
    <3>4. E.blk = [D.blk EXCEPT ![b] = x]  BY <2>2, <2>17, <2>18, <3>3, BlkNrOff
    <3>5. E = AddLink(D, n, fid)  BY <2>1, <2>18, <3>4 DEF AddLink
    <3>6. fid \in Fids  BY Ranges
    <3>7. DirOK(E) /\ FindFile(E, n) = fid /\ \A m \in Names \ {n} : FindFile(E, m) = FindFile(D, m)
      BY <1>2, <1>4, <3>5, <3>6, AddLinkFind
    <3>8. DirNodeOK(c2, d)
      <4>1. \A i \in Idx \ {0} : c2[d].index[i] = None  BY <1>2, <2>5, <2>14, DirNodeIs
      <4>2. BlockAt(c2, d, b) # None  BY <2>2, <2>17, <3>3, Marks
      <4>3. ASSUME NEW o \in Off \ BlkNr
            PROVE  BlockAt(c2, d, o) = None
        <5>1. o # b /\ o \in Blocks  BY <2>2, <2>17
        <5>2. BlockAt(c, d, o) = None  BY <1>2, DirNodeIs
        <5> QED BY <3>3, <5>1, <5>2
      <4> QED BY <1>2, <2>2, <2>15, <2>16, <3>7, <4>1, <4>2, <4>3, DirNodeIs
    <3> QED BY <1>1, <2>10, <2>11, <2>12, <2>14, <2>15, <2>16, <3>2, <3>7, <3>8 DEF DirStep, Keeps
  <2> QED BY <2>14, <2>19, <2>20
<1> QED BY <1>3, <1>4

\* An index node that counts blocks has one.
LEMMA HasBlock ==
  ASSUME NEW c, NodesOK(c), NEW k \in Nid, IsIndex(c[k]), c[k].valid # 0
  PROVE  \E o \in Off : c[k].data[o] # None
<1>1. c[k].valid = Cardinality(Held(c, k))  BY DEF NodesOK, Counted
<1>2. IsFiniteSet(Held(c, k))  BY CountedFinite
<1>3. Held(c, k) # {}  BY <1>1, <1>2, FS_EmptySet
<1> QED BY <1>3 DEF Held

\* An empty dentry block is truncated.
LEMMA DirCut ==
  ASSUME NEW f, NEW P, PagesOK(f, P), NEW c, c = Content(f), NodesOK(c), RefsOK(f),
         NEW d \in Cached(f), IsInode(c[d]), DirNodeOK(c, d), NEW b \in BlkNr, BlockAt(c, d, b) # None,
         NEW g, g = Truncate(f, d, b, b + 1), NEW c2, c2 = Content(g)
  PROVE  /\ PagesOK(g, P) /\ Keeps(f, g) /\ \A n \in Cached(f) : IsInode(c[n]) => n \in Cached(g)
         /\ Local(c, c2, d) /\ c2[d].size = c[d].size
         /\ \A a \in Blocks : BlockAt(c2, d, a) = IF a = b THEN None ELSE BlockAt(c, d, a)
         /\ \A i \in Idx \ {0} : c2[d].index[i] = None
         /\ c2[d].index[0] # None => \E a \in BlkNr : BlockAt(c2, d, a) # None
<1>1. d \in Nid /\ b \in Off /\ b \in Blocks /\ b \div IndexSize = 0 /\ b % IndexSize = b
  BY PageSeen, BlkNrOff, FirstIndex DEF Blocks
<1>2. PICK k : k = c[d].index[0]  OBVIOUS
<1>3. k # None /\ c[k].data[b] # None  BY <1>1, <1>2 DEF BlockAt
<1>4. k \in Nid /\ IsIndex(c[k]) /\ c[k] \in IndexNode /\ c[d] \in Inode
  BY <1>1, <1>2, <1>3, InodeOK, Ranges
<1>5. c[k].valid # 0 /\ c[d].blks # 0  BY <1>1, <1>2, <1>3, CountsPos, Ranges
<1>6. /\ PagesOK(g, P) /\ c2 = WithoutBlock(c, d, k, b)
      /\ Cached(f) \ {k} \subseteq Cached(g) /\ Refs(g) = Refs(f) \ {k}
      /\ g.open = f.open /\ g.saved = f.saved /\ g.failed = f.failed
  BY <1>1, <1>2, <1>3, <1>4, <1>5, TruncateIs
<1>7. ~IsInode(c[k])  BY <1>4, KindOf
<1>8. PagesOK(g, P) /\ Keeps(f, g) /\ \A n \in Cached(f) : IsInode(c[n]) => n \in Cached(g)
  BY <1>6, <1>7 DEF Keeps, RefsOK
<1>9. \A i \in Idx \ {0} : c[d].index[i] = None  BY DEF DirNodeOK
<1>10. CASE c[k].valid # 1
  <2>1. /\ Local(c, c2, d) /\ c2[d].size = c[d].size /\ c2[d].index = c[d].index
        /\ c2[k].valid # 0
        /\ \A a \in Blocks : BlockAt(c2, d, a) = IF a = b THEN None ELSE BlockAt(c, d, a)
    BY <1>1, <1>2, <1>3, <1>6, <1>10, LessBlockIs
  <2>2. NodesOK(c2) /\ IsInode(c2[d]) /\ c2[d].index[0] = k  BY <1>1, <1>2, <2>1 DEF Local
  <2>3. IsIndex(c2[k])  BY <1>1, <1>3, <2>2, InodeOK, Ranges
  <2>4. PICK o \in Off : c2[k].data[o] # None  BY <1>4, <2>1, <2>2, <2>3, HasBlock
  <2>5. o \in Blocks /\ o \div IndexSize = 0 /\ o % IndexSize = o  BY FirstIndex DEF Blocks
  <2>6. BlockAt(c2, d, o) # None  BY <1>3, <2>2, <2>4, <2>5 DEF BlockAt
  <2>7. BlockAt(c, d, o) # None  BY <2>1, <2>5, <2>6
  <2>8. o \in BlkNr  BY <1>1, <2>7, DirNodeIs
  <2> QED BY <1>8, <1>9, <2>1, <2>6, <2>8
<1>11. CASE c[k].valid = 1
  <2>1. /\ Local(c, c2, d) /\ c2[d].size = c[d].size /\ \A i \in Idx : c2[d].index[i] = None
        /\ \A a \in Blocks : BlockAt(c2, d, a) = None /\ (a # b => BlockAt(c, d, a) = None)
    BY <1>1, <1>2, <1>3, <1>6, <1>9, <1>11, LastBlockIs
  <2> QED BY <1>8, <2>1, Ranges
<1> QED BY <1>10, <1>11

\* unlink takes the name away, and makes a checkpoint.
LEMMA UnlinkedIs ==
  ASSUME NEW f, PagesOK(f, {}), NEW c, c = Content(f), NodesOK(c), RefsOK(f),
         NEW d \in Cached(f), IsInode(c[d]), DirNodeOK(c, d), NEW n \in Names,
         NEW fid, fid = FindFile(DirFile(c, d), n), fid # None, NEW g, g = unlink(f, d, n, fid)
  PROVE  /\ DirStep(f, g, {}, d) /\ g.saved = Content(g)
         /\ FindFile(DirFile(Content(g), d), n) = None
         /\ \A m \in Names \ {n} : FindFile(DirFile(Content(g), d), m) = FindFile(DirFile(c, d), m)
<1>1. PICK D : D = DirFile(c, d)  OBVIOUS
<1>2. DirOK(D) /\ d \in Nid /\ fid = FindFile(D, n)  BY <1>1, PageSeen DEF DirNodeOK
<1>3. PICK b, x : b = LinkAt(D, n, fid).blk /\ x = UnlinkBlock(D, n, fid)  OBVIOUS
<1>4. b \in BlkNr /\ D.blk[b] # None /\ x \in DentryBlock  BY <1>2, <1>3, UnlinkBlockIs
<1>5. BlockAt(c, d, b) # None
  <2>1. D.blk = [a \in BlkNr |-> BlockAt(c, d, a)]  BY <1>1, DirFileIs
  <2> QED BY <1>4, <2>1
<1>6. b \in Off /\ b \in Nat /\ b \in Blocks /\ b \div IndexSize = 0 /\ \A o \in Off : o \in Blocks
  BY <1>4, BlkNrOff, FirstIndex DEF Blocks
<1>7. c[d].index[0] # None  BY <1>5, <1>6 DEF BlockAt
<1>8. PICK h : h = IF UnlinkWrites(D, n, fid)
                   THEN FileWriteInternal(f, d, b, b + 1, [y \in {b} |-> x], None).fs
                   ELSE Truncate(f, d, b, b + 1)
  OBVIOUS
<1>9. g = SyncFs(h)  BY <1>1, <1>3, <1>8 DEF unlink
<1>10. PICK c2, new : c2 = Content(h) /\ new = IF x.bitmap = {} THEN None ELSE x  OBVIOUS
<1>11. /\ PagesOK(h, {}) /\ Keeps(f, h) /\ \A m \in Cached(f) : IsInode(c[m]) => m \in Cached(h)
       /\ Local(c, c2, d) /\ c2[d].size = c[d].size
       /\ \A a \in Blocks : BlockAt(c2, d, a) = IF a = b THEN new ELSE BlockAt(c, d, a)
       /\ \A i \in Idx \ {0} : c2[d].index[i] = None
       /\ c2[d].index[0] # None => \E a \in BlkNr : BlockAt(c2, d, a) # None
  <2>1. CASE x.bitmap # {}
    <3>1. PICK data : data = [y \in {b} |-> x]  OBVIOUS
    <3>2. PICK t : t = FileWriteInternal(f, d, b, b + 1, data, None)  OBVIOUS
    <3>3. h = t.fs  BY <1>3, <1>8, <2>1, <3>1, <3>2 DEF UnlinkWrites
    <3>4. PICK no : no = None  OBVIOUS
    <3>5. /\ t.at \in {b, b + 1}
          /\ PagesOK(h, {}) /\ Keeps(f, h) /\ Cached(f) \subseteq Cached(h)
          /\ Local(c, Content(h), d) /\ Content(h)[d].size = c[d].size
          /\ \A j \in Idx \ {0} : Content(h)[d].index[j] = c[d].index[j]
          /\ t.at = b + 1 => \A a \in Blocks : BlockAt(Content(h), d, a) = IF a = b THEN x ELSE BlockAt(c, d, a)
          /\ no = None /\ c[d].index[0] # None => t.at = b + 1
      <4>1. t = FileWriteInternal(f, d, b, b + 1, data, no)  BY <3>2, <3>4
      <4> QED BY <1>4, <3>1, <3>3, <3>4, <4>1, DirWritten
    <3>6. t.at = b + 1 /\ new = x  BY <1>7, <1>10, <2>1, <3>4, <3>5
    <3>7. BlockAt(c2, d, b) # None  BY <1>4, <1>6, <1>10, <3>5, <3>6, Marks
    <3> QED BY <1>4, <1>10, <3>5, <3>6, <3>7 DEF DirNodeOK
  <2>2. CASE x.bitmap = {}
    <3>1. h = Truncate(f, d, b, b + 1)  BY <1>3, <1>8, <2>2 DEF UnlinkWrites
    <3>2. new = None  BY <1>10, <2>2
    <3> QED BY <1>4, <1>5, <1>10, <3>1, <3>2, DirCut
  <2> QED BY <2>1, <2>2
<1>12. /\ PagesOK(g, {}) /\ Content(g) = c2 /\ g.saved = c2
       /\ Cached(g) = Cached(h) /\ Refs(g) = Refs(h) /\ g.open = h.open /\ g.failed = h.failed
  BY <1>9, <1>10, <1>11, SyncFsIs
<1>13. PICK E : E = DirFile(c2, d)  OBVIOUS
<1>14. E = Unlink(D, n, fid)
  <2>1. E = [size |-> c[d].size, blk |-> E.blk] /\ E.blk = [a \in BlkNr |-> BlockAt(c2, d, a)]
        /\ D = [size |-> c[d].size, blk |-> D.blk] /\ D.blk = [a \in BlkNr |-> BlockAt(c, d, a)]
    BY <1>1, <1>11, <1>13, DirFileIs
  <2>2. E.blk = [D.blk EXCEPT ![b] = new]  BY <1>4, <1>6, <1>11, <2>1, BlkNrOff
  <2> QED BY <1>3, <1>10, <2>1, <2>2 DEF Unlink
<1>15. DirOK(E) /\ FindFile(E, n) = None /\ \A m \in Names \ {n} : FindFile(E, m) = FindFile(D, m)
  BY <1>2, <1>14, UnlinkFind
<1>16. DirNodeOK(c2, d)
  <2>1. ASSUME NEW o \in Off \ BlkNr
        PROVE  BlockAt(c2, d, o) = None
    <3>1. o # b /\ o \in Blocks  BY <1>4, <1>6
    <3>2. BlockAt(c, d, o) = None  BY <1>2, DirNodeIs
    <3> QED BY <1>11, <3>1, <3>2
  <2>2. NodesOK(c2) /\ IsInode(c2[d])  BY <1>2, <1>11 DEF Local
  <2> QED BY <1>2, <1>11, <1>13, <1>15, <2>1, <2>2, DirNodeIs
<1> QED BY <1>1, <1>11, <1>12, <1>13, <1>15, <1>16 DEF DirStep, Keeps

-------------------------------------------------------------------------------
(* Paths and the tree. *)

\* A path is its directory and its last name.
LEMMA PathEq ==
  ASSUME NEW r, RefOK(r), NEW d \in DirPaths(r), NEW e \in DirPaths(r), NEW n \in Names, NEW m \in Names,
         Append(d, n) = Append(e, m)
  PROVE  d = e /\ n = m
<1>1. d \in Seq(Names) /\ e \in Seq(Names)
  <2>1. \A p \in Paths : p \in Seq(Names)
    <3>1. ASSUME NEW p \in Names \X Names PROVE p \in Seq(Names)
      <4>1. PICK a \in Names, b \in Names : p = <<a, b>>  OBVIOUS
      <4> QED BY <4>1, PathSeq
    <3>2. ASSUME NEW p \in {<<n1>> : n1 \in Names} PROVE p \in Seq(Names)  BY PathSeq
    <3> QED BY <3>1, <3>2, Zenon DEF Paths
  <2>2. \A x \in DirPaths(r) : x = <<>> \/ x \in Paths  BY DEF DirPaths, RefOK
  <2>3. <<>> \in Seq(Names)  OBVIOUS
  <2> QED BY <2>1, <2>2, <2>3, Zenon
<1>2. /\ Len(Append(d, n)) = Len(d) + 1 /\ Append(d, n)[Len(d) + 1] = n
      /\ Len(Append(e, m)) = Len(e) + 1 /\ Append(e, m)[Len(e) + 1] = m
      /\ \A i \in 1 .. Len(d) : Append(d, n)[i] = d[i]
      /\ \A i \in 1 .. Len(e) : Append(e, m)[i] = e[i]
  BY <1>1
<1>3. Len(d) = Len(e) /\ n = m  BY <1>1, <1>2
<1>4. \A i \in 1 .. Len(d) : d[i] = e[i]  BY <1>2, <1>3
<1> QED BY <1>1, <1>3, <1>4

\* The inodes of the reference.
LEMMA TreeFids ==
  ASSUME NEW c, NEW r, NEW X, TreeOK(c, r, X)
  PROVE  /\ Root \in Nid /\ IsInode(c[Root]) /\ <<>> \in DirPaths(r) /\ FidAt(r, <<>>) = Root
         /\ \A p \in DOMAIN r : /\ r[p].fid \in Nid /\ IsInode(c[r[p].fid]) /\ r[p].fid # Root
                                /\ r[p].fid # None /\ r[p].fid \notin X /\ p \in Paths /\ p # <<>>
                                /\ FidAt(r, p) = r[p].fid /\ r[p] \in RefFile
         /\ \A p \in DirPaths(r) : FidAt(r, p) \in Nid /\ IsDir(c[FidAt(r, p)]) /\ FidAt(r, p) \notin X
                                   /\ (p # <<>> => p \in DOMAIN r)
<1>1. ASSUME NEW p \in DOMAIN r
      PROVE  /\ r[p].fid \in Nid /\ IsInode(c[r[p].fid]) /\ r[p].fid # Root
             /\ r[p].fid # None /\ r[p].fid \notin X /\ p \in Paths /\ p # <<>>
             /\ FidAt(r, p) = r[p].fid /\ r[p] \in RefFile
  <2>1. r[p] \in RefFile /\ r[p].fid # Root /\ p \in Paths  BY DEF TreeOK, RefOK
  <2>2. p # <<>>  BY <2>1, PathIs
  <2>3. r[p].fid \in Nid  BY <2>1 DEF RefFile
  <2>4. r[p].fid \in FidsOf(r)  BY DEF FidsOf
  <2>5. IsInode(c[r[p].fid]) /\ r[p].fid \notin X  BY <2>4 DEF TreeOK, InodesAre
  <2> QED BY <2>1, <2>2, <2>3, <2>5, Marks DEF FidAt
<1>2. Root \in Nid /\ IsDir(c[Root]) /\ Root \notin X  BY Ranges DEF TreeOK, InodesAre
<1>3. ASSUME NEW p \in DirPaths(r)
      PROVE  /\ FidAt(r, p) \in Nid /\ IsDir(c[FidAt(r, p)]) /\ FidAt(r, p) \notin X
             /\ (p # <<>> => p \in DOMAIN r)
  <2>1. CASE p = <<>>
    BY <1>2, <2>1 DEF FidAt
  <2>2. CASE p # <<>>
    <3>1. p \in DOMAIN r /\ r[p].type = "dir"  BY <2>2 DEF DirPaths
    <3>2. c[r[p].fid].type = "dir"  BY <3>1 DEF TreeOK, NodeIs
    <3> QED BY <1>1, <3>1, <3>2 DEF IsDir
  <2> QED BY <2>1, <2>2
<1> QED BY <1>1, <1>2, <1>3 DEF IsDir, DirPaths, FidAt

\* Two paths do not have the same inode.
LEMMA FidApart ==
  ASSUME NEW c, NEW r, NEW X, TreeOK(c, r, X), NEW p \in DOMAIN r \cup {<<>>}, NEW q \in DOMAIN r \cup {<<>>},
         FidAt(r, p) = FidAt(r, q)
  PROVE  p = q
<1>1. \A x \in DOMAIN r : FidAt(r, x) = r[x].fid /\ r[x].fid # Root  BY TreeFids
<1>2. FidAt(r, <<>>) = Root  BY DEF FidAt
<1>3. \A x, y \in DOMAIN r : r[x].fid = r[y].fid => x = y  BY DEF TreeOK, RefOK
<1> QED BY <1>1, <1>2, <1>3

\* FileOpenInternal finds what the reference has.
LEMMA LookupIs ==
  ASSUME NEW c, NEW r, NEW X, TreeOK(c, r, X), NEW p \in Paths
  PROVE  Lookup(c, p) = FidOrNone(r, p)
<1>1. PICK d, n, x : d = Up(p) /\ n = p[Len(p)] /\ x = p[1]  OBVIOUS
<1>2. n \in Names /\ x \in Names /\ p = Append(d, n)  BY <1>1, PathIs, UpIs
<1>3. FindFile(DirFile(c, Root), x) = FidOrNone(r, <<x>>)
  <2>1. DirIs(c, r, <<>>) /\ FidAt(r, <<>>) = Root  BY TreeFids DEF TreeOK
  <2>2. Append(<<>>, x) = <<x>>  BY <1>2, AppendIs
  <2> QED BY <1>2, <2>1, <2>2 DEF DirIs
<1>4. CASE Len(p) = 1
  <2>1. p = <<x>>  BY <1>1, <1>4, PathIs
  <2> QED BY <1>1, <1>3, <1>4, <2>1 DEF Lookup
<1>5. CASE Len(p) = 2
  <2>1. d = <<x>> /\ n = p[2]  BY <1>1, <1>5 DEF Up
  <2>2. CASE d \in DirPaths(r)
    <3>1. d \in DOMAIN r /\ r[d].type = "dir"  BY <2>1, <2>2 DEF DirPaths
    <3>2. r[d].fid # None /\ FidAt(r, d) = r[d].fid /\ IsDir(c[r[d].fid])
      BY <2>2, <3>1, TreeFids
    <3>3. FindFile(DirFile(c, Root), x) = r[d].fid  BY <1>3, <2>1, <3>1 DEF FidOrNone
    <3>4. FindFile(DirFile(c, r[d].fid), n) = FidOrNone(r, p)
      BY <1>2, <2>2, <3>2 DEF TreeOK, DirIs
    <3> QED BY <1>1, <1>5, <2>1, <3>2, <3>3, <3>4 DEF Lookup
  <2>3. CASE d \notin DirPaths(r)
    <3>1. p \notin DOMAIN r  BY <1>1, <1>5, <2>1, <2>3 DEF TreeOK, RefOK
    <3>2. FidOrNone(r, p) = None  BY <3>1 DEF FidOrNone
    <3>3. CASE d \notin DOMAIN r
      <4>1. FindFile(DirFile(c, Root), x) = None  BY <1>3, <2>1, <3>3 DEF FidOrNone
      <4> QED BY <1>1, <1>5, <3>2, <4>1 DEF Lookup
    <3>4. CASE d \in DOMAIN r
      <4>1. r[d].type # "dir"  BY <2>3, <3>4 DEF DirPaths
      <4>2. ~IsDir(c[r[d].fid])  BY <3>4, <4>1 DEF TreeOK, NodeIs, IsDir
      <4>3. FindFile(DirFile(c, Root), x) = r[d].fid  BY <1>3, <2>1, <3>4 DEF FidOrNone
      <4> QED BY <1>1, <1>5, <3>2, <4>2, <4>3 DEF Lookup
    <3> QED BY <3>3, <3>4
  <2> QED BY <2>2, <2>3
<1> QED BY <1>4, <1>5, PathIs

\* The directory of a path.
LEMMA ParentIs ==
  ASSUME NEW c, NEW r, NEW X, TreeOK(c, r, X), NEW p \in Paths, Up(p) \in DirPaths(r)
  PROVE  Parent(c, p) = FidAt(r, Up(p))
<1>1. CASE Len(p) = 1
  BY <1>1 DEF Parent, FidAt, Up
<1>2. CASE Len(p) = 2
  <2>1. Up(p) = <<p[1]>> /\ Up(p) # <<>> /\ <<p[1]>> \in Paths  BY <1>2, PathIs DEF Up
  <2>2. Up(p) \in DOMAIN r  BY <2>1 DEF DirPaths
  <2>3. Lookup(c, Up(p)) = r[Up(p)].fid  BY <2>1, <2>2, LookupIs DEF FidOrNone
  <2> QED BY <1>2, <2>1, <2>3 DEF Parent, FidAt
<1> QED BY <1>1, <1>2, PathIs

\* The directory of a path of the reference is one.
LEMMA UpOf ==
  ASSUME NEW r, RefOK(r), NEW p \in DOMAIN r
  PROVE  Up(p) \in DirPaths(r) /\ p \in Paths
<1>1. p \in Paths  BY DEF RefOK
<1>2. Len(p) \in {1, 2}  BY <1>1, PathIs
<1> QED BY <1>1, <1>2 DEF RefOK, Up, DirPaths

\* The directories on the way are read.
LEMMA WalkIs ==
  ASSUME NEW f, NEW P, PagesOK(f, P), NEW c, c = Content(f), NEW r, NEW X, TreeOK(c, r, X),
         NEW p \in Paths, Up(p) \in DirPaths(r), NEW g, g = Walk(f, p)
  PROVE  Reads(f, g, P) /\ Root \in Cached(g) /\ FidAt(r, Up(p)) \in Cached(g)
<1>1. NodesOK(c) /\ Root \in Nid /\ IsInode(c[Root])  BY TreeFids DEF TreeOK
<1>2. PICK h : h = ReadDir(f, Root)  OBVIOUS
<1>3. Reads(f, h, P) /\ Root \in Cached(h)  BY <1>1, <1>2, ReadDirIs
<1>4. CASE Len(p) = 1
  BY <1>2, <1>3, <1>4 DEF Walk, Up, FidAt
<1>5. CASE Len(p) # 1
  <2>1. PICK d : d = FidAt(r, Up(p))  OBVIOUS
  <2>2. PagesOK(h, P) /\ Content(h) = c /\ Cached(h) \subseteq Cached(ReadDir(h, d)) \cup Cached(h)
    BY <1>3 DEF Reads
  <2>3. g = ReadDir(h, d)
    <3>1. Parent(Content(h), p) = d  BY <2>1, <2>2, ParentIs
    <3> QED BY <1>2, <1>5, <3>1 DEF Walk
  <2>4. d \in Nid /\ IsInode(c[d])  BY <2>1, TreeFids DEF IsDir
  <2>5. Reads(h, g, P) /\ d \in Cached(g)  BY <1>1, <2>2, <2>3, <2>4, ReadDirIs
  <2>6. Reads(f, g, P)  BY <1>3, <2>5, ReadsTrans
  <2> QED BY <1>3, <2>1, <2>5, <2>6 DEF Reads
<1> QED BY <1>4, <1>5

-------------------------------------------------------------------------------
(* The tree after a change of one inode. *)

\* A file that has not changed.
LEMMA NodeSame ==
  ASSUME NEW c, NodesOK(c), NEW c2, NEW x, x.fid \in Nid, IsInode(c[x.fid]), NodeIs(c, x), Same(c, c2, x.fid)
  PROVE  NodeIs(c2, x)
<1>1. PICK n : n = x.fid  OBVIOUS
<1>2. c2[n] = c[n]  BY <1>1 DEF Same
<1>3. \A s : FileOK(c, n, s) => FileOK(c2, n, s)  BY <1>1, SameFile
<1> QED BY <1>1, <1>2, <1>3 DEF NodeIs

\* A directory that has not changed.
LEMMA DirSame ==
  ASSUME NEW c, NodesOK(c), NEW c2, NEW r, NEW p, NEW n \in Nid, n = FidAt(r, p), IsInode(c[n]),
         DirIs(c, r, p), Same(c, c2, n)
  PROVE  DirIs(c2, r, p)
<1>1. DirFile(c2, n) = DirFile(c, n) /\ (DirNodeOK(c, n) => DirNodeOK(c2, n))  BY SameFile
<1> QED BY <1>1 DEF DirIs

\* References that differ in sizes and open files only.
SameRef(r, r2) ==
    DOMAIN r2 = DOMAIN r /\ \A p \in DOMAIN r : r2[p].fid = r[p].fid /\ r2[p].type = r[p].type

\* References of the same paths, inodes and types name the same directories.
LEMMA SameRefIs ==
  ASSUME NEW r, NEW r2, SameRef(r, r2)
  PROVE  /\ DirPaths(r2) = DirPaths(r) /\ FidsOf(r2) = FidsOf(r)
         /\ \A p \in DirPaths(r) : FidAt(r2, p) = FidAt(r, p)
         /\ \A p : FidOrNone(r2, p) = FidOrNone(r, p)
         /\ \A c, p : p \in DirPaths(r) /\ DirIs(c, r, p) => DirIs(c, r2, p)
<1>1. DirPaths(r2) = DirPaths(r) /\ FidsOf(r2) = FidsOf(r)  BY DEF SameRef, DirPaths, FidsOf
<1>2. \A p \in DirPaths(r) : FidAt(r2, p) = FidAt(r, p)  BY DEF SameRef, DirPaths, FidAt
<1>3. \A p : FidOrNone(r2, p) = FidOrNone(r, p)  BY DEF SameRef, FidOrNone
<1>4. ASSUME NEW c, NEW p, p \in DirPaths(r), DirIs(c, r, p) PROVE DirIs(c, r2, p)
  BY <1>2, <1>3, <1>4 DEF DirIs
<1> QED BY <1>1, <1>2, <1>3, <1>4

\* Such a reference is in order as well.
LEMMA SameRefOK ==
  ASSUME NEW r, NEW r2, SameRef(r, r2), RefOK(r), \A p \in DOMAIN r : r2[p] \in RefFile,
         \A p \in DOMAIN r : r[p].type = "dir" => r2[p].size = 0
  PROVE  RefOK(r2)
<1>1. DirPaths(r2) = DirPaths(r)  BY SameRefIs
<1> QED BY <1>1 DEF RefOK, SameRef

\* Nothing the reference knows has changed.
LEMMA TreeSame ==
  ASSUME NEW c, NEW r, NEW X, TreeOK(c, r, X), NEW c2, NodesOK(c2),
         \A n \in Nid : IsInode(c2[n]) <=> IsInode(c[n]),
         \A n \in Nid \ X : IsInode(c[n]) => Same(c, c2, n)
  PROVE  TreeOK(c2, r, X)
<1>1. NodesOK(c) /\ RefOK(r)  BY DEF TreeOK
<1>2. InodesAre(c2, r, X)
  <2>1. {n \in Nid : IsInode(c2[n])} = {n \in Nid : IsInode(c[n])}  OBVIOUS
  <2> QED BY <2>1 DEF TreeOK, InodesAre
<1>3. c2[Root] = c[Root]
  <2>1. Root \in Nid \ X /\ IsInode(c[Root])  BY TreeFids DEF TreeOK, InodesAre
  <2> QED BY <2>1 DEF Same
<1>4. ASSUME NEW p \in DOMAIN r PROVE NodeIs(c2, r[p])
  <2>1. r[p].fid \in Nid \ X /\ IsInode(c[r[p].fid]) /\ NodeIs(c, r[p])  BY TreeFids DEF TreeOK
  <2> QED BY <1>1, <2>1, NodeSame
<1>5. ASSUME NEW p \in DirPaths(r) PROVE DirIs(c2, r, p)
  <2>1. PICK n : n = FidAt(r, p)  OBVIOUS
  <2>2. n \in Nid \ X /\ IsInode(c[n]) /\ DirIs(c, r, p)  BY <2>1, TreeFids DEF TreeOK, IsDir
  <2>3. Same(c, c2, n)  BY <2>2
  <2> QED BY <1>1, <2>1, <2>2, <2>3, DirSame
<1> QED BY <1>1, <1>2, <1>3, <1>4, <1>5 DEF TreeOK

\* Files are opened or closed.
LEMMA TreeOpened ==
  ASSUME NEW c, NEW r, NEW X, TreeOK(c, r, X), NEW r2, SameRef(r, r2),
         \A p \in DOMAIN r : r2[p] \in RefFile /\ r2[p].size = r[p].size
  PROVE  TreeOK(c, r2, X)
<1>1. RefOK(r2)
  <2>1. RefOK(r) /\ \A p \in DOMAIN r : r[p].type = "dir" => r2[p].size = 0
    BY DEF TreeOK, RefOK
  <2> QED BY <2>1, SameRefOK
<1>2. InodesAre(c, r2, X)  BY SameRefIs DEF TreeOK, InodesAre
<1>3. \A p \in DOMAIN r2 : NodeIs(c, r2[p])  BY DEF TreeOK, SameRef, NodeIs
<1>4. \A p \in DirPaths(r2) : DirIs(c, r2, p)  BY SameRefIs DEF TreeOK
<1> QED BY <1>1, <1>2, <1>3, <1>4 DEF TreeOK

\* The inodes stay as they are under a local change.
LEMMA LocalInodes ==
  ASSUME NEW c, NEW r, NEW X, TreeOK(c, r, X), NEW d \in Nid, IsInode(c[d]), d \notin X, NEW c2, Local(c, c2, d)
  PROVE  /\ NodesOK(c2) /\ InodesAre(c2, r, X) /\ IsDir(c2[Root]) /\ c2[Root].nlink = 0
         /\ \A p \in DOMAIN r : r[p].fid # d => NodeIs(c2, r[p])
         /\ \A p \in DOMAIN r : c2[r[p].fid].nlink = 1 /\ c2[r[p].fid].type = r[p].type
         /\ \A p \in DirPaths(r) : FidAt(r, p) # d => DirIs(c2, r, p)
<1>1. NodesOK(c) /\ NodesOK(c2) /\ \A n \in Nid \ {d} : IsInode(c[n]) => Same(c, c2, n)
  BY DEF Local, TreeOK
<1>2. InodesAre(c2, r, X)
  <2>1. {n \in Nid : IsInode(c2[n])} = {n \in Nid : IsInode(c[n])}  BY DEF Local
  <2> QED BY <2>1 DEF TreeOK, InodesAre
<1>3. IsDir(c2[Root]) /\ c2[Root].nlink = 0
  <2>1. Root \in Nid /\ IsInode(c[Root]) /\ IsDir(c[Root]) /\ c[Root].nlink = 0
    BY TreeFids DEF TreeOK
  <2> QED BY <1>1, <2>1 DEF Local, Same, IsDir
<1>4. ASSUME NEW p \in DOMAIN r, r[p].fid # d PROVE NodeIs(c2, r[p])
  <2>1. r[p].fid \in Nid \ {d} /\ IsInode(c[r[p].fid]) /\ NodeIs(c, r[p])
    BY <1>4, TreeFids DEF TreeOK
  <2> QED BY <1>1, <2>1, NodeSame
<1>5. ASSUME NEW p \in DOMAIN r PROVE c2[r[p].fid].nlink = 1 /\ c2[r[p].fid].type = r[p].type
  <2>1. CASE r[p].fid # d
    BY <1>4, <2>1 DEF NodeIs
  <2>2. CASE r[p].fid = d
    BY <2>2 DEF Local, TreeOK, NodeIs
  <2> QED BY <2>1, <2>2
<1>6. ASSUME NEW p \in DirPaths(r), FidAt(r, p) # d PROVE DirIs(c2, r, p)
  <2>1. PICK n : n = FidAt(r, p)  OBVIOUS
  <2>2. n \in Nid \ {d} /\ IsInode(c[n]) /\ DirIs(c, r, p)
    BY <1>6, <2>1, TreeFids DEF TreeOK, IsDir
  <2>3. Same(c, c2, n)  BY <1>1, <2>2
  <2> QED BY <1>1, <2>1, <2>2, <2>3, DirSame
<1> QED BY <1>1, <1>2, <1>3, <1>4, <1>5, <1>6

\* A file is written.
LEMMA TreeWritten ==
  ASSUME NEW c, NEW r, NEW X, TreeOK(c, r, X), NEW p \in DOMAIN r, r[p].type = "file",
         NEW d, d = r[p].fid, NEW c2, Local(c, c2, d), NEW s \in 0 .. MaxFile, FileOK(c2, d, s),
         NEW r2, SameRef(r, r2), r2[p] \in RefFile, r2[p].size = s,
         \A q \in DOMAIN r \ {p} : r2[q] = r[q]
  PROVE  TreeOK(c2, r2, X)
<1>1. d \in Nid /\ IsInode(c[d]) /\ d \notin X  BY TreeFids
<1>2. /\ NodesOK(c2) /\ InodesAre(c2, r, X) /\ IsDir(c2[Root]) /\ c2[Root].nlink = 0
      /\ \A q \in DOMAIN r : r[q].fid # d => NodeIs(c2, r[q])
      /\ \A q \in DOMAIN r : c2[r[q].fid].nlink = 1 /\ c2[r[q].fid].type = r[q].type
      /\ \A q \in DirPaths(r) : FidAt(r, q) # d => DirIs(c2, r, q)
  BY <1>1, LocalInodes
<1>3. RefOK(r2)
  <2>1. RefOK(r) /\ \A q \in DOMAIN r : r[q] \in RefFile /\ (r[q].type = "dir" => r[q].size = 0)
    BY DEF TreeOK, RefOK
  <2> QED BY <2>1, SameRefOK
<1>4. InodesAre(c2, r2, X)  BY <1>2, SameRefIs DEF InodesAre
<1>5. ASSUME NEW q \in DOMAIN r2 PROVE NodeIs(c2, r2[q])
  <2>1. q \in DOMAIN r  BY DEF SameRef
  <2>2. CASE q = p
    <3>1. c2[d].nlink = 1 /\ c2[d].type = "file" /\ r2[q].fid = d /\ r2[q].type = "file"
      BY <1>2, <2>2 DEF SameRef
    <3> QED BY <2>2, <3>1 DEF NodeIs
  <2>3. CASE q # p
    <3>1. r[q].fid # d  BY <2>1, <2>3 DEF TreeOK, RefOK
    <3> QED BY <1>2, <2>1, <2>3, <3>1
  <2> QED BY <2>2, <2>3
<1>6. ASSUME NEW q \in DirPaths(r2) PROVE DirIs(c2, r2, q)
  <2>1. q \in DirPaths(r)  BY SameRefIs
  <2>2. q # p  BY <2>1, TreeFids DEF DirPaths
  <2>3. FidAt(r, q) # d
    <3>1. q \in DOMAIN r \cup {<<>>} /\ FidAt(r, p) = d  BY <2>1, TreeFids DEF DirPaths
    <3> QED BY <2>2, <3>1, FidApart
  <2> QED BY <1>2, <2>1, <2>3, SameRefIs
<1> QED BY <1>2, <1>3, <1>4, <1>5, <1>6 DEF TreeOK

\* A directory is written, and its names are the same.
LEMMA TreeDir ==
  ASSUME NEW c, NEW r, NEW X, TreeOK(c, r, X), NEW q \in DirPaths(r), NEW d, d = FidAt(r, q),
         NEW c2, Local(c, c2, d), DirNodeOK(c2, d),
         \A n \in Names : FindFile(DirFile(c2, d), n) = FindFile(DirFile(c, d), n)
  PROVE  TreeOK(c2, r, X)
<1>1. d \in Nid /\ IsInode(c[d]) /\ d \notin X  BY TreeFids DEF IsDir
<1>2. /\ NodesOK(c2) /\ InodesAre(c2, r, X) /\ IsDir(c2[Root]) /\ c2[Root].nlink = 0
      /\ \A p \in DOMAIN r : r[p].fid # d => NodeIs(c2, r[p])
      /\ \A p \in DOMAIN r : c2[r[p].fid].nlink = 1 /\ c2[r[p].fid].type = r[p].type
      /\ \A p \in DirPaths(r) : FidAt(r, p) # d => DirIs(c2, r, p)
  BY <1>1, LocalInodes
<1>3. ASSUME NEW p \in DOMAIN r PROVE NodeIs(c2, r[p])
  <2>1. CASE r[p].fid = d
    <3>1. FidAt(r, p) = FidAt(r, q) /\ p # <<>> /\ q \in DOMAIN r \cup {<<>>}  BY <2>1, TreeFids
    <3>2. p = q  BY <3>1, FidApart
    <3>3. r[p].type = "dir"  BY <3>1, <3>2 DEF DirPaths
    <3> QED BY <1>2, <3>3 DEF NodeIs
  <2> QED BY <1>2, <2>1
<1>4. ASSUME NEW p \in DirPaths(r) PROVE DirIs(c2, r, p)
  <2>1. CASE FidAt(r, p) = d
    <3>1. DirIs(c, r, p)  BY DEF TreeOK
    <3> QED BY <2>1, <3>1 DEF DirIs
  <2> QED BY <1>2, <2>1
<1> QED BY <1>2, <1>3, <1>4 DEF TreeOK

\* What is in a new directory, and below a path that is not there.
LEMMA NothingBelow ==
  ASSUME NEW r, RefOK(r), NEW p \in Paths, p \notin DirPaths(r), NEW m \in Names
  PROVE  Append(p, m) \notin DOMAIN r /\ Append(p, m) # p
<1>1. CASE Len(p) = 1
  <2>1. p = <<p[1]>> /\ p[1] \in Names  BY <1>1, PathIs
  <2>2. PICK z : z = <<p[1], m>>  OBVIOUS
  <2>3. Append(p, m) = z /\ Len(z) = 2 /\ z[1] = p[1]  BY <2>1, <2>2, AppendIs
  <2> QED BY <1>1, <2>1, <2>3 DEF RefOK
<1>2. CASE Len(p) = 2
  <2>1. p = <<p[1], p[2]>> /\ p[1] \in Names /\ p[2] \in Names  BY <1>2, PathIs
  <2>2. p \in Names \X Names  BY <2>1
  <2> QED BY <2>2, AppendIs DEF RefOK
<1> QED BY <1>1, <1>2, PathIs

\* The reference with another path.
RefWith(r, p, x) == [z \in DOMAIN r \cup {p} |-> IF z = p THEN x ELSE r[z]]

\* Reference r2 has path p besides those of r.
RefAdds(r, r2, p, x) ==
    /\ RefOK(r2) /\ DOMAIN r2 = DOMAIN r \cup {p} /\ r2[p] = x /\ \A z \in DOMAIN r : r2[z] = r[z] /\ z # p
    /\ FidsOf(r2) = FidsOf(r) \cup {x.fid}
    /\ DirPaths(r2) = IF x.type = "dir" THEN DirPaths(r) \cup {p} ELSE DirPaths(r)
    /\ \A z \in DirPaths(r) : FidAt(r2, z) = FidAt(r, z) /\ z # p
    /\ FidAt(r2, p) = x.fid
    /\ \A z \in DirPaths(r), m \in Names : FidOrNone(r2, Append(z, m)) =
         IF z = Up(p) /\ m = p[Len(p)] THEN x.fid ELSE FidOrNone(r, Append(z, m))

\* What a reference with a new path has.
LEMMA RefWithIs ==
  ASSUME NEW r, RefOK(r), NEW p \in Paths, p \notin DOMAIN r, Up(p) \in DirPaths(r),
         NEW x \in RefFile, x.fid \notin FidsOf(r), x.fid # Root, x.size = 0, NEW r2, r2 = RefWith(r, p, x)
  PROVE  RefAdds(r, r2, p, x)
<1>1. DOMAIN r2 = DOMAIN r \cup {p} /\ r2[p] = x /\ \A z \in DOMAIN r : r2[z] = r[z] /\ z # p
  BY DEF RefWith
<1>2. FidsOf(r2) = FidsOf(r) \cup {x.fid}  BY <1>1 DEF FidsOf
<1>3. DirPaths(r2) = IF x.type = "dir" THEN DirPaths(r) \cup {p} ELSE DirPaths(r)
  BY <1>1 DEF DirPaths
<1>4. p # <<>>  BY PathIs
<1>5. \A z \in DirPaths(r) : FidAt(r2, z) = FidAt(r, z) /\ z # p
  BY <1>1, <1>4 DEF FidAt, DirPaths
<1>6. ASSUME NEW z \in DirPaths(r), NEW m \in Names
      PROVE  FidOrNone(r2, Append(z, m)) =
               IF z = Up(p) /\ m = p[Len(p)] THEN x.fid ELSE FidOrNone(r, Append(z, m))
  <2>1. p[Len(p)] \in Names /\ p = Append(Up(p), p[Len(p)])  BY PathIs, UpIs
  <2>2. Append(z, m) = p <=> z = Up(p) /\ m = p[Len(p)]  BY <2>1, PathEq
  <2> QED BY <1>1, <2>2 DEF FidOrNone
<1>7. RefOK(r2)
  <2>1. DOMAIN r2 \subseteq Paths  BY <1>1 DEF RefOK
  <2>2. ASSUME NEW z \in DOMAIN r2
        PROVE  r2[z] \in RefFile /\ r2[z].fid # Root /\ (r2[z].type = "dir" => r2[z].size = 0)
    BY <1>1 DEF RefOK
  <2>3. ASSUME NEW z \in DOMAIN r2, NEW w \in DOMAIN r2, r2[z].fid = r2[w].fid PROVE z = w
    <3>1. \A v \in DOMAIN r : r[v].fid \in FidsOf(r)  BY DEF FidsOf
    <3>2. \A u, v \in DOMAIN r : r[u].fid = r[v].fid => u = v  BY DEF RefOK
    <3> QED BY <1>1, <2>3, <3>1, <3>2
  <2>4. ASSUME NEW z \in DOMAIN r2, Len(z) = 2 PROVE <<z[1]>> \in DirPaths(r2)
    <3>1. CASE z = p
      <4>1. Up(p) = <<p[1]>>  BY <2>4, <3>1, SMTT(40) DEF Up
      <4>2. DirPaths(r) \subseteq DirPaths(r2)  BY <1>3
      <4> QED BY <3>1, <4>1, <4>2
    <3>2. CASE z \in DOMAIN r
      BY <1>3, <2>4, <3>2 DEF RefOK
    <3> QED BY <1>1, <3>1, <3>2
  <2> QED BY <2>1, <2>2, <2>3, <2>4 DEF RefOK
<1> QED BY <1>1, <1>2, <1>3, <1>4, <1>5, <1>6, <1>7 DEF FidAt, RefAdds

\* The inode of a new file, which has no blocks.
NewFile(y) ==
    y \in Inode /\ y.blks = 0 /\ y.size = 0 /\ y.nlink = 1 /\ \A i \in Idx : y.index[i] = None

\* Such a file is an empty file, and an empty directory.
LEMMA NewFileOK ==
  ASSUME NEW c, NodesOK(c), NEW n \in Nid, c[n].size = 0, \A i \in Idx : c[n].index[i] = None,
         \A b \in Blocks : BlockAt(c, n, b) = None
  PROVE  FileOK(c, n, 0) /\ DirNodeOK(c, n) /\ \A m \in Names : FindFile(DirFile(c, n), m) = None
<1>1. c[n].size = 0 /\ \A i \in Idx : c[n].index[i] = None  OBVIOUS
<1>2. FileOK(c, n, 0)
  <2>1. \A b \in Blocks : ~(b < 0)  BY PlaceOf DEF Blocks
  <2> QED BY <1>1, <2>1 DEF FileOK
<1>3. DirFile(c, n) = EmptyDir
  <2>1. \A b \in BlkNr : b \in Blocks  BY BlkNrOff, FirstIndex DEF Blocks
  <2> QED BY <1>1, <2>1 DEF DirFile, EmptyDir
<1> QED BY <1>1, <1>2, <1>3, EmptyDirIs, Ranges DEF DirNodeOK

\* A name, and then its inode.
LEMMA TreeLinked ==
  ASSUME NEW c, NEW r, NEW X, TreeOK(c, r, X), NEW p \in Paths, p \notin DOMAIN r, Up(p) \in DirPaths(r),
         NEW d, d = FidAt(r, Up(p)), NEW n, n = p[Len(p)], NEW k \in Nid, c[k] \in {None, InUse},
         NEW c2, Local(c, c2, d), DirNodeOK(c2, d), c2[k] \in {None, InUse},
         FindFile(DirFile(c2, d), n) = k,
         \A m \in Names \ {n} : FindFile(DirFile(c2, d), m) = FindFile(DirFile(c, d), m),
         NEW y, NewFile(y), NEW c3, c3 = Put(c2, k, y),
         NEW x \in RefFile, x.fid = k, x.size = 0, x.type = y.type, NEW r2, r2 = RefWith(r, p, x)
  PROVE  TreeOK(c3, r2, X)
<1>1. d \in Nid /\ IsInode(c[d]) /\ d \notin X /\ RefOK(r) /\ NodesOK(c)
  BY TreeFids DEF IsDir, TreeOK
<1>2. ~IsInode(c[k]) /\ ~IsInode(c2[k])  BY DEF IsInode
<1>3. k \notin FidsOf(r) /\ k # Root /\ k \notin X /\ k # d  BY <1>1, <1>2 DEF TreeOK, InodesAre
<1>4. /\ NodesOK(c2) /\ InodesAre(c2, r, X) /\ IsDir(c2[Root]) /\ c2[Root].nlink = 0
      /\ \A z \in DOMAIN r : r[z].fid # d => NodeIs(c2, r[z])
      /\ \A z \in DOMAIN r : c2[r[z].fid].nlink = 1 /\ c2[r[z].fid].type = r[z].type
      /\ \A z \in DirPaths(r) : FidAt(r, z) # d => DirIs(c2, r, z)
  BY <1>1, LocalInodes
<1>5. y \in Inode /\ y.blks = 0 /\ \A i \in Idx : y.index[i] = None  BY DEF NewFile
<1>6. /\ NodesOK(c3) /\ \A m \in Nid : IsInode(c3[m]) <=> IsInode(c2[m]) \/ m = k
      /\ \A m \in Nid : IsInode(c2[m]) => Same(c2, c3, m)
      /\ c3[k] = y /\ \A b \in Blocks : BlockAt(c3, k, b) = None
  BY <1>4, <1>5, NewFileIs
<1>7. /\ RefOK(r2) /\ DOMAIN r2 = DOMAIN r \cup {p} /\ r2[p] = x /\ \A z \in DOMAIN r : r2[z] = r[z] /\ z # p
      /\ FidsOf(r2) = FidsOf(r) \cup {k}
      /\ DirPaths(r2) = IF x.type = "dir" THEN DirPaths(r) \cup {p} ELSE DirPaths(r)
      /\ \A z \in DirPaths(r) : FidAt(r2, z) = FidAt(r, z) /\ z # p
      /\ FidAt(r2, p) = k
      /\ \A z \in DirPaths(r), m \in Names : FidOrNone(r2, Append(z, m)) =
           IF z = Up(p) /\ m = n THEN k ELSE FidOrNone(r, Append(z, m))
  <2>1. x.fid \notin FidsOf(r) /\ x.fid # Root /\ RefOK(r)  BY <1>1, <1>3
  <2>2. RefAdds(r, r2, p, x)  BY <2>1, RefWithIs
  <2> QED BY <2>2 DEF RefAdds
<1>8. InodesAre(c3, r2, X)
  <2>1. {m \in Nid : IsInode(c3[m])} = {m \in Nid : IsInode(c2[m])} \cup {k}  BY <1>6
  <2> QED BY <1>3, <1>4, <1>7, <2>1 DEF InodesAre
<1>9. c3[Root] = c2[Root]
  <2>1. Root \in Nid /\ IsInode(c2[Root])  BY <1>4, Ranges DEF IsDir
  <2> QED BY <1>6, <2>1 DEF Same
<1>10. FileOK(c3, k, 0) /\ DirNodeOK(c3, k) /\ \A m \in Names : FindFile(DirFile(c3, k), m) = None
  BY <1>6, NewFileOK DEF NewFile
<1>11. ASSUME NEW z \in DOMAIN r2 PROVE NodeIs(c3, r2[z])
  <2>1. CASE z = p
    BY <1>6, <1>7, <1>10, <2>1 DEF NodeIs, NewFile
  <2>2. CASE z \in DOMAIN r
    <3>1. r2[z] = r[z] /\ r[z].fid \in Nid /\ IsInode(c2[r[z].fid])
      BY <1>1, <1>7, <2>2, TreeFids DEF Local
    <3>2. NodeIs(c2, r[z])
      <4>1. CASE r[z].fid = d
        <5>1. FidAt(r, z) = FidAt(r, Up(p)) /\ z # <<>> /\ Up(p) \in DOMAIN r \cup {<<>>}
          BY <2>2, <4>1, TreeFids
        <5>2. z = Up(p)  BY <2>2, <5>1, FidApart
        <5>3. r[z].type = "dir"  BY <5>1, <5>2 DEF DirPaths
        <5> QED BY <1>4, <2>2, <5>3 DEF NodeIs
      <4> QED BY <1>4, <2>2, <4>1
    <3> QED BY <1>4, <1>6, <3>1, <3>2, NodeSame
  <2> QED BY <1>7, <2>1, <2>2
<1>12. ASSUME NEW z \in DirPaths(r2) PROVE DirIs(c3, r2, z)
  <2>1. CASE z = p /\ x.type = "dir"
    <3>1. ASSUME NEW m \in Names PROVE FidOrNone(r2, Append(p, m)) = None
      <4>1. p \notin DirPaths(r)  BY <1>7
      <4>2. Append(p, m) \notin DOMAIN r /\ Append(p, m) # p  BY <1>1, <4>1, NothingBelow
      <4> QED BY <1>7, <4>2 DEF FidOrNone
    <3> QED BY <1>7, <1>10, <2>1, <3>1 DEF DirIs
  <2>2. CASE z \in DirPaths(r)
    <3>1. PICK e : e = FidAt(r, z)  OBVIOUS
    <3>2. e \in Nid /\ IsInode(c2[e]) /\ FidAt(r2, z) = e
      BY <1>1, <1>7, <2>2, <3>1, TreeFids DEF Local, IsDir
    <3>3. DirFile(c3, e) = DirFile(c2, e) /\ (DirNodeOK(c2, e) => DirNodeOK(c3, e))
      BY <1>4, <1>6, <3>2, SameFile
    <3>4. CASE z = Up(p)
      <4>1. \A m \in Names : FindFile(DirFile(c, d), m) = FidOrNone(r, Append(z, m))
        BY <2>2, <3>4 DEF TreeOK, DirIs
      <4>2. \A m \in Names : FindFile(DirFile(c2, d), m) = FidOrNone(r2, Append(z, m))
        BY <1>7, <2>2, <3>4, <4>1
      <4> QED BY <3>1, <3>2, <3>3, <3>4, <4>2 DEF DirIs
    <3>5. CASE z # Up(p)
      <4>1. e # d
        <5>1. z \in DOMAIN r \cup {<<>>} /\ Up(p) \in DOMAIN r \cup {<<>>}  BY <2>2, TreeFids
        <5> QED BY <3>1, <3>5, <5>1, FidApart
      <4>2. DirIs(c2, r, z)  BY <1>4, <2>2, <3>1, <4>1
      <4> QED BY <1>7, <2>2, <3>1, <3>2, <3>3, <3>5, <4>2 DEF DirIs
    <3> QED BY <3>4, <3>5
  <2> QED BY <1>7, <2>1, <2>2
<1> QED BY <1>4, <1>6, <1>7, <1>8, <1>9, <1>11, <1>12 DEF TreeOK

\* Nothing is below a path; the reference without the path.
NoChild(r, p) == \A z \in DOMAIN r : Len(z) = 2 => <<z[1]>> # p
RefLess(r, p) == [z \in DOMAIN r \ {p} |-> r[z]]

RefLoses(r, r2, p) ==
    /\ RefOK(r2) /\ DOMAIN r2 = DOMAIN r \ {p} /\ \A z \in DOMAIN r2 : r2[z] = r[z]
    /\ FidsOf(r2) = FidsOf(r) \ {r[p].fid} /\ DirPaths(r2) = DirPaths(r) \ {p}
    /\ \A z \in DirPaths(r2) : FidAt(r2, z) = FidAt(r, z)
    /\ \A z \in DirPaths(r), m \in Names : FidOrNone(r2, Append(z, m)) =
         IF z = Up(p) /\ m = p[Len(p)] THEN None ELSE FidOrNone(r, Append(z, m))

\* What a reference without a path has.
LEMMA RefLessIs ==
  ASSUME NEW r, RefOK(r), NEW p \in DOMAIN r, NoChild(r, p), NEW r2, r2 = RefLess(r, p)
  PROVE  RefLoses(r, r2, p)
<1>1. DOMAIN r2 = DOMAIN r \ {p} /\ \A z \in DOMAIN r2 : r2[z] = r[z]  BY DEF RefLess
<1>2. p \in Paths /\ Up(p) \in DirPaths(r) /\ p # <<>>  BY UpOf, PathIs
<1>3. \A u, v \in DOMAIN r : r[u].fid = r[v].fid => u = v  BY DEF RefOK
<1>4. FidsOf(r2) = FidsOf(r) \ {r[p].fid}  BY <1>1, <1>3 DEF FidsOf
<1>5. DirPaths(r2) = DirPaths(r) \ {p}  BY <1>1, <1>2 DEF DirPaths
<1>6. \A z \in DirPaths(r2) : FidAt(r2, z) = FidAt(r, z)  BY <1>1 DEF FidAt, DirPaths
<1>7. ASSUME NEW z \in DirPaths(r), NEW m \in Names
      PROVE  FidOrNone(r2, Append(z, m)) =
               IF z = Up(p) /\ m = p[Len(p)] THEN None ELSE FidOrNone(r, Append(z, m))
  <2>1. p[Len(p)] \in Names /\ p = Append(Up(p), p[Len(p)])  BY <1>2, PathIs, UpIs
  <2>2. Append(z, m) = p <=> z = Up(p) /\ m = p[Len(p)]  BY <1>2, <2>1, PathEq
  <2> QED BY <1>1, <2>2 DEF FidOrNone
<1>8. RefOK(r2)
  <2>1. ASSUME NEW z \in DOMAIN r2, Len(z) = 2 PROVE <<z[1]>> \in DirPaths(r2)
    BY <1>1, <1>5, <2>1 DEF RefOK, NoChild
  <2> QED BY <1>1, <2>1 DEF RefOK
<1> QED BY <1>1, <1>4, <1>5, <1>6, <1>7, <1>8 DEF RefLoses

\* A name is taken away: its inode has none.
LEMMA TreeUnlinked ==
  ASSUME NEW c, NEW r, NEW X, TreeOK(c, r, X), NEW p \in DOMAIN r, NoChild(r, p),
         NEW d, d = FidAt(r, Up(p)), NEW n, n = p[Len(p)], NEW k, k = r[p].fid,
         NEW c2, Local(c, c2, d), DirNodeOK(c2, d), FindFile(DirFile(c2, d), n) = None,
         \A m \in Names \ {n} : FindFile(DirFile(c2, d), m) = FindFile(DirFile(c, d), m),
         NEW r2, r2 = RefLess(r, p), NEW Y, Y = X \cup {k}
  PROVE  TreeOK(c2, r2, Y) /\ k # d
<1>1. RefOK(r) /\ NodesOK(c) /\ Up(p) \in DirPaths(r) /\ p \in Paths /\ p # <<>>
  BY UpOf, TreeFids DEF TreeOK
<1>2. d \in Nid /\ IsInode(c[d]) /\ d \notin X /\ k \in Nid /\ k \notin X /\ k # Root /\ IsInode(c[k]) /\ FidAt(r, p) = k
  BY <1>1, TreeFids DEF IsDir
<1>3. Up(p) # p
  <2>1. Len(p) \in {1, 2} /\ (Len(p) = 2 => p = <<p[1], p[2]>>)  BY <1>1, PathIs
  <2> QED BY <1>1, <2>1 DEF Up
<1>4. k # d
  <2>1. Up(p) \in DOMAIN r \cup {<<>>}  BY <1>1, TreeFids
  <2> QED BY <1>2, <1>3, <2>1, FidApart
<1>5. /\ NodesOK(c2) /\ InodesAre(c2, r, X) /\ IsDir(c2[Root]) /\ c2[Root].nlink = 0
      /\ \A z \in DOMAIN r : r[z].fid # d => NodeIs(c2, r[z])
      /\ \A z \in DOMAIN r : c2[r[z].fid].nlink = 1 /\ c2[r[z].fid].type = r[z].type
      /\ \A z \in DirPaths(r) : FidAt(r, z) # d => DirIs(c2, r, z)
  BY <1>2, LocalInodes
<1>6. RefLoses(r, r2, p)  BY <1>1, RefLessIs
<1>7. InodesAre(c2, r2, Y)
  <2>1. FidsOf(r2) = FidsOf(r) \ {k} /\ k \in FidsOf(r)  BY <1>6 DEF RefLoses, FidsOf
  <2> QED BY <1>2, <1>5, <2>1 DEF InodesAre
<1>8. ASSUME NEW z \in DOMAIN r2 PROVE NodeIs(c2, r2[z])
  <2>1. z \in DOMAIN r /\ r2[z] = r[z]  BY <1>6 DEF RefLoses
  <2>2. CASE r[z].fid = d
    <3>1. FidAt(r, z) = FidAt(r, Up(p)) /\ z # <<>> /\ Up(p) \in DOMAIN r \cup {<<>>}
      BY <1>1, <2>1, <2>2, TreeFids
    <3>2. z = Up(p)  BY <2>1, <3>1, FidApart
    <3>3. r[z].type = "dir"  BY <1>1, <3>1, <3>2 DEF DirPaths
    <3> QED BY <1>5, <2>1, <3>3 DEF NodeIs
  <2> QED BY <1>5, <2>1, <2>2
<1>9. ASSUME NEW z \in DirPaths(r2) PROVE DirIs(c2, r2, z)
  <2>1. z \in DirPaths(r) /\ FidAt(r2, z) = FidAt(r, z)  BY <1>6 DEF RefLoses
  <2>2. \A m \in Names : FidOrNone(r2, Append(z, m)) =
          IF z = Up(p) /\ m = n THEN None ELSE FidOrNone(r, Append(z, m))
    BY <1>6, <2>1 DEF RefLoses
  <2>3. CASE z = Up(p)
    <3>1. \A m \in Names : FindFile(DirFile(c, d), m) = FidOrNone(r, Append(z, m))
      BY <2>1, <2>3 DEF TreeOK, DirIs
    <3> QED BY <2>1, <2>2, <2>3, <3>1 DEF DirIs
  <2>4. CASE z # Up(p)
    <3>1. FidAt(r, z) # d
      <4>1. z \in DOMAIN r \cup {<<>>} /\ Up(p) \in DOMAIN r \cup {<<>>}
        BY <1>1, <2>1, TreeFids
      <4> QED BY <2>4, <4>1, FidApart
    <3>2. DirIs(c2, r, z)  BY <1>5, <2>1, <3>1
    <3> QED BY <2>1, <2>2, <2>4, <3>2 DEF DirIs
  <2> QED BY <2>3, <2>4
<1> QED BY <1>4, <1>5, <1>6, <1>7, <1>8, <1>9 DEF TreeOK, RefLoses

\* An inode without a name is removed.
LEMMA TreeRemoved ==
  ASSUME NEW c, NEW r, NEW X, TreeOK(c, r, X), NEW k \in X, NEW c2, NodesOK(c2),
         \A n \in Nid : IsInode(c2[n]) <=> IsInode(c[n]) /\ n # k,
         \A n \in Nid \ {k} : IsInode(c[n]) => Same(c, c2, n)
  PROVE  TreeOK(c2, r, X \ {k})
<1>1. NodesOK(c) /\ RefOK(r) /\ k # Root /\ k \notin FidsOf(r)  BY DEF TreeOK, InodesAre
<1>2. InodesAre(c2, r, X \ {k})
  <2>1. {n \in Nid : IsInode(c2[n])} = {n \in Nid : IsInode(c[n])} \ {k}  OBVIOUS
  <2> QED BY <1>1, <2>1 DEF TreeOK, InodesAre
<1>3. c2[Root] = c[Root]
  <2>1. Root \in Nid \ {k} /\ IsInode(c[Root])  BY <1>1, TreeFids
  <2> QED BY <2>1 DEF Same
<1>4. ASSUME NEW p \in DOMAIN r PROVE NodeIs(c2, r[p])
  <2>1. r[p].fid \in Nid \ {k} /\ IsInode(c[r[p].fid]) /\ NodeIs(c, r[p])
    BY TreeFids DEF TreeOK
  <2> QED BY <1>1, <2>1, NodeSame
<1>5. ASSUME NEW p \in DirPaths(r) PROVE DirIs(c2, r, p)
  <2>1. PICK n : n = FidAt(r, p)  OBVIOUS
  <2>2. n \in Nid \ {k} /\ IsInode(c[n]) /\ DirIs(c, r, p)  BY <2>1, TreeFids DEF TreeOK, IsDir
  <2>3. Same(c, c2, n)  BY <2>2
  <2> QED BY <1>1, <2>1, <2>2, <2>3, DirSame
<1> QED BY <1>1, <1>2, <1>3, <1>4, <1>5 DEF TreeOK

-------------------------------------------------------------------------------
(* Names that move. *)

\* The reference after a move.
RefMoved(r, p, q) ==
    LET moved == {x \in DOMAIN r : Prefixed(x, p)}
    IN  [y \in (DOMAIN r \ moved) \cup {q \o SubSeq(x, Len(p) + 1, Len(x)) : x \in moved} |->
            IF Prefixed(y, q) THEN r[Graft(p, y)] ELSE r[y]]

\* The move takes what is at p or below to q.
LEMMA ForthIs ==
  ASSUME NEW p, NEW q, Siblings(p, q), NEW x \in Paths, NEW y, y = Forth(p, q, x)
  PROVE  /\ y \in Paths /\ Len(y) = Len(x) /\ (~Away(p, x) => y = x)
         /\ Away(p, x) => Back(p, q, y) = x /\ ~Away(p, y) /\ Away(q, y) /\ ~Away(q, x) /\ y = Graft(q, x)
<1>1. p \in Paths /\ q \in Paths /\ Len(q) = Len(p) /\ q # p  BY DEF Siblings
<1>2. CASE x = p
  <2>1. y = q /\ Graft(q, x) = q  BY <1>1, <1>2, PrefixIs DEF Forth
  <2>2. ~(Len(p) = 1 /\ Len(q) = 2)  BY <1>1
  <2> QED BY <1>1, <1>2, <2>1, <2>2 DEF Back, Away
<1>3. CASE x # p /\ Len(p) = 1 /\ Len(x) = 2 /\ x[1] = p[1]
  <2>1. y = <<q[1], x[2]>> /\ Graft(q, x) = <<q[1], x[2]>>  BY <1>1, <1>3, PrefixIs DEF Forth
  <2>2. q[1] # p[1] /\ q[1] \in Names /\ x[2] \in Names /\ x = <<x[1], x[2]>>
    BY <1>3, SiblingNames, PathIs
  <2>3. y \in Paths /\ Len(y) = 2 /\ y[1] = q[1] /\ y[2] = x[2]  BY <2>1, <2>2, PathNames
  <2>4. y # q /\ y # p /\ x # q  BY <1>1, <1>3, <2>3
  <2>5. Back(p, q, y) = <<p[1], x[2]>>  BY <1>3, <2>3, <2>4 DEF Back
  <2>6. Back(p, q, y) = x  BY <1>3, <2>2, <2>5
  <2> QED BY <1>1, <1>3, <2>1, <2>2, <2>3, <2>4, <2>6 DEF Away
<1>4. CASE ~Away(p, x)
  <2>1. y = x  BY <1>4 DEF Forth, Away
  <2> QED BY <1>4, <2>1
<1> QED BY <1>2, <1>3, <1>4 DEF Away

\* What the reference has after the move.
LEMMA MovedIs ==
  ASSUME NEW r, RefOK(r), NEW p \in DOMAIN r, NEW q, Siblings(p, q), q \notin DOMAIN r,
         NEW r2, r2 = RefMoved(r, p, q)
  PROVE  /\ DOMAIN r2 \subseteq Paths
         /\ \A y \in Paths : y \in DOMAIN r2 <=> ~Away(p, y) /\ Back(p, q, y) \in DOMAIN r
         /\ \A y \in DOMAIN r2 : r2[y] = r[Back(p, q, y)]
         /\ \A x \in DOMAIN r : Forth(p, q, x) \in DOMAIN r2 /\ Back(p, q, Forth(p, q, x)) = x
<1>1. p \in Paths /\ q \in Paths /\ Len(q) = Len(p) /\ q # p /\ DOMAIN r \subseteq Paths
  BY DEF Siblings, RefOK
<1>2. \A x \in DOMAIN r : Prefixed(x, p) <=> Away(p, x)  BY <1>1, PrefixIs
<1>3. \A x \in DOMAIN r : ~Away(q, x)
  <2>1. ASSUME NEW x \in DOMAIN r, Len(q) = 1, Len(x) = 2, x[1] = q[1] PROVE FALSE
    <3>1. <<x[1]>> \in DirPaths(r) /\ <<q[1]>> = q  BY <1>1, <2>1, PathIs DEF RefOK
    <3>2. q \in DirPaths(r) /\ q # <<>>  BY <1>1, <2>1, <3>1, PathIs
    <3> QED BY <3>2 DEF DirPaths
  <2> QED BY <2>1 DEF Away
<1>4. PICK M : M = {x \in DOMAIN r : Away(p, x)}  OBVIOUS
<1>5. \A x \in M : q \o SubSeq(x, Len(p) + 1, Len(x)) = Forth(p, q, x)
  <2>1. \A x \in M : Forth(p, q, x) = Graft(q, x)  BY <1>1, <1>4, ForthIs
  <2> QED BY <1>1, <2>1 DEF Graft
<1>6. r2 = [y \in (DOMAIN r \ M) \cup {Forth(p, q, x) : x \in M} |->
               IF Prefixed(y, q) THEN r[Graft(p, y)] ELSE r[y]]
  BY <1>2, <1>4, <1>5 DEF RefMoved
<1>7. DOMAIN r2 = (DOMAIN r \ M) \cup {Forth(p, q, x) : x \in M}  BY <1>6
<1>8. DOMAIN r2 \subseteq Paths  BY <1>1, <1>4, <1>7, ForthIs
<1>9. ASSUME NEW y \in DOMAIN r2 PROVE ~Away(p, y) /\ Back(p, q, y) \in DOMAIN r /\ r2[y] = r[Back(p, q, y)]
  <2>1. CASE y \in DOMAIN r \ M
    <3>1. ~Away(p, y) /\ ~Away(q, y) /\ y \in Paths  BY <1>1, <1>3, <1>4, <2>1
    <3>2. Back(p, q, y) = y /\ ~Prefixed(y, q)  BY <1>1, <3>1, BackIs, PrefixIs
    <3> QED BY <1>6, <1>7, <2>1, <3>1, <3>2
  <2>2. ASSUME NEW x \in M, y = Forth(p, q, x)
        PROVE  ~Away(p, y) /\ Back(p, q, y) \in DOMAIN r /\ r2[y] = r[Back(p, q, y)]
    <3>1. Back(p, q, y) = x /\ ~Away(p, y) /\ Away(q, y) /\ y \in Paths /\ x \in DOMAIN r
      BY <1>1, <1>4, <2>2, ForthIs
    <3>2. Prefixed(y, q) /\ Graft(p, y) = x  BY <1>1, <3>1, BackIs, PrefixIs
    <3> QED BY <1>6, <1>7, <3>1, <3>2
  <2> QED BY <1>7, <2>1, <2>2
<1>10. ASSUME NEW y \in Paths, ~Away(p, y), Back(p, q, y) \in DOMAIN r PROVE y \in DOMAIN r2
  <2>1. CASE Away(q, y)
    <3>1. Forth(p, q, Back(p, q, y)) = y /\ Away(p, Back(p, q, y))  BY <2>1, BackIs
    <3> QED BY <1>4, <1>7, <1>10, <3>1
  <2>2. CASE ~Away(q, y)
    <3>1. Back(p, q, y) = y  BY <2>2, BackIs
    <3> QED BY <1>4, <1>7, <1>10, <3>1
  <2> QED BY <2>1, <2>2
<1>11. ASSUME NEW x \in DOMAIN r PROVE Forth(p, q, x) \in DOMAIN r2 /\ Back(p, q, Forth(p, q, x)) = x
  <2>1. CASE Away(p, x)
    <3>1. x \in M  BY <1>4, <2>1
    <3> QED BY <1>1, <1>7, <2>1, <3>1, ForthIs
  <2>2. CASE ~Away(p, x)
    <3>1. Forth(p, q, x) = x /\ Back(p, q, x) = x  BY <1>1, <1>3, <2>2, ForthIs, BackIs
    <3> QED BY <1>4, <1>7, <2>2, <3>1
  <2> QED BY <2>1, <2>2
<1> QED BY <1>8, <1>9, <1>10, <1>11

\* The reference is in order after a move.
LEMMA MovedOK ==
  ASSUME NEW r, RefOK(r), NEW p \in DOMAIN r, NEW q, Siblings(p, q), q \notin DOMAIN r,
         NEW r2, r2 = RefMoved(r, p, q)
  PROVE  RefOK(r2) /\ FidsOf(r2) = FidsOf(r)
<1>1. /\ DOMAIN r2 \subseteq Paths
      /\ \A y \in Paths : y \in DOMAIN r2 <=> ~Away(p, y) /\ Back(p, q, y) \in DOMAIN r
      /\ \A y \in DOMAIN r2 : r2[y] = r[Back(p, q, y)]
      /\ \A x \in DOMAIN r : Forth(p, q, x) \in DOMAIN r2 /\ Back(p, q, Forth(p, q, x)) = x
  BY MovedIs
<1>2. ASSUME NEW y \in DOMAIN r2 PROVE Forth(p, q, Back(p, q, y)) = y
  <2>1. y \in Paths /\ ~Away(p, y)  BY <1>1
  <2>2. CASE Away(q, y)
    BY <2>1, <2>2, BackIs
  <2>3. CASE ~Away(q, y)
    BY <2>1, <2>3, BackIs, ForthIs
  <2> QED BY <2>2, <2>3
<1>3. ASSUME NEW y \in DOMAIN r2, NEW z \in DOMAIN r2, r2[y].fid = r2[z].fid PROVE y = z
  <2>1. Back(p, q, y) = Back(p, q, z)  BY <1>1, <1>3 DEF RefOK
  <2> QED BY <1>2, <2>1
<1>4. ASSUME NEW y \in DOMAIN r2, Len(y) = 2 PROVE <<y[1]>> \in DirPaths(r2)
  <2>1. PICK x : x = Back(p, q, y)  OBVIOUS
  <2>2. x \in DOMAIN r /\ x \in Paths /\ Len(x) = 2 /\ y = Forth(p, q, x)
    BY <1>1, <1>2, <1>4, <2>1, BackIs
  <2>3. PICK u : u = <<x[1]>>  OBVIOUS
  <2>4. u \in DOMAIN r /\ r[u].type = "dir"
    <3>1. u \in DirPaths(r) /\ u # <<>>  BY <2>2, <2>3 DEF RefOK
    <3> QED BY <3>1 DEF DirPaths
  <2>5. <<y[1]>> = Forth(p, q, u)  BY <2>2, <2>3, ForthUp
  <2>6. <<y[1]>> \in DOMAIN r2 /\ r2[<<y[1]>>] = r[u]  BY <1>1, <2>4, <2>5
  <2> QED BY <2>4, <2>6 DEF DirPaths
<1>5. ASSUME NEW y \in DOMAIN r2
      PROVE  r2[y] \in RefFile /\ r2[y].fid # Root /\ (r2[y].type = "dir" => r2[y].size = 0)
  BY <1>1 DEF RefOK
<1>6. RefOK(r2)  BY <1>1, <1>3, <1>4, <1>5 DEF RefOK
<1>7. FidsOf(r2) = FidsOf(r)  BY <1>1 DEF FidsOf
<1> QED BY <1>6, <1>7

\* The directory before the move.
BackDir(p, q, y) == IF y = <<>> THEN <<>> ELSE Back(p, q, y)

\* What a directory names after the move.
LEMMA MovedNames ==
  ASSUME NEW r, RefOK(r), NEW p \in DOMAIN r, NEW q, Siblings(p, q), q \notin DOMAIN r,
         NEW r2, r2 = RefMoved(r, p, q), NEW y \in DirPaths(r2), NEW x, x = BackDir(p, q, y), NEW m \in Names
  PROVE  /\ x \in DirPaths(r) /\ FidAt(r2, y) = FidAt(r, x)
         /\ FidOrNone(r2, Append(y, m)) =
              IF x = Up(p) /\ m = q[Len(q)] THEN r[p].fid
              ELSE IF x = Up(p) /\ m = p[Len(p)] THEN None ELSE FidOrNone(r, Append(x, m))
<1>1. /\ DOMAIN r2 \subseteq Paths
      /\ \A z \in Paths : z \in DOMAIN r2 <=> ~Away(p, z) /\ Back(p, q, z) \in DOMAIN r
      /\ \A z \in DOMAIN r2 : r2[z] = r[Back(p, q, z)]
  BY MovedIs
<1>2. p \in Paths /\ q \in Paths /\ Len(q) = Len(p) /\ q # p /\ DOMAIN r \subseteq Paths /\ p # <<>>
  BY PathIs DEF Siblings, RefOK
<1>3. y # <<>> => y \in DOMAIN r2 /\ r2[y].type = "dir"  BY DEF DirPaths
<1>4. x \in DirPaths(r) /\ FidAt(r2, y) = FidAt(r, x)
  <2>1. CASE y = <<>>
    BY <2>1 DEF BackDir, FidAt, DirPaths
  <2>2. CASE y # <<>>
    <3>1. x \in DOMAIN r /\ r[x].type = "dir" /\ r2[y] = r[x] /\ x # <<>>
      BY <1>1, <1>2, <1>3, <2>2, PathIs DEF BackDir
    <3> QED BY <2>2, <3>1 DEF FidAt, DirPaths
  <2> QED BY <2>1, <2>2
<1>5. ASSUME NEW z \in Paths
      PROVE  FidOrNone(r2, z) = IF Away(p, z) THEN None ELSE FidOrNone(r, Back(p, q, z))
  BY <1>1 DEF FidOrNone
<1>6. CASE y = <<>>
  <2>1. PICK z : z = <<m>>  OBVIOUS
  <2>2. z \in Paths /\ Len(z) = 1 /\ z[1] = m /\ Append(y, m) = z /\ x = <<>> /\ Append(x, m) = z
    BY <1>6, <2>1, PathNames, AppendIs DEF BackDir
  <2>3. CASE Len(p) = 1
    <3>1. p = <<p[1]>> /\ q = <<q[1]>> /\ q[1] # p[1] /\ Up(p) = <<>>
      BY <2>3, SiblingNames DEF Up
    <3>2. (z = p <=> m = p[1]) /\ (z = q <=> m = q[1])  BY <2>1, <3>1
    <3>3. /\ Away(p, z) <=> z = p
          /\ Back(p, q, z) = IF z = q THEN p ELSE z
      BY <2>2 DEF Away, Back
    <3>4. FidOrNone(r, p) = r[p].fid  BY DEF FidOrNone
    <3> QED BY <1>2, <1>4, <1>5, <2>2, <2>3, <3>1, <3>2, <3>3, <3>4
  <2>4. CASE Len(p) = 2
    <3>1. PICK h \in Names : h = p[1]  BY <1>2, PathIs
    <3>2. Up(p) # <<>> /\ z # p /\ z # q
      <4>1. Up(p) = <<h>>  BY <2>4, <3>1 DEF Up
      <4>2. Up(p) # <<>>  BY <4>1
      <4>3. Len(z) = 1 /\ Len(p) = 2 /\ Len(q) = 2  BY <1>2, <2>2, <2>4
      <4>4. z # p /\ z # q  BY ONLY <4>3
      <4> QED BY <4>2, <4>4
    <3>3. ~Away(p, z) /\ Back(p, q, z) = z  BY <2>4, <3>2 DEF Away, Back
    <3> QED BY <1>4, <1>5, <2>2, <3>2, <3>3
  <2> QED BY <1>2, <2>3, <2>4, PathIs
<1>7. CASE y # <<>> /\ Len(y) = 2
  <2>1. y \in Paths /\ x \in Paths /\ Len(x) = 2  BY <1>1, <1>3, <1>7, BackIs DEF BackDir
  <2>2. y = <<y[1], y[2]>> /\ y[1] \in Names /\ y[2] \in Names
        /\ x = <<x[1], x[2]>> /\ x[1] \in Names /\ x[2] \in Names
    BY <1>7, <2>1, PathIs
  <2>3. y \in Names \X Names /\ x \in Names \X Names  BY <2>2
  <2>4. Append(y, m) \notin Paths /\ Append(x, m) \notin Paths  BY <2>3, AppendIs
  <2>5. x # Up(p)
    <3>1. PICK h \in Names : h = p[1]  BY <1>2, PathIs
    <3>2. Up(p) = <<>> \/ Up(p) = <<h>>  BY <3>1 DEF Up
    <3>3. Len(<<h>>) = 1  BY PathNames
    <3>4. CASE Up(p) = <<h>>
      BY <2>1, <3>3, <3>4
    <3>5. CASE Up(p) = <<>>
      BY <2>1, <3>5, PathIs
    <3> QED BY <3>2, <3>4, <3>5
  <2> QED BY <1>1, <1>2, <1>4, <2>4, <2>5 DEF FidOrNone
<1>8. CASE y # <<>> /\ Len(y) = 1
  <2>1. PICK g : g = y[1]  OBVIOUS
  <2>2. PICK z : z = <<g, m>>  OBVIOUS
  <2>3. y \in Paths /\ y = <<g>> /\ g \in Names /\ ~Away(p, y)
    BY <1>1, <1>3, <1>8, <2>1, PathIs
  <2>4. z \in Paths /\ Len(z) = 2 /\ z[1] = g /\ z[2] = m /\ Append(y, m) = z
    BY <2>2, <2>3, PathNames, AppendIs
  <2>5. y # p /\ x = Back(p, q, y)  BY <1>8, <2>3 DEF Away, BackDir
  <2>6. CASE Len(p) = 1
    <3>1. p = <<p[1]>> /\ q = <<q[1]>> /\ q[1] # p[1] /\ Up(p) = <<>> /\ p[1] \in Names
      BY <2>6, SiblingNames DEF Up
    <3>2. g # p[1] /\ (y = q <=> g = q[1])  BY <2>3, <2>5, <3>1
    <3>3. ~Away(p, z)  BY <2>4, <2>6, <3>2 DEF Away
    <3>4. z # q  BY <1>2, <2>4, <2>6
    <3>5. CASE y = q
      <4>1. x = p  BY <2>5, <3>5 DEF Back
      <4>2. Back(p, q, z) = <<p[1], m>>  BY <2>4, <2>6, <3>2, <3>4, <3>5 DEF Back
      <4>3. Append(p, m) = <<p[1], m>>  BY <3>1, AppendIs, Zenon
      <4> QED BY <1>2, <1>4, <1>5, <2>4, <3>1, <3>3, <4>1, <4>2, <4>3
    <3>6. CASE y # q
      <4>1. x = y  BY <1>8, <2>5, <3>6 DEF Back
      <4>2. Back(p, q, z) = z  BY <2>4, <3>2, <3>4, <3>6 DEF Back
      <4> QED BY <1>4, <1>5, <1>8, <2>4, <3>1, <3>3, <4>1, <4>2
    <3> QED BY <3>5, <3>6
  <2>7. CASE Len(p) = 2
    <3>1. PICK h, a, b : h = p[1] /\ a = p[2] /\ b = q[2]  OBVIOUS
    <3>2. p = <<h, a>> /\ q = <<h, b>> /\ Up(p) = <<h>>
      BY <1>2, <2>7, <3>1, PathIs, SiblingNames DEF Up
    <3>3. /\ z = q <=> g = h /\ m = b
          /\ z = p <=> g = h /\ m = a
          /\ y = Up(p) <=> g = h
      BY <2>2, <2>3, <3>2
    <3>4. /\ Away(p, z) <=> z = p
          /\ Back(p, q, z) = IF z = q THEN p ELSE z
      BY <2>7 DEF Away, Back
    <3>5. x = y  BY <1>2, <1>8, <2>5, <2>7 DEF Back
    <3>6. FidOrNone(r, p) = r[p].fid /\ p[Len(p)] = a /\ q[Len(q)] = b
      BY <1>2, <2>7, <3>1 DEF FidOrNone
    <3> QED BY <1>2, <1>4, <1>5, <2>4, <3>3, <3>4, <3>5, <3>6
  <2> QED BY <1>2, <2>6, <2>7, PathIs
<1>9. y = <<>> \/ Len(y) \in {1, 2}  BY <1>1, <1>3, PathIs
<1> QED BY <1>6, <1>7, <1>8, <1>9

\* A name is moved in its directory.
LEMMA TreeMoved ==
  ASSUME NEW c, NEW r, NEW X, TreeOK(c, r, X), NEW p \in DOMAIN r, NEW q, Siblings(p, q), q \notin DOMAIN r,
         NEW d, d = FidAt(r, Up(p)), NEW n, n = p[Len(p)], NEW n2, n2 = q[Len(q)], NEW k, k = r[p].fid,
         NEW c2, Local(c, c2, d), DirNodeOK(c2, d),
         FindFile(DirFile(c2, d), n2) = k, FindFile(DirFile(c2, d), n) = None,
         \A m \in Names \ {n, n2} : FindFile(DirFile(c2, d), m) = FindFile(DirFile(c, d), m),
         NEW r2, r2 = RefMoved(r, p, q)
  PROVE  TreeOK(c2, r2, X)
<1>1. RefOK(r) /\ NodesOK(c) /\ Up(p) \in DirPaths(r) /\ p \in Paths  BY UpOf DEF TreeOK
<1>2. d \in Nid /\ IsInode(c[d]) /\ d \notin X  BY <1>1, TreeFids DEF IsDir
<1>3. /\ NodesOK(c2) /\ InodesAre(c2, r, X) /\ IsDir(c2[Root]) /\ c2[Root].nlink = 0
      /\ \A z \in DOMAIN r : r[z].fid # d => NodeIs(c2, r[z])
      /\ \A z \in DOMAIN r : c2[r[z].fid].nlink = 1 /\ c2[r[z].fid].type = r[z].type
      /\ \A z \in DirPaths(r) : FidAt(r, z) # d => DirIs(c2, r, z)
  BY <1>2, LocalInodes
<1>4. RefOK(r2) /\ FidsOf(r2) = FidsOf(r)  BY <1>1, MovedOK
<1>5. InodesAre(c2, r2, X)  BY <1>3, <1>4 DEF InodesAre
<1>6. ASSUME NEW z \in DOMAIN r PROVE NodeIs(c2, r[z])
  <2>1. CASE r[z].fid = d
    <3>1. FidAt(r, z) = FidAt(r, Up(p)) /\ z # <<>> /\ Up(p) \in DOMAIN r \cup {<<>>}
      BY <1>1, <2>1, TreeFids
    <3>2. z = Up(p)  BY <3>1, FidApart
    <3>3. r[z].type = "dir"  BY <1>1, <3>1, <3>2 DEF DirPaths
    <3> QED BY <1>3, <3>3 DEF NodeIs
  <2> QED BY <1>3, <2>1
<1>7. ASSUME NEW y \in DOMAIN r2 PROVE NodeIs(c2, r2[y])
  <2>1. y \in Paths /\ Back(p, q, y) \in DOMAIN r /\ r2[y] = r[Back(p, q, y)]  BY <1>1, MovedIs
  <2> QED BY <1>6, <2>1
<1>8. ASSUME NEW y \in DirPaths(r2) PROVE DirIs(c2, r2, y)
  <2>1. PICK x : x = BackDir(p, q, y)  OBVIOUS
  <2>2. \A m \in Names :
          /\ x \in DirPaths(r) /\ FidAt(r2, y) = FidAt(r, x)
          /\ FidOrNone(r2, Append(y, m)) =
               IF x = Up(p) /\ m = n2 THEN k
               ELSE IF x = Up(p) /\ m = n THEN None ELSE FidOrNone(r, Append(x, m))
    BY <1>1, <2>1, MovedNames
  <2>3. x \in DirPaths(r) /\ FidAt(r2, y) = FidAt(r, x)
    <3>1. n \in Names  BY <1>1, PathIs
    <3> QED BY <2>2, <3>1
  <2>4. CASE x = Up(p)
    <3>1. \A m \in Names : FindFile(DirFile(c, d), m) = FidOrNone(r, Append(x, m))
      BY <2>3, <2>4 DEF TreeOK, DirIs
    <3>2. \A m \in Names : FindFile(DirFile(c2, d), m) = FidOrNone(r2, Append(y, m))
      BY <2>2, <2>4, <3>1
    <3> QED BY <2>3, <2>4, <3>2 DEF DirIs
  <2>5. CASE x # Up(p)
    <3>1. FidAt(r, x) # d
      <4>1. x \in DOMAIN r \cup {<<>>} /\ Up(p) \in DOMAIN r \cup {<<>>}
        BY <1>1, <2>3, TreeFids
      <4> QED BY <2>5, <4>1, FidApart
    <3>2. DirIs(c2, r, x)  BY <1>3, <2>3, <3>1
    <3> QED BY <2>2, <2>3, <2>5, <3>2 DEF DirIs
  <2> QED BY <2>4, <2>5
<1> QED BY <1>3, <1>4, <1>5, <1>7, <1>8 DEF TreeOK

-------------------------------------------------------------------------------
(* Deleting. *)

\* The pages of a file system that removing inode d leaves, with the page q for d.
WithPage(f, d, q) == [f EXCEPT !.cache = [f.cache EXCEPT ![d] = q]]

\* Whether the page of an inode is dirty makes no difference to its removal.
LEMMA RemoveMarked ==
  ASSUME NEW e \in Fs, NEW d \in Nid, e.cache[d] # None, NEW q \in Page, q.page = e.cache[d].page,
         NEW f, f = WithPage(e, d, q)
  PROVE  FileRemove(e, d) = FileRemove(f, d)
<1>1. PICK C : C = [e.cache EXCEPT ![d] = q]  OBVIOUS
<1>2. e.cache \in [Nid -> Page \cup {None}] /\ C \in [Nid -> Page \cup {None}] /\ q # None
  BY <1>1, FsIs, Marks
<1>3. f = [e EXCEPT !.cache = C]  BY <1>1 DEF WithPage
<1>4. /\ f \in Fs /\ f.nat = e.nat /\ f.next = e.next /\ f.free = e.free /\ f.cache = C
      /\ f.open = e.open /\ f.saved = e.saved /\ f.failed = e.failed
  BY <1>2, <1>3, FsCache
<1>5. \A n \in Nid : n # d => C[n] = e.cache[n]  BY <1>1, <1>2
<1>6. C[d] = q  BY <1>1, <1>2
<1>7. Content(f) = Content(e)  BY <1>2, <1>4, <1>5, <1>6 DEF Content
<1>8. PICK s : s = q.page.size  OBVIOUS
<1>9. \A n \in Nid : n # d => (n \in DirtyPages(f) <=> n \in DirtyPages(e))
  BY <1>4, <1>5 DEF DirtyPages
<1>10. \A n \in Nid : n # d => CutPage(f, d, 0, s, n) = CutPage(e, d, 0, s, n)
  BY <1>4, <1>5, <1>7, <1>9 DEF CutPage
<1>11. PICK t, u : t = Truncate(e, d, 0, s) /\ u = Truncate(f, d, 0, s)  OBVIOUS
<1>12. PICK c, gone, pages : /\ c = Content(e) /\ gone = Gone(c, d, 0, s)
                            /\ pages = {d} \cup {c[d].index[i] : i \in Idx}
  OBVIOUS
<1>13. PICK N, F, B, D1, D2 :
         /\ N = [n \in Nid |-> IF n \in gone THEN None ELSE e.nat[n]]
         /\ F = e.free + Cardinality(gone) /\ B = (e.failed \/ FreedTwice(c, d, 0, s))
         /\ D1 = [n \in Nid |-> IF n \in gone THEN None
                                ELSE IF n \in pages THEN CutPage(e, d, 0, s, n) ELSE e.cache[n]]
         /\ D2 = [n \in Nid |-> IF n \in gone THEN None
                                ELSE IF n \in pages THEN CutPage(f, d, 0, s, n) ELSE C[n]]
  OBVIOUS
<1>14. t = [e EXCEPT !.nat = N, !.free = F, !.failed = B, !.cache = D1]
  BY <1>11, <1>12, <1>13 DEF Truncate
<1>15. u = [f EXCEPT !.nat = N, !.free = F, !.failed = B, !.cache = D2]
  BY <1>4, <1>7, <1>11, <1>12, <1>13 DEF Truncate
<1>16. \A n \in Nid : n # d => D1[n] = D2[n]  BY <1>5, <1>10, <1>13
<1>17. [D1 EXCEPT ![d] = None] = [D2 EXCEPT ![d] = None]  BY <1>13, <1>16
<1>18. PICK N2, K, F2 : N2 = [N EXCEPT ![d] = None] /\ K = [D1 EXCEPT ![d] = None] /\ F2 = F + 1
  OBVIOUS
<1>19. PICK R : R = [nat : {N2}, next : {e.next}, free : {F2}, cache : {K}, open : {e.open},
                     saved : {e.saved}, failed : {B}]
  OBVIOUS
<1>20. PutNode(t, d) \in R  BY <1>14, <1>18, <1>19 DEF PutNode, Fs
<1>21. PutNode(u, d) \in R  BY <1>4, <1>15, <1>17, <1>18, <1>19 DEF PutNode, Fs
<1>22. \A x, y \in R : x = y  BY <1>19
<1>23. FileRemove(e, d) = PutNode(t, d) /\ FileRemove(f, d) = PutNode(u, d)
  BY <1>4, <1>6, <1>8, <1>11 DEF FileRemove
<1> QED BY <1>23, <1>20, <1>21, <1>22

\* A page whose inode loses its name.
LosesName(f, d) == [f EXCEPT !.cache[d].page.nlink = @ - 1]

\* The inode without its name.
Unnamed(x) == [x EXCEPT !.nlink = 0]

\* An inode that loses its name keeps the rest.
LEMMA UnnamedIs ==
  ASSUME NEW x \in Inode, NEW y, y = Unnamed(x)
  PROVE  /\ y \in Inode /\ y \in Node /\ y.nlink = 0 /\ y.size = x.size /\ y.index = x.index
         /\ y.blks = x.blks /\ y.type = x.type
BY InodeIs DEF Unnamed, Inode, Node

\* A file or an empty directory that has lost its name, and that nobody has open, is closed.
LEMMA CloseUnnamed ==
  ASSUME NEW f, PagesOK(f, {}), NEW c, c = Content(f), NodesOK(c), RefsOK(f),
         NEW d \in Cached(f), IsInode(c[d]), d \notin Refs(f), c[d].nlink = 1,
         (\E s \in 0 .. MaxFile : FileOK(c, d, s)) \/ (\A i \in Idx : c[d].index[i] = None),
         NEW e, e = LosesName(f, d), NEW g, g = CloseInode(e, d)
  PROVE  /\ PagesOK(g, {}) /\ NodesOK(Content(g)) /\ Keeps(f, g) /\ RefsOK(g)
         /\ \A n \in Nid : IsInode(Content(g)[n]) <=> IsInode(c[n]) /\ n # d
         /\ \A n \in Nid \ {d} : IsInode(c[n]) => Same(c, Content(g), n)
         /\ \A n \in Cached(f) \ {d} : IsInode(c[n]) => n \in Cached(g)
<1>1. f \in Fs /\ d \in Nid /\ f.cache[d] # None /\ f.cache[d].page = c[d] /\ f.cache[d].ref = 0
  <2>1. f \in Fs /\ d \in Nid /\ f.cache[d] # None /\ f.cache[d].page = c[d]
    BY PageSeen DEF PagesOK
  <2>2. f.cache[d].ref \in {0, 1}  BY <2>1, PageIs
  <2> QED BY <2>1, <2>2 DEF Refs
<1>2. f.cache \in [Nid -> Page \cup {None}] /\ f.cache[d] \in Page /\ f.cache[d].dirty \in BOOLEAN /\ c[d] \in Inode
  BY <1>1, FsIs, PageIs, KindOf
<1>3. PICK y : y = Unnamed(c[d])  OBVIOUS
<1>4. /\ y \in Inode /\ y \in Node /\ y.nlink = 0 /\ y.size = c[d].size /\ y.index = c[d].index
      /\ y.blks = c[d].blks /\ y.type = c[d].type
  BY <1>2, <1>3, UnnamedIs
<1>5. PICK q, q2 : q = [page |-> y, dirty |-> f.cache[d].dirty, ref |-> 0] /\ q2 = [page |-> y, dirty |-> TRUE, ref |-> 0]
  OBVIOUS
<1>6. /\ q \in Page /\ q2 \in Page /\ q.page = y /\ q2.page = y /\ q2.dirty /\ q.ref = 0 /\ q2.ref = 0
      /\ q2.dirty = TRUE
  BY <1>2, <1>4, <1>5 DEF Page
<1>7. e = WithPage(f, d, q)
  <2>1. [f.cache[d] EXCEPT !.page = [f.cache[d].page EXCEPT !.nlink = f.cache[d].page.nlink - 1]] = q
    <3>1. [c[d] EXCEPT !.nlink = c[d].nlink - 1] = y  BY <1>2, <1>3 DEF Unnamed
    <3>2. [f.cache[d] EXCEPT !.page = y] = q  BY <1>1, <1>2, <1>5 DEF Page
    <3> QED BY <1>1, <3>1, <3>2
  <2> QED BY <2>1 DEF WithPage, LosesName
<1>8. PICK C : C = [f.cache EXCEPT ![d] = q]  OBVIOUS
<1>9. C \in [Nid -> Page \cup {None}] /\ C[d] = q /\ e = [f EXCEPT !.cache = C]
  BY <1>1, <1>2, <1>6, <1>7, <1>8 DEF WithPage
<1>10. e \in Fs /\ e.cache = C  BY <1>1, <1>9, FsCache
<1>11. PICK h : h = WithPage(e, d, q2)  OBVIOUS
<1>12. g = FileRemove(h, d)
  <2>1. g = FileRemove(e, d)  BY <1>4, <1>6, <1>9, <1>10 DEF CloseInode
  <2>2. e.cache[d] # None /\ q2.page = e.cache[d].page  BY <1>6, <1>9, <1>10, Marks
  <2> QED BY <1>1, <1>6, <1>10, <1>11, <2>1, <2>2, RemoveMarked
<1>13. PICK C2 : C2 = [f.cache EXCEPT ![d] = q2]  OBVIOUS
<1>14. C2 \in [Nid -> Page \cup {None}] /\ h = [f EXCEPT !.cache = C2]
  <2>1. C2 \in [Nid -> Page \cup {None}] /\ C2 = [C EXCEPT ![d] = q2]
    BY <1>2, <1>6, <1>8, <1>13
  <2> QED BY <1>9, <1>10, <1>11, <2>1 DEF WithPage
<1>15. /\ h \in Fs /\ h.nat = f.nat /\ h.free = f.free /\ h.cache = C2
       /\ h.open = f.open /\ h.saved = f.saved /\ h.failed = f.failed
  BY <1>1, <1>14, FsCache
<1>16. f.nat[d] # None  BY <1>1, <1>2, ContentIs, Marks, KindOf
<1>17. /\ PagesOK(h, {}) /\ Content(h) = [Content(f) EXCEPT ![d] = q2.page]
       /\ Cached(h) = Cached(f) \cup {d} /\ Refs(h) = Refs(f) \ {d}
  <2>1. /\ PagesOK(h, {}) /\ Content(h) = [Content(f) EXCEPT ![d] = q2.page]
        /\ Cached(h) = Cached(f) \cup {d}
        /\ Refs(h) = IF q2.ref = 1 THEN Refs(f) \cup {d} ELSE Refs(f) \ {d}
    BY <1>1, <1>6, <1>13, <1>15, <1>16, OnePage
  <2> QED BY <1>6, <2>1
<1>18. PICK c2 : c2 = Put(c, d, y)  OBVIOUS
<1>19. Content(h) = c2 /\ Cached(h) = Cached(f) /\ Refs(h) = Refs(f)
  BY <1>6, <1>17, <1>18 DEF Put
<1>20. /\ NodesOK(c2) /\ \A n \in Nid : IsInode(c2[n]) <=> IsInode(c[n])
       /\ c2[d] = y /\ \A n \in Nid \ {d} : c2[n] = c[n]
       /\ \A n \in Nid \ {d} : IsInode(c[n]) => Same(c, c2, n)
       /\ \A b \in Blocks : BlockAt(c2, d, b) = BlockAt(c, d, b)
  BY <1>1, <1>4, <1>18, InodeChanged
<1>21. Removable(c2, d)
  <2>1. CASE \E s \in 0 .. MaxFile : FileOK(c, d, s)
    <3>1. PICK s \in 0 .. MaxFile : FileOK(c, d, s)  BY <2>1
    <3>2. FileOK(c2, d, s)  BY <1>4, <1>20, <3>1 DEF FileOK
    <3>3. IsInode(c2[d])  BY <1>1, <1>20
    <3> QED BY <1>1, <1>20, <3>2, <3>3, FileRemovable
  <2>2. CASE \A i \in Idx : c[d].index[i] = None
    BY <1>4, <1>20, <2>2, EmptyRemovable
  <2> QED BY <2>1, <2>2
<1>22. RefsOK(h)  BY <1>19, <1>20 DEF RefsOK, Refs
<1>23. d \in Cached(h) /\ IsInode(c2[d]) /\ d \notin Refs(h) /\ c2[d].nlink = 0 /\ g = CloseInode(h, d)
  <2>1. h.cache[d] = q2  BY <1>1, <1>2, <1>13, <1>15
  <2>2. g = CloseInode(h, d)  BY <1>4, <1>6, <1>12, <2>1 DEF CloseInode
  <2> QED BY <1>1, <1>4, <1>19, <1>20, <2>2
<1>24. /\ PagesOK(g, {}) /\ NodesOK(Content(g)) /\ Keeps(h, g) /\ RefsOK(g)
       /\ \A n \in Nid : IsInode(Content(g)[n]) <=> IsInode(c2[n]) /\ n # d
       /\ \A n \in Nid \ {d} : IsInode(c2[n]) => Same(c2, Content(g), n)
       /\ \A n \in Cached(h) \ {d} : IsInode(c2[n]) => n \in Cached(g)
  <2>1. /\ PagesOK(h, {}) /\ c2 = Content(h) /\ NodesOK(c2) /\ RefsOK(h) /\ d \in Cached(h) /\ IsInode(c2[d])
        /\ d \notin Refs(h) /\ c2[d].nlink = 0 /\ Removable(c2, d) /\ g = CloseInode(h, d)
    BY <1>17, <1>19, <1>20, <1>21, <1>22, <1>23
  <2>2. PICK P : P = {}  OBVIOUS
  <2>3. PagesOK(h, P)  BY <2>1, <2>2
  <2> QED BY <2>1, <2>2, <2>3, CloseGone
<1>25. Keeps(f, g)  BY <1>15, <1>19, <1>24 DEF Keeps
<1>26. \A n \in Nid \ {d} : IsInode(c[n]) => Same(c, Content(g), n)  BY <1>20, <1>24, SameTrans
<1>27. \A n \in Cached(f) \ {d} : IsInode(c[n]) => n \in Cached(g)
  BY <1>19, <1>20, <1>24 DEF Cached
<1> QED BY <1>20, <1>24, <1>25, <1>26, <1>27

\* A file system with its reference, and a table on the disk with its own.
Mounted(f, r) ==
    /\ PagesOK(f, {}) /\ ~f.failed /\ Refs(f) = {Root} \cup f.open /\ f.open = OpenFids(r)
    /\ TreeOK(Content(f), r, {})
    /\ \A p \in DOMAIN r : r[p].open => r[p].type = "file"
Disk(c, r) == \E X \in SUBSET Nid : TreeOK(c, r, X)

\* The same within an operation: the inodes X have no name.
Sound(f, r, X) == PagesOK(f, {}) /\ RefsOK(f) /\ Root \in Refs(f) /\ TreeOK(Content(f), r, X)

\* Between operations the file system is as it must be within one.
LEMMA MountedSound ==
  ASSUME NEW f, NEW r, Mounted(f, r)
  PROVE  /\ Sound(f, r, {}) /\ NodesOK(Content(f)) /\ Root \in Cached(f) /\ RefOK(r)
         /\ \A p \in DOMAIN r : r[p].fid \in Refs(f) <=> r[p].open
<1>1. PagesOK(f, {}) /\ TreeOK(Content(f), r, {}) /\ Refs(f) = {Root} \cup OpenFids(r)
  BY DEF Mounted
<1>2. /\ Root \in Nid /\ IsInode(Content(f)[Root])
      /\ \A p \in DOMAIN r : r[p].fid \in Nid /\ IsInode(Content(f)[r[p].fid]) /\ r[p].fid # Root
  BY <1>1, TreeFids
<1>3. RefsOK(f)  BY <1>1, <1>2 DEF RefsOK, OpenFids
<1>4. \A p \in DOMAIN r : r[p].fid \in Refs(f) <=> r[p].open
  <2>1. \A p, q \in DOMAIN r : r[p].fid = r[q].fid => p = q  BY <1>1 DEF TreeOK, RefOK
  <2> QED BY <1>1, <1>2, <2>1 DEF OpenFids
<1> QED BY <1>1, <1>2, <1>3, <1>4 DEF Sound, TreeOK, Refs, Cached

\* The directory of an operation is closed at its end.
LEMMA CloseDir ==
  ASSUME NEW f, NEW r, NEW X, Sound(f, r, X), NEW z \in DirPaths(r), NEW d, d = FidAt(r, z), d \in Cached(f),
         NEW g, g = CloseInode(f, d)
  PROVE  /\ Sound(g, r, X) /\ Content(g) = Content(f) /\ Keeps(f, g)
         /\ \A n \in Cached(f) \ {d} : IsInode(Content(f)[n]) => n \in Cached(g)
<1>1. PagesOK(f, {}) /\ RefsOK(f) /\ Root \in Refs(f) /\ TreeOK(Content(f), r, X) /\ NodesOK(Content(f))
  BY DEF Sound, TreeOK
<1>2. d \in Nid /\ IsInode(Content(f)[d]) /\ (z # <<>> => z \in DOMAIN r)
  BY <1>1, TreeFids DEF IsDir
<1>3. d \in Refs(f) \/ Content(f)[d].nlink = 1
  <2>1. CASE z = <<>>
    BY <1>1, <2>1 DEF FidAt
  <2>2. CASE z # <<>>
    <3>1. NodeIs(Content(f), r[z]) /\ d = r[z].fid  BY <1>1, <1>2, <2>2 DEF TreeOK, FidAt
    <3> QED BY <3>1 DEF NodeIs
  <2> QED BY <2>1, <2>2
<1>4. PICK c, P : c = Content(f) /\ P = {}  OBVIOUS
<1>5. /\ PagesOK(g, P) /\ Content(g) = c /\ Keeps(f, g) /\ g.free = f.free /\ RefsOK(g)
      /\ \A n \in Cached(f) \ {d} : IsInode(c[n]) => n \in Cached(g)
  <2>1. PagesOK(f, P) /\ NodesOK(c) /\ RefsOK(f) /\ IsInode(c[d]) /\ (d \in Refs(f) \/ c[d].nlink = 1)
    BY <1>1, <1>2, <1>3, <1>4
  <2> QED BY <1>4, <2>1, CloseKept
<1> QED BY <1>1, <1>4, <1>5 DEF Sound, Keeps

\* A directory without names has no index node.
LEMMA DirEmpty ==
  ASSUME NEW c, NodesOK(c), NEW k \in Nid, IsInode(c[k]), DirNodeOK(c, k),
         \A m \in Names : FindFile(DirFile(c, k), m) = None
  PROVE  \A i \in Idx : c[k].index[i] = None
<1>1. PICK e : e = DirFile(c, k)  OBVIOUS
<1>2. /\ DirOK(e) /\ \A i \in Idx \ {0} : c[k].index[i] = None
      /\ c[k].index[0] # None => \E b \in BlkNr : BlockAt(c, k, b) # None
  BY <1>1, DirNodeIs
<1>3. ASSUME NEW b \in BlkNr, BlockAt(c, k, b) # None PROVE FALSE
  <2>1. e.blk[b] # None
    <3>1. e.blk = [x \in BlkNr |-> BlockAt(c, k, x)]  BY <1>1, DirFileIs, Zenon
    <3> QED BY <1>3, <3>1
  <2>2. PICK s \in Slot : e.blk[b].dentries[s] # None  BY <1>2, <2>1 DEF DirOK
  <2>3. Has(e, b, s)  BY <2>1, <2>2 DEF Has
  <2>4. NameAt(e, b, s) \in Names  BY <1>2, <2>3, EntryTyped
  <2>5. FindFile(e, NameAt(e, b, s)) # None  BY <1>2, <2>3, <2>4, FindFileIs
  <2> QED BY <1>1, <2>4, <2>5
<1> QED BY <1>2, <1>3

\* A directory without names below it is empty.
LEMMA EmptyDirOf ==
  ASSUME NEW c, NEW r, NEW X, TreeOK(c, r, X), NEW p \in DOMAIN r, r[p].type = "dir", NoChild(r, p),
         NEW k, k = r[p].fid
  PROVE  \A i \in Idx : c[k].index[i] = None
<1>1. RefOK(r) /\ NodesOK(c) /\ k \in Nid /\ IsInode(c[k]) /\ r[p] \in RefFile /\ FidAt(r, p) = k /\ p \in Paths
  BY TreeFids DEF TreeOK
<1>2. p \in DirPaths(r)  BY <1>1 DEF DirPaths
<1>3. DirIs(c, r, p)  BY <1>2 DEF TreeOK
<1>4. ASSUME NEW m \in Names PROVE FidOrNone(r, Append(p, m)) = None
  <2>1. SUFFICES ASSUME Append(p, m) \in DOMAIN r PROVE FALSE
    BY DEF FidOrNone
  <2>2. Append(p, m) \in Paths  BY <1>1, <2>1 DEF RefOK
  <2>3. PICK a \in Names : a = p[1]  BY <1>1, PathIs
  <2>4. CASE Len(p) = 1
    <3>1. p = <<a>>  BY <1>1, <2>3, <2>4, PathIs
    <3>2. Append(p, m) = <<a, m>>  BY <3>1, AppendIs
    <3>3. Len(<<a, m>>) = 2 /\ <<a, m>>[1] = a  BY PathNames
    <3> QED BY <2>1, <3>1, <3>2, <3>3 DEF NoChild
  <2>5. CASE Len(p) = 2
    <3>1. PICK b \in Names : b = p[2]  BY <1>1, <2>5, PathIs
    <3>2. p = <<a, b>>  BY <1>1, <2>3, <2>5, <3>1, PathIs
    <3>3. p \in Names \X Names  BY <3>2
    <3> QED BY <2>2, <3>3, AppendIs
  <2> QED BY <1>1, <2>4, <2>5, PathIs
<1>5. DirNodeOK(c, k) /\ \A m \in Names : FindFile(DirFile(c, k), m) = None
  BY <1>1, <1>3, <1>4 DEF DirIs
<1> QED BY <1>1, <1>5, DirEmpty

\* What is removed is a file, or a directory without names.
LEMMA EmptyOf ==
  ASSUME NEW c, NEW r, NEW X, TreeOK(c, r, X), NEW p \in DOMAIN r, NoChild(r, p), NEW k, k = r[p].fid
  PROVE  (\E s \in 0 .. MaxFile : FileOK(c, k, s)) \/ (\A i \in Idx : c[k].index[i] = None)
<1>1. RefOK(r) /\ NodesOK(c) /\ k \in Nid /\ IsInode(c[k]) /\ r[p] \in RefFile /\ FidAt(r, p) = k /\ p \in Paths
  BY TreeFids DEF TreeOK
<1>2. CASE r[p].type = "file"
  <2>1. NodeIs(c, r[p])  BY DEF TreeOK
  <2>2. r[p].size \in 0 .. MaxFile  BY <1>1 DEF RefFile
  <2> QED BY <1>2, <2>1, <2>2 DEF NodeIs
<1>3. CASE r[p].type # "file"
  <2>1. r[p].type = "dir"  BY <1>1, <1>3 DEF RefFile
  <2> QED BY <2>1, EmptyDirOf
<1> QED BY <1>2, <1>3

\* FileDelete, and DirDelete of an empty directory, up to the closing of the file.
LEMMA Unlinked ==
  ASSUME NEW f, NEW r, Mounted(f, r), NEW p \in DOMAIN r, ~r[p].open, NoChild(r, p),
         NEW d, d = FidAt(r, Up(p)), NEW k, k = r[p].fid, NEW r2, r2 = RefLess(r, p),
         NEW w, w = Walk(f, p), NEW x, x = ReadNode(w, k), NEW h, h = unlink(x, d, p[Len(p)], k)
  PROVE  /\ Sound(h, r2, {k}) /\ k # d /\ d \in Cached(h) /\ k \in Cached(h) /\ h.open = f.open
         /\ h.failed = f.failed /\ Refs(h) = Refs(f) /\ h.saved = Content(h)
         /\ Content(h)[k] = Content(f)[k] /\ Same(Content(f), Content(h), k)
<1>1. PICK c, P, n : c = Content(f) /\ P = {} /\ n = p[Len(p)]  OBVIOUS
<1>2. /\ PagesOK(f, P) /\ TreeOK(c, r, P) /\ RefsOK(f) /\ Root \in Refs(f) /\ NodesOK(c) /\ RefOK(r)
      /\ Up(p) \in DirPaths(r) /\ p \in Paths
  BY <1>1, MountedSound, UpOf DEF Sound
<1>3. d \in Nid /\ IsInode(c[d]) /\ k \in Nid /\ IsInode(c[k]) /\ k # None /\ DirIs(c, r, Up(p)) /\ n \in Names
  <2>1. d \in Nid /\ IsInode(c[d]) /\ k \in Nid /\ IsInode(c[k]) /\ k # None
    BY <1>2, TreeFids DEF IsDir
  <2>2. DirIs(c, r, Up(p))  BY <1>2 DEF TreeOK
  <2> QED BY <1>1, <1>2, <2>1, <2>2, PathIs
<1>4. Reads(f, w, P) /\ d \in Cached(w)  BY <1>1, <1>2, WalkIs
<1>5. Content(w) = c /\ PagesOK(w, P)  BY <1>1, <1>4 DEF Reads
<1>6. c[k] \in Node  BY <1>2, <1>3, KindOf
<1>7. Reads(w, x, P) /\ k \in Cached(x)  BY <1>3, <1>5, <1>6, ReadNodeReads
<1>8. Reads(f, x, P) /\ d \in Cached(x)  BY <1>4, <1>7, ReadsTrans DEF Reads
<1>9. PagesOK(x, P) /\ Content(x) = c /\ x.open = f.open /\ x.failed = f.failed /\ Refs(x) = Refs(f)
  BY <1>1, <1>8 DEF Reads, Keeps
<1>10. RefsOK(x)  BY <1>1, <1>2, <1>9 DEF RefsOK
<1>11. DirNodeOK(c, d) /\ FindFile(DirFile(c, d), n) = k
  <2>1. FidOrNone(r, Append(Up(p), n)) = k  BY <1>1, <1>2, UpIs DEF FidOrNone
  <2> QED BY <1>3, <2>1 DEF DirIs
<1>12. /\ DirStep(x, h, {}, d) /\ h.saved = Content(h)
       /\ FindFile(DirFile(Content(h), d), n) = None
       /\ \A m \in Names \ {n} : FindFile(DirFile(Content(h), d), m) = FindFile(DirFile(c, d), m)
  <2>1. PagesOK(x, {}) /\ c = Content(x) /\ h = unlink(x, d, n, k)  BY <1>1, <1>9
  <2> QED BY <1>2, <1>3, <1>8, <1>10, <1>11, <2>1, UnlinkedIs
<1>13. PICK c2, Y : c2 = Content(h) /\ Y = P \cup {k}  OBVIOUS
<1>14. /\ PagesOK(h, {}) /\ h.open = f.open /\ h.failed = f.failed /\ Refs(h) = Refs(f)
       /\ \A i \in Cached(x) : IsInode(c[i]) => i \in Cached(h)
       /\ Local(c, c2, d) /\ DirNodeOK(c2, d)
  BY <1>9, <1>12, <1>13 DEF DirStep
<1>15. TreeOK(c2, r2, Y) /\ k # d
  <2>1. FindFile(DirFile(c2, d), n) = None /\ \A m \in Names \ {n} : FindFile(DirFile(c2, d), m) = FindFile(DirFile(c, d), m)
    BY <1>12, <1>13
  <2> QED BY <1>1, <1>2, <1>13, <1>14, <2>1, TreeUnlinked
<1>16. Same(c, c2, k) /\ c2[k] = c[k]  BY <1>3, <1>14, <1>15 DEF Local, Same
<1>17. d \in Cached(h) /\ k \in Cached(h)  BY <1>3, <1>7, <1>8, <1>14
<1>18. RefsOK(h)
  <2>1. \A i \in Refs(f) : i \in Nid /\ IsInode(c[i])  BY <1>1, <1>2 DEF RefsOK, Refs
  <2> QED BY <1>13, <1>14, <2>1 DEF RefsOK, Local
<1>19. Y = {k}  BY <1>1, <1>13
<1> QED BY <1>1, <1>2, <1>12, <1>13, <1>14, <1>15, <1>16, <1>17, <1>18, <1>19 DEF Sound

\* The last step of an operation: it leaves the reference r.
LEMMA MountedAgain ==
  ASSUME NEW f, NEW r, Sound(f, r, {}), ~f.failed, Refs(f) = {Root} \cup f.open, f.open = OpenFids(r),
         \A p \in DOMAIN r : r[p].open => r[p].type = "file"
  PROVE  Mounted(f, r)
BY DEF Sound, Mounted

\* FileDelete; the disk still has the inode of the file, without a name.
LEMMA DeleteIs ==
  ASSUME NEW f, NEW r, Mounted(f, r), NEW p \in DOMAIN r, ~r[p].open, NoChild(r, p),
         NEW r2, r2 = RefLess(r, p), NEW g, g = Delete(f, p)
  PROVE  Mounted(g, r2) /\ Disk(g.saved, r2)
<1>1. PICK c, d, k, w, x, h :
         /\ c = Content(f) /\ d = FidAt(r, Up(p)) /\ k = r[p].fid /\ w = Walk(f, p) /\ x = ReadNode(w, k)
         /\ h = unlink(x, d, p[Len(p)], k)
  OBVIOUS
<1>2. /\ PagesOK(f, {}) /\ TreeOK(c, r, {}) /\ RefOK(r) /\ NodesOK(c) /\ Up(p) \in DirPaths(r) /\ p \in Paths
      /\ (k \in Refs(f) <=> r[p].open)
  BY <1>1, MountedSound, UpOf DEF Sound
<1>3. Content(w) = c
  <2>1. PICK P : P = {}  OBVIOUS
  <2>2. PagesOK(f, P) /\ TreeOK(c, r, P)  BY <1>2, <2>1
  <2>3. Reads(f, w, P)  BY <1>1, <1>2, <2>2, WalkIs
  <2> QED BY <1>1, <2>3 DEF Reads
<1>4. Parent(c, p) = d /\ Lookup(c, p) = k
  <2>1. Lookup(c, p) = FidOrNone(r, p)  BY <1>2, LookupIs
  <2> QED BY <1>1, <1>2, <2>1, ParentIs DEF FidOrNone
<1>5. PICK e, m : e = LosesName(h, k) /\ m = CloseInode(e, k)  OBVIOUS
<1>6. g = CloseInode(m, d)  BY <1>1, <1>3, <1>4, <1>5, Zenon DEF Delete, LosesName
<1>7. /\ Sound(h, r2, {k}) /\ k # d /\ d \in Cached(h) /\ k \in Cached(h) /\ h.open = f.open
      /\ h.failed = f.failed /\ Refs(h) = Refs(f) /\ h.saved = Content(h)
      /\ Content(h)[k] = c[k] /\ Same(c, Content(h), k)
  <2>1. /\ Mounted(f, r) /\ ~r[p].open /\ NoChild(r, p) /\ d = FidAt(r, Up(p)) /\ k = r[p].fid /\ r2 = RefLess(r, p)
        /\ w = Walk(f, p) /\ x = ReadNode(w, k) /\ h = unlink(x, d, p[Len(p)], k)
    BY <1>1
  <2>2. /\ Sound(h, r2, {k}) /\ k # d /\ d \in Cached(h) /\ k \in Cached(h) /\ h.open = f.open
        /\ h.failed = f.failed /\ Refs(h) = Refs(f) /\ h.saved = Content(h)
        /\ Content(h)[k] = Content(f)[k] /\ Same(Content(f), Content(h), k)
    BY ONLY <2>1, p \in DOMAIN r, Unlinked
  <2> QED BY <1>1, <2>2
<1>8. PICK c2 : c2 = Content(h)  OBVIOUS
<1>9. PagesOK(h, {}) /\ NodesOK(c2) /\ RefsOK(h) /\ TreeOK(c2, r2, {k}) /\ Root \in Refs(h)
  BY <1>7, <1>8 DEF Sound, TreeOK
<1>10. k \in Nid /\ IsInode(c[k]) /\ c[k].nlink = 1
  <2>1. k \in Nid /\ IsInode(c[k]) /\ NodeIs(c, r[p])  BY <1>1, <1>2, TreeFids DEF TreeOK
  <2> QED BY <1>1, <2>1 DEF NodeIs
<1>11. (\E s \in 0 .. MaxFile : FileOK(c2, k, s)) \/ (\A i \in Idx : c2[k].index[i] = None)
  <2>1. (\E s \in 0 .. MaxFile : FileOK(c, k, s)) \/ (\A i \in Idx : c[k].index[i] = None)
    BY <1>1, <1>2, EmptyOf
  <2>2. Same(c, c2, k)  BY <1>7, <1>8
  <2>3. \A s : FileOK(c, k, s) => FileOK(c2, k, s)  BY <1>2, <1>10, <2>2, SameFile
  <2> QED BY <1>7, <1>8, <2>1, <2>3
<1>12. /\ PagesOK(m, {}) /\ NodesOK(Content(m)) /\ Keeps(h, m) /\ RefsOK(m)
       /\ \A n \in Nid : IsInode(Content(m)[n]) <=> IsInode(c2[n]) /\ n # k
       /\ \A n \in Nid \ {k} : IsInode(c2[n]) => Same(c2, Content(m), n)
       /\ \A n \in Cached(h) \ {k} : IsInode(c2[n]) => n \in Cached(m)
  <2>1. IsInode(c2[k]) /\ k \notin Refs(h) /\ c2[k].nlink = 1 /\ k \in Cached(h)
    BY <1>2, <1>7, <1>8, <1>10
  <2> QED BY <1>5, <1>8, <1>9, <1>11, <2>1, CloseUnnamed
<1>13. PICK c3, X : c3 = Content(m) /\ X = {k}  OBVIOUS
<1>14. TreeOK(c3, r2, {})
  <2>1. TreeOK(c2, r2, X) /\ k \in X /\ NodesOK(c3)
        /\ (\A n \in Nid : IsInode(c3[n]) <=> IsInode(c2[n]) /\ n # k)
        /\ (\A n \in Nid \ {k} : IsInode(c2[n]) => Same(c2, c3, n))
    BY <1>9, <1>12, <1>13
  <2>2. TreeOK(c3, r2, X \ {k})  BY <2>1, TreeRemoved
  <2> QED BY <1>13, <2>2
<1>15. Sound(m, r2, {}) /\ m.open = f.open /\ m.failed = f.failed /\ m.saved = c2 /\ Refs(m) = Refs(f)
  BY <1>7, <1>8, <1>9, <1>12, <1>13, <1>14 DEF Sound, Keeps
<1>16. RefLoses(r, r2, p)  BY <1>2, RefLessIs
<1>17. Up(p) \in DirPaths(r2) /\ FidAt(r2, Up(p)) = d
  <2>1. Up(p) # p
    <3>1. Up(p) \in DOMAIN r \cup {<<>>}  BY <1>2, TreeFids
    <3>2. p # <<>>  BY <1>2, PathIs
    <3>3. FidAt(r, p) = k  BY <1>1, <3>2 DEF FidAt
    <3> QED BY <1>1, <1>7, <3>3
  <2> QED BY <1>1, <1>2, <1>16, <2>1 DEF RefLoses
<1>18. d \in Cached(m)
  <2>1. IsInode(c2[d])  BY <1>9, <1>17, TreeFids DEF IsDir
  <2> QED BY <1>7, <1>12, <2>1
<1>19. Sound(g, r2, {}) /\ Keeps(m, g)
  <2>1. PICK z : z = Up(p)  OBVIOUS
  <2>2. z \in DirPaths(r2) /\ d = FidAt(r2, z)  BY <1>17, <2>1
  <2>3. PICK E : E = {}  OBVIOUS
  <2>4. Sound(m, r2, E)  BY <1>15, <2>3
  <2> QED BY <1>6, <1>18, <2>2, <2>3, <2>4, CloseDir
<1>20. g.open = f.open /\ g.failed = f.failed /\ g.saved = c2 /\ Refs(g) = Refs(f)
  BY <1>15, <1>19 DEF Keeps
<1>21. /\ ~f.failed /\ Refs(f) = {Root} \cup f.open /\ f.open = OpenFids(r)
       /\ \A z \in DOMAIN r : r[z].open => r[z].type = "file"
  BY DEF Mounted
<1>22. OpenFids(r2) = OpenFids(r)  BY <1>16 DEF RefLoses, OpenFids
<1>23. \A z \in DOMAIN r2 : r2[z].open => r2[z].type = "file"  BY <1>16, <1>21 DEF RefLoses
<1>24. Mounted(g, r2)  BY <1>19, <1>20, <1>21, <1>22, <1>23, MountedAgain
<1>25. Disk(g.saved, r2)  BY <1>9, <1>10, <1>20 DEF Disk
<1> QED BY <1>24, <1>25

\* Reading keeps the file system what it is.
LEMMA MountedReads ==
  ASSUME NEW f, NEW r, Mounted(f, r), NEW g, Reads(f, g, {})
  PROVE  Mounted(g, r) /\ g.saved = f.saved
BY DEF Mounted, Reads, Keeps

\* GetChildNumber of a directory without blocks.
LEMMA NoChildren ==
  ASSUME NEW c, NEW k, \A i \in Idx : c[k].index[i] = None
  PROVE  GetChildNumber(DirFile(c, k)) = 0
<1>1. \A b \in BlkNr : DirFile(c, k).blk[b] = None
  <2>1. ASSUME NEW b \in BlkNr PROVE BlockAt(c, k, b) = None
    <3>1. b \div IndexSize \in Idx  BY BlkNrOff, FirstIndex, Ranges
    <3> QED BY <3>1 DEF BlockAt
  <2>2. PICK B : B = DirFile(c, k).blk  OBVIOUS
  <2>3. B = [b \in BlkNr |-> BlockAt(c, k, b)]  BY <2>2, DirFileIs, Zenon
  <2> QED BY <2>1, <2>2, <2>3
<1>2. {b \in BlkNr \X Slot : /\ b[1] < DirFile(c, k).size /\ DirFile(c, k).blk[b[1]] # None
                             /\ DirFile(c, k).blk[b[1]].dentries[b[2]] # None} = {}
  BY <1>1
<1> QED BY <1>2, FS_EmptySet DEF GetChildNumber

\* DirDelete of a directory without names always deletes it.
LEMMA DirDeleteIs ==
  ASSUME NEW f, NEW r, Mounted(f, r), NEW p \in DOMAIN r, ~r[p].open, r[p].type = "dir", NoChild(r, p),
         NEW r2, r2 = RefLess(r, p), NEW x, x = DirDelete(f, p)
  PROVE  x.ok = TRUE /\ Mounted(x.fs, r2) /\ Disk(x.fs.saved, r2)
<1>1. PICK c, k, w, h, P :
         c = Content(f) /\ k = r[p].fid /\ w = Walk(f, p) /\ h = ReadDir(w, k) /\ P = {}
  OBVIOUS
<1>2. /\ PagesOK(f, P) /\ TreeOK(c, r, P) /\ RefOK(r) /\ NodesOK(c) /\ Up(p) \in DirPaths(r) /\ p \in Paths
  BY <1>1, MountedSound, UpOf DEF Sound
<1>3. Reads(f, w, P)  BY <1>1, <1>2, WalkIs
<1>4. PagesOK(w, P) /\ c = Content(w)  BY <1>1, <1>3 DEF Reads
<1>5. k \in Nid /\ IsInode(c[k])  BY <1>1, <1>2, TreeFids
<1>6. Reads(w, h, P)  BY <1>1, <1>2, <1>4, <1>5, ReadDirIs
<1>7. Reads(f, h, {}) /\ Content(h) = c  BY <1>1, <1>3, <1>6, ReadsTrans DEF Reads
<1>8. Mounted(h, r)  BY <1>7, MountedReads
<1>9. Lookup(c, p) = k  BY <1>1, <1>2, LookupIs DEF FidOrNone
<1>10. GetChildNumber(DirFile(c, k)) = 0
  <2>1. \A i \in Idx : c[k].index[i] = None  BY <1>1, <1>2, EmptyDirOf
  <2> QED BY <2>1, NoChildren
<1>11. x = [fs |-> Delete(h, p), ok |-> TRUE]  BY <1>1, <1>4, <1>7, <1>9, <1>10 DEF DirDelete
<1>12. x.ok = TRUE /\ x.fs = Delete(h, p)  BY <1>11
<1>13. PICK g : g = x.fs  OBVIOUS
<1>14. Mounted(g, r2) /\ Disk(g.saved, r2)  BY <1>8, <1>12, <1>13, DeleteIs
<1> QED BY <1>12, <1>13, <1>14

-------------------------------------------------------------------------------
(* Creating. *)

\* Within the creation of a file: node k is taken, and nothing is there yet.
Taking(f, r, k) ==
    /\ PagesOK(f, {k}) /\ RefsOK(f) /\ Root \in Refs(f) /\ TreeOK(Content(f), r, {})
    /\ k \in Nid /\ Content(f)[k] = InUse

\* get_node
LEMMA Taken ==
  ASSUME NEW f, NEW r, Mounted(f, r), f.free # 0, NEW k, k = NextFree(f), NEW t, t = TakeNode(f)
  PROVE  Taking(t, r, k) /\ Keeps(f, t) /\ Cached(t) = Cached(f)
<1>1. PICK c, c2, P : c = Content(f) /\ c2 = Put(c, k, InUse) /\ P = {}  OBVIOUS
<1>2. PagesOK(f, P) /\ RefsOK(f) /\ Root \in Refs(f) /\ TreeOK(c, r, P) /\ NodesOK(c)
  BY <1>1, MountedSound DEF Sound
<1>3. /\ k \in Nid /\ c[k] = None
      /\ PagesOK(t, P \cup {k}) /\ Content(t) = [c EXCEPT ![k] = InUse]
      /\ Cached(t) = Cached(f) /\ Keeps(f, t)
  BY <1>1, <1>2, TakeNodeIs
<1>4. Content(t) = c2 /\ PagesOK(t, {k})
  <2>1. P \cup {k} = {k}  BY <1>1
  <2> QED BY <1>1, <1>3, <2>1 DEF Put
<1>5. /\ NodesOK(c2) /\ \A m \in Nid : IsInode(c2[m]) <=> IsInode(c[m])
      /\ \A m \in Nid : IsInode(c[m]) => Same(c, c2, m)
  BY <1>1, <1>2, <1>3, MarkedIs
<1>6. TreeOK(c2, r, P)  BY <1>2, <1>5, TreeSame
<1>7. c2[k] = InUse  BY <1>1, <1>2, <1>3 DEF Put, NodesOK
<1>8. RefsOK(t) /\ Root \in Refs(t)  BY <1>1, <1>2, <1>3, <1>4, <1>5 DEF RefsOK, Keeps, Refs
<1> QED BY <1>1, <1>3, <1>4, <1>6, <1>7, <1>8 DEF Taking

\* The name is refused: the node is put back.
LEMMA Untaken ==
  ASSUME NEW f, NEW r, NEW k, Taking(f, r, k), NEW z \in DirPaths(r), NEW d, d = FidAt(r, z), d \in Cached(f),
         NEW h, h = CloseInode(f, d), NEW g, g = PutNode(h, k)
  PROVE  Sound(g, r, {}) /\ Keeps(f, g)
<1>1. PICK c, P : c = Content(f) /\ P = {k}  OBVIOUS
<1>2. /\ PagesOK(f, P) /\ RefsOK(f) /\ Root \in Refs(f) /\ TreeOK(c, r, {}) /\ NodesOK(c)
      /\ k \in Nid /\ c[k] = InUse
  BY <1>1 DEF Taking, TreeOK
<1>3. d \in Nid /\ IsInode(c[d]) /\ (z # <<>> => z \in DOMAIN r)  BY <1>2, TreeFids DEF IsDir
<1>4. d \in Refs(f) \/ c[d].nlink = 1
  <2>1. CASE z = <<>>
    BY <1>2, <2>1 DEF FidAt
  <2>2. CASE z # <<>>
    <3>1. NodeIs(c, r[z]) /\ d = r[z].fid  BY <1>2, <1>3, <2>2 DEF TreeOK, FidAt
    <3> QED BY <3>1 DEF NodeIs
  <2> QED BY <2>1, <2>2
<1>5. PagesOK(h, P) /\ Content(h) = c /\ Keeps(f, h) /\ RefsOK(h)
  BY <1>1, <1>2, <1>3, <1>4, CloseKept
<1>6. PICK c2 : c2 = Put(c, k, None)  OBVIOUS
<1>7. /\ PagesOK(g, P \ {k}) /\ Content(g) = [c EXCEPT ![k] = None] /\ Refs(g) = Refs(h) \ {k}
      /\ g.open = h.open /\ g.saved = h.saved /\ g.failed = h.failed
  <2>1. c[k] # None  BY <1>2, Marks
  <2> QED BY <1>2, <1>5, <2>1, PutNodeIs
<1>8. Content(g) = c2 /\ PagesOK(g, {})
  <2>1. P \ {k} = {}  BY <1>1
  <2> QED BY <1>6, <1>7, <2>1 DEF Put
<1>9. /\ NodesOK(c2) /\ \A m \in Nid : IsInode(c2[m]) <=> IsInode(c[m])
      /\ \A m \in Nid : IsInode(c[m]) => Same(c, c2, m)
  BY <1>2, <1>6, MarkedIs
<1>10. TreeOK(c2, r, {})
  <2>1. PICK X : X = {}  OBVIOUS
  <2>2. TreeOK(c, r, X)  BY <1>2, <2>1
  <2>3. TreeOK(c2, r, X)  BY <1>9, <2>2, TreeSame
  <2> QED BY <2>1, <2>3
<1>11. Refs(h) = Refs(f) /\ k \notin Refs(f)
  <2>1. ~IsInode(c[k])  BY <1>2 DEF IsInode
  <2> QED BY <1>1, <1>2, <1>5, <2>1 DEF RefsOK, Keeps
<1>12. Refs(g) = Refs(f) /\ RefsOK(g)
  <2>1. \A n \in Refs(f) : n \in Nid /\ IsInode(c[n])  BY <1>1, <1>2 DEF RefsOK, Refs
  <2> QED BY <1>7, <1>8, <1>9, <1>11, <2>1 DEF RefsOK
<1> QED BY <1>2, <1>5, <1>7, <1>8, <1>10, <1>12 DEF Sound, Keeps

\* The new file of a path.
RefNew(type, k) == [type |-> type, size |-> 0, fid |-> k, open |-> type = "file"]
InodeNew(type) == [NewInode(type) EXCEPT !.nlink = 1]

\* The inode of a new file has a name and no blocks.
LEMMA InodeNewIs ==
  ASSUME NEW type \in {"dir", "file"}, NEW y, y = InodeNew(type)
  PROVE  NewFile(y) /\ y.type = type /\ y \in Inode /\ y \in Node
<1>1. 0 \in 0 .. IndexSize * IndexTable  BY Ranges
<1>2. y = [type |-> type, size |-> 0, blks |-> 0, nlink |-> 1, index |-> [i \in Idx |-> None]]
  BY DEF InodeNew, NewInode
<1>3. [i \in Idx |-> None] \in [Idx -> Nid \cup {None}]  OBVIOUS
<1>4. y \in Inode  BY <1>1, <1>2, <1>3 DEF Inode
<1> QED BY <1>2, <1>4, InodeIs DEF NewFile

\* What the reference says of a new file.
LEMMA RefNewIs ==
  ASSUME NEW type \in {"dir", "file"}, NEW k \in Nid, NEW x, x = RefNew(type, k)
  PROVE  x \in RefFile /\ x.fid = k /\ x.size = 0 /\ x.type = type /\ (x.open <=> type = "file")
<1>1. 0 \in 0 .. MaxFile /\ (type = "file") \in BOOLEAN  BY FileAssumption
<1> QED BY <1>1 DEF RefNew, RefFile

\* What add_link of a new file leaves: the name may be refused.
LinkEnds(t, l, ok, r, p, d, k) ==
    /\ ok \in BOOLEAN /\ Keeps(t, l) /\ d \in Cached(l) /\ PagesOK(l, {k}) /\ RefsOK(l)
    /\ Content(l)[k] = InUse
    /\ ~ok => Taking(l, r, k)
    /\ ok => \A type \in {"dir", "file"} :
         TreeOK(Put(Content(l), k, InodeNew(type)), RefWith(r, p, RefNew(type, k)), {})

\* add_link of a new file.
LEMMA LinkTaken ==
  ASSUME NEW t, NEW r, NEW k, Taking(t, r, k), NEW p \in Paths, p \notin DOMAIN r, Up(p) \in DirPaths(r),
         NEW d, d = FidAt(r, Up(p)), d \in Cached(t), NEW no \in {None, "estimate"},
         NEW x, x = add_link(t, d, p[Len(p)], k, no), NEW l, l = x.fs
  PROVE  LinkEnds(t, l, x.ok, r, p, d, k)
<1>1. PICK c, P, n, X, c2 : c = Content(t) /\ P = {k} /\ n = p[Len(p)] /\ X = {} /\ c2 = Content(l)
  OBVIOUS
<1>2. /\ PagesOK(t, P) /\ RefsOK(t) /\ Root \in Refs(t) /\ TreeOK(c, r, X) /\ NodesOK(c) /\ RefOK(r)
      /\ k \in Nid /\ c[k] = InUse
  BY <1>1 DEF Taking, TreeOK
<1>3. d \in Nid /\ IsInode(c[d]) /\ n \in Names  BY <1>1, <1>2, TreeFids, PathIs DEF IsDir
<1>4. DirNodeOK(c, d) /\ FindFile(DirFile(c, d), n) = None
  <2>1. DirIs(c, r, Up(p))  BY <1>2 DEF TreeOK
  <2>2. FidOrNone(r, Append(Up(p), n)) = None  BY <1>1, UpIs DEF FidOrNone
  <2> QED BY <1>3, <2>1, <2>2 DEF DirIs
<1>5. /\ DirStep(t, l, P, d) /\ l.saved = t.saved /\ x.ok \in BOOLEAN
      /\ FindFile(DirFile(Content(l), d), n) = (IF x.ok THEN k ELSE None)
      /\ \A m \in Names \ {n} : FindFile(DirFile(Content(l), d), m) = FindFile(DirFile(c, d), m)
  <2>1. /\ PagesOK(t, P) /\ c = Content(t) /\ NodesOK(c) /\ d \in Cached(t) /\ IsInode(c[d]) /\ DirNodeOK(c, d)
        /\ n \in Names /\ k \in Nid /\ FindFile(DirFile(c, d), n) = None /\ no \in {None, "estimate"}
        /\ x = add_link(t, d, n, k, no) /\ l = x.fs
    BY <1>1, <1>2, <1>3, <1>4
  <2> QED BY ONLY <2>1, LinkedIs
<1>6. /\ PagesOK(l, P) /\ l.open = t.open /\ l.failed = t.failed /\ Refs(l) = Refs(t) /\ d \in Cached(l)
      /\ Local(c, c2, d) /\ DirNodeOK(c2, d)
  BY <1>1, <1>3, <1>5 DEF DirStep
<1>7. c2[k] = InUse  BY <1>1, <1>2, <1>6, ContentIs
<1>8. RefsOK(l)
  <2>1. \A i \in Refs(t) : i \in Nid /\ IsInode(c[i])  BY <1>1, <1>2 DEF RefsOK, Refs
  <2> QED BY <1>1, <1>6, <2>1 DEF RefsOK, Local
<1>9. CASE x.ok = FALSE
  <2>1. PICK z : z = Up(p)  OBVIOUS
  <2>2. \A m \in Names : FindFile(DirFile(c2, d), m) = FindFile(DirFile(c, d), m)
    BY <1>1, <1>4, <1>5, <1>9
  <2>3. z \in DirPaths(r) /\ d = FidAt(r, z)  BY <2>1
  <2>4. TreeOK(c2, r, X)  BY <1>2, <1>6, <2>2, <2>3, TreeDir
  <2>5. Taking(l, r, k)  BY <1>1, <1>2, <1>6, <1>7, <1>8, <2>4 DEF Taking
  <2> QED BY <1>1, <1>5, <1>6, <1>7, <1>8, <1>9, <2>5 DEF Keeps, LinkEnds
<1>10. CASE x.ok = TRUE
  <2>1. ASSUME NEW type \in {"dir", "file"}
        PROVE  TreeOK(Put(c2, k, InodeNew(type)), RefWith(r, p, RefNew(type, k)), X)
    <3>1. PICK y, e, c3, r2 : y = InodeNew(type) /\ e = RefNew(type, k) /\ c3 = Put(c2, k, y) /\ r2 = RefWith(r, p, e)
      OBVIOUS
    <3>2. NewFile(y) /\ y.type = type /\ e \in RefFile /\ e.fid = k /\ e.size = 0 /\ e.type = type
      BY <1>2, <3>1, InodeNewIs, RefNewIs
    <3>3. c[k] \in {None, InUse} /\ c2[k] \in {None, InUse} /\ FindFile(DirFile(c2, d), n) = k
          /\ \A m \in Names \ {n} : FindFile(DirFile(c2, d), m) = FindFile(DirFile(c, d), m)
      BY <1>1, <1>2, <1>5, <1>7, <1>10
    <3>4. TreeOK(c3, r2, X)  BY <1>1, <1>2, <1>6, <3>1, <3>2, <3>3, TreeLinked, SMTT(40)
    <3> QED BY <3>1, <3>4
  <2> QED BY <1>1, <1>5, <1>6, <1>7, <1>8, <1>10, <2>1 DEF Keeps, LinkEnds
<1> QED BY <1>5, <1>9, <1>10

\* What InternalCreatreFile leaves when it succeeds: node k is the new file, referenced, on the disk.
NewAt(f, g, r, p, type, k) ==
    /\ k \in Nid /\ Sound(g, RefWith(r, p, RefNew(type, k)), {}) /\ g.saved = Content(g)
    /\ g.open = f.open /\ g.failed = f.failed /\ Refs(g) = Refs(f) \cup {k} /\ k \in Cached(g)

\* The inode of a new file, and the checkpoint.
LEMMA MadeIs ==
  ASSUME NEW l, NEW r, NEW k \in Nid, PagesOK(l, {k}), RefsOK(l), Root \in Refs(l), Content(l)[k] = InUse,
         NEW p \in Paths, p \notin DOMAIN r, Up(p) \in DirPaths(r), NEW d, d = FidAt(r, Up(p)), d \in Cached(l),
         NEW type \in {"dir", "file"}, NEW y, y = InodeNew(type),
         NEW r2, r2 = RefWith(r, p, RefNew(type, k)), TreeOK(Put(Content(l), k, y), r2, {}),
         d # k, d \in Nid,
         NEW q, q = [page |-> y, dirty |-> FALSE, ref |-> 1],
         NEW m, m = Filled(l, k, y, q), NEW g, g = SyncFs(CloseInode(m, d))
  PROVE  NewAt(l, g, r, p, type, k)
<1>1. y \in Inode /\ y \in Node /\ y \in Node \cup {InUse} /\ y # InUse  BY InodeNewIs, Marks
<1>2. q \in Page /\ q.page = y /\ q.ref = 1 /\ q.dirty = FALSE  BY <1>1 DEF Page
<1>3. PICK P : P = {}  OBVIOUS
<1>4. k \notin P /\ PagesOK(l, P \cup {k}) /\ (q.dirty \/ y = q.page) /\ (y = InUse => q.dirty)
  <2>1. P \cup {k} = {k}  BY <1>3
  <2> QED BY <1>1, <1>2, <1>3, <2>1
<1>5. /\ PagesOK(m, P) /\ Content(m) = [Content(l) EXCEPT ![k] = q.page]
      /\ Cached(m) = Cached(l) \cup {k} /\ m.free = l.free
      /\ Refs(m) = (IF q.ref = 1 THEN Refs(l) \cup {k} ELSE Refs(l))
      /\ m.open = l.open /\ m.saved = l.saved /\ m.failed = l.failed
  <2>1. /\ k \in Nid /\ k \notin P /\ PagesOK(l, P \cup {k}) /\ q \in Page /\ y \in Node \cup {InUse}
        /\ (q.dirty \/ y = q.page) /\ (y = InUse => q.dirty) /\ m = Filled(l, k, y, q)
    BY <1>1, <1>2, <1>4
  <2> QED BY ONLY <2>1, FillIs
<1>6. PICK c : c = Put(Content(l), k, y)  OBVIOUS
<1>7. Content(m) = c /\ Refs(m) = Refs(l) \cup {k} /\ TreeOK(c, r2, {})
  BY <1>2, <1>5, <1>6 DEF Put
<1>8. c[k] = y /\ \A n \in Nid \ {k} : c[n] = Content(l)[n]  BY <1>6 DEF Put, Content
<1>9. RefsOK(m)
  <2>1. IsInode(y)  BY <1>1, Kinds
  <2>2. \A n \in Refs(l) : n \in Nid /\ IsInode(Content(l)[n])  BY DEF RefsOK, Refs
  <2> QED BY <1>7, <1>8, <2>1, <2>2 DEF RefsOK
<1>10. Sound(m, r2, {})  BY <1>3, <1>5, <1>7, <1>9 DEF Sound
<1>11. PICK z, X, h : z = Up(p) /\ X = {} /\ h = CloseInode(m, d)  OBVIOUS
<1>12. z \in DirPaths(r2) /\ d = FidAt(r2, z)
  <2>1. \A e \in DOMAIN r : e # p /\ r2[e] = r[e] /\ e \in DOMAIN r2  BY DEF RefWith
  <2>2. CASE z = <<>>
    BY <1>11, <2>2 DEF DirPaths, FidAt
  <2>3. CASE z # <<>>
    <3>1. z \in DOMAIN r /\ r[z].type = "dir"  BY <1>11, <2>3 DEF DirPaths
    <3> QED BY <1>11, <2>1, <2>3, <3>1 DEF DirPaths, FidAt
  <2> QED BY <2>2, <2>3
<1>13. /\ Sound(h, r2, X) /\ Content(h) = Content(m) /\ Keeps(m, h)
       /\ \A n \in Cached(m) \ {d} : IsInode(Content(m)[n]) => n \in Cached(h)
  <2>1. Sound(m, r2, X) /\ d \in Cached(m) /\ z \in DirPaths(r2) /\ d = FidAt(r2, z) /\ h = CloseInode(m, d)
    BY <1>5, <1>10, <1>11, <1>12
  <2> QED BY ONLY <2>1, CloseDir
<1>14. k \in Cached(h)
  <2>1. IsInode(c[k])  BY <1>1, <1>8, Kinds
  <2> QED BY <1>5, <1>7, <1>13, <2>1
<1>15. PagesOK(h, {}) /\ RefsOK(h) /\ Root \in Refs(h) /\ TreeOK(Content(h), r2, {})
  BY <1>11, <1>13 DEF Sound
<1>16. /\ PagesOK(g, {}) /\ Content(g) = Content(h) /\ g.saved = Content(h)
       /\ Cached(g) = Cached(h) /\ Refs(g) = Refs(h) /\ g.free = h.free
       /\ g.open = h.open /\ g.failed = h.failed
  BY <1>11, <1>15, SyncFsIs
<1>17. Sound(g, r2, {})  BY <1>15, <1>16 DEF Sound, RefsOK
<1> QED BY <1>5, <1>7, <1>13, <1>14, <1>16, <1>17 DEF NewAt, Keeps

\* What a failed creation leaves, and a successful one.
CreateEnds(f, x, r, p, type) ==
    \/ x.fid = None /\ Mounted(x.fs, r) /\ x.fs.saved = f.saved
    \/ \E k \in Nid : x = [fs |-> x.fs, fid |-> k] /\ NewAt(f, x.fs, r, p, type, k)

\* InternalCreatreFile
LEMMA CreatedIs ==
  ASSUME NEW f, NEW r, Mounted(f, r), NEW p \in Paths, p \notin DOMAIN r, Up(p) \in DirPaths(r),
         NEW type \in {"dir", "file"}, NEW no \in {None, "estimate"}, NEW x, x = Created(f, p, type, no, FALSE)
  PROVE  CreateEnds(f, x, r, p, type)
<1>1. PICK c, d, w, k, t, a, l, y, q, m, P, z :
         /\ c = Content(f) /\ d = FidAt(r, Up(p)) /\ w = Walk(f, p) /\ k = NextFree(w) /\ t = TakeNode(w)
         /\ a = add_link(t, d, p[Len(p)], k, no) /\ l = a.fs /\ y = InodeNew(type)
         /\ q = [page |-> y, dirty |-> FALSE, ref |-> 1] /\ m = Filled(l, k, y, q) /\ P = {} /\ z = Up(p)
  OBVIOUS
<1>2. PagesOK(f, P) /\ TreeOK(c, r, P) /\ RefOK(r) /\ NodesOK(c)
  BY <1>1, MountedSound DEF Sound
<1>3. Reads(f, w, P) /\ d \in Cached(w)  BY <1>1, <1>2, WalkIs
<1>4. Content(w) = c /\ Keeps(f, w)  BY <1>1, <1>3 DEF Reads
<1>5. Parent(c, p) = d  BY <1>1, <1>2, ParentIs
<1>6. Mounted(w, r) /\ w.saved = f.saved  BY <1>1, <1>3, MountedReads
<1>7. /\ w.free = 0 => x = [fs |-> CloseInode(w, d), fid |-> None]
      /\ w.free # 0 /\ ~a.ok => x = [fs |-> PutNode(CloseInode(l, d), k), fid |-> None]
      /\ w.free # 0 /\ a.ok => x = [fs |-> SyncFs(CloseInode(m, d)), fid |-> k]
  BY <1>1, <1>4, <1>5 DEF Created, Filled, InodeNew
<1>8. z \in DirPaths(r) /\ d = FidAt(r, z)  BY <1>1
<1>9. CASE w.free = 0
  <2>1. PICK g : g = CloseInode(w, d)  OBVIOUS
  <2>2. Sound(w, r, P)  BY <1>1, <1>6, MountedSound
  <2>3. Sound(g, r, P) /\ Keeps(w, g)  BY <1>3, <1>8, <2>1, <2>2, CloseDir
  <2>4. Mounted(g, r) /\ g.saved = w.saved  BY <1>1, <1>6, <2>3 DEF Mounted, Sound, Keeps
  <2>5. x.fs = g /\ x.fid = None  BY ONLY <1>7, <1>9, <2>1
  <2> QED BY <1>6, <2>4, <2>5 DEF CreateEnds
<1>10. CASE w.free # 0
  <2>1. Taking(t, r, k) /\ Keeps(w, t) /\ Cached(t) = Cached(w)  BY <1>1, <1>6, <1>10, Taken
  <2>2. d \in Cached(t)  BY <1>3, <2>1
  <2>3. /\ a.ok \in BOOLEAN /\ Keeps(t, l) /\ d \in Cached(l) /\ PagesOK(l, {k}) /\ RefsOK(l)
        /\ Content(l)[k] = InUse
        /\ a.ok = FALSE => Taking(l, r, k)
        /\ a.ok = TRUE => \A ty \in {"dir", "file"} :
              TreeOK(Put(Content(l), k, InodeNew(ty)), RefWith(r, p, RefNew(ty, k)), {})
    <3>1. /\ Taking(t, r, k) /\ p \in Paths /\ p \notin DOMAIN r /\ Up(p) \in DirPaths(r)
          /\ d = FidAt(r, Up(p)) /\ d \in Cached(t) /\ no \in {None, "estimate"}
          /\ a = add_link(t, d, p[Len(p)], k, no) /\ l = a.fs
      BY <1>1, <2>1, <2>2
    <3>2. LinkEnds(t, l, a.ok, r, p, d, k)  BY ONLY <3>1, LinkTaken
    <3> QED BY <3>2 DEF LinkEnds
  <2>4. Keeps(f, l)  BY <1>4, <2>1, <2>3 DEF Keeps
  <2>5. CASE a.ok = FALSE
    <3>1. PICK h, g : h = CloseInode(l, d) /\ g = PutNode(h, k)  OBVIOUS
    <3>2. Sound(g, r, {}) /\ Keeps(l, g)  BY <1>8, <2>3, <2>5, <3>1, Untaken
    <3>3. Mounted(g, r) /\ g.saved = f.saved  BY <2>4, <3>2 DEF Mounted, Sound, Keeps
    <3>4. x.fs = g /\ x.fid = None  BY ONLY <1>7, <1>10, <2>5, <3>1
    <3> QED BY <3>3, <3>4 DEF CreateEnds
  <2>6. CASE a.ok = TRUE
    <3>1. PICK g, r2 : g = SyncFs(CloseInode(m, d)) /\ r2 = RefWith(r, p, RefNew(type, k))
      OBVIOUS
    <3>2. k \in Nid /\ Root \in Refs(l) /\ IsInode(Content(t)[d]) /\ Content(t)[k] = InUse /\ d \in Nid
      <4>1. TreeOK(Content(t), r, {}) /\ k \in Nid /\ Content(t)[k] = InUse /\ Root \in Refs(t)
        BY <2>1 DEF Taking
      <4> QED BY <1>8, <2>3, <4>1, TreeFids DEF Keeps, IsDir
    <3>3. d # k  BY <3>2 DEF IsInode
    <3>4. TreeOK(Put(Content(l), k, y), r2, {})  BY <1>1, <2>3, <2>6, <3>1
    <3>5. NewAt(l, g, r, p, type, k)
      <4>1. /\ PagesOK(l, {k}) /\ RefsOK(l) /\ Root \in Refs(l) /\ Content(l)[k] = InUse /\ d = FidAt(r, Up(p))
            /\ d \in Cached(l) /\ y = InodeNew(type) /\ r2 = RefWith(r, p, RefNew(type, k))
            /\ d # k /\ d \in Nid /\ q = [page |-> y, dirty |-> FALSE, ref |-> 1] /\ m = Filled(l, k, y, q)
            /\ g = SyncFs(CloseInode(m, d)) /\ p \notin DOMAIN r /\ Up(p) \in DirPaths(r)
        BY <1>1, <2>3, <3>1, <3>2, <3>3
      <4> QED BY <3>2, <3>4, <4>1, MadeIs
    <3>6. NewAt(f, g, r, p, type, k)  BY <2>4, <3>5 DEF NewAt, Keeps
    <3>7. x = [fs |-> g, fid |-> k] /\ x.fs = g  BY ONLY <1>7, <1>10, <2>6, <3>1
    <3> QED BY <3>2, <3>6, <3>7 DEF CreateEnds
  <2> QED BY <2>3, <2>5, <2>6
<1> QED BY <1>9, <1>10

\* The table of open files is another; the nodes are the same.
WithOpen(f, S) == [f EXCEPT !.open = S]

\* The table of open files is no part of the pages.
LEMMA WithOpenIs ==
  ASSUME NEW f, NEW P, PagesOK(f, P), NEW S \in SUBSET Nid, NEW g, g = WithOpen(f, S)
  PROVE  /\ PagesOK(g, P) /\ Content(g) = Content(f) /\ Cached(g) = Cached(f) /\ Refs(g) = Refs(f)
         /\ g.open = S /\ g.saved = f.saved /\ g.failed = f.failed /\ g.free = f.free /\ g.cache = f.cache
<1>1. f \in Fs  BY DEF PagesOK
<1>2. /\ g \in Fs /\ g.nat = f.nat /\ g.free = f.free /\ g.cache = f.cache
      /\ g.open = S /\ g.saved = f.saved /\ g.failed = f.failed
  BY <1>1 DEF WithOpen, Fs
<1> QED BY <1>2 DEF PagesOK, Content, Cached, Refs

\* The reference count of a page is set.
WithRef(f, n, v) == [f EXCEPT !.cache[n].ref = v]

\* The reference count of a page changes neither the nodes nor what is dirty.
LEMMA WithRefIs ==
  ASSUME NEW f, NEW P, PagesOK(f, P), NEW n \in Cached(f), NEW v \in {0, 1}, NEW g, g = WithRef(f, n, v)
  PROVE  /\ PagesOK(g, P) /\ Content(g) = Content(f) /\ Cached(g) = Cached(f)
         /\ v = 0 => Refs(g) = Refs(f) \ {n}
         /\ v = 1 => Refs(g) = Refs(f) \cup {n}
         /\ g.open = f.open /\ g.saved = f.saved /\ g.failed = f.failed /\ g.free = f.free
<1>1. f \in Fs /\ n \in Nid /\ f.cache[n] # None /\ f.cache[n].page = Content(f)[n]
  BY PageSeen DEF PagesOK
<1>2. /\ f.cache \in [Nid -> Page \cup {None}] /\ f.cache[n] \in Page /\ f.cache[n].page \in Node
      /\ f.cache[n].dirty \in BOOLEAN
  BY <1>1, FsIs, PageIs
<1>3. PICK q : q = [page |-> f.cache[n].page, dirty |-> f.cache[n].dirty, ref |-> v]  OBVIOUS
<1>4. q \in Page /\ q.page = f.cache[n].page /\ q.dirty = f.cache[n].dirty /\ q.ref = v
  BY <1>2, <1>3 DEF Page
<1>5. PICK C : C = [f.cache EXCEPT ![n] = q]  OBVIOUS
<1>6. C \in [Nid -> Page \cup {None}] /\ g = [f EXCEPT !.cache = C]
  <2>1. [f.cache[n] EXCEPT !.ref = v] = q  BY <1>2, <1>3 DEF Page
  <2> QED BY <1>2, <1>4, <1>5, <2>1 DEF WithRef
<1>7. /\ g \in Fs /\ g.nat = f.nat /\ g.free = f.free /\ g.cache = C
      /\ g.open = f.open /\ g.saved = f.saved /\ g.failed = f.failed
  BY <1>1, <1>6, FsCache
<1>8. f.nat[n] # None /\ n \notin P /\ (q.dirty \/ q.page = f.nat[n]) /\ (f.nat[n] = InUse => q.dirty)
  <2>1. PageOK(f.nat[n], f.cache[n], n \in P)  BY <1>1 DEF PagesOK
  <2> QED BY <1>1, <1>4, <2>1 DEF PageOK
<1>9. /\ PagesOK(g, P) /\ Content(g) = [Content(f) EXCEPT ![n] = q.page]
      /\ Cached(g) = Cached(f) \cup {n}
      /\ Refs(g) = IF q.ref = 1 THEN Refs(f) \cup {n} ELSE Refs(f) \ {n}
  BY <1>1, <1>4, <1>5, <1>7, <1>8, OnePage
<1>10. [Content(f) EXCEPT ![n] = q.page] = Content(f)  BY <1>1, <1>4 DEF Content
<1> QED BY <1>4, <1>7, <1>9, <1>10

\* Reference r2 has a new path p, an open file or a directory, besides those of r.
NewPath(r, r2, p, type, k) ==
    /\ k # Root /\ k # None /\ RefOK(r2)
    /\ DOMAIN r2 = DOMAIN r \cup {p} /\ r2[p].fid = k /\ r2[p].type = type
    /\ \A z \in DOMAIN r : r2[z] = r[z] /\ z # p
    /\ OpenFids(r2) = IF type = "file" THEN OpenFids(r) \cup {k} ELSE OpenFids(r)
    /\ \A z \in DOMAIN r2 : r2[z].open => r2[z].type = "file"

\* The new file of a path has an inode of its own.
LEMMA NewFid ==
  ASSUME NEW f, NEW r, Mounted(f, r), NEW p, p \notin DOMAIN r, NEW type \in {"dir", "file"}, NEW k, NEW g,
         NewAt(f, g, r, p, type, k), NEW r2, r2 = RefWith(r, p, RefNew(type, k))
  PROVE  NewPath(r, r2, p, type, k) /\ k \notin f.open /\ k \notin Refs(f)
<1>1. TreeOK(Content(g), r2, {}) /\ k \in Nid  BY DEF NewAt, Sound
<1>2. RefOK(r2)  BY <1>1 DEF TreeOK
<1>3. DOMAIN r2 = DOMAIN r \cup {p} /\ r2[p] = RefNew(type, k) /\ \A z \in DOMAIN r : r2[z] = r[z] /\ z # p
  BY DEF RefWith
<1>4. PICK e : e = RefNew(type, k)  OBVIOUS
<1>5. e.fid = k /\ e.type = type /\ (e.open <=> type = "file")  BY <1>1, <1>4, RefNewIs
<1>6. /\ Refs(f) = {Root} \cup f.open /\ f.open = OpenFids(r)
      /\ \A z \in DOMAIN r : r[z].open => r[z].type = "file"
  BY DEF Mounted
<1>7. p \in DOMAIN r2 /\ r2[p].fid = k  BY <1>3, <1>4, <1>5
<1>8. k # Root /\ k # None  BY <1>1, <1>7, TreeFids
<1>9. \A z \in DOMAIN r : r[z].fid # k  BY <1>2, <1>3, <1>7 DEF RefOK
<1>10. k \notin f.open /\ k \notin Refs(f)  BY <1>6, <1>8, <1>9 DEF OpenFids
<1>11. /\ type = "file" => OpenFids(r2) = OpenFids(r) \cup {k}
       /\ type = "dir" => OpenFids(r2) = OpenFids(r)
  BY <1>3, <1>4, <1>5, <1>7 DEF OpenFids
<1>12. \A z \in DOMAIN r2 : r2[z].open => r2[z].type = "file"  BY <1>3, <1>4, <1>5, <1>6
<1> QED BY <1>2, <1>3, <1>4, <1>5, <1>7, <1>8, <1>10, <1>11, <1>12 DEF NewPath

\* What creating path p leaves: nothing new, or a file or directory that is on the disk too.
CreateDone(f, x, r, p, type) ==
    \/ x.fid = None /\ Mounted(x.fs, r) /\ x.fs.saved = f.saved
    \/ \E k \in Nid : LET r2 == RefWith(r, p, RefNew(type, k)) IN
         x.fid = k /\ k # None /\ Mounted(x.fs, r2) /\ Disk(x.fs.saved, r2)

\* What the log refuses of a dentry block, where it is the estimate only.
LEMMA DentryRefusalIs ==
  ASSUME "dentry" \notin Refusals, NEW no \in DentryRefusals
  PROVE  no \in {None, "estimate"}
BY DEF DentryRefusals

\* The log refuses no inode, and no block of a directory after its estimate.
LEMMA InternalCreateIs ==
  ASSUME "inode" \notin Refusals, "dentry" \notin Refusals, NEW f, NEW r, Mounted(f, r),
         NEW p \in Paths, p \notin DOMAIN r, Up(p) \in DirPaths(r), NEW type \in {"dir", "file"}, NEW x \in InternalCreate(f, p, type)
  PROVE  CreateEnds(f, x, r, p, type)
<1>1. PICK no \in DentryRefusals, noInode \in InodeRefusals : x = Created(f, p, type, no, noInode)
  BY DEF InternalCreate
<1>2. noInode = FALSE
  <2>1. ("inode" \in Refusals) = FALSE  OBVIOUS
  <2>2. InodeRefusals = {FALSE}  BY <2>1 DEF InodeRefusals
  <2> QED BY <1>1, <2>2
<1>3. no \in {None, "estimate"}  BY <1>1, DentryRefusalIs
<1> QED BY <1>1, <1>2, <1>3, CreatedIs

\* FileCreate
LEMMA FileCreateIs ==
  ASSUME "inode" \notin Refusals, "dentry" \notin Refusals, NEW f, NEW r, Mounted(f, r),
         NEW p \in Paths, p \notin DOMAIN r, Up(p) \in DirPaths(r), NEW x \in FileCreate(f, p)
  PROVE  CreateDone(f, x, r, p, "file")
<1>1. PICK y \in InternalCreate(f, p, "file") :
         x = IF y.fid = None THEN y ELSE [y EXCEPT !.fs.open = @ \cup {y.fid}]
  BY DEF FileCreate
<1>2. CreateEnds(f, y, r, p, "file")  BY <1>1, InternalCreateIs
<1>3. CASE y.fid = None /\ Mounted(y.fs, r) /\ y.fs.saved = f.saved
  BY <1>1, <1>3 DEF CreateDone
<1>4. CASE \E k \in Nid : y = [fs |-> y.fs, fid |-> k] /\ NewAt(f, y.fs, r, p, "file", k)
  <2>1. PICK k \in Nid : y = [fs |-> y.fs, fid |-> k] /\ NewAt(f, y.fs, r, p, "file", k)
    BY <1>4
  <2>2. PICK h, r2, type : h = y.fs /\ type = "file" /\ r2 = RefWith(r, p, RefNew(type, k))
    OBVIOUS
  <2>3. /\ k # Root /\ k # None /\ OpenFids(r2) = OpenFids(r) \cup {k}
        /\ \A z \in DOMAIN r2 : r2[z].open => r2[z].type = "file"
    <3>1. NewAt(f, h, r, p, type, k) /\ type \in {"dir", "file"}  BY <2>1, <2>2
    <3>2. NewPath(r, r2, p, type, k) /\ k \notin Refs(f)  BY <2>2, <3>1, NewFid
    <3> QED BY <2>2, <3>2 DEF NewPath
  <2>4. PICK S, g : S = h.open \cup {k} /\ g = WithOpen(h, S)  OBVIOUS
  <2>5. y.fid = k  BY <2>1
  <2>6. x.fs = g /\ x.fid = k
    <3>1. x = [y EXCEPT !.fs.open = @ \cup {k}]  BY <1>1, <2>3, <2>5
    <3>2. x = [y EXCEPT !.fs = WithOpen(h, S)]  BY <2>2, <2>4, <3>1 DEF WithOpen
    <3> QED BY <2>1, <2>4, <3>2
  <2>7. /\ Sound(h, r2, {}) /\ h.saved = Content(h)
        /\ h.open = f.open /\ h.failed = f.failed /\ Refs(h) = Refs(f) \cup {k}
    BY <2>1, <2>2 DEF NewAt
  <2>8. ~f.failed /\ Refs(f) = {Root} \cup f.open /\ f.open = OpenFids(r)  BY DEF Mounted
  <2>9. PagesOK(h, {}) /\ TreeOK(Content(h), r2, {}) /\ S \in SUBSET Nid
    <3>1. h \in Fs  BY <2>7 DEF Sound, PagesOK
    <3>2. h.open \in SUBSET Nid  BY <3>1, FsIs
    <3> QED BY <2>4, <2>7, <3>2 DEF Sound
  <2>10. /\ PagesOK(g, {}) /\ Content(g) = Content(h) /\ Refs(g) = Refs(h)
         /\ g.open = S /\ g.saved = h.saved /\ g.failed = h.failed
    BY <2>4, <2>9, WithOpenIs
  <2>11. Mounted(g, r2)  BY <2>3, <2>4, <2>7, <2>8, <2>9, <2>10 DEF Mounted
  <2>12. Disk(g.saved, r2)  BY <2>7, <2>9, <2>10 DEF Disk
  <2> QED BY <2>2, <2>3, <2>6, <2>11, <2>12 DEF CreateDone
<1> QED BY <1>2, <1>3, <1>4 DEF CreateEnds

\* DirCreate
LEMMA DirCreateIs ==
  ASSUME "inode" \notin Refusals, "dentry" \notin Refusals, NEW f, NEW r, Mounted(f, r),
         NEW p \in Paths, p \notin DOMAIN r, Up(p) \in DirPaths(r), NEW x \in DirCreate(f, p)
  PROVE  CreateDone(f, x, r, p, "dir")
<1>1. PICK y \in InternalCreate(f, p, "dir") :
         x = IF y.fid = None THEN y
             ELSE [y EXCEPT !.fs = CloseInode([@ EXCEPT !.cache[y.fid].ref = 0], y.fid)]
  BY DEF DirCreate
<1>2. CreateEnds(f, y, r, p, "dir")  BY <1>1, InternalCreateIs
<1>3. CASE y.fid = None /\ Mounted(y.fs, r) /\ y.fs.saved = f.saved
  BY <1>1, <1>3 DEF CreateDone
<1>4. CASE \E k \in Nid : y = [fs |-> y.fs, fid |-> k] /\ NewAt(f, y.fs, r, p, "dir", k)
  <2>1. PICK k \in Nid : y = [fs |-> y.fs, fid |-> k] /\ NewAt(f, y.fs, r, p, "dir", k)  BY <1>4
  <2>2. PICK h, r2, type : h = y.fs /\ type = "dir" /\ r2 = RefWith(r, p, RefNew(type, k))
    OBVIOUS
  <2>3. /\ k # Root /\ k # None /\ OpenFids(r2) = OpenFids(r) /\ k \notin Refs(f)
        /\ p \in DOMAIN r2 /\ r2[p].fid = k /\ r2[p].type = "dir"
        /\ \A z \in DOMAIN r2 : r2[z].open => r2[z].type = "file"
    <3>1. NewAt(f, h, r, p, type, k) /\ type \in {"dir", "file"}  BY <2>1, <2>2
    <3>2. NewPath(r, r2, p, type, k) /\ k \notin Refs(f)  BY <2>2, <3>1, NewFid
    <3> QED BY <2>2, <3>2 DEF NewPath
  <2>4. PICK e, g : e = WithRef(h, k, 0) /\ g = CloseInode(e, k)  OBVIOUS
  <2>5. y.fid = k  BY <2>1
  <2>6. x.fs = g /\ x.fid = k
    <3>1. x = [y EXCEPT !.fs = CloseInode([@ EXCEPT !.cache[k].ref = 0], k)]
      BY <1>1, <2>3, <2>5
    <3>2. x = [y EXCEPT !.fs = g]  BY <2>2, <2>4, <3>1 DEF WithRef
    <3> QED BY <2>1, <3>2
  <2>7. /\ Sound(h, r2, {}) /\ h.saved = Content(h) /\ k \in Cached(h)
        /\ h.open = f.open /\ h.failed = f.failed /\ Refs(h) = Refs(f) \cup {k}
    BY <2>1, <2>2 DEF NewAt
  <2>8. ~f.failed /\ Refs(f) = {Root} \cup f.open /\ f.open = OpenFids(r)  BY DEF Mounted
  <2>9. PagesOK(h, {}) /\ TreeOK(Content(h), r2, {}) /\ RefsOK(h) /\ Root \in Refs(h)
    BY <2>7 DEF Sound
  <2>10. /\ PagesOK(e, {}) /\ Content(e) = Content(h) /\ Cached(e) = Cached(h) /\ Refs(e) = Refs(h) \ {k}
         /\ e.open = h.open /\ e.saved = h.saved /\ e.failed = h.failed
    <3>1. PICK v \in {0, 1} : v = 0  OBVIOUS
    <3>2. e = WithRef(h, k, v)  BY <2>4, <3>1
    <3> QED BY <2>7, <2>9, <3>1, <3>2, WithRefIs
  <2>11. Sound(e, r2, {})  BY <2>3, <2>9, <2>10 DEF Sound, RefsOK
  <2>12. Sound(g, r2, {}) /\ Keeps(e, g)
    <3>1. PICK X : X = {}  OBVIOUS
    <3>2. Sound(e, r2, X) /\ p \in DirPaths(r2) /\ k = FidAt(r2, p) /\ k \in Cached(e)
      <4>1. p # <<>>  BY PathIs
      <4> QED BY <2>3, <2>7, <2>10, <2>11, <3>1, <4>1 DEF DirPaths, FidAt
    <3> QED BY <2>4, <3>1, <3>2, CloseDir
  <2>13. Mounted(g, r2)
    <3>1. Refs(e) = {Root} \cup f.open  BY <2>3, <2>7, <2>8, <2>10
    <3> QED BY <2>3, <2>7, <2>8, <2>10, <2>12, <3>1 DEF Mounted, Sound, Keeps
  <2>14. Disk(g.saved, r2)  BY <2>7, <2>9, <2>10, <2>12 DEF Disk, Keeps
  <2> QED BY <2>2, <2>3, <2>6, <2>13, <2>14 DEF CreateDone
<1> QED BY <1>2, <1>3, <1>4 DEF CreateEnds

-------------------------------------------------------------------------------
(* Moving. *)

\* A directory of the tree is referenced, or has a name.
LEMMA DirHeld ==
  ASSUME NEW f, NEW r, NEW X, Sound(f, r, X), NEW z \in DirPaths(r), NEW d, d = FidAt(r, z)
  PROVE  d \in Nid /\ IsInode(Content(f)[d]) /\ (d \in Refs(f) \/ Content(f)[d].nlink = 1) /\ d \notin X
<1>1. Root \in Refs(f) /\ TreeOK(Content(f), r, X)  BY DEF Sound
<1>2. d \in Nid /\ IsInode(Content(f)[d]) /\ (z # <<>> => z \in DOMAIN r) /\ d \notin X
  BY <1>1, TreeFids DEF IsDir
<1>3. CASE z = <<>>
  BY <1>1, <1>2, <1>3 DEF FidAt
<1>4. CASE z # <<>>
  <2>1. NodeIs(Content(f), r[z]) /\ d = r[z].fid  BY <1>1, <1>2, <1>4 DEF TreeOK, FidAt
  <2> QED BY <1>2, <2>1 DEF NodeIs
<1> QED BY <1>3, <1>4

\* Such an inode is closed.
LEMMA CloseHeld ==
  ASSUME NEW f, NEW r, NEW X, Sound(f, r, X), NEW d \in Cached(f), IsInode(Content(f)[d]),
         d \in Refs(f) \/ Content(f)[d].nlink = 1, NEW g, g = CloseInode(f, d)
  PROVE  Sound(g, r, X) /\ Content(g) = Content(f) /\ Keeps(f, g)
<1>1. PICK c, P : c = Content(f) /\ P = {}  OBVIOUS
<1>2. PagesOK(f, P) /\ RefsOK(f) /\ Root \in Refs(f) /\ TreeOK(c, r, X) /\ NodesOK(c)
  BY <1>1 DEF Sound, TreeOK
<1>3. PagesOK(g, P) /\ Content(g) = c /\ Keeps(f, g) /\ RefsOK(g)  BY <1>1, <1>2, CloseKept
<1> QED BY <1>1, <1>2, <1>3 DEF Sound, Keeps

\* A step of a directory keeps the references.
LEMMA StepRefs ==
  ASSUME NEW f, NEW P, PagesOK(f, P), RefsOK(f), NEW d, NEW g, DirStep(f, g, P, d)
  PROVE  RefsOK(g)
<1>1. \A i \in Refs(f) : i \in Nid /\ IsInode(Content(f)[i])  BY DEF RefsOK, Refs
<1> QED BY <1>1 DEF RefsOK, DirStep, Local

\* What moving path p to q leaves: the new name is refused, or it is there, on the disk too.
MoveDone(f, x, r, p, q) ==
    \/ x.ok = FALSE /\ Mounted(x.fs, r) /\ x.fs.saved = f.saved
    \/ x.ok = TRUE /\ Mounted(x.fs, RefMoved(r, p, q)) /\ Disk(x.fs.saved, RefMoved(r, p, q))

\* The open files are the same.
LEMMA MovedOpen ==
  ASSUME NEW r, RefOK(r), NEW p \in DOMAIN r, NEW q, Siblings(p, q), q \notin DOMAIN r,
         NEW r2, r2 = RefMoved(r, p, q), \A z \in DOMAIN r : r[z].open => r[z].type = "file"
  PROVE  OpenFids(r2) = OpenFids(r) /\ \A z \in DOMAIN r2 : r2[z].open => r2[z].type = "file"
<1>1. /\ DOMAIN r2 \subseteq Paths /\ \A y \in Paths : y \in DOMAIN r2 => Back(p, q, y) \in DOMAIN r
      /\ \A y \in DOMAIN r2 : r2[y] = r[Back(p, q, y)]
      /\ \A x \in DOMAIN r : Forth(p, q, x) \in DOMAIN r2 /\ Back(p, q, Forth(p, q, x)) = x
  BY MovedIs
<1>2. \A y \in DOMAIN r2 : Back(p, q, y) \in DOMAIN r /\ r2[y] = r[Back(p, q, y)]  BY <1>1
<1>3. ASSUME NEW k \in OpenFids(r2) PROVE k \in OpenFids(r)
  <2>1. PICK y \in DOMAIN r2 : r2[y].open /\ k = r2[y].fid  BY DEF OpenFids
  <2> QED BY <1>2, <2>1 DEF OpenFids
<1>4. ASSUME NEW k \in OpenFids(r) PROVE k \in OpenFids(r2)
  <2>1. PICK x \in DOMAIN r : r[x].open /\ k = r[x].fid  BY DEF OpenFids
  <2>2. PICK y \in DOMAIN r2 : Back(p, q, y) = x  BY <1>1
  <2>3. r2[y] = r[x]  BY <1>2, <2>2
  <2> QED BY <2>1, <2>3 DEF OpenFids
<1> QED BY <1>2, <1>3, <1>4

\* The two steps of a move on the directory.
LEMMA MovedTree ==
  ASSUME NEW f, NEW r, Sound(f, r, {}), NEW p \in DOMAIN r, NEW q, Siblings(p, q), q \notin DOMAIN r,
         NEW d, d = FidAt(r, Up(p)), d \in Cached(f), NEW k, k = r[p].fid, NEW no \in {None, "estimate"},
         NEW x, x = add_link(f, d, q[Len(q)], k, no), NEW l, l = x.fs,
         NEW h, h = unlink(l, d, p[Len(p)], k), NEW r2, r2 = RefMoved(r, p, q)
  PROVE  /\ x = [fs |-> l, ok |-> x.ok] /\ x.ok \in BOOLEAN
         /\ ~x.ok => Sound(l, r, {}) /\ Keeps(f, l) /\ d \in Cached(l)
         /\ x.ok => Sound(h, r2, {}) /\ h.open = f.open /\ h.failed = f.failed /\ Refs(h) = Refs(f)
                    /\ h.saved = Content(h) /\ d \in Cached(h) /\ IsInode(Content(h)[d])
                    /\ (d \in Refs(h) \/ Content(h)[d].nlink = 1)
<1>1. PICK c, P, n, n2, c2, z : /\ c = Content(f) /\ P = {} /\ n = p[Len(p)] /\ n2 = q[Len(q)] /\ c2 = Content(l)
                               /\ z = Up(p)
  OBVIOUS
<1>2. /\ PagesOK(f, P) /\ RefsOK(f) /\ Root \in Refs(f) /\ TreeOK(c, r, P) /\ NodesOK(c) /\ RefOK(r)
      /\ z \in DirPaths(r) /\ d = FidAt(r, z) /\ p \in Paths
  BY <1>1, UpOf DEF Sound, TreeOK
<1>3. /\ d \in Nid /\ IsInode(c[d]) /\ k \in Nid /\ k # None /\ (d \in Refs(f) \/ c[d].nlink = 1) /\ d \notin P
  <2>1. Sound(f, r, P)  BY <1>1
  <2> QED BY <1>1, <1>2, <2>1, DirHeld, TreeFids
<1>4. /\ n \in Names /\ n2 \in Names /\ p = Append(z, n) /\ q = Append(z, n2)
  BY <1>1, <1>2, PathIs, UpIs DEF Siblings
<1>5. n # n2  BY <1>4 DEF Siblings
<1>6. DirNodeOK(c, d) /\ FindFile(DirFile(c, d), n) = k /\ FindFile(DirFile(c, d), n2) = None
  <2>1. DirIs(c, r, z)  BY <1>2 DEF TreeOK
  <2> QED BY <1>2, <1>4, <2>1 DEF DirIs, FidOrNone
<1>7. /\ DirStep(f, l, P, d) /\ l.saved = f.saved /\ x = [fs |-> l, ok |-> x.ok] /\ x.ok \in BOOLEAN
      /\ FindFile(DirFile(Content(l), d), n2) = (IF x.ok THEN k ELSE None)
      /\ \A m \in Names \ {n2} : FindFile(DirFile(Content(l), d), m) = FindFile(DirFile(c, d), m)
  <2>1. /\ PagesOK(f, P) /\ c = Content(f) /\ NodesOK(c) /\ d \in Cached(f) /\ IsInode(c[d]) /\ DirNodeOK(c, d)
        /\ n2 \in Names /\ k \in Nid /\ FindFile(DirFile(c, d), n2) = None /\ no \in {None, "estimate"}
        /\ x = add_link(f, d, n2, k, no) /\ l = x.fs
    BY <1>1, <1>2, <1>3, <1>4, <1>6
  <2> QED BY ONLY <2>1, LinkedIs
<1>8. /\ PagesOK(l, P) /\ l.open = f.open /\ l.failed = f.failed /\ Refs(l) = Refs(f) /\ d \in Cached(l)
      /\ Local(c, c2, d) /\ DirNodeOK(c2, d)
  BY <1>1, <1>3, <1>7 DEF DirStep
<1>9. RefsOK(l) /\ NodesOK(c2) /\ IsInode(c2[d]) /\ c2[d].nlink = c[d].nlink
  BY <1>1, <1>2, <1>3, <1>7, <1>8, StepRefs DEF Local
<1>10. CASE ~x.ok
  <2>1. \A m \in Names : FindFile(DirFile(c2, d), m) = FindFile(DirFile(c, d), m)
    BY <1>1, <1>6, <1>7, <1>10
  <2>2. TreeOK(c2, r, P)  BY <1>2, <1>8, <2>1, TreeDir
  <2> QED BY <1>1, <1>2, <1>7, <1>8, <1>9, <1>10, <2>2 DEF Sound, Keeps
<1>11. CASE x.ok
  <2>1. PICK c3 : c3 = Content(h)  OBVIOUS
  <2>2. /\ FindFile(DirFile(c2, d), n2) = k /\ FindFile(DirFile(c2, d), n) = k
    BY <1>1, <1>4, <1>5, <1>6, <1>7, <1>11
  <2>3. /\ DirStep(l, h, {}, d) /\ h.saved = Content(h)
        /\ FindFile(DirFile(Content(h), d), n) = None
        /\ \A m \in Names \ {n} : FindFile(DirFile(Content(h), d), m) = FindFile(DirFile(c2, d), m)
    <3>1. /\ PagesOK(l, {}) /\ c2 = Content(l) /\ NodesOK(c2) /\ RefsOK(l) /\ d \in Cached(l) /\ IsInode(c2[d])
          /\ DirNodeOK(c2, d) /\ n \in Names /\ k = FindFile(DirFile(c2, d), n) /\ k # None
          /\ h = unlink(l, d, n, k)
      BY <1>1, <1>3, <1>4, <1>8, <1>9, <2>2, Zenon
    <3> QED BY ONLY <3>1, UnlinkedIs
  <2>4. /\ PagesOK(h, {}) /\ h.open = f.open /\ h.failed = f.failed /\ Refs(h) = Refs(f) /\ d \in Cached(h)
        /\ Local(c2, c3, d) /\ DirNodeOK(c3, d)
    BY <1>1, <1>8, <1>9, <2>1, <2>3 DEF DirStep
  <2>5. Local(c, c3, d)  BY <1>8, <2>4, LocalTrans
  <2>6. /\ FindFile(DirFile(c3, d), n2) = k /\ FindFile(DirFile(c3, d), n) = None
        /\ \A m \in Names \ {n, n2} : FindFile(DirFile(c3, d), m) = FindFile(DirFile(c, d), m)
    <3>1. FindFile(DirFile(c3, d), n2) = k /\ FindFile(DirFile(c3, d), n) = None
      BY <1>4, <1>5, <2>1, <2>2, <2>3
    <3>2. ASSUME NEW m \in Names \ {n, n2} PROVE FindFile(DirFile(c3, d), m) = FindFile(DirFile(c, d), m)
      <4>1. FindFile(DirFile(c3, d), m) = FindFile(DirFile(c2, d), m)  BY <2>1, <2>3
      <4>2. FindFile(DirFile(c2, d), m) = FindFile(DirFile(c, d), m)  BY <1>1, <1>7
      <4> QED BY <4>1, <4>2
    <3> QED BY <3>1, <3>2
  <2>7. TreeOK(c3, r2, P)
    <3>1. /\ TreeOK(c, r, P) /\ p \in DOMAIN r /\ Siblings(p, q) /\ q \notin DOMAIN r /\ d = FidAt(r, Up(p))
          /\ n = p[Len(p)] /\ n2 = q[Len(q)] /\ k = r[p].fid /\ r2 = RefMoved(r, p, q)
      BY <1>1, <1>2
    <3> QED BY ONLY <2>4, <2>5, <2>6, <3>1, TreeMoved
  <2>8. RefsOK(h) /\ IsInode(c3[d]) /\ (d \in Refs(h) \/ c3[d].nlink = 1)
    <3>1. RefsOK(h)  BY <1>1, <1>8, <1>9, <2>3, StepRefs
    <3> QED BY <1>3, <1>9, <2>4, <3>1 DEF Local
  <2>9. Sound(h, r2, {})  BY <1>1, <1>2, <2>1, <2>4, <2>7, <2>8 DEF Sound
  <2> QED BY <1>7, <1>11, <2>1, <2>3, <2>4, <2>8, <2>9
<1> QED BY <1>10, <1>11

\* FileMove to another name in the same directory.
LEMMA FileMoveIs ==
  ASSUME "dentry" \notin Refusals, NEW f, NEW r, Mounted(f, r), NEW p \in DOMAIN r, NEW q, Siblings(p, q), q \notin DOMAIN r,
         NEW x \in FileMove(f, p, q[Len(q)])
  PROVE  MoveDone(f, x, r, p, q)
<1>1. PICK no \in {None, "estimate"} : x = Moved(Walk(f, p), p, q[Len(q)], no)
  BY DentryRefusalIs DEF FileMove
<1>2. PICK c, d, w, k, a, l, h, r2, P :
         /\ c = Content(f) /\ d = FidAt(r, Up(p)) /\ w = Walk(f, p) /\ k = r[p].fid
         /\ a = add_link(w, d, q[Len(q)], k, no) /\ l = a.fs /\ h = unlink(l, d, p[Len(p)], k)
         /\ r2 = RefMoved(r, p, q) /\ P = {}
  OBVIOUS
<1>3. PagesOK(f, P) /\ TreeOK(c, r, P) /\ RefOK(r) /\ Up(p) \in DirPaths(r) /\ p \in Paths
  BY <1>2, MountedSound, UpOf DEF Sound
<1>4. Reads(f, w, P) /\ d \in Cached(w)  BY <1>2, <1>3, WalkIs
<1>5. Content(w) = c  BY <1>2, <1>4 DEF Reads
<1>6. Parent(c, p) = d /\ Lookup(c, p) = k
  <2>1. Lookup(c, p) = FidOrNone(r, p)  BY <1>3, LookupIs
  <2> QED BY <1>2, <1>3, <2>1, ParentIs DEF FidOrNone
<1>7. Mounted(w, r) /\ w.saved = f.saved  BY <1>2, <1>4, MountedReads
<1>8. Sound(w, r, {})  BY <1>7, MountedSound
<1>9. /\ a = [fs |-> l, ok |-> a.ok] /\ a.ok \in BOOLEAN
      /\ ~a.ok => Sound(l, r, {}) /\ Keeps(w, l) /\ d \in Cached(l)
      /\ a.ok => Sound(h, r2, {}) /\ h.open = w.open /\ h.failed = w.failed /\ Refs(h) = Refs(w)
                 /\ h.saved = Content(h) /\ d \in Cached(h) /\ IsInode(Content(h)[d])
                 /\ (d \in Refs(h) \/ Content(h)[d].nlink = 1)
  <2>1. /\ Sound(w, r, {}) /\ p \in DOMAIN r /\ Siblings(p, q) /\ q \notin DOMAIN r /\ d = FidAt(r, Up(p))
        /\ d \in Cached(w) /\ k = r[p].fid /\ no \in {None, "estimate"}
        /\ a = add_link(w, d, q[Len(q)], k, no) /\ l = a.fs /\ h = unlink(l, d, p[Len(p)], k) /\ r2 = RefMoved(r, p, q)
    BY <1>2, <1>4, <1>8
  <2> QED BY ONLY <2>1, MovedTree
<1>10. x = [a EXCEPT !.fs = CloseInode(IF a.ok THEN unlink(@, d, p[Len(p)], k) ELSE @, d)]
  BY <1>1, <1>2, <1>5, <1>6 DEF Moved
<1>11. x.ok = a.ok /\ (~a.ok => x.fs = CloseInode(l, d)) /\ (a.ok => x.fs = CloseInode(h, d))
  BY <1>2, <1>9, <1>10
<1>12. PICK g, X : g = x.fs /\ X = {}  OBVIOUS
<1>13. CASE ~a.ok
  <2>1. Sound(l, r, X) /\ Up(p) \in DirPaths(r) /\ d = FidAt(r, Up(p)) /\ d \in Cached(l) /\ g = CloseInode(l, d)
    BY <1>2, <1>3, <1>9, <1>11, <1>12, <1>13
  <2>2. PICK z : z = Up(p)  OBVIOUS
  <2>3. Sound(g, r, X) /\ Keeps(l, g)  BY <2>1, <2>2, CloseDir
  <2>4. Keeps(w, l)  BY <1>9, <1>13
  <2>5. Mounted(g, r) /\ g.saved = f.saved  BY <1>7, <1>12, <2>3, <2>4 DEF Mounted, Sound, Keeps
  <2>6. x.ok = FALSE  BY <1>9, <1>11, <1>13
  <2> QED BY <1>12, <2>5, <2>6 DEF MoveDone
<1>14. CASE a.ok
  <2>1. /\ Sound(h, r2, X) /\ d \in Cached(h) /\ IsInode(Content(h)[d]) /\ (d \in Refs(h) \/ Content(h)[d].nlink = 1)
        /\ g = CloseInode(h, d)
    BY <1>9, <1>11, <1>12, <1>14
  <2>2. Sound(g, r2, X) /\ Content(g) = Content(h) /\ Keeps(h, g)  BY <2>1, CloseHeld
  <2>3. OpenFids(r2) = OpenFids(r) /\ \A y \in DOMAIN r2 : r2[y].open => r2[y].type = "file"
    <3>1. \A y \in DOMAIN r : r[y].open => r[y].type = "file"  BY DEF Mounted
    <3> QED BY <1>2, <1>3, <3>1, MovedOpen
  <2>4. h.open = w.open /\ h.failed = w.failed /\ Refs(h) = Refs(w) /\ h.saved = Content(h)
    BY <1>9, <1>14
  <2>5. Mounted(g, r2)  BY <1>7, <1>12, <2>2, <2>3, <2>4 DEF Mounted, Sound, Keeps
  <2>6. Disk(g.saved, r2)  BY <1>12, <2>1, <2>2, <2>4 DEF Disk, Sound, Keeps
  <2>7. x.ok = TRUE  BY <1>9, <1>11, <1>14
  <2> QED BY <1>2, <1>12, <2>5, <2>6, <2>7 DEF MoveDone
<1> QED BY <1>9, <1>13, <1>14

-------------------------------------------------------------------------------
(* Opening, closing and writing. *)

\* A path of the reference is opened or closed.
SetOpen(r, p, b) == [r EXCEPT ![p].open = b]

OpenChanged(r, r2, p, b) ==
    /\ SameRef(r, r2) /\ \A z \in DOMAIN r : r2[z].size = r[z].size
    /\ OpenFids(r2) = IF b THEN OpenFids(r) \cup {r[p].fid} ELSE OpenFids(r) \ {r[p].fid}
    /\ r[p].type = "file" /\ (\A z \in DOMAIN r : r[z].open => r[z].type = "file")
         => \A z \in DOMAIN r2 : r2[z].open => r2[z].type = "file"

\* Opening and closing leave the tree what it is.
LEMMA SetOpenIs ==
  ASSUME NEW c, NEW r, NEW X, TreeOK(c, r, X), NEW p \in DOMAIN r, NEW b \in BOOLEAN, NEW r2, r2 = SetOpen(r, p, b)
  PROVE  TreeOK(c, r2, X) /\ OpenChanged(r, r2, p, b)
<1>1. PICK k : k = r[p].fid  OBVIOUS
<1>2. RefOK(r)  BY DEF TreeOK
<1>3. \A z \in DOMAIN r : r[z] \in RefFile  BY <1>2 DEF RefOK
<1>4. DOMAIN r2 = DOMAIN r /\ \A z \in DOMAIN r : r2[z] = IF z = p THEN [r[p] EXCEPT !.open = b] ELSE r[z]
  BY DEF SetOpen
<1>5. PICK e : e = [r[p] EXCEPT !.open = b]  OBVIOUS
<1>6. e \in RefFile /\ e.fid = r[p].fid /\ e.type = r[p].type /\ e.size = r[p].size /\ e.open = b
  BY <1>3, <1>5 DEF RefFile
<1>7. SameRef(r, r2) /\ \A z \in DOMAIN r : r2[z] \in RefFile /\ r2[z].size = r[z].size
  BY <1>3, <1>4, <1>5, <1>6 DEF SameRef
<1>8. TreeOK(c, r2, X)  BY <1>7, TreeOpened
<1>9. \A z \in DOMAIN r : r[z].fid = k => z = p  BY <1>1, <1>2 DEF RefOK
<1>10. /\ \A z \in DOMAIN r \ {p} : r2[z] = r[z]
       /\ r2[p] = e
  BY <1>4, <1>5
<1>11. b = TRUE => OpenFids(r2) = OpenFids(r) \cup {k}
  <2> SUFFICES ASSUME b = TRUE PROVE OpenFids(r2) = OpenFids(r) \cup {k}
    OBVIOUS
  <2>1. ASSUME NEW m \in OpenFids(r2) PROVE m \in OpenFids(r) \cup {k}
    <3>1. PICK z \in DOMAIN r2 : r2[z].open /\ m = r2[z].fid  BY DEF OpenFids
    <3> QED BY <1>1, <1>4, <1>6, <1>10, <3>1, ZenonT(40) DEF OpenFids
  <2>2. ASSUME NEW m \in OpenFids(r) \cup {k} PROVE m \in OpenFids(r2)
    <3>1. CASE m = k
      BY <1>1, <1>4, <1>6, <1>10, <3>1 DEF OpenFids
    <3>2. CASE m # k
      <4>1. PICK z \in DOMAIN r : r[z].open /\ m = r[z].fid  BY <3>2 DEF OpenFids
      <4> QED BY <1>1, <1>4, <1>10, <3>2, <4>1 DEF OpenFids
    <3> QED BY <3>1, <3>2
  <2> QED BY <2>1, <2>2
<1>12. b = FALSE => OpenFids(r2) = OpenFids(r) \ {k}
  <2> SUFFICES ASSUME b = FALSE PROVE OpenFids(r2) = OpenFids(r) \ {k}
    OBVIOUS
  <2>1. ASSUME NEW m \in OpenFids(r2) PROVE m \in OpenFids(r) \ {k}
    <3>1. PICK z \in DOMAIN r2 : r2[z].open /\ m = r2[z].fid  BY DEF OpenFids
    <3>2. z # p  BY <1>6, <1>10, <3>1
    <3>3. z \in DOMAIN r /\ r2[z] = r[z]  BY <1>4, <1>10, <3>2
    <3> QED BY <1>9, <3>1, <3>2, <3>3 DEF OpenFids
  <2>2. ASSUME NEW m \in OpenFids(r) \ {k} PROVE m \in OpenFids(r2)
    <3>1. PICK z \in DOMAIN r : r[z].open /\ m = r[z].fid  BY DEF OpenFids
    <3> QED BY <1>1, <1>4, <1>10, <3>1 DEF OpenFids
  <2> QED BY <2>1, <2>2
<1>13. r[p].type = "file" /\ (\A z \in DOMAIN r : r[z].open => r[z].type = "file")
         => \A z \in DOMAIN r2 : r2[z].open => r2[z].type = "file"
  BY <1>4, <1>6, <1>10
<1> QED BY <1>1, <1>7, <1>8, <1>11, <1>12, <1>13 DEF OpenChanged

\* FileOpen
LEMMA FileOpenIs ==
  ASSUME NEW f, NEW r, Mounted(f, r), NEW p \in DOMAIN r, r[p].type = "file", ~r[p].open,
         NEW x, x = FileOpen(f, p)
  PROVE  /\ x.saved = f.saved
         /\ x.open = f.open => Mounted(x, r)
         /\ x.open # f.open => Mounted(x, SetOpen(r, p, TRUE))
<1>1. PICK c, d, w, k, h, P :
         /\ c = Content(f) /\ d = FidAt(r, Up(p)) /\ w = Walk(f, p) /\ k = r[p].fid
         /\ h = CloseInode(w, d) /\ P = {}
  OBVIOUS
<1>2. /\ PagesOK(f, P) /\ TreeOK(c, r, P) /\ RefOK(r) /\ NodesOK(c) /\ Up(p) \in DirPaths(r) /\ p \in Paths
      /\ k \notin Refs(f)
  BY <1>1, MountedSound, UpOf DEF Sound
<1>3. Reads(f, w, P) /\ d \in Cached(w)  BY <1>1, <1>2, WalkIs
<1>4. Content(w) = c  BY <1>1, <1>3 DEF Reads
<1>5. Parent(c, p) = d /\ Lookup(c, p) = k
  <2>1. Lookup(c, p) = FidOrNone(r, p)  BY <1>2, LookupIs
  <2> QED BY <1>1, <1>2, <2>1, ParentIs DEF FidOrNone
<1>6. Mounted(w, r) /\ w.saved = f.saved /\ w.open = f.open
  BY <1>1, <1>3, MountedReads DEF Reads, Keeps
<1>7. Sound(h, r, P) /\ Content(h) = c /\ Keeps(w, h)
  <2>1. PICK z : z = Up(p)  OBVIOUS
  <2>2. Sound(w, r, P) /\ z \in DirPaths(r) /\ d = FidAt(r, z)
    BY <1>1, <1>2, <1>6, <2>1, MountedSound
  <2> QED BY <1>1, <1>3, <1>4, <2>2, CloseDir
<1>8. Mounted(h, r) /\ h.saved = f.saved /\ h.open = f.open
  BY <1>1, <1>6, <1>7 DEF Mounted, Sound, Keeps
<1>9. CASE Cardinality(h.open) >= MaxOpen
  <2>1. x = h  BY <1>1, <1>4, <1>5, <1>9 DEF FileOpen
  <2> QED BY <1>8, <2>1
<1>10. CASE ~(Cardinality(h.open) >= MaxOpen)
  <2>1. PICK a, b, S, v : a = ReadNode(h, k) /\ v = 1 /\ b = WithRef(a, k, v) /\ S = b.open \cup {k}
    OBVIOUS
  <2>2. k \in Nid /\ c[k] \in Node /\ PagesOK(h, P) /\ IsInode(c[k])
    <3>1. k \in Nid /\ IsInode(c[k])  BY <1>1, <1>2, TreeFids
    <3> QED BY <1>1, <1>2, <1>7, <3>1, KindOf DEF Sound
  <2>3. Reads(h, a, P) /\ k \in Cached(a)  BY <1>7, <2>1, <2>2, ReadNodeReads
  <2>4. PagesOK(a, P) /\ Content(a) = c /\ Keeps(h, a)  BY <1>7, <2>3 DEF Reads
  <2>5. /\ PagesOK(b, P) /\ Content(b) = c /\ Refs(b) = Refs(a) \cup {k}
        /\ b.open = a.open /\ b.saved = a.saved /\ b.failed = a.failed
    <3>1. v \in {0, 1}  BY <2>1
    <3> QED BY <2>1, <2>3, <2>4, <3>1, WithRefIs
  <2>6. x = WithOpen(b, S)
    <3>1. x = [a EXCEPT !.cache[k].ref = 1, !.open = @ \cup {k}]
      BY <1>1, <1>4, <1>5, <1>10, <2>1 DEF FileOpen
    <3> QED BY <2>1, <2>5, <3>1 DEF WithOpen, WithRef
  <2>7. S \in SUBSET Nid /\ S = f.open \cup {k}
    <3>1. S = f.open \cup {k}  BY <1>8, <2>1, <2>4, <2>5 DEF Keeps
    <3>2. f.open \in SUBSET Nid  BY <1>2, FsIs DEF PagesOK
    <3> QED BY <2>2, <3>1, <3>2
  <2>8. /\ PagesOK(x, P) /\ Content(x) = c /\ Refs(x) = Refs(b)
        /\ x.open = S /\ x.saved = b.saved /\ x.failed = b.failed
    BY <2>5, <2>6, <2>7, WithOpenIs
  <2>9. PICK r2 : r2 = SetOpen(r, p, TRUE)  OBVIOUS
  <2>10. /\ ~h.failed /\ Refs(h) = {Root} \cup h.open /\ h.open = OpenFids(r)
         /\ \A z \in DOMAIN r : r[z].open => r[z].type = "file"
    BY <1>8 DEF Mounted
  <2>11. /\ TreeOK(c, r2, P) /\ OpenFids(r2) = OpenFids(r) \cup {k}
         /\ \A z \in DOMAIN r2 : r2[z].open => r2[z].type = "file"
    <3>1. PICK t \in BOOLEAN : t = TRUE  OBVIOUS
    <3>2. r2 = SetOpen(r, p, t)  BY <2>9, <3>1
    <3>3. TreeOK(c, r2, P) /\ OpenChanged(r, r2, p, t)  BY <1>2, <3>1, <3>2, SetOpenIs
    <3> QED BY <1>1, <2>10, <3>1, <3>3 DEF OpenChanged
  <2>12. Mounted(x, r2) /\ x.saved = f.saved
    BY <1>1, <1>8, <2>4, <2>5, <2>7, <2>8, <2>10, <2>11 DEF Mounted, Keeps
  <2>13. x.open # f.open
    <3>1. k \notin f.open  BY <1>2 DEF Mounted
    <3> QED BY <2>7, <2>8, <3>1
  <2> QED BY <2>9, <2>12, <2>13
<1> QED BY <1>9, <1>10

\* FileClose
LEMMA FileCloseIs ==
  ASSUME NEW f, NEW r, Mounted(f, r), NEW p \in DOMAIN r, r[p].open, NEW k, k = r[p].fid,
         NEW x, x = FileClose(f, k), NEW r2, r2 = SetOpen(r, p, FALSE)
  PROVE  Mounted(x, r2) /\ (x.saved = f.saved \/ Disk(x.saved, r2))
<1>1. PICK c, P, v, e, S, g, h :
         /\ c = Content(f) /\ P = {} /\ v = 0 /\ e = WithRef(f, k, v) /\ S = f.open \ {k} /\ g = WithOpen(e, S)
         /\ h = CloseInode(g, k)
  OBVIOUS
<1>2. /\ PagesOK(f, P) /\ TreeOK(c, r, P) /\ RefsOK(f) /\ Root \in Refs(f) /\ RefOK(r) /\ NodesOK(c)
      /\ k \in Refs(f)
  BY <1>1, MountedSound DEF Sound
<1>3. k \in Nid /\ IsInode(c[k]) /\ k # Root /\ c[k].nlink = 1
  <2>1. k \in Nid /\ IsInode(c[k]) /\ k # Root /\ NodeIs(c, r[p])  BY <1>2, TreeFids DEF TreeOK
  <2> QED BY <2>1 DEF NodeIs
<1>4. k \in Cached(f) /\ v \in {0, 1} /\ S \in SUBSET Nid
  <2>1. f.open \in SUBSET Nid  BY <1>2, FsIs DEF PagesOK
  <2> QED BY <1>1, <1>2, <2>1 DEF Cached, Refs
<1>5. /\ PagesOK(e, P) /\ Content(e) = c /\ Cached(e) = Cached(f) /\ Refs(e) = Refs(f) \ {k}
      /\ e.open = f.open /\ e.saved = f.saved /\ e.failed = f.failed
  BY <1>1, <1>2, <1>4, WithRefIs
<1>6. /\ PagesOK(g, P) /\ Content(g) = c /\ Cached(g) = Cached(f) /\ Refs(g) = Refs(f) \ {k}
      /\ g.open = S /\ g.saved = f.saved /\ g.failed = f.failed
  BY <1>1, <1>4, <1>5, WithOpenIs
<1>7. g = [f EXCEPT !.cache[k].ref = 0, !.open = @ \ {k}]  BY <1>1, <1>5 DEF WithOpen, WithRef
<1>8. x = h \/ x = SyncFs(h)  BY <1>1, <1>7 DEF FileClose
<1>9. /\ ~f.failed /\ Refs(f) = {Root} \cup f.open /\ f.open = OpenFids(r)
      /\ \A z \in DOMAIN r : r[z].open => r[z].type = "file"
  BY DEF Mounted
<1>10. /\ TreeOK(c, r2, P) /\ OpenFids(r2) = OpenFids(r) \ {k}
       /\ \A z \in DOMAIN r2 : r2[z].open => r2[z].type = "file"
  <2>1. PICK t \in BOOLEAN : t = FALSE  OBVIOUS
  <2>2. r2 = SetOpen(r, p, t)  BY <2>1
  <2>3. TreeOK(c, r2, P) /\ OpenChanged(r, r2, p, t)  BY <1>2, <2>2, SetOpenIs
  <2> QED BY <1>9, <2>1, <2>3 DEF OpenChanged
<1>11. Sound(g, r2, P)  BY <1>1, <1>2, <1>3, <1>6, <1>10 DEF Sound, RefsOK
<1>12. Sound(h, r2, P) /\ Content(h) = c /\ Keeps(g, h)
  <2>1. k \in Cached(g) /\ IsInode(Content(g)[k]) /\ Content(g)[k].nlink = 1
    BY <1>3, <1>4, <1>6
  <2>2. Sound(g, r2, P) /\ k \in Cached(g) /\ IsInode(Content(g)[k])
        /\ (k \in Refs(g) \/ Content(g)[k].nlink = 1) /\ h = CloseInode(g, k)
    BY <1>1, <1>11, <2>1
  <2>3. Sound(h, r2, P) /\ Content(h) = Content(g) /\ Keeps(g, h)  BY ONLY <2>2, CloseHeld
  <2> QED BY <1>6, <2>3
<1>13. Mounted(h, r2) /\ h.saved = f.saved
  <2>1. Refs(g) = {Root} \cup S  BY <1>1, <1>3, <1>6, <1>9
  <2>2. h.open = S /\ h.saved = f.saved /\ h.failed = f.failed /\ Refs(h) = {Root} \cup S
    BY <1>6, <1>12, <2>1 DEF Keeps
  <2>3. S = OpenFids(r2)  BY <1>1, <1>9, <1>10
  <2>4. PagesOK(h, {}) /\ TreeOK(Content(h), r2, {})  BY <1>1, <1>12 DEF Sound
  <2> QED BY <1>9, <1>10, <2>2, <2>3, <2>4 DEF Mounted
<1>14. CASE x = SyncFs(h)
  <2>1. PagesOK(h, {})  BY <1>13 DEF Mounted
  <2>2. /\ PagesOK(x, {}) /\ Content(x) = Content(h) /\ x.saved = Content(h)
        /\ Refs(x) = Refs(h) /\ x.open = h.open /\ x.failed = h.failed
    BY <1>14, <2>1, SyncFsIs
  <2>3. Mounted(x, r2)  BY <1>13, <2>2 DEF Mounted
  <2>4. Disk(x.saved, r2)  BY <1>1, <1>10, <1>12, <2>2 DEF Disk
  <2> QED BY <2>3, <2>4
<1> QED BY <1>8, <1>13, <1>14

\* The size of a file of the reference is set.
SetSize(r, p, s) == [r EXCEPT ![p].size = s]

\* What a reference with another size has.
LEMMA SetSizeIs ==
  ASSUME NEW r, RefOK(r), NEW p \in DOMAIN r, NEW s \in 0 .. MaxFile, NEW r2, r2 = SetSize(r, p, s)
  PROVE  /\ SameRef(r, r2) /\ r2[p] \in RefFile /\ r2[p].size = s /\ \A z \in DOMAIN r \ {p} : r2[z] = r[z]
         /\ OpenFids(r2) = OpenFids(r)
         /\ (\A z \in DOMAIN r : r[z].open => r[z].type = "file")
              => \A z \in DOMAIN r2 : r2[z].open => r2[z].type = "file"
<1>1. r[p] \in RefFile  BY DEF RefOK
<1>2. PICK e : e = [r[p] EXCEPT !.size = s]  OBVIOUS
<1>3. e \in RefFile /\ e.fid = r[p].fid /\ e.type = r[p].type /\ e.size = s /\ e.open = r[p].open
  BY <1>1, <1>2 DEF RefFile
<1>4. DOMAIN r2 = DOMAIN r /\ r2[p] = e /\ \A z \in DOMAIN r \ {p} : r2[z] = r[z]
  BY <1>2 DEF SetSize
<1>5. \A z \in DOMAIN r : r2[z].fid = r[z].fid /\ r2[z].type = r[z].type /\ r2[z].open = r[z].open
  BY <1>3, <1>4
<1>6. OpenFids(r2) = OpenFids(r)  BY <1>4, <1>5 DEF OpenFids
<1> QED BY <1>3, <1>4, <1>5, <1>6 DEF SameRef

\* The blocks from .. at - 1 of a file have been written.
Rewritten(c, c2, k, from, at, data) ==
    \A b \in Blocks : BlockAt(c2, k, b) = IF from <= b /\ b < at THEN data[b] ELSE BlockAt(c, k, b)

\* The larger of two sizes.
Larger(a, b) == IF a >= b THEN a ELSE b

\* What a write writes to a file.
OwnData(k, from, at, data) == \A b \in from .. at - 1 : data[b] = [fid |-> k, off |-> b]

\* The blocks of a file after a write up to block at.
LEMMA WriteFills ==
  ASSUME NEW c, NEW k, NEW size \in 0 .. MaxFile, FileOK(c, k, size), NEW from \in Nat, from <= size,
         NEW at \in Nat, from <= at, at <= MaxFile, NEW data,
         OwnData(k, from, at, data), NEW s, s = Larger(size, at), NEW c2, c2[k].size = s,
         Rewritten(c, c2, k, from, at, data)
  PROVE  FileOK(c2, k, s)
<1>1. SUFFICES ASSUME NEW b \in Blocks
               PROVE  BlockAt(c2, k, b) = IF b < s THEN [fid |-> k, off |-> b] ELSE None
  BY DEF FileOK
<1>2. BlockAt(c, k, b) = IF b < size THEN [fid |-> k, off |-> b] ELSE None  BY DEF FileOK
<1>3. b \in Nat  BY Ranges DEF Blocks
<1>4. CASE from <= b /\ b < at
  <2>1. b \in from .. at - 1 /\ b < s  BY <1>3, <1>4 DEF Larger
  <2> QED BY <1>4, <2>1 DEF Rewritten, OwnData
<1>5. CASE ~(from <= b /\ b < at)
  <2>1. b < s <=> b < size  BY <1>3, <1>5 DEF Larger
  <2> QED BY <1>2, <1>5, <2>1 DEF Rewritten
<1> QED BY <1>4, <1>5

\* The size of the file grows to what was written.
LEMMA GrownIs ==
  ASSUME NEW f, NEW P, PagesOK(f, P), NEW c, c = Content(f), NodesOK(c), NEW d \in Cached(f), IsInode(c[d]),
         NEW at \in 0 .. IndexSize * IndexTable, NEW s, s = [fs |-> f, at |-> at],
         NEW from, at # from, NEW to, NEW w, w = Grown(s, d, from, to), NEW g, g = w.fs, NEW e, e = Content(g)
  PROVE  /\ PagesOK(g, P) /\ Keeps(f, g) /\ w.at = at
         /\ Local(c, e, d) /\ e[d].size = Larger(c[d].size, at)
         /\ \A b \in Blocks : BlockAt(e, d, b) = BlockAt(c, d, b)
<1>1. d \in Nid /\ f.cache[d].page = c[d] /\ c[d] \in Inode /\ c[d] \in Node
  BY PageSeen, InodeOK, KindOf
<1>2. PICK z : z = Larger(c[d].size, at)  OBVIOUS
<1>3. c[d].size \in Nat /\ c[d].size \in 0 .. IndexSize * IndexTable /\ at \in Nat
  BY <1>1, InodeIs, Ranges
<1>4. z = Max({c[d].size, at}) /\ z \in 0 .. IndexSize * IndexTable
  BY <1>2, <1>3, MaxTwo DEF Larger
<1>5. PICK y : y = [c[d] EXCEPT !.size = z]  OBVIOUS
<1>6. y \in Inode /\ y \in Node  BY <1>1, <1>4, <1>5, InodeSize, InodeIs
<1>7. w = [fs |-> Modify(f, d, y), at |-> at]
  <2>1. s.fs = f /\ s.at = at  OBVIOUS
  <2>2. PICK m : m = Modify(s.fs, d, [s.fs.cache[d].page EXCEPT !.size = Max({@, s.at})])
    OBVIOUS
  <2>3. m = Modify(f, d, [f.cache[d].page EXCEPT !.size = Max({@, at})])  BY <2>1, <2>2
  <2>4. w = [s EXCEPT !.fs = m]  BY <2>1, <2>2 DEF Grown
  <2>5. w = [fs |-> m, at |-> at]  BY ONLY <2>4, s = [fs |-> f, at |-> at]
  <2> QED BY <1>1, <1>4, <1>5, <2>3, <2>5
<1>8. g = Modify(f, d, y) /\ w.at = at  BY <1>7
<1>9. PagesOK(g, P) /\ Content(g) = [c EXCEPT ![d] = y] /\ Keeps(f, g)
  BY <1>1, <1>6, <1>8, ModifyIs
<1>10. e = Resized(c, d, z)  BY <1>5, <1>9 DEF Resized, Put
<1>11. Local(c, e, d) /\ e[d].size = z /\ \A b \in Blocks : BlockAt(e, d, b) = BlockAt(c, d, b)
  BY <1>1, <1>4, <1>10, ResizedIs
<1> QED BY <1>2, <1>8, <1>9, <1>11

\* What FileWrite does to a file of the reference.
WriteDone(f, w, r, p, from, to) ==
    /\ w.at \in from .. to /\ w.fs.saved = f.saved
    /\ Mounted(w.fs, SetSize(r, p, Max({r[p].size, w.at})))

\* FileWrite: the file has the blocks up to the one that was refused.
LEMMA FileWriteIs ==
  ASSUME NEW f, NEW r, Mounted(f, r), NEW p \in DOMAIN r, r[p].open, NEW k, k = r[p].fid,
         NEW from \in Nat, NEW to \in Nat, from <= to, from <= r[p].size, to <= MaxFile,
         NEW w \in FileWrite(f, k, from, to)
  PROVE  WriteDone(f, w, r, p, from, to)
<1>1. PICK c, P, data, size : c = Content(f) /\ P = {} /\ data = [b \in from .. to - 1 |-> [fid |-> k, off |-> b]]
                             /\ size = r[p].size
  OBVIOUS
<1>2. PICK no, s : s = FileWriteInternal(f, k, from, to, data, no) /\ w = Grown(s, k, from, to)
  BY <1>1 DEF FileWrite
<1>3. /\ PagesOK(f, P) /\ TreeOK(c, r, P) /\ RefOK(r) /\ NodesOK(c) /\ k \in Cached(f) /\ RefsOK(f)
      /\ Root \in Refs(f)
  BY <1>1, MountedSound DEF Sound, Refs, Cached
<1>4. k \in Nid /\ IsInode(c[k]) /\ NodeIs(c, r[p]) /\ r[p] \in RefFile
  BY <1>3, TreeFids DEF TreeOK
<1>5. /\ ~f.failed /\ Refs(f) = {Root} \cup f.open /\ f.open = OpenFids(r)
      /\ \A z \in DOMAIN r : r[z].open => r[z].type = "file"
  BY DEF Mounted
<1>6. r[p].type = "file" /\ FileOK(c, k, size) /\ size \in 0 .. MaxFile /\ c[k].size = size
  BY <1>1, <1>4, <1>5 DEF NodeIs, RefFile, FileOK
<1>7. MaxFile \in 0 .. IndexSize * IndexTable /\ MaxFile \in Nat  BY FileAssumption
<1>8. \A b \in from .. to - 1 : data[b] = [fid |-> k, off |-> b] /\ data[b] \in FileData \cup DentryBlock
  BY <1>1, <1>4, <1>7 DEF FileData
<1>9. WroteUpTo(s, f, P, k, from, to, data)
  <2>1. to <= IndexSize * IndexTable  BY <1>7, Ranges
  <2> QED BY <1>1, <1>2, <1>3, <1>4, <1>8, <2>1, FileWrittenIs
<1>10. PICK g, at : g = s.fs /\ at = s.at  OBVIOUS
<1>11. s = [fs |-> g, at |-> at] /\ at \in from .. to /\ Wrote(f, g, P, k, from, at, data)
  BY <1>9, <1>10 DEF WroteUpTo, IsLoop
<1>12. PICK e : e = Content(g)  OBVIOUS
<1>13. /\ PagesOK(g, P) /\ Keeps(f, g) /\ k \in Cached(g) /\ Local(c, e, k) /\ e[k].size = size
       /\ \A b \in Blocks : BlockAt(e, k, b) = IF from <= b /\ b < at THEN data[b] ELSE BlockAt(c, k, b)
  BY <1>1, <1>3, <1>6, <1>11, <1>12 DEF Wrote
<1>14. PICK x, e2, z : x = w.fs /\ e2 = Content(x) /\ z = Larger(size, at)  OBVIOUS
<1>15. at \in Nat /\ at <= MaxFile /\ from <= at /\ z \in 0 .. MaxFile /\ z = Max({size, at})
  BY <1>6, <1>7, <1>11, <1>14, MaxTwo DEF Larger
<1>16. /\ PagesOK(x, P) /\ Keeps(g, x) /\ w.at = at /\ Local(e, e2, k) /\ e2[k].size = z
       /\ \A b \in Blocks : BlockAt(e2, k, b) = BlockAt(e, k, b)
  <2>1. CASE at = from
    <3>1. w = s  BY <1>2, <1>10, <2>1 DEF Grown
    <3>2. x = g /\ w.at = at /\ e2 = e  BY <1>10, <1>12, <1>14, <3>1
    <3>3. NodesOK(e)  BY <1>13 DEF Local
    <3>4. size >= at /\ z = size  BY <1>1, <1>6, <1>14, <2>1 DEF Larger
    <3> QED BY <1>13, <3>2, <3>3, <3>4, LocalRefl DEF Keeps
  <2>2. CASE at # from
    <3>1. NodesOK(e) /\ IsInode(e[k])  BY <1>4, <1>13 DEF Local
    <3>2. at \in 0 .. IndexSize * IndexTable  BY <1>7, <1>15, Ranges
    <3>3. /\ PagesOK(x, P) /\ Keeps(g, x) /\ w.at = at /\ Local(e, e2, k)
          /\ e2[k].size = Larger(e[k].size, at)
          /\ \A b \in Blocks : BlockAt(e2, k, b) = BlockAt(e, k, b)
      <4>1. /\ PagesOK(g, P) /\ e = Content(g) /\ NodesOK(e) /\ k \in Cached(g) /\ IsInode(e[k])
            /\ at \in 0 .. IndexSize * IndexTable /\ s = [fs |-> g, at |-> at] /\ at # from
            /\ w = Grown(s, k, from, to) /\ x = w.fs /\ e2 = Content(x)
        BY <1>2, <1>11, <1>12, <1>13, <1>14, <2>2, <3>1, <3>2
      <4> QED BY ONLY <4>1, GrownIs
    <3> QED BY <1>13, <1>14, <3>3
  <2> QED BY <2>1, <2>2
<1>17. Local(c, e2, k)  BY <1>13, <1>16, LocalTrans
<1>18. FileOK(e2, k, z)
  <2>1. Rewritten(c, e2, k, from, at, data)  BY <1>13, <1>16 DEF Rewritten
  <2>2. OwnData(k, from, at, data)  BY <1>8, <1>11 DEF OwnData
  <2>3. /\ size \in 0 .. MaxFile /\ FileOK(c, k, size) /\ from \in Nat /\ from <= size /\ at \in Nat
        /\ from <= at /\ at <= MaxFile /\ z = Larger(size, at) /\ e2[k].size = z
    BY <1>1, <1>6, <1>14, <1>15, <1>16
  <2> QED BY ONLY <2>1, <2>2, <2>3, WriteFills
<1>19. PICK r2 : r2 = SetSize(r, p, z)  OBVIOUS
<1>20. /\ SameRef(r, r2) /\ r2[p] \in RefFile /\ r2[p].size = z /\ \A y \in DOMAIN r \ {p} : r2[y] = r[y]
       /\ OpenFids(r2) = OpenFids(r) /\ \A y \in DOMAIN r2 : r2[y].open => r2[y].type = "file"
  <2>1. RefOK(r) /\ p \in DOMAIN r /\ z \in 0 .. MaxFile /\ r2 = SetSize(r, p, z)
    BY <1>3, <1>15, <1>19
  <2>2. /\ SameRef(r, r2) /\ r2[p] \in RefFile /\ r2[p].size = z /\ \A y \in DOMAIN r \ {p} : r2[y] = r[y]
        /\ OpenFids(r2) = OpenFids(r)
        /\ (\A y \in DOMAIN r : r[y].open => r[y].type = "file")
             => \A y \in DOMAIN r2 : r2[y].open => r2[y].type = "file"
    BY ONLY <2>1, SetSizeIs
  <2> QED BY <1>5, <2>2
<1>21. TreeOK(e2, r2, P)  BY <1>3, <1>6, <1>15, <1>17, <1>18, <1>20, TreeWritten
<1>22. x.open = f.open /\ x.saved = f.saved /\ x.failed = f.failed /\ Refs(x) = Refs(f)
  BY <1>13, <1>16 DEF Keeps
<1>23. Mounted(x, r2)  BY <1>1, <1>5, <1>14, <1>16, <1>20, <1>21, <1>22 DEF Mounted
<1> QED BY <1>1, <1>11, <1>14, <1>15, <1>16, <1>19, <1>22, <1>23 DEF WriteDone

-------------------------------------------------------------------------------
(* Mounting. *)

\* A reference of which no file is open.
AllClosed(r) == \A p \in DOMAIN r : ~r[p].open

\* Mount of an image that is the tree of a reference.
LEMMA MountIs ==
  ASSUME NEW c, NEW r, TreeOK(c, r, {}), AllClosed(r), \A n \in Nid : c[n] # InUse, NEW f, f = Mount(c)
  PROVE  Mounted(f, r) /\ Content(f) = c /\ f.saved = c
<1>1. NodesOK(c) /\ c \in [Nid -> Node \cup {None, InUse}] /\ Root \in Nid /\ IsInode(c[Root]) /\ RefOK(r)
  BY TreeFids DEF TreeOK, NodesOK
<1>2. PICK F : F = {n \in Nid : c[n] = None}  OBVIOUS
<1>3. F \in SUBSET Nid /\ IsFiniteSet(F) /\ Cardinality(F) \in Nat /\ Cardinality(F) <= NodeNr
  <2>1. F \in SUBSET Nid  BY <1>2
  <2>2. IsFiniteSet(F) /\ Cardinality(F) <= Cardinality(Nid)  BY <2>1, NidFinite, FS_Subset
  <2> QED BY <2>1, <2>2, NidFinite, FS_CardinalityType
<1>4. PICK q : q = [page |-> c[Root], dirty |-> FALSE, ref |-> 1]  OBVIOUS
<1>5. c[Root] \in Node /\ c[Root] # None  BY <1>1, KindOf DEF IsInode
<1>6. q \in Page /\ q # None /\ q.page = c[Root] /\ q.dirty = FALSE /\ q.ref = 1
  <2>1. q \in Page /\ q.page = c[Root] /\ q.dirty = FALSE /\ q.ref = 1  BY <1>4, <1>5 DEF Page
  <2> QED BY <2>1, Marks
<1>7. /\ f.nat = c /\ f.saved = c /\ f.open = {} /\ f.failed = FALSE
      /\ f.next = (IF F = {} THEN NodeNr ELSE Min(F)) /\ f.free = Cardinality(F)
      /\ f.cache = [n \in Nid |-> IF n # Root THEN None ELSE q]
  <2>1. f.cache = [n \in Nid |-> IF n # Root THEN None ELSE [page |-> c[n], dirty |-> FALSE, ref |-> 1]]
    BY DEF Mount
  <2>2. f.cache = [n \in Nid |-> IF n # Root THEN None ELSE q]  BY <1>4, <2>1
  <2> QED BY <1>2, <2>2 DEF Mount
<1>8. f.next \in 0 .. NodeNr
  <2>1. CASE F = {}
    BY <1>7, <2>1, Ranges
  <2>2. CASE F # {}
    <3>1. F \in SUBSET Nat  BY <1>3 DEF Nid
    <3>2. \E n \in F : \A m \in F : n <= m  BY <2>2, <3>1, Least
    <3>3. Min(F) \in F  BY <3>2 DEF Min
    <3>4. PICK m : m = Min(F)  OBVIOUS
    <3>5. m \in Nid /\ f.next = m  BY <1>3, <1>7, <2>2, <3>3, <3>4
    <3> QED BY <3>5, Ranges DEF Nid
  <2> QED BY <2>1, <2>2
<1>9. f.cache \in [Nid -> Page \cup {None}] /\ f.cache[Root] = q /\ \A n \in Nid \ {Root} : f.cache[n] = None
  BY <1>1, <1>6, <1>7
<1>10. f \in Fs
  <2>1. f = [nat |-> f.nat, next |-> f.next, free |-> f.free, cache |-> f.cache, open |-> f.open,
             saved |-> f.saved, failed |-> f.failed]
    BY DEF Mount
  <2>2. f.free \in 0 .. NodeNr  BY <1>3, <1>7, Ranges
  <2>3. f.open \in SUBSET Nid /\ f.failed \in BOOLEAN /\ f.nat \in [Nid -> Node \cup {None, InUse}]
        /\ f.saved \in [Nid -> Node \cup {None, InUse}]
    BY <1>1, <1>7
  <2> QED BY <1>8, <1>9, <2>1, <2>2, <2>3 DEF Fs
<1>11. PagesOK(f, {})
  <2>1. f.free = Cardinality({n \in Nid : f.nat[n] = None})  BY <1>2, <1>7
  <2>2. ASSUME NEW n \in Nid
        PROVE  PageOK(f.nat[n], f.cache[n], n \in {})
    <3>1. f.nat[n] = c[n] /\ c[n] # InUse  BY <1>7
    <3>2. CASE n = Root
      BY <1>5, <1>6, <1>9, <3>1, <3>2 DEF PageOK
    <3>3. CASE n # Root
      BY <1>9, <3>1, <3>3 DEF PageOK
    <3> QED BY <3>2, <3>3
  <2> QED BY <1>10, <2>1, <2>2 DEF PagesOK
<1>12. Content(f) = c
  <2>1. \A n \in Nid : Content(f)[n] = c[n]  BY <1>6, <1>7, <1>9 DEF Content
  <2>2. c = [n \in Nid |-> c[n]]  BY <1>1
  <2> QED BY <2>1, <2>2, ContentEq
<1>13. Refs(f) = {Root}  BY <1>1, <1>6, <1>9 DEF Refs
<1>14. OpenFids(r) = {}  BY DEF OpenFids, AllClosed
<1>15. \A p \in DOMAIN r : r[p].open => r[p].type = "file"  BY DEF AllClosed
<1> QED BY <1>7, <1>11, <1>12, <1>13, <1>14, <1>15 DEF Mounted

\* The paths, types and sizes of the tree.
Shape(r) == [p \in DOMAIN r |-> [type |-> r[p].type, size |-> r[p].size]]

\* The nodes show the paths of the reference.
LEMMA TreeIs ==
  ASSUME NEW c, NEW r, NEW X, TreeOK(c, r, X)
  PROVE  Tree(c) = Shape(r)
<1>1. RefOK(r)  BY DEF TreeOK
<1>2. {q \in Paths : Lookup(c, q) # None} = DOMAIN r
  <2>1. \A q \in Paths : Lookup(c, q) = FidOrNone(r, q)  BY LookupIs
  <2>2. \A q \in DOMAIN r : q \in Paths /\ r[q].fid # None  BY TreeFids
  <2> QED BY <2>1, <2>2 DEF FidOrNone
<1>3. ASSUME NEW p \in DOMAIN r
      PROVE  (LET node == c[Lookup(c, p)]
              IN  IF ~IsInode(node) THEN [type |-> "lost", size |-> 0]
                  ELSE [type |-> node.type, size |-> IF node.type = "dir" THEN 0 ELSE node.size])
              = [type |-> r[p].type, size |-> r[p].size]
  <2>1. p \in Paths /\ IsInode(c[r[p].fid]) /\ NodeIs(c, r[p]) /\ r[p] \in RefFile
    BY TreeFids DEF TreeOK
  <2>2. Lookup(c, p) = r[p].fid  BY <2>1, LookupIs DEF FidOrNone
  <2>3. c[r[p].fid].type = r[p].type /\ r[p].type \in {"dir", "file"}
    BY <2>1 DEF NodeIs, RefFile
  <2>4. r[p].type = "dir" => r[p].size = 0  BY <1>1 DEF RefOK
  <2>5. r[p].type = "file" => c[r[p].fid].size = r[p].size  BY <2>1 DEF NodeIs, FileOK
  <2> QED BY <2>1, <2>2, <2>3, <2>4, <2>5
<1> QED BY <1>2, <1>3 DEF Tree, Shape

\* The verification of a tree against its reference succeeds.
LEMMA TreeVerifies ==
  ASSUME NEW c, NEW r, NEW X, TreeOK(c, r, X)
  PROVE  Verifies(c, r)
<1>1. Tree(c) = [p \in DOMAIN r |-> [type |-> r[p].type, size |-> r[p].size]]
  BY TreeIs DEF Shape
<1>2. ASSUME NEW p \in DOMAIN r, r[p].type = "file", NEW b \in 0 .. r[p].size - 1
      PROVE  BlockAt(c, Lookup(c, p), b) = [fid |-> Lookup(c, p), off |-> b]
  <2>1. p \in Paths /\ NodeIs(c, r[p]) /\ r[p] \in RefFile  BY TreeFids DEF TreeOK
  <2>2. Lookup(c, p) = r[p].fid  BY <2>1, LookupIs DEF FidOrNone
  <2>3. FileOK(c, r[p].fid, r[p].size) /\ r[p].size \in 0 .. MaxFile
    BY <1>2, <2>1 DEF NodeIs, RefFile
  <2>4. MaxFile \in Nat /\ MaxFile <= IndexSize * IndexTable /\ IndexSize * IndexTable \in Nat
    BY FileAssumption
  <2>5. b \in Blocks /\ b < r[p].size  BY <2>3, <2>4 DEF Blocks
  <2> QED BY <2>2, <2>3, <2>5 DEF FileOK
<1> QED BY <1>1, <1>2 DEF Verifies

\* The verification changes nothing but the cache.
LEMMA AfterVerifyIs ==
  ASSUME NEW f, NEW r, Mounted(f, r), NEW r2, Verifies(Content(f), r2), NEW g, g = AfterVerify(f, r2)
  PROVE  Mounted(g, r) /\ Content(g) = Content(f) /\ g.saved = f.saved
<1>1. g = f \/ g = ReadDir(f, Root)  BY DEF AfterVerify
<1>2. CASE g = ReadDir(f, Root)
  <2>1. PICK P, c : P = {} /\ c = Content(f)  OBVIOUS
  <2>2. PagesOK(f, P) /\ NodesOK(c) /\ TreeOK(c, r, P)  BY <2>1, MountedSound DEF Sound
  <2>3. Root \in Nid /\ IsInode(c[Root])  BY <2>2, TreeFids
  <2>4. Reads(f, g, P)  BY <1>2, <2>1, <2>2, <2>3, ReadDirIs
  <2>5. Reads(f, g, {})  BY <2>1, <2>4
  <2> QED BY <2>5, MountedReads DEF Reads
<1> QED BY <1>1, <1>2

\* The open files, closed by force one after the other.
ClosedBy(u, f, m) ==
    u = [n \in 0 .. m |-> IF n = 0 THEN f ELSE ForceClose(u[n - 1], n - 1)]

\* Closing the files one after the other.
LEMMA ClosedByExists ==
  ASSUME NEW f, NEW m \in Nat
  PROVE  \E u : ClosedBy(u, f, m)
<1> DEFINE S == {n \in Nat : \E u : ClosedBy(u, f, n)}
<1>1. 0 \in S
  <2>1. PICK u : u = [n \in 0 .. 0 |-> f]  OBVIOUS
  <2>2. \A n \in 0 .. 0 : n = 0  OBVIOUS
  <2>3. ClosedBy(u, f, 0)  BY <2>1, <2>2 DEF ClosedBy
  <2> QED BY <2>3
<1>2. ASSUME NEW n \in Nat, n \in S
      PROVE  n + 1 \in S
  <2>1. PICK u : ClosedBy(u, f, n)  BY <1>2
  <2>2. PICK w : w = [k \in 0 .. n + 1 |-> IF k <= n THEN u[k] ELSE ForceClose(u[n], n)]
    OBVIOUS
  <2>3. ASSUME NEW k \in 0 .. n + 1
        PROVE  w[k] = IF k = 0 THEN f ELSE ForceClose(w[k - 1], k - 1)
    <3>1. CASE k <= n
      <4>1. k \in 0 .. n /\ (k # 0 => k - 1 \in 0 .. n + 1 /\ k - 1 <= n)  BY <3>1
      <4>2. w[k] = u[k] /\ (k # 0 => w[k - 1] = u[k - 1])  BY <2>2, <3>1, <4>1
      <4>3. u[k] = IF k = 0 THEN f ELSE ForceClose(u[k - 1], k - 1)  BY <2>1, <4>1 DEF ClosedBy
      <4> QED BY <4>2, <4>3
    <3>2. CASE ~(k <= n)
      <4>1. k = n + 1 /\ k - 1 = n /\ n \in 0 .. n + 1 /\ n <= n /\ k # 0  BY <3>2
      <4>2. w[k] = ForceClose(u[n], n) /\ w[n] = u[n]  BY <2>2, <3>2, <4>1
      <4> QED BY <4>1, <4>2
    <3> QED BY <3>1, <3>2
  <2>4. ClosedBy(w, f, n + 1)  BY <2>2, <2>3 DEF ClosedBy
  <2> QED BY <2>4
<1> HIDE DEF S
<1>3. Nat \subseteq S  BY <1>1, <1>2, Induct
<1> QED BY <1>3 DEF S

\* Remount is a mount of the last of them, after a checkpoint.
LEMMA RemountEnds ==
  ASSUME NEW f, NEW x, x = Remount(f)
  PROVE  \E u : ClosedBy(u, f, NodeNr) /\ x = Mount(SyncFs(u[NodeNr]).saved)
<1>1. PICK u : u = CHOOSE v : ClosedBy(v, f, NodeNr)  OBVIOUS
<1>2. ClosedBy(u, f, NodeNr)  BY <1>1, ClosedByExists, Ranges
<1>3. x = Mount(SyncFs(u[NodeNr]).saved)  BY <1>1 DEF Remount, ClosedBy
<1> QED BY <1>2, <1>3

\* The files below n have been closed: the nodes are the same, the other open files are referenced.
ClosedUpTo(g, f, r, n) ==
    /\ Sound(g, r, {}) /\ Content(g) = Content(f) /\ g.open = f.open
    /\ \A k \in f.open : k >= n => k \in Refs(g)

\* A file closed by force.
LEMMA ForceCloseIs ==
  ASSUME NEW f, NEW r, Mounted(f, r), NEW g, NEW n \in Nat, ClosedUpTo(g, f, r, n), NEW h, h = ForceClose(g, n)
  PROVE  ClosedUpTo(h, f, r, n + 1)
<1>1. f.open = OpenFids(r) /\ f.open \in SUBSET Nid  BY FsIs DEF Mounted, PagesOK
<1>2. CASE n \notin g.open
  <2>1. h = g  BY <1>2 DEF ForceClose
  <2>2. \A k \in f.open : k >= n + 1 => k >= n  BY <1>1 DEF Nid
  <2> QED BY <2>1, <2>2 DEF ClosedUpTo
<1>3. CASE n \in g.open
  <2>1. PICK c, P, v, e : c = Content(g) /\ P = {} /\ v = 0 /\ e = WithRef(g, n, v)  OBVIOUS
  <2>2. Sound(g, r, P) /\ c = Content(f) /\ g.open = f.open /\ n \in f.open
    BY <1>3, <2>1 DEF ClosedUpTo
  <2>3. n \in Refs(g) /\ n \in Cached(g) /\ n \in Nid /\ v \in {0, 1}
    BY <2>1, <2>2 DEF ClosedUpTo, Refs, Cached
  <2>4. h = CloseInode(e, n)  BY <1>3, <2>1 DEF ForceClose, WithRef
  <2>5. PagesOK(g, P) /\ RefsOK(g) /\ Root \in Refs(g) /\ TreeOK(c, r, P)
    BY <2>1, <2>2 DEF Sound
  <2>6. /\ PagesOK(e, P) /\ Content(e) = c /\ Cached(e) = Cached(g) /\ Refs(e) = Refs(g) \ {n}
        /\ e.open = g.open /\ e.saved = g.saved /\ e.failed = g.failed
    BY <2>1, <2>3, <2>5, WithRefIs
  <2>7. n # Root /\ IsInode(c[n]) /\ c[n].nlink = 1
    <3>1. PICK p \in DOMAIN r : r[p].fid = n  BY <1>1, <2>2 DEF OpenFids
    <3>2. NodeIs(c, r[p]) /\ IsInode(c[r[p].fid]) /\ r[p].fid # Root
      BY <2>5, TreeFids DEF TreeOK
    <3> QED BY <3>1, <3>2 DEF NodeIs
  <2>8. Sound(e, r, P)
    <3>1. RefsOK(e)  BY <2>1, <2>5, <2>6 DEF RefsOK
    <3>2. Root \in Refs(e)  BY <2>5, <2>6, <2>7
    <3> QED BY <2>1, <2>5, <2>6, <3>1, <3>2 DEF Sound
  <2>9. Sound(e, r, P) /\ n \in Cached(e) /\ IsInode(Content(e)[n])
        /\ (n \in Refs(e) \/ Content(e)[n].nlink = 1) /\ h = CloseInode(e, n)
    BY <2>3, <2>4, <2>6, <2>7, <2>8
  <2>10. Sound(h, r, P) /\ Content(h) = Content(e) /\ Keeps(e, h)  BY ONLY <2>9, CloseHeld
  <2>11. \A k \in f.open : k >= n + 1 => k \in Refs(g) /\ k # n
    BY <1>1, <2>2 DEF ClosedUpTo, Nid
  <2>12. h.open = f.open /\ Content(h) = Content(f) /\ Refs(h) = Refs(g) \ {n}
    BY <2>2, <2>6, <2>10 DEF Keeps
  <2>13. \A k \in f.open : k >= n + 1 => k \in Refs(h)  BY <2>11, <2>12
  <2> QED BY <2>1, <2>10, <2>12, <2>13 DEF ClosedUpTo
<1> QED BY <1>2, <1>3

\* Closing the open files leaves the nodes as they are.
LEMMA ClosedAll ==
  ASSUME NEW f, NEW r, Mounted(f, r), NEW u, ClosedBy(u, f, NodeNr)
  PROVE  PagesOK(u[NodeNr], {}) /\ Content(u[NodeNr]) = Content(f)
<1> DEFINE S == {n \in Nat : n <= NodeNr => ClosedUpTo(u[n], f, r, n)}
<1>1. 0 \in S
  <2>1. u[0] = f  BY Ranges DEF ClosedBy
  <2>2. ClosedUpTo(f, f, r, 0)  BY MountedSound DEF ClosedUpTo, Mounted
  <2> QED BY <2>1, <2>2
<1>2. ASSUME NEW n \in Nat, n \in S
      PROVE  n + 1 \in S
  <2>1. SUFFICES ASSUME n + 1 <= NodeNr
                 PROVE  ClosedUpTo(u[n + 1], f, r, n + 1)
    OBVIOUS
  <2>2. n <= NodeNr /\ n + 1 \in 0 .. NodeNr /\ n + 1 # 0 /\ (n + 1) - 1 = n  BY <2>1, Ranges
  <2>3. u[n + 1] = ForceClose(u[n], n)  BY <2>2 DEF ClosedBy
  <2>4. ClosedUpTo(u[n], f, r, n)  BY <1>2, <2>2
  <2> QED BY <2>3, <2>4, ForceCloseIs
<1> HIDE DEF S
<1>3. Nat \subseteq S  BY <1>1, <1>2, Induct
<1>4. ClosedUpTo(u[NodeNr], f, r, NodeNr)  BY <1>3, Ranges DEF S
<1> QED BY <1>4 DEF ClosedUpTo, Sound

\* The reference with its files closed.
LEMMA ClosedIs ==
  ASSUME NEW c, NEW r, NEW X, TreeOK(c, r, X), NEW r2, r2 = Closed(r)
  PROVE  TreeOK(c, r2, X) /\ AllClosed(r2) /\ SameRef(r, r2) /\ Shape(r2) = Shape(r)
<1>1. DOMAIN r2 = DOMAIN r  BY DEF Closed
<1>2. ASSUME NEW p \in DOMAIN r
      PROVE  /\ r2[p] \in RefFile /\ r2[p].fid = r[p].fid /\ r2[p].type = r[p].type
             /\ r2[p].size = r[p].size /\ r2[p].open = FALSE
  <2>1. r[p] \in RefFile  BY DEF TreeOK, RefOK
  <2>2. r2[p] = [r[p] EXCEPT !.open = FALSE]  BY DEF Closed
  <2> QED BY <2>1, <2>2 DEF RefFile
<1>3. SameRef(r, r2)  BY <1>1, <1>2 DEF SameRef
<1>4. TreeOK(c, r2, X)  BY <1>2, <1>3, TreeOpened
<1>5. AllClosed(r2)  BY <1>1, <1>2 DEF AllClosed
<1>6. Shape(r2) = Shape(r)  BY <1>1, <1>2 DEF Shape
<1> QED BY <1>3, <1>4, <1>5, <1>6

\* Unmounting and mounting again: the same nodes, all on the disk, and no open file.
LEMMA RemountIs ==
  ASSUME NEW f, NEW r, Mounted(f, r), NEW r2, r2 = Closed(r), NEW x, x = Remount(f)
  PROVE  Mounted(x, r2) /\ Content(x) = Content(f) /\ x.saved = Content(f)
<1>1. PICK u : ClosedBy(u, f, NodeNr) /\ x = Mount(SyncFs(u[NodeNr]).saved)  BY RemountEnds
<1>2. PICK g, c, h : g = u[NodeNr] /\ c = Content(f) /\ h = SyncFs(g)  OBVIOUS
<1>3. PagesOK(g, {}) /\ Content(g) = c  BY <1>1, <1>2, ClosedAll
<1>4. h.saved = c  BY <1>2, <1>3, SyncFsIs
<1>5. PagesOK(f, {}) /\ TreeOK(c, r, {})  BY <1>2 DEF Mounted
<1>6. \A n \in Nid : c[n] # InUse
  <2>1. PICK P : P = {}  OBVIOUS
  <2>2. \A n \in Nid : Content(f)[n] = InUse <=> n \in P  BY <1>5, <2>1, ContentIs
  <2> QED BY <1>2, <2>1, <2>2
<1>7. TreeOK(c, r2, {}) /\ AllClosed(r2)
  <2>1. PICK P : P = {}  OBVIOUS
  <2>2. TreeOK(c, r2, P) /\ AllClosed(r2)  BY <1>5, <2>1, ClosedIs
  <2> QED BY <2>1, <2>2
<1>8. x = Mount(c)  BY <1>1, <1>2, <1>4
<1> QED BY <1>2, <1>6, <1>7, <1>8, MountIs

\* TestMount
LEMMA TestMountIs ==
  ASSUME NEW f, NEW r, Mounted(f, r), NEW r2, r2 = Closed(r), NEW x, x = AfterVerify(Remount(f), r)
  PROVE  Mounted(x, r2) /\ Disk(x.saved, r2) /\ Content(x) = Content(f)
<1>1. PICK g : g = Remount(f)  OBVIOUS
<1>2. Mounted(g, r2) /\ Content(g) = Content(f) /\ g.saved = Content(f)  BY <1>1, RemountIs
<1>3. PICK P, c : P = {} /\ c = Content(f)  OBVIOUS
<1>4. TreeOK(c, r, P)  BY <1>3 DEF Mounted
<1>5. Verifies(c, r) /\ TreeOK(c, r2, P)  BY <1>4, TreeVerifies, ClosedIs
<1>6. Mounted(x, r2) /\ Content(x) = Content(g) /\ x.saved = g.saved
  BY <1>1, <1>2, <1>3, <1>5, AfterVerifyIs
<1> QED BY <1>2, <1>3, <1>5, <1>6 DEF Disk

-------------------------------------------------------------------------------
(* Garbage collection. *)

\* What the collector does with a node block, and with a data block.
NodeMoved(f, n) == [f EXCEPT !.nat[n] = f.cache[n].page, !.cache[n].dirty = FALSE]

\* A cached page is written to the log.
LEMMA NodeMovedIs ==
  ASSUME NEW f, PagesOK(f, {}), NEW n \in Cached(f), NEW g, g = NodeMoved(f, n)
  PROVE  PagesOK(g, {}) /\ Content(g) = Content(f) /\ Keeps(f, g)
<1>1. PICK q, y : q = f.cache[n] /\ y = q.page  OBVIOUS
<1>2. n \in Nid /\ q # None /\ f \in Fs  BY <1>1 DEF Cached, PagesOK
<1>3. q \in Page /\ y \in Node /\ q.ref \in {0, 1}  BY <1>1, <1>2, PageIs
<1>4. PICK z : z = [q EXCEPT !.dirty = FALSE]  OBVIOUS
<1>5. z \in Page /\ z.page = y /\ z.dirty = FALSE /\ z.ref = q.ref  BY <1>1, <1>3, <1>4 DEF Page
<1>6. y # None /\ y # InUse /\ z # None  BY <1>3, <1>5, Marks
<1>7. /\ f.nat \in [Nid -> Node \cup {None, InUse}] /\ f.cache \in [Nid -> Page \cup {None}]
      /\ f.next \in 0 .. NodeNr /\ f.free \in 0 .. NodeNr /\ f.open \in SUBSET Nid
      /\ f.saved \in [Nid -> Node \cup {None, InUse}] /\ f.failed \in BOOLEAN
  BY <1>2, FsIs
<1>8. PICK A, C : A = [f.nat EXCEPT ![n] = y] /\ C = [f.cache EXCEPT ![n] = z]  OBVIOUS
<1>9. /\ g = [f EXCEPT !.nat = A, !.cache = C]  BY <1>1, <1>4, <1>8 DEF NodeMoved
<1>10. A \in [Nid -> Node \cup {None, InUse}] /\ C \in [Nid -> Page \cup {None}]
  BY <1>3, <1>5, <1>7, <1>8
<1>11. /\ g \in Fs /\ g.nat = A /\ g.cache = C /\ g.free = f.free /\ g.open = f.open /\ g.saved = f.saved
       /\ g.failed = f.failed
  BY <1>2, <1>7, <1>9, <1>10 DEF Fs
<1>12. \A m \in Nid : (m = n => A[m] = y /\ C[m] = z) /\ (m # n => A[m] = f.nat[m] /\ C[m] = f.cache[m])
  BY <1>7, <1>8
<1>13. f.nat[n] # None  BY <1>1, <1>2 DEF PagesOK, PageOK
<1>14. {m \in Nid : A[m] = None} = {m \in Nid : f.nat[m] = None}  BY <1>6, <1>12, <1>13
<1>15. PagesOK(g, {})
  <2>1. ASSUME NEW m \in Nid
        PROVE  PageOK(g.nat[m], g.cache[m], m \in {})
    <3>1. CASE m = n
      BY <1>5, <1>6, <1>11, <1>12, <3>1 DEF PageOK
    <3>2. CASE m # n
      BY <1>11, <1>12, <3>2 DEF PagesOK
    <3> QED BY <3>1, <3>2
  <2> QED BY <1>11, <1>14, <2>1 DEF PagesOK
<1>16. Content(g) = Content(f)  BY <1>1, <1>2, <1>5, <1>6, <1>11, <1>12 DEF Content
<1>17. Refs(g) = Refs(f)  BY <1>1, <1>2, <1>5, <1>6, <1>11, <1>12 DEF Refs
<1> QED BY <1>11, <1>15, <1>16, <1>17 DEF Keeps

\* What changes neither the nodes nor the open files keeps the tree.
LEMMA MountedKept ==
  ASSUME NEW f, NEW r, Mounted(f, r), NEW g, PagesOK(g, {}), Content(g) = Content(f), Keeps(f, g)
  PROVE  Mounted(g, r) /\ g.saved = f.saved
BY DEF Mounted, Keeps

\* GcMoveNode
LEMMA GcMoveNodeIs ==
  ASSUME NEW f, NEW r, Mounted(f, r), NEW n \in Nid, f.nat[n] \notin {None, InUse},
         NEW h, h = ReadNode(f, n), NEW g, g = NodeMoved(h, n)
  PROVE  Mounted(g, r) /\ g.saved = f.saved /\ Content(g) = Content(f)
<1>1. PICK P : P = {}  OBVIOUS
<1>2. PagesOK(f, P)  BY <1>1 DEF Mounted
<1>3. Content(f)[n] \in Node
  <2>1. Content(f)[n] = None <=> f.nat[n] = None  BY <1>2, ContentIs
  <2>2. Content(f)[n] = InUse <=> n \in P  BY <1>2, ContentIs
  <2>3. Content(f)[n] \in Node <=> Content(f)[n] \notin {None, InUse}  BY <1>2, ContentIs
  <2> QED BY <1>1, <2>1, <2>2, <2>3
<1>4. Reads(f, h, P) /\ n \in Cached(h)  BY <1>2, <1>3, ReadNodeReads
<1>5. PagesOK(h, {})  BY <1>1, <1>4 DEF Reads
<1>6. PagesOK(g, {}) /\ Content(g) = Content(h) /\ Keeps(h, g)  BY <1>4, <1>5, NodeMovedIs
<1>7. Content(g) = Content(f) /\ Keeps(f, g)  BY <1>4, <1>6 DEF Reads, Keeps
<1> QED BY <1>6, <1>7, MountedKept

\* GcMoveData
LEMMA GcMoveDataIs ==
  ASSUME NEW f, NEW r, Mounted(f, r), NEW n \in Nid, NEW node, node = Content(f)[n],
         node \notin {None, InUse}, NEW g, g = Modify(f, n, node)
  PROVE  Mounted(g, r) /\ g.saved = f.saved /\ Content(g) = Content(f)
<1>1. PICK P : P = {}  OBVIOUS
<1>2. PagesOK(f, P)  BY <1>1 DEF Mounted
<1>3. node \in Node  BY <1>2, ContentIs
<1>4. PagesOK(g, P) /\ Content(g) = [Content(f) EXCEPT ![n] = node] /\ Keeps(f, g)
  BY <1>2, <1>3, ModifyIs
<1>5. Content(g) = Content(f)  BY <1>4, Zenon DEF Content
<1> QED BY <1>1, <1>4, <1>5, MountedKept

-------------------------------------------------------------------------------
(* What fsck finds. *)

\* The entries of a data block: those of a dentry block, none of a block of a file.
LEMMA EntriesOfFile ==
  ASSUME NEW block \in FileData \cup {None}
  PROVE  Entries(block) = {}
<1>1. CASE block = None
  BY <1>1 DEF Entries
<1>2. CASE block \in FileData
  <2>1. DOMAIN block = {"fid", "off"}  BY <1>2 DEF FileData
  <2>2. "dentries" \notin DOMAIN block  BY <2>1
  <2> QED BY <2>2 DEF Entries
<1> QED BY <1>1, <1>2

\* The entries in a dentry block.
LEMMA EntriesOfDir ==
  ASSUME NEW block \in DentryBlock \cup {None}, NEW e
  PROVE  e \in Entries(block) <=>
           block # None /\ \E s \in Slot : block.dentries[s] # None /\ e = <<s, block.dentries[s].ino>>
<1>1. CASE block = None
  BY <1>1 DEF Entries
<1>2. CASE block # None
  <2>1. DOMAIN block = {"bitmap", "dentries"}  BY <1>2 DEF DentryBlock
  <2>2. "dentries" \in DOMAIN block  BY <2>1
  <2>3. Entries(block) = {<<s, block.dentries[s].ino>> : s \in {t \in Slot : block.dentries[t] # None}}
    BY <1>2, <2>2 DEF Entries
  <2> QED BY <1>2, <2>3
<1> QED BY <1>1, <1>2

\* A link from an inode, and from an index node.
TableLink(c, n, i) == <<n, i, 0, c[n].index[i]>>
EntryLink(k, o, s, m) == <<k, o, s, m>>

\* The parts of an entry of a directory.
LEMMA LinkParts ==
  ASSUME NEW k, NEW o, NEW s, NEW m, NEW l, l = EntryLink(k, o, s, m)
  PROVE  l[1] = k /\ l[2] = o /\ l[3] = s /\ l[4] = m
BY DEF EntryLink

\* The parts of an entry of an index table.
LEMMA TableParts ==
  ASSUME NEW c, NEW n, NEW i, NEW l, l = TableLink(c, n, i)
  PROVE  l[1] = n /\ l[2] = i /\ l[3] = 0 /\ l[4] = c[n].index[i]
BY DEF TableLink

\* An inode names its index nodes.
LEMMA InodeLinks ==
  ASSUME NEW c, NodesOK(c), NEW n \in Nid, IsInode(c[n]), NEW l
  PROVE  l \in Links(c, n) <=> \E i \in Idx : c[n].index[i] # None /\ l = TableLink(c, n, i)
<1>1. c[n] \notin {None, InUse} /\ c[n].type # "index"  BY DEF IsInode
<1>2. Links(c, n) = {<<n, i, 0, c[n].index[i]>> : i \in {k \in Idx : c[n].index[k] # None}}
  BY <1>1 DEF Links
<1> QED BY <1>2 DEF TableLink

\* An index node names the entries of its blocks.
LEMMA IndexLinks ==
  ASSUME NEW c, NEW n, IsIndex(c[n]), NEW l
  PROVE  l \in Links(c, n) <=> \E o \in Off : \E e \in Entries(c[n].data[o]) : l = EntryLink(n, o, e[1], e[2])
<1>1. c[n] \notin {None, InUse} /\ c[n].type = "index"  BY DEF IsIndex
<1>2. Links(c, n) = UNION {{<<n, o, e[1], e[2]>> : e \in Entries(c[n].data[o])} : o \in Off}
  BY <1>1 DEF Links
<1> QED BY <1>2 DEF EntryLink

\* The index node of a file of data names nothing.
LEMMA FileLinks ==
  ASSUME NEW c, NodesOK(c), NEW n \in Nid, IsInode(c[n]), NEW size \in 0 .. MaxFile, FileOK(c, n, size),
         NEW i \in Idx, NEW k, k = c[n].index[i], k # None
  PROVE  Links(c, k) = {}
<1>1. k \in Nid /\ IsIndex(c[k])  BY OnlyHere
<1>2. ASSUME NEW o \in Off
      PROVE  c[k].data[o] \in FileData \cup {None}
  <2>1. PICK b : b = IndexSize * i + o  OBVIOUS
  <2>2. b \in Blocks /\ b \in Nat /\ b \div IndexSize = i /\ b % IndexSize = o
    BY <2>1, BlockOfPlace DEF Blocks
  <2>3. BlockAt(c, n, b) = c[k].data[o]  BY <2>2 DEF BlockAt
  <2>4. BlockAt(c, n, b) = IF b < size THEN [fid |-> n, off |-> b] ELSE None  BY <2>2 DEF FileOK
  <2>5. b < size => b \in 0 .. MaxFile - 1  BY <2>2, FileAssumption
  <2> QED BY <2>3, <2>4, <2>5 DEF FileData
<1>3. \A o \in Off : Entries(c[k].data[o]) = {}  BY <1>2, EntriesOfFile
<1>4. \A l : l \notin Links(c, k)  BY <1>1, <1>3, IndexLinks
<1> QED BY <1>4

\* Block b of a directory is block b of its index node.
LEMMA DirBlk ==
  ASSUME NEW c, NEW d, NEW k, k = c[d].index[0], k # None, NEW b \in BlkNr
  PROVE  DirFile(c, d).blk[b] = c[k].data[b]
<1>1. b \div IndexSize = 0 /\ b % IndexSize = b  BY BlkNrOff, FirstIndex
<1>2. DirFile(c, d).blk[b] = BlockAt(c, d, b)  BY DEF DirFile
<1> QED BY <1>1, <1>2 DEF BlockAt

\* The index node of a directory names what the directory names.
LEMMA DirLinks ==
  ASSUME NEW c, NodesOK(c), NEW d \in Nid, IsInode(c[d]), DirNodeOK(c, d),
         NEW k, k = c[d].index[0], k # None, NEW l
  PROVE  l \in Links(c, k) <=> \E b \in BlkNr, s \in Slot :
           Has(DirFile(c, d), b, s) /\ l = EntryLink(k, b, s, InoAt(DirFile(c, d), b, s))
<1>1. k \in Nid /\ IsIndex(c[k])
  <2>1. 0 \in Idx  BY Ranges
  <2> QED BY <2>1, OnlyHere
<1>2. PICK e : e = DirFile(c, d)  OBVIOUS
<1>3. DirOK(e) /\ \A o \in Off \ BlkNr : c[k].data[o] = None  BY <1>2 DEF DirNodeOK
<1>4. \A b \in BlkNr : b \in Off /\ e.blk[b] = c[k].data[b] /\ e.blk[b] \in DentryBlock \cup {None}
  BY <1>2, <1>3, BlkNrOff, DirBlk DEF DirOK
<1>5. ASSUME NEW o \in Off
      PROVE  c[k].data[o] \in DentryBlock \cup {None} /\ (c[k].data[o] # None => o \in BlkNr)
  BY <1>3, <1>4
<1>6. ASSUME NEW o \in Off, NEW x \in Entries(c[k].data[o])
      PROVE  o \in BlkNr /\ \E s \in Slot : Has(e, o, s) /\ x = <<s, InoAt(e, o, s)>>
  <2>1. PICK block : block = c[k].data[o]  OBVIOUS
  <2>2. block # None /\ \E s \in Slot : block.dentries[s] # None /\ x = <<s, block.dentries[s].ino>>
    <3>1. block \in DentryBlock \cup {None} /\ x \in Entries(block)  BY <1>5, <1>6, <2>1
    <3> QED BY ONLY <3>1, EntriesOfDir
  <2>3. o \in BlkNr /\ e.blk[o] = block  BY <1>4, <1>5, <2>1, <2>2, Zenon
  <2> QED BY <2>2, <2>3 DEF Has, InoAt
<1>7. ASSUME NEW o \in BlkNr, NEW s \in Slot, Has(e, o, s)
      PROVE  <<s, InoAt(e, o, s)>> \in Entries(c[k].data[o])
  <2>1. PICK block, x : block = c[k].data[o] /\ x = <<s, InoAt(e, o, s)>>  OBVIOUS
  <2>2. e.blk[o] = block /\ block \in DentryBlock \cup {None}  BY <1>4, <2>1
  <2>3. block # None /\ block.dentries[s] # None /\ x = <<s, block.dentries[s].ino>>
    BY <1>7, <2>1, <2>2 DEF Has, InoAt
  <2>4. x \in Entries(block)  BY <2>2, <2>3, EntriesOfDir
  <2> QED BY <2>1, <2>4
<1>8. ASSUME l \in Links(c, k)
      PROVE  \E b \in BlkNr, s \in Slot : Has(e, b, s) /\ l = EntryLink(k, b, s, InoAt(e, b, s))
  <2>1. PICK o \in Off : \E x \in Entries(c[k].data[o]) : l = EntryLink(k, o, x[1], x[2])
    BY <1>1, <1>8, IndexLinks
  <2>2. PICK x \in Entries(c[k].data[o]) : l = EntryLink(k, o, x[1], x[2])  BY <2>1
  <2>3. PICK s \in Slot : Has(e, o, s) /\ x = <<s, InoAt(e, o, s)>>  BY <1>6, <2>2
  <2>4. x[1] = s /\ x[2] = InoAt(e, o, s)  BY <2>3
  <2> QED BY <1>6, <2>2, <2>3, <2>4
<1>9. ASSUME NEW b \in BlkNr, NEW s \in Slot, Has(e, b, s), l = EntryLink(k, b, s, InoAt(e, b, s))
      PROVE  l \in Links(c, k)
  <2>1. PICK x : x = <<s, InoAt(e, b, s)>>  OBVIOUS
  <2>2. x \in Entries(c[k].data[b]) /\ b \in Off /\ x[1] = s /\ x[2] = InoAt(e, b, s)
    BY <1>4, <1>7, <1>9, <2>1
  <2> QED BY <1>1, <1>9, <2>2, IndexLinks
<1> QED BY <1>2, <1>8, <1>9

\* The inodes that have a name, and these with their index nodes.
NamedIn(r) == {Root} \cup FidsOf(r)
Known(c, r) == NamedIn(r) \cup ({c[z[1]].index[z[2]] : z \in NamedIn(r) \X Idx} \ {None})

\* The nodes that the tree has: the inodes with a name, and their index nodes.
LEMMA KnownIs ==
  ASSUME NEW c, NEW r, NEW n
  PROVE  n \in Known(c, r) <=>
           n \in NamedIn(r) \/ (n # None /\ \E m \in NamedIn(r), i \in Idx : n = c[m].index[i])
<1>1. ASSUME n \in Known(c, r), n \notin NamedIn(r)
      PROVE  n # None /\ \E m \in NamedIn(r), i \in Idx : n = c[m].index[i]
  BY <1>1 DEF Known
<1>2. ASSUME n # None, NEW m \in NamedIn(r), NEW i \in Idx, n = c[m].index[i]
      PROVE  n \in Known(c, r)
  <2>1. PICK z : z = <<m, i>>  OBVIOUS
  <2>2. z \in NamedIn(r) \X Idx /\ z[1] = m /\ z[2] = i  BY <2>1
  <2> QED BY <1>2, <2>2 DEF Known
<1>3. n \in NamedIn(r) => n \in Known(c, r)  BY DEF Known
<1> QED BY <1>1, <1>2, <1>3

\* An inode with a name is that of a directory, or that of a file.
LEMMA NamedKinds ==
  ASSUME NEW c, NEW r, NEW X, TreeOK(c, r, X), NEW n \in NamedIn(r)
  PROVE  /\ n \in Nid /\ IsInode(c[n]) /\ n \notin X
         /\ \/ \E p \in DirPaths(r) : n = FidAt(r, p)
            \/ \E p \in DOMAIN r : n = r[p].fid /\ r[p].type = "file"
<1>1. CASE n = Root
  BY <1>1, TreeFids DEF TreeOK, InodesAre
<1>2. CASE n # Root
  <2>1. PICK p \in DOMAIN r : n = r[p].fid  BY <1>2 DEF NamedIn, FidsOf
  <2>2. r[p].fid \in Nid /\ IsInode(c[r[p].fid]) /\ r[p].fid \notin X /\ FidAt(r, p) = r[p].fid /\ r[p] \in RefFile
    BY TreeFids
  <2>3. r[p].type \in {"dir", "file"}  BY <2>2 DEF RefFile
  <2>4. r[p].type = "dir" => p \in DirPaths(r)  BY DEF DirPaths
  <2> QED BY <2>1, <2>2, <2>3, <2>4
<1> QED BY <1>1, <1>2

\* A directory is one of them.
LEMMA DirNamed ==
  ASSUME NEW c, NEW r, NEW X, TreeOK(c, r, X), NEW p \in DirPaths(r), NEW d, d = FidAt(r, p)
  PROVE  d \in NamedIn(r) /\ d \in Nid /\ IsInode(c[d]) /\ DirNodeOK(c, d)
<1>1. d \in Nid /\ IsDir(c[d]) /\ DirIs(c, r, p) /\ (p # <<>> => p \in DOMAIN r)
  BY TreeFids DEF TreeOK
<1>2. d \in NamedIn(r)  BY <1>1 DEF NamedIn, FidsOf, FidAt
<1> QED BY <1>1, <1>2 DEF IsDir, DirIs

\* A link from the table of an inode, and a link from a directory.
TableOf(c, r, n, l) ==
    n \in NamedIn(r) /\ \E i \in Idx : c[n].index[i] # None /\ l = TableLink(c, n, i)
EntryAt(c, r, n, l, p, b, s) ==
    LET e == DirFile(c, FidAt(r, p))
    IN  c[FidAt(r, p)].index[0] = n /\ n # None /\ Has(e, b, s) /\ l = EntryLink(n, b, s, InoAt(e, b, s))
EntryOf(c, r, n, l) == \E p \in DirPaths(r), b \in BlkNr, s \in Slot : EntryAt(c, r, n, l, p, b, s)

\* The links from the known nodes.
LEMMA TreeLinks ==
  ASSUME NEW c, NEW r, NEW X, TreeOK(c, r, X), NEW n \in Known(c, r), NEW l \in Links(c, n)
  PROVE  TableOf(c, r, n, l) \/ EntryOf(c, r, n, l)
<1>1. NodesOK(c)  BY DEF TreeOK
<1>2. CASE n \in NamedIn(r)
  <2>1. n \in Nid /\ IsInode(c[n])  BY <1>2, NamedKinds
  <2> QED BY <1>1, <1>2, <2>1, InodeLinks DEF TableOf
<1>3. CASE n \notin NamedIn(r)
  <2>1. n # None /\ \E m \in NamedIn(r), i \in Idx : n = c[m].index[i]  BY <1>3, KnownIs
  <2>2. PICK m \in NamedIn(r), i \in Idx : n = c[m].index[i]  BY <2>1
  <2>3. m \in Nid /\ IsInode(c[m])  BY NamedKinds
  <2>4. CASE \E p \in DOMAIN r : m = r[p].fid /\ r[p].type = "file"
    <3>1. PICK p \in DOMAIN r : m = r[p].fid /\ r[p].type = "file"  BY <2>4
    <3>2. NodeIs(c, r[p]) /\ r[p] \in RefFile  BY TreeFids DEF TreeOK
    <3>3. PICK size : size = r[p].size  OBVIOUS
    <3>4. size \in 0 .. MaxFile /\ FileOK(c, m, size)  BY <3>1, <3>2, <3>3 DEF NodeIs, RefFile
    <3>5. Links(c, n) = {}  BY <1>1, <2>1, <2>2, <2>3, <3>4, FileLinks
    <3> QED BY <3>5
  <2>5. CASE \E p \in DirPaths(r) : m = FidAt(r, p)
    <3>1. PICK p \in DirPaths(r) : m = FidAt(r, p)  BY <2>5
    <3>2. DirNodeOK(c, m)  BY <3>1, DirNamed
    <3>3. i = 0  BY <2>1, <2>2, <3>2 DEF DirNodeOK
    <3>4. PICK e : e = DirFile(c, m)  OBVIOUS
    <3>5. PICK b \in BlkNr, s \in Slot : Has(e, b, s) /\ l = EntryLink(n, b, s, InoAt(e, b, s))
      <4>1. /\ NodesOK(c) /\ m \in Nid /\ IsInode(c[m]) /\ DirNodeOK(c, m) /\ n = c[m].index[0] /\ n # None
        BY <1>1, <2>1, <2>2, <2>3, <3>2, <3>3
      <4>2. \E b \in BlkNr, s \in Slot :
               Has(DirFile(c, m), b, s) /\ l = EntryLink(n, b, s, InoAt(DirFile(c, m), b, s))
        BY ONLY <4>1, l \in Links(c, n), DirLinks
      <4> QED BY <3>4, <4>2
    <3>6. EntryAt(c, r, n, l, p, b, s)  BY <2>1, <2>2, <3>1, <3>3, <3>4, <3>5 DEF EntryAt
    <3> QED BY <3>6 DEF EntryOf
  <2> QED BY <2>4, <2>5, NamedKinds
<1> QED BY <1>2, <1>3

\* An entry of a directory is a name of the reference.
LEMMA EntryNames ==
  ASSUME NEW c, NEW r, NEW X, TreeOK(c, r, X), NEW p \in DirPaths(r), NEW e, e = DirFile(c, FidAt(r, p)),
         NEW b \in BlkNr, NEW s \in Slot, Has(e, b, s), NEW m, m = NameAt(e, b, s)
  PROVE  m \in Names /\ Append(p, m) \in DOMAIN r /\ r[Append(p, m)].fid = InoAt(e, b, s)
<1>1. DirOK(e) /\ \A x \in Names : FindFile(e, x) = FidOrNone(r, Append(p, x))
  BY DEF TreeOK, DirIs, DirNodeOK
<1>2. m \in Names  BY <1>1, EntryTyped
<1>3. FindFile(e, m) = InoAt(e, b, s) /\ FindFile(e, m) # None  BY <1>1, <1>2, FindFileIs
<1>4. FidOrNone(r, Append(p, m)) = InoAt(e, b, s) /\ FidOrNone(r, Append(p, m)) # None
  BY <1>1, <1>2, <1>3
<1> QED BY <1>2, <1>4 DEF FidOrNone

\* A path of the reference is an entry of its directory.
LEMMA NamedEntry ==
  ASSUME NEW c, NEW r, NEW X, TreeOK(c, r, X), NEW q \in DOMAIN r, NEW p, p = Up(q), NEW d, d = FidAt(r, p),
         NEW k, k = c[d].index[0]
  PROVE  p \in DirPaths(r) /\ k # None /\ \E l \in Links(c, k) : l[4] = r[q].fid
<1>1. PICK e, m : e = DirFile(c, d) /\ m = q[Len(q)]  OBVIOUS
<1>2. p \in DirPaths(r) /\ q \in Paths /\ RefOK(r) /\ NodesOK(c)  BY UpOf DEF TreeOK
<1>3. m \in Names /\ q = Append(p, m)  BY <1>1, <1>2, PathIs, UpIs
<1>4. DirOK(e) /\ \A x \in Names : FindFile(e, x) = FidOrNone(r, Append(p, x))
  BY <1>1, <1>2 DEF TreeOK, DirIs, DirNodeOK
<1>5. FindFile(e, m) = r[q].fid /\ r[q].fid # None
  <2>1. FindFile(e, m) = FidOrNone(r, q)  BY <1>3, <1>4
  <2>2. r[q].fid # None  BY TreeFids
  <2> QED BY <2>1, <2>2 DEF FidOrNone
<1>6. PICK b \in BlkNr, s \in Slot : Has(e, b, s) /\ InoAt(e, b, s) = r[q].fid
  BY <1>3, <1>4, <1>5, FindFileIs
<1>7. d \in Nid /\ IsInode(c[d]) /\ DirNodeOK(c, d)  BY <1>2, DirNamed
<1>8. k # None
  <2>1. e.blk[b] # None /\ e.blk[b] = BlockAt(c, d, b)  BY <1>1, <1>6 DEF Has, DirFile
  <2>2. b \div IndexSize = 0  BY BlkNrOff, FirstIndex
  <2> QED BY <2>1, <2>2 DEF BlockAt
<1>9. PICK l : l = EntryLink(k, b, s, InoAt(e, b, s))  OBVIOUS
<1>10. \E x \in BlkNr, y \in Slot : Has(DirFile(c, d), x, y) /\ l = EntryLink(k, x, y, InoAt(DirFile(c, d), x, y))
  BY <1>1, <1>6, <1>9
<1>11. l \in Links(c, k)
  <2>1. NodesOK(c) /\ d \in Nid /\ IsInode(c[d]) /\ DirNodeOK(c, d) /\ k = c[d].index[0] /\ k # None
    BY <1>2, <1>7, <1>8
  <2> QED BY ONLY <1>10, <2>1, DirLinks
<1>12. l[4] = r[q].fid  BY <1>6, <1>9, LinkParts
<1> QED BY <1>2, <1>8, <1>11, <1>12

\* The nodes of a set and those that they name.
WithNamed(c, R) == R \cup {l[4] : l \in UNION {Links(c, n) : n \in R}}

\* The nodes that are named by some nodes.
LEMMA WithNamedIs ==
  ASSUME NEW c, NEW R, NEW m
  PROVE  m \in WithNamed(c, R) <=> m \in R \/ \E n \in R : \E l \in Links(c, n) : l[4] = m
BY DEF WithNamed

\* The known nodes name no others.
LEMMA KnownClosed ==
  ASSUME NEW c, NEW r, NEW X, TreeOK(c, r, X), NEW n \in Known(c, r), NEW l \in Links(c, n)
  PROVE  l[4] \in Known(c, r)
<1>1. CASE TableOf(c, r, n, l)
  <2>1. PICK i \in Idx : c[n].index[i] # None /\ l = TableLink(c, n, i)  BY <1>1 DEF TableOf
  <2>2. n \in NamedIn(r) /\ l[4] = c[n].index[i]  BY <1>1, <2>1, TableParts DEF TableOf
  <2> QED BY <2>1, <2>2, KnownIs
<1>2. CASE EntryOf(c, r, n, l)
  <2>1. PICK p \in DirPaths(r), b \in BlkNr, s \in Slot : EntryAt(c, r, n, l, p, b, s)
    BY <1>2 DEF EntryOf
  <2>2. PICK e, m : e = DirFile(c, FidAt(r, p)) /\ m = NameAt(e, b, s)  OBVIOUS
  <2>3. Has(e, b, s) /\ l = EntryLink(n, b, s, InoAt(e, b, s))  BY <2>1, <2>2 DEF EntryAt
  <2>4. Append(p, m) \in DOMAIN r /\ r[Append(p, m)].fid = InoAt(e, b, s)
    BY <2>2, <2>3, EntryNames
  <2>5. l[4] = InoAt(e, b, s)  BY <2>3, LinkParts
  <2>6. l[4] \in NamedIn(r)  BY <2>4, <2>5 DEF NamedIn, FidsOf
  <2> QED BY <2>6, KnownIs
<1> QED BY <1>1, <1>2, TreeLinks

\* They are nodes.
LEMMA KnownNodes ==
  ASSUME NEW c, NEW r, NEW X, TreeOK(c, r, X), NEW n \in Known(c, r)
  PROVE  /\ n \in Nid /\ c[n] \notin {None, InUse}
         /\ n \in NamedIn(r) <=> IsInode(c[n])
         /\ n \notin NamedIn(r) <=> IsIndex(c[n])
<1>1. NodesOK(c)  BY DEF TreeOK
<1>2. CASE n \in NamedIn(r)
  <2>1. n \in Nid /\ IsInode(c[n])  BY <1>2, NamedKinds
  <2>2. ~IsIndex(c[n])  BY <1>1, <2>1, KindOf
  <2> QED BY <1>2, <2>1, <2>2 DEF IsInode
<1>3. CASE n \notin NamedIn(r)
  <2>1. n # None /\ \E m \in NamedIn(r), i \in Idx : n = c[m].index[i]  BY <1>3, KnownIs
  <2>2. PICK m \in NamedIn(r), i \in Idx : n = c[m].index[i]  BY <2>1
  <2>3. m \in Nid /\ IsInode(c[m])  BY NamedKinds
  <2>4. n \in Nid /\ ~IsInode(c[n]) /\ IsIndex(c[n])  BY <1>1, <2>1, <2>2, <2>3, OnlyHere
  <2> QED BY <1>3, <2>4 DEF IsIndex
<1> QED BY <1>2, <1>3

\* A set with the root that names no others has the known nodes.
LEMMA ClosedHasKnown ==
  ASSUME NEW c, NEW r, NEW X, TreeOK(c, r, X), NEW A, Root \in A,
         \A n \in A : \A l \in Links(c, n) : l[4] \in A
  PROVE  Known(c, r) \subseteq A
<1>1. NodesOK(c) /\ RefOK(r)  BY DEF TreeOK
<1>2. ASSUME NEW n \in NamedIn(r), n \in A, NEW i \in Idx, c[n].index[i] # None
      PROVE  c[n].index[i] \in A
  <2>1. n \in Nid /\ IsInode(c[n])  BY NamedKinds
  <2>2. PICK l : l = TableLink(c, n, i)  OBVIOUS
  <2>3. l \in Links(c, n)  BY <1>1, <1>2, <2>1, <2>2, InodeLinks
  <2>4. l[4] = c[n].index[i]  BY <2>2, TableParts
  <2> QED BY <1>2, <2>3, <2>4
<1>3. ASSUME NEW q \in DOMAIN r, FidAt(r, Up(q)) \in A
      PROVE  r[q].fid \in A
  <2>1. PICK p, d, k : p = Up(q) /\ d = FidAt(r, p) /\ k = c[d].index[0]  OBVIOUS
  <2>2. p \in DirPaths(r) /\ k # None /\ \E l \in Links(c, k) : l[4] = r[q].fid
    BY <2>1, NamedEntry
  <2>3. d \in NamedIn(r) /\ d \in A /\ 0 \in Idx  BY <1>3, <2>1, <2>2, DirNamed, Ranges
  <2>4. k \in A  BY <1>2, <2>1, <2>2, <2>3
  <2> QED BY <2>2, <2>4
<1>4. \A q \in DOMAIN r : Len(q) = 1 => r[q].fid \in A
  <2>1. \A q \in DOMAIN r : Len(q) = 1 => Up(q) = <<>>  BY DEF Up
  <2>2. FidAt(r, <<>>) = Root  BY DEF FidAt
  <2> QED BY <1>3, <2>1, <2>2
<1>5. \A q \in DOMAIN r : r[q].fid \in A
  <2>1. SUFFICES ASSUME NEW q \in DOMAIN r, Len(q) # 1
                 PROVE  r[q].fid \in A
    BY <1>4
  <2>2. PICK p : p = Up(q)  OBVIOUS
  <2>3. p = <<q[1]>> /\ p \in DirPaths(r)  BY <1>1, <2>1, <2>2, UpOf DEF Up
  <2>4. q[1] \in Names  BY <1>1, UpOf, PathIs
  <2>5. Len(p) = 1 /\ p # <<>>  BY <2>3, <2>4, PathNames
  <2>6. p \in DOMAIN r /\ FidAt(r, p) = r[p].fid  BY <2>3, <2>5 DEF DirPaths, FidAt
  <2>7. FidAt(r, Up(q)) \in A  BY <1>4, <2>2, <2>5, <2>6
  <2> QED BY <1>3, <2>7
<1>6. NamedIn(r) \subseteq A  BY <1>5 DEF NamedIn, FidsOf
<1> QED BY <1>2, <1>6, KnownIs

\* The rounds of the check.
WithinBy(u, c, m) ==
    u = [k \in 0 .. m |-> IF k = 0 THEN {Root} ELSE WithNamed(c, u[k - 1])]

\* The rounds of the check, as a function.
LEMMA WithinByExists ==
  ASSUME NEW c, NEW m \in Nat
  PROVE  \E u : WithinBy(u, c, m)
<1> DEFINE S == {n \in Nat : \E u : WithinBy(u, c, n)}
<1>1. 0 \in S
  <2>1. PICK u : u = [n \in 0 .. 0 |-> {Root}]  OBVIOUS
  <2>2. \A n \in 0 .. 0 : n = 0  OBVIOUS
  <2>3. WithinBy(u, c, 0)  BY <2>1, <2>2 DEF WithinBy
  <2> QED BY <2>3
<1>2. ASSUME NEW n \in Nat, n \in S
      PROVE  n + 1 \in S
  <2>1. PICK u : WithinBy(u, c, n)  BY <1>2
  <2>2. PICK w : w = [k \in 0 .. n + 1 |-> IF k <= n THEN u[k] ELSE WithNamed(c, u[n])]  OBVIOUS
  <2>3. ASSUME NEW k \in 0 .. n + 1
        PROVE  w[k] = IF k = 0 THEN {Root} ELSE WithNamed(c, w[k - 1])
    <3>1. CASE k <= n
      <4>1. k \in 0 .. n /\ (k # 0 => k - 1 \in 0 .. n + 1 /\ k - 1 <= n)  BY <3>1
      <4>2. w[k] = u[k] /\ (k # 0 => w[k - 1] = u[k - 1])  BY <2>2, <3>1, <4>1
      <4>3. u[k] = IF k = 0 THEN {Root} ELSE WithNamed(c, u[k - 1])  BY <2>1, <4>1 DEF WithinBy
      <4> QED BY <4>2, <4>3
    <3>2. CASE ~(k <= n)
      <4>1. k = n + 1 /\ k - 1 = n /\ n \in 0 .. n + 1 /\ n <= n /\ k # 0  BY <3>2
      <4>2. w[k] = WithNamed(c, u[n]) /\ w[n] = u[n]  BY <2>2, <3>2, <4>1
      <4> QED BY <4>1, <4>2
    <3> QED BY <3>1, <3>2
  <2>4. WithinBy(w, c, n + 1)  BY <2>2, <2>3 DEF WithinBy
  <2> QED BY <2>4
<1> HIDE DEF S
<1>3. Nat \subseteq S  BY <1>1, <1>2, Induct
<1> QED BY <1>3 DEF S

\* Reached is their last.
LEMMA ReachedBy ==
  ASSUME NEW c
  PROVE  \E u : WithinBy(u, c, NodeNr) /\ Reached(c) = u[NodeNr]
<1>1. PICK u : u = CHOOSE v : WithinBy(v, c, NodeNr)  OBVIOUS
<1>2. WithinBy(u, c, NodeNr)  BY <1>1, WithinByExists, Ranges
<1>3. Reached(c) = u[NodeNr]  BY <1>1 DEF Reached, WithinBy, WithNamed
<1> QED BY <1>2, <1>3

\* After k rounds the check has found k + 1 nodes, or all.
RoundOK(c, r, A, k) ==
    /\ Root \in A /\ A \subseteq Known(c, r)
    /\ Cardinality(A) >= k + 1 \/ WithNamed(c, A) = A

\* There are at most as many known nodes as nodes.
LEMMA KnownFinite ==
  ASSUME NEW c, NEW r, NEW X, TreeOK(c, r, X), NEW A \in SUBSET Known(c, r)
  PROVE  IsFiniteSet(A) /\ Cardinality(A) \in Nat /\ Cardinality(A) <= NodeNr
<1>1. A \in SUBSET Nid  BY KnownNodes
<1>2. IsFiniteSet(A) /\ Cardinality(A) <= Cardinality(Nid)  BY <1>1, NidFinite, FS_Subset
<1> QED BY <1>2, NidFinite, FS_CardinalityType

\* Each round finds another node of the tree, or there is none left to find.
LEMMA NextRound ==
  ASSUME NEW c, NEW r, NEW X, TreeOK(c, r, X), NEW A, NEW k \in Nat, RoundOK(c, r, A, k),
         NEW B, B = WithNamed(c, A)
  PROVE  RoundOK(c, r, B, k + 1)
<1>1. Root \in A /\ A \in SUBSET Known(c, r)  BY DEF RoundOK
<1>2. A \subseteq B  BY DEF WithNamed
<1>3. B \in SUBSET Known(c, r)  BY <1>1, WithNamedIs, KnownClosed
<1>4. CASE WithNamed(c, A) = A
  BY <1>1, <1>4 DEF RoundOK
<1>5. CASE WithNamed(c, A) # A
  <2>1. Cardinality(A) >= k + 1  BY <1>5 DEF RoundOK
  <2>2. PICK x \in B : x \notin A  BY <1>2, <1>5
  <2>3. PICK D : D = A \cup {x}  OBVIOUS
  <2>4. IsFiniteSet(A) /\ Cardinality(A) \in Nat  BY <1>1, KnownFinite
  <2>5. IsFiniteSet(B) /\ Cardinality(B) \in Nat  BY <1>3, KnownFinite
  <2>6. Cardinality(D) = Cardinality(A) + 1  BY <2>2, <2>3, <2>4, CardAdd
  <2>7. D \in SUBSET B  BY <1>2, <2>2, <2>3
  <2>8. Cardinality(D) <= Cardinality(B)  BY <2>5, <2>7, FS_Subset
  <2>9. Cardinality(B) >= (k + 1) + 1  BY <2>1, <2>4, <2>5, <2>6, <2>8
  <2> QED BY <1>1, <1>2, <1>3, <2>9 DEF RoundOK
<1> QED BY <1>4, <1>5

\* The check finds the known nodes.
LEMMA ReachedIs ==
  ASSUME NEW c, NEW r, NEW X, TreeOK(c, r, X)
  PROVE  Reached(c) = Known(c, r)
<1>1. PICK u : WithinBy(u, c, NodeNr) /\ Reached(c) = u[NodeNr]  BY ReachedBy
<1> DEFINE S == {n \in Nat : n <= NodeNr => RoundOK(c, r, u[n], n)}
<1>2. 0 \in S
  <2>1. PICK A : A = {Root}  OBVIOUS
  <2>2. u[0] = A  BY <1>1, <2>1, Ranges DEF WithinBy
  <2>3. A \subseteq Known(c, r)  BY <2>1, KnownIs DEF NamedIn
  <2>4. Cardinality(A) = 1  BY <2>1, FS_Singleton
  <2>5. RoundOK(c, r, A, 0)  BY <2>1, <2>3, <2>4 DEF RoundOK
  <2> QED BY <2>2, <2>5
<1>3. ASSUME NEW n \in Nat, n \in S
      PROVE  n + 1 \in S
  <2>1. SUFFICES ASSUME n + 1 <= NodeNr
                 PROVE  RoundOK(c, r, u[n + 1], n + 1)
    OBVIOUS
  <2>2. n <= NodeNr /\ n + 1 \in 0 .. NodeNr /\ n + 1 # 0 /\ (n + 1) - 1 = n  BY <2>1, Ranges
  <2>3. u[n + 1] = WithNamed(c, u[n])  BY <1>1, <2>2 DEF WithinBy
  <2>4. RoundOK(c, r, u[n], n)  BY <1>3, <2>2
  <2> QED BY <2>3, <2>4, NextRound
<1> HIDE DEF S
<1>4. Nat \subseteq S  BY <1>2, <1>3, Induct
<1>5. PICK A : A = u[NodeNr]  OBVIOUS
<1>6. RoundOK(c, r, A, NodeNr)  BY <1>4, <1>5, Ranges DEF S
<1>7. Root \in A /\ A \in SUBSET Known(c, r)  BY <1>6 DEF RoundOK
<1>8. Cardinality(A) \in Nat /\ Cardinality(A) <= NodeNr /\ NodeNr \in Nat
  BY <1>7, KnownFinite, Ranges
<1>9. WithNamed(c, A) = A  BY <1>6, <1>8 DEF RoundOK
<1>10. \A n \in A : \A l \in Links(c, n) : l[4] \in A  BY <1>9, WithNamedIs
<1>11. Known(c, r) \subseteq A  BY <1>7, <1>10, ClosedHasKnown
<1> QED BY <1>1, <1>5, <1>7, <1>11

\* A node is named in one place.
LEMMA NamedOnce ==
  ASSUME NEW c, NEW r, NEW X, TreeOK(c, r, X), NEW n \in Known(c, r), NEW m \in Known(c, r),
         NEW k \in Links(c, n), NEW l \in Links(c, m), k[4] = l[4]
  PROVE  k = l
<1>1. NodesOK(c) /\ RefOK(r)  BY DEF TreeOK
<1>2. CASE TableOf(c, r, n, k) /\ TableOf(c, r, m, l)
  <2>1. PICK i \in Idx : c[n].index[i] # None /\ k = TableLink(c, n, i)  BY <1>2 DEF TableOf
  <2>2. PICK j \in Idx : c[m].index[j] # None /\ l = TableLink(c, m, j)  BY <1>2 DEF TableOf
  <2>3. k[4] = c[n].index[i] /\ l[4] = c[m].index[j]  BY <2>1, <2>2, TableParts
  <2>4. n \in Nid /\ m \in Nid /\ IsInode(c[n]) /\ IsInode(c[m])
    BY <1>2, NamedKinds DEF TableOf
  <2>5. n = m /\ i = j
    <3>1. Apart(c) /\ c[n].index[i] = c[m].index[j]  BY <1>1, <2>3 DEF NodesOK
    <3> QED BY <2>1, <2>4, <3>1, ApartIs
  <2> QED BY <2>1, <2>2, <2>5
<1>3. ASSUME NEW a \in Known(c, r), NEW x \in Links(c, a), TableOf(c, r, a, x)
      PROVE  IsIndex(c[x[4]]) /\ ~IsInode(c[x[4]])
  <2>1. PICK i \in Idx : c[a].index[i] # None /\ x = TableLink(c, a, i)  BY <1>3 DEF TableOf
  <2>2. a \in Nid /\ IsInode(c[a])  BY <1>3, NamedKinds DEF TableOf
  <2>3. x[4] = c[a].index[i]  BY <2>1, TableParts
  <2> QED BY <1>1, <2>1, <2>2, <2>3, OnlyHere
<1>4. ASSUME NEW a \in Known(c, r), NEW x \in Links(c, a), EntryOf(c, r, a, x)
      PROVE  x[4] \in FidsOf(r) /\ IsInode(c[x[4]])
  <2>1. PICK p \in DirPaths(r), b \in BlkNr, s \in Slot : EntryAt(c, r, a, x, p, b, s)
    BY <1>4 DEF EntryOf
  <2>2. PICK e, y : e = DirFile(c, FidAt(r, p)) /\ y = NameAt(e, b, s)  OBVIOUS
  <2>3. Has(e, b, s) /\ x = EntryLink(a, b, s, InoAt(e, b, s))  BY <2>1, <2>2 DEF EntryAt
  <2>4. Append(p, y) \in DOMAIN r /\ r[Append(p, y)].fid = InoAt(e, b, s)
    BY <2>2, <2>3, EntryNames
  <2>5. x[4] = InoAt(e, b, s)  BY <2>3, LinkParts
  <2> QED BY <2>4, <2>5, TreeFids DEF FidsOf
<1>5. CASE EntryOf(c, r, n, k) /\ EntryOf(c, r, m, l)
  <2>1. PICK p \in DirPaths(r), b \in BlkNr, s \in Slot : EntryAt(c, r, n, k, p, b, s)
    BY <1>5 DEF EntryOf
  <2>2. PICK q \in DirPaths(r), a \in BlkNr, t \in Slot : EntryAt(c, r, m, l, q, a, t)
    BY <1>5 DEF EntryOf
  <2>3. PICK e, x, g, y : /\ e = DirFile(c, FidAt(r, p)) /\ x = NameAt(e, b, s)
                          /\ g = DirFile(c, FidAt(r, q)) /\ y = NameAt(g, a, t)
    OBVIOUS
  <2>4. /\ Has(e, b, s) /\ k = EntryLink(n, b, s, InoAt(e, b, s)) /\ n = c[FidAt(r, p)].index[0]
        /\ Has(g, a, t) /\ l = EntryLink(m, a, t, InoAt(g, a, t)) /\ m = c[FidAt(r, q)].index[0]
    BY <2>1, <2>2, <2>3 DEF EntryAt
  <2>5. x \in Names /\ Append(p, x) \in DOMAIN r /\ r[Append(p, x)].fid = InoAt(e, b, s)
    BY <2>3, <2>4, EntryNames
  <2>6. y \in Names /\ Append(q, y) \in DOMAIN r /\ r[Append(q, y)].fid = InoAt(g, a, t)
    BY <2>3, <2>4, EntryNames
  <2>7. k[4] = InoAt(e, b, s) /\ l[4] = InoAt(g, a, t)  BY <2>4, LinkParts
  <2>8. Append(p, x) = Append(q, y)  BY <1>1, <2>5, <2>6, <2>7 DEF RefOK
  <2>9. p = q /\ x = y  BY <1>1, <2>5, <2>6, <2>8, PathEq
  <2>10. e = g /\ n = m /\ DirOK(e)  BY <2>3, <2>4, <2>9 DEF TreeOK, DirIs, DirNodeOK
  <2>11. NameAt(e, b, s) = NameAt(e, a, t) /\ Has(e, b, s) /\ Has(e, a, t)
    BY <2>3, <2>4, <2>9, <2>10
  <2>12. b = a /\ s = t  BY <2>10, <2>11 DEF DirOK
  <2> QED BY <2>4, <2>10, <2>12
<1> QED BY <1>2, <1>3, <1>4, <1>5, TreeLinks

\* Where a link goes: from an inode to an index node, from an index node to an inode other than the root.
LEMMA LinkGoes ==
  ASSUME NEW c, NEW r, NEW X, TreeOK(c, r, X), NEW n \in Known(c, r), NEW l \in Links(c, n)
  PROVE  l[1] = n /\ l[4] # Root /\ (c[n].type = "index" <=> IsInode(c[l[4]]))
<1>1. NodesOK(c)  BY DEF TreeOK
<1>2. n \in Nid /\ c[n] \notin {None, InUse}  BY KnownNodes
<1>3. CASE TableOf(c, r, n, l)
  <2>1. PICK i \in Idx : c[n].index[i] # None /\ l = TableLink(c, n, i)  BY <1>3 DEF TableOf
  <2>2. IsInode(c[n])  BY <1>3, NamedKinds DEF TableOf
  <2>3. l[1] = n /\ l[4] = c[n].index[i]  BY <2>1, TableParts
  <2>4. ~IsInode(c[l[4]])  BY <1>1, <1>2, <2>1, <2>2, <2>3, OnlyHere
  <2>5. IsInode(c[Root])  BY TreeFids
  <2>6. l[4] # Root  BY <2>4, <2>5
  <2> QED BY <2>2, <2>3, <2>4, <2>6 DEF IsInode
<1>4. CASE EntryOf(c, r, n, l)
  <2>1. PICK p \in DirPaths(r), b \in BlkNr, s \in Slot : EntryAt(c, r, n, l, p, b, s)
    BY <1>4 DEF EntryOf
  <2>2. PICK e, y : e = DirFile(c, FidAt(r, p)) /\ y = NameAt(e, b, s)  OBVIOUS
  <2>3. Has(e, b, s) /\ l = EntryLink(n, b, s, InoAt(e, b, s)) /\ n = c[FidAt(r, p)].index[0] /\ n # None
    BY <2>1, <2>2 DEF EntryAt
  <2>4. Append(p, y) \in DOMAIN r /\ r[Append(p, y)].fid = InoAt(e, b, s)
    BY <2>2, <2>3, EntryNames
  <2>5. l[1] = n /\ l[4] = InoAt(e, b, s)  BY <2>3, LinkParts
  <2>6. l[4] # Root /\ IsInode(c[l[4]])  BY <2>4, <2>5, TreeFids
  <2>7. IsIndex(c[n])
    <3>1. PICK d, i : d = FidAt(r, p) /\ i = 0  OBVIOUS
    <3>2. d \in Nid /\ IsInode(c[d]) /\ i \in Idx /\ n = c[d].index[i]
      BY <2>3, <3>1, DirNamed, Ranges
    <3> QED BY <1>1, <2>3, <3>2, OnlyHere
  <2> QED BY <2>5, <2>6, <2>7 DEF IsIndex
<1> QED BY <1>3, <1>4, TreeLinks

\* The blocks of a file, as the check counts them.
LEMMA CheckCounts ==
  ASSUME NEW c, NodesOK(c), NEW n \in Nid, IsInode(c[n])
  PROVE  UNION {{i} \X {o \in Off : c[i].data[o] # None} : i \in {c[n].index[k] : k \in Idx} \ {None}}
           = BlocksOf(c, n)
<1>1. PICK T : T = {c[n].index[k] : k \in Idx} \ {None}  OBVIOUS
<1>2. \A i : i \in T <=> i # None /\ \E k \in Idx : c[n].index[k] = i  BY <1>1
<1>3. \A k \in Idx : c[n].index[k] \in Nid \cup {None}  BY InodeOK
<1>4. None \notin Nid  BY Marks
<1>5. \A i \in T : i \in Nid  BY <1>2, <1>3
<1>6. PICK U : U = UNION {{i} \X {o \in Off : c[i].data[o] # None} : i \in T}  OBVIOUS
<1>7. ASSUME NEW z \in U
      PROVE  z \in BlocksOf(c, n)
  <2>1. PICK i \in T : z \in {i} \X {o \in Off : c[i].data[o] # None}  BY <1>6, <1>7
  <2>2. z[1] = i /\ z[2] \in Off /\ c[i].data[z[2]] # None /\ z = <<z[1], z[2]>>  BY <2>1
  <2>3. z \in Nid \X Off  BY <1>5, <2>1, <2>2
  <2> QED BY <1>2, <2>1, <2>2, <2>3 DEF BlocksOf
<1>8. ASSUME NEW z \in BlocksOf(c, n)
      PROVE  z \in U
  <2>1. z \in Nid \X Off /\ (\E i \in Idx : c[n].index[i] = z[1]) /\ c[z[1]].data[z[2]] # None
    BY <1>8 DEF BlocksOf
  <2>2. z[1] \in Nid /\ z[2] \in Off /\ z = <<z[1], z[2]>>  BY <2>1
  <2>3. z[1] \in T  BY <1>2, <1>4, <2>1, <2>2
  <2>4. z \in {z[1]} \X {o \in Off : c[z[1]].data[o] # None}  BY <2>1, <2>2
  <2> QED BY <1>6, <2>3, <2>4
<1>9. U = BlocksOf(c, n)  BY <1>7, <1>8
<1> QED BY <1>1, <1>6, <1>9

\* fsck accepts a tree.
LEMMA TreeFsck ==
  ASSUME NEW c, NEW r, NEW X, TreeOK(c, r, X)
  PROVE  FsckPasses(c)
<1>1. PICK R : R = Reached(c)  OBVIOUS
<1>2. R = Known(c, r) /\ NodesOK(c)  BY <1>1, ReachedIs DEF TreeOK
<1>3. PICK L : L = UNION {Links(c, n) : n \in R}  OBVIOUS
<1>4. \A l \in L : \E n \in R : l \in Links(c, n)  BY <1>3
<1>5. ASSUME NEW l \in L
      PROVE  l[4] # Root /\ c[l[4]] \notin {None, InUse} /\ ((c[l[1]].type = "index") <=> IsInode(c[l[4]]))
  <2>1. PICK n \in R : l \in Links(c, n)  BY <1>4
  <2>2. l[1] = n /\ l[4] # Root /\ (c[n].type = "index" <=> IsInode(c[l[4]]))
    BY <1>2, <2>1, LinkGoes
  <2>3. l[4] \in Known(c, r)  BY <1>2, <2>1, KnownClosed
  <2>4. c[l[4]] \notin {None, InUse}  BY <2>3, KnownNodes
  <2> QED BY <2>2, <2>4
<1>6. ASSUME NEW k \in L, NEW l \in L, k[4] = l[4]
      PROVE  k = l
  <2>1. PICK n \in R : k \in Links(c, n)  BY <1>4
  <2>2. PICK m \in R : l \in Links(c, m)  BY <1>4
  <2> QED BY <1>2, <1>6, <2>1, <2>2, NamedOnce
<1>7. ASSUME NEW n \in R
      PROVE  IF c[n].type = "index" THEN c[n].valid = Cardinality({o \in Off : c[n].data[o] # None})
             ELSE c[n].blks = Cardinality(UNION {{i} \X {o \in Off : c[i].data[o] # None} :
                                 i \in {c[n].index[k] : k \in Idx} \ {None}})
  <2>1. n \in Nid /\ c[n] \notin {None, InUse}  BY <1>2, KnownNodes
  <2>2. CASE c[n].type = "index"
    <3>1. IsIndex(c[n])  BY <2>1, <2>2 DEF IsIndex
    <3> QED BY <1>2, <2>1, <2>2, <3>1 DEF NodesOK, Counted, Held
  <2>3. CASE c[n].type # "index"
    <3>1. IsInode(c[n])  BY <2>1, <2>3 DEF IsInode
    <3>2. c[n].blks = Cardinality(BlocksOf(c, n))  BY <1>2, <2>1, <3>1 DEF NodesOK, Summed
    <3> QED BY <1>2, <2>1, <2>3, <3>1, <3>2, CheckCounts
  <2> QED BY <2>2, <2>3
<1>8. /\ \A l \in L : l[4] # Root /\ c[l[4]] \notin {None, InUse}
      /\ \A l \in L : (c[l[1]].type = "index") <=> IsInode(c[l[4]])
      /\ \A k, l \in L : k[4] = l[4] => k = l
  BY <1>5, <1>6
<1> QED BY <1>1, <1>3, <1>7, <1>8 DEF FsckPasses

\* The repaired nodes are the tree, without the inodes that have no name.
LEMMA FixedIs ==
  ASSUME NEW c, NEW r, NEW X, TreeOK(c, r, X), NEW c2, c2 = Fixed(c)
  PROVE  TreeOK(c2, r, {}) /\ \A n \in Nid : c2[n] # InUse
<1>1. NodesOK(c) /\ RefOK(r) /\ c \in [Nid -> Node \cup {None, InUse}]  BY DEF TreeOK, NodesOK
<1>2. PICK S, D : S = Nid \ Known(c, r) /\ D = {}  OBVIOUS
<1>3. c2 = [n \in Nid |-> IF n \in Known(c, r) THEN c[n] ELSE None]  BY ReachedIs DEF Fixed
<1>4. /\ c2 \in [Nid -> Node \cup {None, InUse}] /\ \A m \in S : c2[m] = None
      /\ \A m \in Nid \ S : c2[m] = c[m] /\ m \in Known(c, r)
  BY <1>1, <1>2, <1>3
<1>5. ASSUME NEW m \in Nid \ S, IsInode(c[m]), NEW j \in Idx
      PROVE  c[m].index[j] \notin S
  <2>1. m \in NamedIn(r)  BY <1>4, <1>5, KnownNodes
  <2>2. c[m].index[j] # None => c[m].index[j] \in Known(c, r)  BY <2>1, KnownIs
  <2> QED BY <1>2, <2>2, Marks
<1>6. ASSUME NEW m \in S, IsInode(c[m]), NEW j \in Idx, c[m].index[j] # None
      PROVE  c[m].index[j] \in S
  <2>1. PICK k : k = c[m].index[j]  OBVIOUS
  <2>2. m \in Nid /\ m \notin Known(c, r) /\ m \notin NamedIn(r)  BY <1>2, KnownIs
  <2>3. k \in Nid /\ ~IsInode(c[k]) /\ \A n \in Nid \ {m} : IsInode(c[n]) => \A i \in Idx : c[n].index[i] # k
    BY <1>1, <1>6, <2>1, <2>2, OnlyHere
  <2>4. SUFFICES ASSUME k \in Known(c, r)
                 PROVE  FALSE
    BY <1>2, <2>1, <2>3
  <2>5. k \notin NamedIn(r)  BY <2>3, NamedKinds
  <2>6. \E n \in NamedIn(r), i \in Idx : k = c[n].index[i]  BY <2>4, <2>5, KnownIs
  <2>7. PICK n \in NamedIn(r), i \in Idx : k = c[n].index[i]  BY <2>6
  <2>8. n \in Nid /\ IsInode(c[n]) /\ n # m  BY <2>2, NamedKinds
  <2> QED BY <2>3, <2>7, <2>8
<1>7. /\ NodesOK(c2) /\ \A n \in Nid : IsInode(c2[n]) <=> IsInode(c[n]) /\ n \notin S
      /\ \A n \in Nid \ S : IsInode(c[n]) => Same(c, c2, n)
  <2>1. /\ S \in SUBSET Nid /\ D \in SUBSET Nid /\ c2 \in [Nid -> Node \cup {None, InUse}]
        /\ \A m \in S : c2[m] \in {None, InUse}
        /\ \A m \in Nid \ (S \cup D) : c2[m] = c[m]
        /\ \A m \in Nid \ (S \cup D) : IsInode(c[m]) => \A j \in Idx : c[m].index[j] \notin S
        /\ \A m \in S : IsInode(c[m]) => \A j \in Idx :
             c[m].index[j] # None /\ c[m].index[j] \notin S => c[c[m].index[j]].valid = 0
    BY <1>2, <1>4, <1>5, <1>6
  <2>2. /\ \A m \in D \ S : IsInode(c[m]) /\ c2[m] \in Inode /\ c2[m].blks = Cardinality(BlocksOf(c2, m))
        /\ \A m \in D \ S : \A j \in Idx : c2[m].index[j] = IF c[m].index[j] \in S THEN None ELSE c[m].index[j]
    BY <1>2
  <2>3. /\ NodesOK(c2) /\ \A n \in Nid : IsInode(c2[n]) <=> IsInode(c[n]) /\ n \notin S
        /\ \A n \in Nid \ (S \cup D) : IsInode(c[n]) => Same(c, c2, n)
    BY ONLY <1>1, <2>1, <2>2, Dropped
  <2> QED BY <1>2, <2>3
<1>8. \A n \in NamedIn(r) : n \in Nid /\ n \notin S /\ IsInode(c[n]) /\ Same(c, c2, n) /\ c2[n] = c[n]
  <2>1. \A n \in NamedIn(r) : n \in Nid /\ IsInode(c[n]) /\ n \in Known(c, r)
    BY NamedKinds, KnownIs
  <2> QED BY <1>2, <1>4, <1>7, <2>1
<1>9. InodesAre(c2, r, {})
  <2>1. ASSUME NEW n \in Nid, IsInode(c2[n])
        PROVE  n \in NamedIn(r)
    BY <1>4, <1>7, <2>1, KnownNodes
  <2>2. \A n \in NamedIn(r) : n \in Nid /\ IsInode(c2[n])  BY <1>7, <1>8
  <2>3. {n \in Nid : IsInode(c2[n])} = NamedIn(r)  BY <2>1, <2>2
  <2> QED BY <2>3 DEF InodesAre, NamedIn
<1>10. IsDir(c2[Root]) /\ c2[Root].nlink = 0  BY <1>8 DEF TreeOK, NamedIn
<1>11. ASSUME NEW p \in DOMAIN r
       PROVE  NodeIs(c2, r[p])
  <2>1. r[p].fid \in NamedIn(r) /\ NodeIs(c, r[p])  BY DEF NamedIn, FidsOf, TreeOK
  <2>2. PICK x : x = r[p]  OBVIOUS
  <2>3. x.fid \in Nid /\ IsInode(c[x.fid]) /\ NodeIs(c, x) /\ Same(c, c2, x.fid)
    BY <1>8, <2>1, <2>2
  <2> QED BY <1>1, <2>2, <2>3, NodeSame
<1>12. ASSUME NEW p \in DirPaths(r)
       PROVE  DirIs(c2, r, p)
  <2>1. PICK n : n = FidAt(r, p)  OBVIOUS
  <2>2. n \in NamedIn(r) /\ DirIs(c, r, p)  BY <2>1, DirNamed DEF TreeOK
  <2>3. n \in Nid /\ IsInode(c[n]) /\ Same(c, c2, n)  BY <1>8, <2>2
  <2> QED BY <1>1, <2>1, <2>2, <2>3, DirSame
<1>13. ASSUME NEW n \in Nid
       PROVE  c2[n] # InUse
  <2>1. n \in Known(c, r) => c[n] # InUse  BY KnownNodes
  <2> QED BY <1>3, <2>1, Marks
<1> QED BY <1>1, <1>7, <1>9, <1>10, <1>11, <1>12, <1>13 DEF TreeOK

\* What nobody names in memory is an index node without blocks.
LEMMA NobodyNames ==
  ASSUME NEW f, NEW r, Mounted(f, r), NEW c, c = Content(f), NEW n \in Nid \ Reached(c), f.nat[n] # None
  PROVE  c[n] # InUse /\ c[n].type = "index" /\ c[n].valid = 0
<1>1. PICK P : P = {}  OBVIOUS
<1>2. PagesOK(f, P) /\ TreeOK(c, r, P) /\ NodesOK(c)  BY <1>1 DEF Mounted, TreeOK
<1>3. Content(f)[n] = InUse <=> n \in P  BY <1>2, ContentIs
<1>4. Content(f)[n] = None <=> f.nat[n] = None  BY <1>2, ContentIs
<1>5. c[n] \notin {None, InUse} /\ n \notin Known(c, r) /\ n \notin NamedIn(r)
  BY <1>1, <1>2, <1>3, <1>4, ReachedIs, KnownIs
<1>6. ~IsInode(c[n])
  <2>1. {m \in Nid : IsInode(c[m])} = {Root} \cup FidsOf(r) \cup P
    BY <1>2 DEF TreeOK, InodesAre
  <2> QED BY <1>1, <1>5, <2>1 DEF NamedIn
<1>7. IsIndex(c[n])  BY <1>5, <1>6 DEF IsIndex, IsInode
<1>8. SUFFICES ASSUME c[n].valid # 0
               PROVE  FALSE
  BY <1>5, <1>7 DEF IsIndex
<1>9. PICK m \in Nid, i \in Idx : IsInode(c[m]) /\ c[m].index[i] = n
  BY <1>2, <1>7, <1>8 DEF NodesOK, Owned
<1>10. m \in NamedIn(r)
  <2>1. {z \in Nid : IsInode(c[z])} = {Root} \cup FidsOf(r) \cup P
    BY <1>2 DEF TreeOK, InodesAre
  <2> QED BY <1>1, <1>9, <2>1 DEF NamedIn
<1> QED BY <1>5, <1>9, <1>10, KnownIs, Marks

-------------------------------------------------------------------------------
(* References and what they show. *)

\* Two references with the same paths and inodes.
LEMMA SkelIs ==
  ASSUME NEW r, NEW s
  PROVE  Skel(s) = Skel(r) <=> DOMAIN s = DOMAIN r /\ \A p \in DOMAIN r : s[p].fid = r[p].fid
<1>1. DOMAIN Skel(r) = DOMAIN r /\ DOMAIN Skel(s) = DOMAIN s  BY DEF Skel
<1>2. (\A p \in DOMAIN r : Skel(r)[p] = r[p].fid) /\ (\A p \in DOMAIN s : Skel(s)[p] = s[p].fid)
  BY DEF Skel
<1>3. ASSUME Skel(s) = Skel(r)
      PROVE  DOMAIN s = DOMAIN r /\ \A p \in DOMAIN r : s[p].fid = r[p].fid
  BY <1>1, <1>2, <1>3
<1>4. ASSUME DOMAIN s = DOMAIN r, \A p \in DOMAIN r : s[p].fid = r[p].fid
      PROVE  Skel(s) = Skel(r)
  BY <1>4 DEF Skel
<1> QED BY <1>3, <1>4

\* The names and inodes of a tree are those of one reference.
LEMMA SkelUnique ==
  ASSUME NEW c, NEW r, NEW X, TreeOK(c, r, X), NEW s, NEW Y, TreeOK(c, s, Y)
  PROVE  Skel(s) = Skel(r)
<1>1. \A p \in Paths : FidOrNone(r, p) = FidOrNone(s, p)
  <2>1. \A p \in Paths : Lookup(c, p) = FidOrNone(r, p)  BY LookupIs
  <2>2. \A p \in Paths : Lookup(c, p) = FidOrNone(s, p)  BY LookupIs
  <2> QED BY <2>1, <2>2
<1>2. \A p \in DOMAIN r : p \in Paths /\ r[p].fid # None  BY TreeFids
<1>3. \A p \in DOMAIN s : p \in Paths /\ s[p].fid # None  BY TreeFids
<1>4. DOMAIN s = DOMAIN r /\ \A p \in DOMAIN r : s[p].fid = r[p].fid
  BY <1>1, <1>2, <1>3 DEF FidOrNone
<1> QED BY <1>4, SkelIs

\* The paths and inodes on the disk are those of one reference.
LEMMA DiskSkel ==
  ASSUME NEW c, NEW r, NEW s, Disk(c, r), Disk(c, s)
  PROVE  Skel(s) = Skel(r)
BY SkelUnique DEF Disk

\* What the image shows is the shape of its reference.
LEMMA DiskShape ==
  ASSUME NEW c, NEW r, Disk(c, r)
  PROVE  Tree(c) = Shape(r) /\ FsckPasses(c)
BY TreeIs, TreeFsck DEF Disk

\* The disk knows nothing of open files.
LEMMA DiskClosed ==
  ASSUME NEW c, NEW r, Disk(c, r), NEW s, s = Closed(r)
  PROVE  Disk(c, s) /\ Skel(s) = Skel(r) /\ Shape(s) = Shape(r)
<1>1. PICK X \in SUBSET Nid : TreeOK(c, r, X)  BY DEF Disk
<1>2. TreeOK(c, s, X) /\ SameRef(r, s) /\ Shape(s) = Shape(r)  BY <1>1, ClosedIs
<1>3. Skel(s) = Skel(r)  BY <1>2, SkelIs DEF SameRef
<1> QED BY <1>1, <1>2, <1>3 DEF Disk

\* Two references of the same names and inodes, types and sizes are one when closed.
LEMMA ClosedSame ==
  ASSUME NEW r, RefOK(r), NEW s, RefOK(s), Skel(s) = Skel(r), Shape(s) = Shape(r)
  PROVE  Closed(s) = Closed(r)
<1>1. DOMAIN s = DOMAIN r /\ \A p \in DOMAIN r : s[p].fid = r[p].fid  BY SkelIs
<1>2. ASSUME NEW p \in DOMAIN r
      PROVE  [s[p] EXCEPT !.open = FALSE] = [r[p] EXCEPT !.open = FALSE]
  <2>1. Shape(s)[p] = Shape(r)[p]  OBVIOUS
  <2>2. Shape(r)[p] = [type |-> r[p].type, size |-> r[p].size]  BY DEF Shape
  <2>3. Shape(s)[p] = [type |-> s[p].type, size |-> s[p].size]  BY <1>1 DEF Shape
  <2>4. s[p].type = r[p].type /\ s[p].size = r[p].size /\ s[p].fid = r[p].fid
    BY <1>1, <2>1, <2>2, <2>3
  <2>5. r[p] \in RefFile /\ s[p] \in RefFile  BY <1>1 DEF RefOK
  <2>6. PICK x, y : x = [s[p] EXCEPT !.open = FALSE] /\ y = [r[p] EXCEPT !.open = FALSE]
    OBVIOUS
  <2>7. x \in RefFile /\ x.type = s[p].type /\ x.size = s[p].size /\ x.fid = s[p].fid /\ x.open = FALSE
    BY <2>5, <2>6 DEF RefFile
  <2>8. y \in RefFile /\ y.type = r[p].type /\ y.size = r[p].size /\ y.fid = r[p].fid /\ y.open = FALSE
    BY <2>5, <2>6 DEF RefFile
  <2>9. x = y  BY <2>4, <2>7, <2>8 DEF RefFile
  <2> QED BY <2>6, <2>9
<1> QED BY <1>1, <1>2 DEF Closed

\* The verification of an image against another reference tells whether it is the same.
LEMMA VerifiedSame ==
  ASSUME NEW c, NEW r, NEW X, TreeOK(c, r, X), NEW s, RefOK(s), Verifies(c, s),
         Skel(s) = Skel(r) \/ DOMAIN s # DOMAIN r
  PROVE  Closed(s) = Closed(r)
<1>1. Tree(c) = Shape(s)  BY DEF Verifies, Shape
<1>2. Shape(s) = Shape(r)  BY <1>1, TreeIs
<1>3. DOMAIN s = DOMAIN r
  <2>1. DOMAIN Shape(s) = DOMAIN s /\ DOMAIN Shape(r) = DOMAIN r  BY DEF Shape
  <2> QED BY <1>2, <2>1
<1>4. RefOK(r)  BY DEF TreeOK
<1> QED BY <1>2, <1>3, <1>4, ClosedSame

\* The name that FileMove gives a path.
Named(p, name) == [p EXCEPT ![Len(p)] = name]

\* It is another name in the same directory.
LEMMA SiblingIs ==
  ASSUME NEW p \in Paths, NEW name \in Names, NEW q, q = Named(p, name), q # p
  PROVE  Siblings(p, q) /\ q[Len(q)] = name
<1>1. CASE Len(p) = 1
  <2>1. PICK a \in Names : p = <<a>>  BY <1>1, PathIs
  <2>2. q = <<name>>  BY <1>1, <2>1 DEF Named
  <2>3. q \in Paths /\ Len(q) = 1 /\ q[1] = name  BY <2>2, PathNames
  <2>4. Up(q) = Up(p)  BY <1>1, <2>3 DEF Up
  <2> QED BY <1>1, <2>3, <2>4 DEF Siblings
<1>2. CASE Len(p) = 2
  <2>1. PICK a \in Names, b \in Names : p = <<a, b>>  BY <1>2, PathIs
  <2>2. q = <<a, name>>  BY <1>2, <2>1 DEF Named
  <2>3. q \in Paths /\ Len(q) = 2 /\ q[1] = a /\ q[2] = name
    <3>1. a \in Names /\ name \in Names  OBVIOUS
    <3> QED BY ONLY <2>2, <3>1, PathNames, Zenon
  <2>4. p[1] = a  BY <2>1, PathNames
  <2>5. Up(q) = Up(p)  BY <1>2, <2>3, <2>4 DEF Up
  <2> QED BY <1>2, <2>3, <2>5 DEF Siblings
<1> QED BY <1>1, <1>2, PathIs

\* A closed file has nothing below it.
LEMMA FileNoChild ==
  ASSUME NEW r, RefOK(r), NEW p \in DOMAIN r, r[p].type = "file"
  PROVE  NoChild(r, p)
<1>1. p \notin DirPaths(r)
  <2>1. p # <<>>  BY UpOf, PathIs
  <2> QED BY <2>1 DEF DirPaths
<1> QED BY <1>1 DEF RefOK, NoChild

\* A directory that the tester finds empty has nothing below it.
LEMMA DirNoChild ==
  ASSUME NEW r, RefOK(r), NEW p \in DOMAIN r, \A q \in DOMAIN r : Len(q) > Len(p) => q[1] # p[1]
  PROVE  NoChild(r, p)
<1>1. SUFFICES ASSUME NEW z \in DOMAIN r, Len(z) = 2, <<z[1]>> = p
               PROVE  FALSE
  BY DEF NoChild
<1>2. z[1] \in Names  BY UpOf, PathIs
<1>3. Len(p) = 1 /\ p[1] = z[1]  BY <1>1, <1>2, PathNames
<1> QED BY <1>1, <1>3

\* The directory of a new path.
LEMMA NewUp ==
  ASSUME NEW r, NEW p \in Paths, Len(p) = 1 \/ (<<p[1]>> \in DOMAIN r /\ r[<<p[1]>>].type = "dir")
  PROVE  Up(p) \in DirPaths(r)
BY DEF Up, DirPaths

\* What a reference shows.
LEMMA ShapeIs ==
  ASSUME NEW r
  PROVE  /\ DOMAIN Shape(r) = DOMAIN r
         /\ \A p \in DOMAIN r : /\ Shape(r)[p] = [type |-> r[p].type, size |-> r[p].size]
                                /\ Shape(r)[p].type = r[p].type /\ Shape(r)[p].size = r[p].size
<1>1. DOMAIN Shape(r) = DOMAIN r /\ \A p \in DOMAIN r : Shape(r)[p] = [type |-> r[p].type, size |-> r[p].size]
  BY DEF Shape
<1> QED BY <1>1

\* A path of which two references say the same.
LEMMA ShapeSame ==
  ASSUME NEW r, NEW s, NEW p \in DOMAIN r, p \in DOMAIN s, s[p] = r[p]
  PROVE  Shape(s)[p] = Shape(r)[p]
BY DEF Shape

\* A new path shows as a creation.
LEMMA ShapeCreates ==
  ASSUME NEW r, NEW p, p \notin DOMAIN r, NEW type \in {"dir", "file"}, NEW k \in Nid,
         NEW s, s = RefWith(r, p, RefNew(type, k))
  PROVE  FT!Creates(Shape(r), Shape(s), p) /\ DOMAIN s # DOMAIN r
<1>1. PICK x : x = RefNew(type, k)  OBVIOUS
<1>2. x.type = type /\ x.size = 0  BY <1>1, RefNewIs
<1>3. DOMAIN s = DOMAIN r \cup {p} /\ s[p] = x /\ \A z \in DOMAIN r : s[z] = r[z]
  BY <1>1 DEF RefWith
<1>4. Shape(s)[p] = [type |-> type, size |-> 0]  BY <1>2, <1>3, ShapeIs
<1>5. ASSUME NEW z \in DOMAIN r
      PROVE  Shape(s)[z] = Shape(r)[z]
  BY <1>3, ShapeSame
<1>6. DOMAIN Shape(r) = DOMAIN r /\ DOMAIN Shape(s) = DOMAIN r \cup {p}  BY <1>3, ShapeIs
<1>7. Shape(s)[p] \in [type : {"file", "dir"}, size : {0}]  BY <1>4
<1>8. FT!Creates(Shape(r), Shape(s), p)  BY <1>5, <1>6, <1>7 DEF FT!Creates
<1> QED BY <1>3, <1>8

\* What is below a path, and what moves with it.
LEMMA BelowIs ==
  ASSUME NEW p \in Paths, NEW x \in Paths
  PROVE  /\ FT!Below(p, x) <=> Len(p) = 1 /\ Len(x) = 2 /\ x[1] = p[1]
         /\ Away(p, x) <=> x = p \/ FT!Below(p, x)
<1>1. Len(p) \in {1, 2} /\ Len(x) \in {1, 2}  BY PathIs
<1>2. FT!Below(p, x) <=> Len(p) < Len(x) /\ Prefixed(x, p)  BY <1>1 DEF FT!Below, Prefixed
<1>3. Prefixed(x, p) <=> Away(p, x)  BY PrefixIs
<1>4. Len(p) < Len(x) <=> Len(p) = 1 /\ Len(x) = 2
  <2>1. \A a, b \in {1, 2} : a < b <=> a = 1 /\ b = 2  OBVIOUS
  <2> QED BY ONLY <1>1, <2>1, Zenon
<1>5. FT!Below(p, x) <=> Len(p) = 1 /\ Len(x) = 2 /\ x[1] = p[1]
  <2>1. x = p => Len(x) = Len(p)  OBVIOUS
  <2>2. Len(p) = 1 /\ Len(x) = 2 => x # p  BY <2>1
  <2> QED BY ONLY <1>2, <1>3, <1>4, <2>2 DEF Away
<1> QED BY <1>5 DEF Away

\* A path that is gone shows as a removal.
LEMMA ShapeRemoves ==
  ASSUME NEW r, RefOK(r), NEW p \in DOMAIN r, NoChild(r, p), NEW s, s = RefLess(r, p)
  PROVE  FT!Removes(Shape(r), Shape(s), p) /\ DOMAIN s # DOMAIN r
<1>1. DOMAIN s = DOMAIN r \ {p} /\ \A z \in DOMAIN s : s[z] = r[z]  BY DEF RefLess
<1>2. DOMAIN Shape(r) = DOMAIN r  BY ShapeIs
<1>3. Shape(s) = [z \in DOMAIN r \ {p} |-> Shape(r)[z]]
  <2>1. \A z \in DOMAIN s : [type |-> s[z].type, size |-> s[z].size] = Shape(r)[z]
    BY <1>1, ShapeIs
  <2>2. Shape(s) = [z \in DOMAIN s |-> Shape(r)[z]]  BY <2>1 DEF Shape
  <2> QED BY <1>1, <2>2
<1>4. ASSUME NEW z \in DOMAIN r, FT!Below(p, z)
      PROVE  FALSE
  <2>1. p \in Paths /\ z \in Paths  BY DEF RefOK
  <2>2. Len(p) = 1 /\ Len(z) = 2 /\ z[1] = p[1]  BY <1>4, <2>1, BelowIs
  <2>3. p = <<p[1]>>  BY <2>1, <2>2, PathIs
  <2>4. <<z[1]>> = p  BY <2>2, <2>3
  <2> QED BY <2>2, <2>4 DEF NoChild
<1>5. FT!Removes(Shape(r), Shape(s), p)  BY <1>2, <1>3, <1>4 DEF FT!Removes
<1> QED BY <1>1, <1>5

\* A write shows as one.
LEMMA ShapeWrites ==
  ASSUME NEW r, RefOK(r), NEW p \in DOMAIN r, r[p].type = "file", NEW z \in r[p].size .. MaxFile,
         NEW s, s = SetSize(r, p, z)
  PROVE  FT!Writes(Shape(r), Shape(s), p) /\ Skel(s) = Skel(r)
<1>1. r[p] \in RefFile /\ MaxFile \in Nat  BY FileAssumption DEF RefOK
<1>2. r[p].size \in Nat /\ z \in 0 .. MaxFile  BY <1>1 DEF RefFile
<1>3. SameRef(r, s) /\ s[p].size = z /\ \A q \in DOMAIN r \ {p} : s[q] = r[q]
  BY <1>2, SetSizeIs
<1>4. DOMAIN s = DOMAIN r /\ s[p].type = "file" /\ \A q \in DOMAIN r : s[q].fid = r[q].fid
  BY <1>3 DEF SameRef
<1>5. Skel(s) = Skel(r)  BY <1>4, SkelIs
<1>6. DOMAIN Shape(r) = DOMAIN r /\ DOMAIN Shape(s) = DOMAIN r  BY <1>4, ShapeIs
<1>7. Shape(r)[p].type = "file" /\ Shape(r)[p].size = r[p].size  BY ShapeIs
<1>8. Shape(s)[p] = [type |-> "file", size |-> z]  BY <1>3, <1>4, ShapeIs
<1>9. Shape(s)[p] \in [type : {"file"}, size : Shape(r)[p].size .. MaxFile]  BY <1>7, <1>8
<1>10. ASSUME NEW q \in DOMAIN r \ {p}
       PROVE  Shape(s)[q] = Shape(r)[q]
  BY <1>3, <1>4, ShapeSame
<1>11. FT!Writes(Shape(r), Shape(s), p)  BY <1>6, <1>7, <1>9, <1>10 DEF FT!Writes
<1> QED BY <1>5, <1>11

\* Another name shows as a renaming.
LEMMA ShapeRenames ==
  ASSUME NEW r, RefOK(r), NEW p \in DOMAIN r, NEW q, Siblings(p, q), q \notin DOMAIN r,
         NEW s, s = RefMoved(r, p, q)
  PROVE  FT!Renames(Shape(r), Shape(s), p, q) /\ DOMAIN s # DOMAIN r
<1>1. p \in Paths /\ q \in Paths /\ Len(q) = Len(p) /\ q # p /\ DOMAIN r \subseteq Paths
  BY DEF Siblings, RefOK
<1>2. PICK M : M = {x \in DOMAIN r : x = p \/ FT!Below(p, x)}  OBVIOUS
<1>3. \A x \in DOMAIN r : x \in M <=> Away(p, x)  BY <1>1, <1>2, BelowIs
<1>4. \A x \in DOMAIN r : x \in M <=> Prefixed(x, p)  BY <1>1, <1>3, PrefixIs
<1>5. M = {x \in DOMAIN r : Prefixed(x, p)}  BY <1>2, <1>4
<1>6. DOMAIN s = (DOMAIN r \ M) \cup {q \o SubSeq(x, Len(p) + 1, Len(x)) : x \in M}
  BY <1>5 DEF RefMoved
<1>7. \A x \in DOMAIN r : Forth(p, q, x) \in DOMAIN s /\ s[Forth(p, q, x)] = r[x]  BY MovedIs
<1>8. \A x \in DOMAIN r \ M : Forth(p, q, x) = x  BY <1>1, <1>3, ForthIs
<1>9. \A x \in M : Forth(p, q, x) = q \o SubSeq(x, Len(p) + 1, Len(x))
  <2>1. \A x \in M : Forth(p, q, x) = Graft(q, x)  BY <1>1, <1>2, <1>3, ForthIs
  <2> QED BY <1>1, <2>1 DEF Graft
<1>10. ASSUME NEW x \in DOMAIN r \ M
       PROVE  Shape(s)[x] = Shape(r)[x]
  BY <1>7, <1>8, ShapeSame
<1>11. ASSUME NEW x \in M
       PROVE  Shape(s)[q \o SubSeq(x, Len(p) + 1, Len(x))] = Shape(r)[x]
  <2>1. PICK y : y = q \o SubSeq(x, Len(p) + 1, Len(x))  OBVIOUS
  <2>2. x \in DOMAIN r /\ y \in DOMAIN s /\ s[y] = r[x]  BY <1>2, <1>7, <1>9, <2>1
  <2>3. Shape(s)[y] = Shape(r)[x]  BY <2>2 DEF Shape
  <2> QED BY <2>1, <2>3
<1>12. ~FT!Below(p, q)  BY <1>1, BelowIs
<1>13. DOMAIN Shape(r) = DOMAIN r /\ DOMAIN Shape(s) = DOMAIN s  BY ShapeIs
<1>14. FT!Renames(Shape(r), Shape(s), p, q)
  BY <1>2, <1>6, <1>10, <1>11, <1>12, <1>13 DEF FT!Renames
<1>15. DOMAIN s # DOMAIN r
  <2>1. Forth(p, q, p) = q  BY DEF Forth
  <2> QED BY <1>7, <2>1
<1> QED BY <1>14, <1>15

-------------------------------------------------------------------------------
(* How an operation ends. *)

(* How an operation ends: without a checkpoint and with at most a write to   *)
(* show, with a checkpoint and nothing to show, or with a change of the      *)
(* paths that is on the disk.                                                *)
Quiet(f, r, g, s) ==
    /\ g.saved = f.saved /\ Skel(s) = Skel(r)
    /\ Shape(s) = Shape(r) \/ \E p \in Paths : FT!Writes(Shape(r), Shape(s), p)
Saved(r, g, s) == Disk(g.saved, s) /\ Skel(s) = Skel(r) /\ Shape(s) = Shape(r)
Changed(r, s) ==
    \/ \E p \in Paths : FT!Creates(Shape(r), Shape(s), p) \/ FT!Removes(Shape(r), Shape(s), p)
    \/ \E p, q \in Paths : FT!Renames(Shape(r), Shape(s), p, q)
Renewed(r, g, s) == Disk(g.saved, s) /\ DOMAIN s # DOMAIN r /\ Changed(r, s)
OpEnds(f, r, g, s) == Mounted(g, s) /\ (Quiet(f, r, g, s) \/ Saved(r, g, s) \/ Renewed(r, g, s))

\* An operation that shows nothing.
LEMMA QuietSame ==
  ASSUME NEW f, NEW r, NEW g, Mounted(g, r), g.saved = f.saved
  PROVE  OpEnds(f, r, g, r)
BY DEF OpEnds, Quiet

\* A reference that differs in its open files only.
LEMMA SameShape ==
  ASSUME NEW r, NEW s, SameRef(r, s), \A p \in DOMAIN r : s[p].size = r[p].size
  PROVE  Skel(s) = Skel(r) /\ Shape(s) = Shape(r)
<1>1. Skel(s) = Skel(r)  BY SkelIs DEF SameRef
<1>2. Shape(s) = Shape(r)  BY DEF SameRef, Shape
<1> QED BY <1>1, <1>2

\* The operations of the reference.
LEMMA RefOps ==
  /\ \A p, type, k : AddPath(p, type, k) = RefWith(ref, p, RefNew(type, k))
  /\ \A p : RemoveFile(p) = RefLess(ref, p)
  /\ \A p, q : MoveFile(p, q) = RefMoved(ref, p, q)
<1>1. \A p, type, k : AddPath(p, type, k) = RefWith(ref, p, RefNew(type, k))
  BY DEF AddPath, RefWith, RefNew
<1>2. \A p : RemoveFile(p) = RefLess(ref, p)  BY DEF RemoveFile, RefLess
<1>3. \A p, q : MoveFile(p, q) = RefMoved(ref, p, q)  BY DEF MoveFile, RefMoved, Prefixed, Graft
<1> QED BY <1>1, <1>2, <1>3

\* A creation.
LEMMA CreateEnded ==
  ASSUME NEW f, NEW r, NEW p \in Paths, p \notin DOMAIN r, NEW type \in {"dir", "file"}, NEW x,
         CreateDone(f, x, r, p, type), NEW g, g = x.fs, NEW s,
         s = IF x.fid = None THEN r ELSE RefWith(r, p, RefNew(type, x.fid))
  PROVE  OpEnds(f, r, g, s)
<1>1. CASE x.fid = None /\ Mounted(x.fs, r) /\ x.fs.saved = f.saved
  <2>1. s = r  BY <1>1
  <2> QED BY <1>1, <2>1, QuietSame
<1>2. ASSUME NEW k \in Nid, x.fid = k, k # None,
             Mounted(x.fs, RefWith(r, p, RefNew(type, k))), Disk(x.fs.saved, RefWith(r, p, RefNew(type, k)))
      PROVE  OpEnds(f, r, g, s)
  <2>1. s = RefWith(r, p, RefNew(type, k))  BY <1>2
  <2>2. FT!Creates(Shape(r), Shape(s), p) /\ DOMAIN s # DOMAIN r  BY <2>1, ShapeCreates
  <2>3. Changed(r, s)  BY <2>2 DEF Changed
  <2>4. Mounted(g, s) /\ Disk(g.saved, s)  BY <1>2, <2>1
  <2> QED BY <2>2, <2>3, <2>4 DEF OpEnds, Renewed
<1> QED BY <1>1, <1>2 DEF CreateDone

\* A removal.
LEMMA RemoveEnded ==
  ASSUME NEW f, NEW r, RefOK(r), NEW p \in DOMAIN r, NoChild(r, p), NEW g, NEW s, s = RefLess(r, p),
         Mounted(g, s), Disk(g.saved, s)
  PROVE  OpEnds(f, r, g, s)
<1>1. FT!Removes(Shape(r), Shape(s), p) /\ DOMAIN s # DOMAIN r  BY ShapeRemoves
<1>2. p \in Paths  BY DEF RefOK
<1>3. Changed(r, s)  BY <1>1, <1>2 DEF Changed
<1> QED BY <1>1, <1>3 DEF OpEnds, Renewed

\* A move.
LEMMA MoveEnded ==
  ASSUME NEW f, NEW r, RefOK(r), NEW p \in DOMAIN r, NEW q, Siblings(p, q), q \notin DOMAIN r, NEW x,
         MoveDone(f, x, r, p, q), NEW g, g = x.fs, NEW s, s = IF x.ok THEN RefMoved(r, p, q) ELSE r
  PROVE  OpEnds(f, r, g, s)
<1>1. CASE x.ok = FALSE /\ Mounted(x.fs, r) /\ x.fs.saved = f.saved
  <2>1. s = r  BY <1>1
  <2> QED BY <1>1, <2>1, QuietSame
<1>2. CASE x.ok = TRUE /\ Mounted(x.fs, RefMoved(r, p, q)) /\ Disk(x.fs.saved, RefMoved(r, p, q))
  <2>1. s = RefMoved(r, p, q)  BY <1>2
  <2>2. FT!Renames(Shape(r), Shape(s), p, q) /\ DOMAIN s # DOMAIN r  BY <2>1, ShapeRenames
  <2>3. p \in Paths /\ q \in Paths  BY DEF Siblings
  <2>4. Changed(r, s)  BY <2>2, <2>3 DEF Changed
  <2>5. Mounted(g, s) /\ Disk(g.saved, s)  BY <1>2, <2>1
  <2> QED BY <2>2, <2>4, <2>5 DEF OpEnds, Renewed
<1> QED BY <1>1, <1>2 DEF MoveDone

\* A write.
LEMMA WriteEnded ==
  ASSUME NEW f, NEW r, RefOK(r), NEW p \in DOMAIN r, r[p].type = "file", NEW w, NEW from \in Nat, NEW to \in Nat,
         to <= MaxFile, WriteDone(f, w, r, p, from, to), NEW g, g = w.fs,
         NEW s, s = SetSize(r, p, Max({r[p].size, w.at}))
  PROVE  OpEnds(f, r, g, s)
<1>1. r[p] \in RefFile /\ MaxFile \in Nat /\ p \in Paths  BY FileAssumption DEF RefOK
<1>2. r[p].size \in 0 .. MaxFile  BY <1>1 DEF RefFile
<1>3. w.at \in from .. to /\ w.fs.saved = f.saved /\ Mounted(g, s)  BY DEF WriteDone
<1>4. PICK z : z = Max({r[p].size, w.at})  OBVIOUS
<1>5. r[p].size \in Nat /\ w.at \in Nat  BY <1>1, <1>2, <1>3
<1>6. z = IF r[p].size >= w.at THEN r[p].size ELSE w.at  BY <1>4, <1>5, MaxTwo
<1>7. z \in r[p].size .. MaxFile  BY <1>1, <1>2, <1>3, <1>5, <1>6
<1>8. FT!Writes(Shape(r), Shape(s), p) /\ Skel(s) = Skel(r)  BY <1>4, <1>7, ShapeWrites
<1> QED BY <1>1, <1>3, <1>8 DEF OpEnds, Quiet

-------------------------------------------------------------------------------
(* The operations of the testers. *)

\* An operation of a tester leaves what its specification says.
Ended == OpEnds(fs, ref, fs', ref') /\ Done(fs', ref')

\* What Done says, for the operation that has ended.
LEMMA DoneIs ==
  ASSUME NEW f, NEW r, Done(f, r)
  PROVE  fs' = f /\ ref' = r /\ Done(fs', ref')
BY DEF Done

\* A new path is in a directory.
LEMMA IsNewIs ==
  ASSUME NEW p \in Paths, IsNew(p)
  PROVE  p \notin DOMAIN ref /\ Up(p) \in DirPaths(ref)
BY NewUp DEF IsNew

\* TestCreateFile
LEMMA CreateFileEnds ==
  ASSUME "inode" \notin Refusals, "dentry" \notin Refusals, Mounted(fs, ref), NEW p \in Paths, TestCreateFile(p)
  PROVE  Ended
<1>1. p \notin DOMAIN ref /\ Up(p) \in DirPaths(ref)  BY IsNewIs DEF TestCreateFile
<1>2. PICK x \in FileCreate(fs, p) :
        Done(x.fs, IF x.fid = None THEN ref ELSE AddPath(p, "file", x.fid))
  BY DEF TestCreateFile
<1>3. CreateDone(fs, x, ref, p, "file")  BY <1>1, FileCreateIs
<1>4. fs' = x.fs /\ ref' = (IF x.fid = None THEN ref ELSE AddPath(p, "file", x.fid)) /\ Done(fs', ref')
  BY <1>2, DoneIs
<1>5. ref' = IF x.fid = None THEN ref ELSE RefWith(ref, p, RefNew("file", x.fid))
  BY <1>4, RefOps
<1>6. OpEnds(fs, ref, fs', ref')  BY <1>1, <1>3, <1>4, <1>5, CreateEnded
<1> QED BY <1>4, <1>6 DEF Ended

\* TestCreateDir
LEMMA CreateDirEnds ==
  ASSUME "inode" \notin Refusals, "dentry" \notin Refusals, Mounted(fs, ref), NEW p \in Paths, TestCreateDir(p)
  PROVE  Ended
<1>1. p \notin DOMAIN ref /\ Up(p) \in DirPaths(ref)  BY IsNewIs DEF TestCreateDir
<1>2. PICK x \in DirCreate(fs, p) :
        Done(x.fs, IF x.fid = None THEN ref ELSE AddPath(p, "dir", x.fid))
  BY DEF TestCreateDir
<1>3. CreateDone(fs, x, ref, p, "dir")  BY <1>1, DirCreateIs
<1>4. fs' = x.fs /\ ref' = (IF x.fid = None THEN ref ELSE AddPath(p, "dir", x.fid)) /\ Done(fs', ref')
  BY <1>2, DoneIs
<1>5. ref' = IF x.fid = None THEN ref ELSE RefWith(ref, p, RefNew("dir", x.fid))
  BY <1>4, RefOps
<1>6. OpEnds(fs, ref, fs', ref')  BY <1>1, <1>3, <1>4, <1>5, CreateEnded
<1> QED BY <1>4, <1>6 DEF Ended

\* TestDeleteFile
LEMMA DeleteFileEnds ==
  ASSUME Mounted(fs, ref), NEW p \in DOMAIN ref, TestDeleteFile(p)
  PROVE  Ended
<1>1. RefOK(ref)  BY MountedSound
<1>2. ref[p].type = "file" /\ ~ref[p].open /\ Done(Delete(fs, p), RemoveFile(p))
  BY DEF TestDeleteFile
<1>3. NoChild(ref, p)  BY <1>1, <1>2, FileNoChild
<1>4. fs' = Delete(fs, p) /\ ref' = RefLess(ref, p) /\ Done(fs', ref')  BY <1>2, DoneIs, RefOps
<1>5. Mounted(fs', ref') /\ Disk(fs'.saved, ref')  BY <1>2, <1>3, <1>4, DeleteIs
<1>6. OpEnds(fs, ref, fs', ref')  BY <1>1, <1>3, <1>4, <1>5, RemoveEnded
<1> QED BY <1>4, <1>6 DEF Ended

Marked(f, b) == [f EXCEPT !.failed = @ \/ b]

\* No exception was thrown.
LEMMA Unmarked ==
  ASSUME NEW f, NEW r, Mounted(f, r)
  PROVE  Marked(f, FALSE) = f
<1>1. f \in Fs /\ f.failed = FALSE  BY DEF Mounted, PagesOK, Fs
<1>2. PICK g : g = [f EXCEPT !.failed = @ \/ FALSE]  OBVIOUS
<1>3. g = f  BY <1>1, <1>2 DEF Fs
<1> QED BY <1>2, <1>3 DEF Marked

\* TestDeleteDir
LEMMA DeleteDirEnds ==
  ASSUME Mounted(fs, ref), NEW p \in DOMAIN ref, TestDeleteDir(p)
  PROVE  Ended
<1>1. RefOK(ref)  BY MountedSound
<1>2. PICK x : x = DirDelete(fs, p)  OBVIOUS
<1>3. ref[p].type = "dir" /\ Done(Marked(x.fs, ~x.ok), IF x.ok THEN RemoveFile(p) ELSE ref)
  BY <1>2 DEF TestDeleteDir, Marked
<1>4. NoChild(ref, p)  BY <1>1, DirNoChild DEF TestDeleteDir
<1>5. ~ref[p].open
  <2>1. ref[p].open => ref[p].type = "file"  BY DEF Mounted
  <2> QED BY <1>3, <2>1
<1>6. x.ok = TRUE /\ Mounted(x.fs, RefLess(ref, p)) /\ Disk(x.fs.saved, RefLess(ref, p))
  BY <1>2, <1>3, <1>4, <1>5, DirDeleteIs
<1>7. Marked(x.fs, ~x.ok) = x.fs
  <2>1. Marked(x.fs, FALSE) = x.fs  BY <1>6, Unmarked
  <2>2. (~x.ok) = FALSE  BY <1>6
  <2> QED BY <2>1, <2>2
<1>8. fs' = x.fs /\ ref' = RefLess(ref, p) /\ Done(fs', ref')
  BY <1>3, <1>6, <1>7, DoneIs, RefOps
<1>9. Mounted(fs', ref') /\ Disk(fs'.saved, ref')  BY <1>6, <1>8
<1>10. OpEnds(fs, ref, fs', ref')  BY <1>1, <1>4, <1>8, <1>9, RemoveEnded
<1> QED BY <1>8, <1>10 DEF Ended

\* TestMoveFile
LEMMA MoveFileEnds ==
  ASSUME "dentry" \notin Refusals, Mounted(fs, ref), NEW p \in DOMAIN ref, NEW name \in Names, TestMoveFile(p, name)
  PROVE  Ended
<1>1. RefOK(ref) /\ p \in Paths  BY MountedSound DEF RefOK
<1>2. PICK q : q = Named(p, name)  OBVIOUS
<1>3. q \notin DOMAIN ref  BY <1>2 DEF TestMoveFile, Named
<1>4. PICK x \in FileMove(fs, p, name) : Done(x.fs, IF x.ok THEN MoveFile(p, q) ELSE ref)
  BY <1>2 DEF TestMoveFile, Named
<1>5. Siblings(p, q) /\ q[Len(q)] = name
  <2>1. p \in Paths /\ name \in Names /\ q = Named(p, name) /\ q # p  BY <1>1, <1>2, <1>3
  <2> QED BY ONLY <2>1, SiblingIs
<1>6. MoveDone(fs, x, ref, p, q)  BY <1>3, <1>5, FileMoveIs
<1>7. fs' = x.fs /\ ref' = (IF x.ok THEN RefMoved(ref, p, q) ELSE ref) /\ Done(fs', ref')
  BY <1>4, DoneIs, RefOps
<1>8. OpEnds(fs, ref, fs', ref')  BY <1>1, <1>3, <1>5, <1>6, <1>7, MoveEnded
<1> QED BY <1>7, <1>8 DEF Ended

\* Opening and closing change neither the paths nor their sizes.
LEMMA OpenSame ==
  ASSUME NEW f, NEW r, Mounted(f, r), NEW p \in DOMAIN r, NEW b \in BOOLEAN, NEW s, s = SetOpen(r, p, b)
  PROVE  Skel(s) = Skel(r) /\ Shape(s) = Shape(r)
<1>1. TreeOK(Content(f), r, {})  BY DEF Mounted
<1>2. OpenChanged(r, s, p, b)  BY <1>1, SetOpenIs
<1> QED BY <1>2, SameShape DEF OpenChanged

\* TestOpenFile
LEMMA OpenFileEnds ==
  ASSUME Mounted(fs, ref), NEW p \in DOMAIN ref, TestOpenFile(p)
  PROVE  Ended
<1>1. PICK f : f = FileOpen(fs, p)  OBVIOUS
<1>2. /\ ref[p].type = "file" /\ ~ref[p].open
      /\ Done(f, IF f.open = fs.open THEN ref ELSE SetOpen(ref, p, TRUE))
  BY <1>1 DEF TestOpenFile, SetOpen
<1>3. /\ f.saved = fs.saved
      /\ f.open = fs.open => Mounted(f, ref)
      /\ f.open # fs.open => Mounted(f, SetOpen(ref, p, TRUE))
  BY <1>1, <1>2, FileOpenIs
<1>4. fs' = f /\ ref' = (IF f.open = fs.open THEN ref ELSE SetOpen(ref, p, TRUE)) /\ Done(fs', ref')
  <2>1. PICK s : s = IF f.open = fs.open THEN ref ELSE SetOpen(ref, p, TRUE)  OBVIOUS
  <2>2. Done(f, s)  BY <1>2, <2>1
  <2>3. fs' = f /\ ref' = s /\ Done(fs', ref')  BY ONLY <2>2, DoneIs
  <2> QED BY <2>1, <2>3
<1>5. Skel(ref') = Skel(ref) /\ Shape(ref') = Shape(ref)
  <2>1. PICK t \in BOOLEAN : t = TRUE  OBVIOUS
  <2>2. Skel(SetOpen(ref, p, t)) = Skel(ref) /\ Shape(SetOpen(ref, p, t)) = Shape(ref)
    BY OpenSame
  <2> QED BY <1>4, <2>1, <2>2
<1>6. Mounted(fs', ref') /\ fs'.saved = fs.saved  BY <1>3, <1>4
<1>7. OpEnds(fs, ref, fs', ref')  BY <1>5, <1>6 DEF OpEnds, Quiet
<1> QED BY <1>4, <1>7 DEF Ended

\* TestCloseFile
LEMMA CloseFileEnds ==
  ASSUME Mounted(fs, ref), NEW p \in DOMAIN ref, TestCloseFile(p)
  PROVE  Ended
<1>1. PICK f : f = FileClose(fs, ref[p].fid)  OBVIOUS
<1>2. ref[p].open /\ Done(f, SetOpen(ref, p, FALSE))  BY <1>1 DEF TestCloseFile, SetOpen
<1>3. fs' = f /\ ref' = SetOpen(ref, p, FALSE) /\ Done(fs', ref')  BY <1>2, DoneIs
<1>4. Mounted(fs', ref') /\ (fs'.saved = fs.saved \/ Disk(fs'.saved, ref'))
  BY <1>1, <1>2, <1>3, FileCloseIs
<1>5. Skel(ref') = Skel(ref) /\ Shape(ref') = Shape(ref)
  <2>1. PICK t \in BOOLEAN : t = FALSE  OBVIOUS
  <2>2. Skel(SetOpen(ref, p, t)) = Skel(ref) /\ Shape(SetOpen(ref, p, t)) = Shape(ref)
    BY OpenSame
  <2> QED BY <1>3, <2>1, <2>2
<1>6. OpEnds(fs, ref, fs', ref')  BY <1>4, <1>5 DEF OpEnds, Quiet, Saved
<1> QED BY <1>3, <1>6 DEF Ended

\* TestWriteFile
LEMMA WriteFileEnds ==
  ASSUME Mounted(fs, ref), NEW p \in DOMAIN ref, NEW from \in Nat, NEW to \in Nat, from <= to,
         TestWriteFile(p, from, to)
  PROVE  Ended
<1>1. RefOK(ref)  BY MountedSound
<1>2. ref[p].open /\ from <= ref[p].size /\ to <= MaxFile  BY DEF TestWriteFile
<1>3. PICK w \in FileWrite(fs, ref[p].fid, from, to) : Done(w.fs, SetSize(ref, p, Max({ref[p].size, w.at})))
  BY DEF TestWriteFile, SetSize
<1>4. WriteDone(fs, w, ref, p, from, to)  BY <1>2, <1>3, FileWriteIs
<1>5. fs' = w.fs /\ ref' = SetSize(ref, p, Max({ref[p].size, w.at})) /\ Done(fs', ref')
  BY <1>3, DoneIs
<1>6. ref[p].type = "file"  BY <1>2 DEF Mounted
<1>7. OpEnds(fs, ref, fs', ref')  BY <1>1, <1>2, <1>4, <1>5, <1>6, WriteEnded
<1> QED BY <1>5, <1>7 DEF Ended

\* TestMount
LEMMA MountEnds ==
  ASSUME Mounted(fs, ref), TestMount
  PROVE  Ended
<1>1. Done(AfterVerify(Remount(fs), ref), Closed(ref))  BY DEF TestMount
<1>2. fs' = AfterVerify(Remount(fs), ref) /\ ref' = Closed(ref) /\ Done(fs', ref')
  BY <1>1, DoneIs
<1>3. Mounted(fs', ref') /\ Disk(fs'.saved, ref')  BY <1>2, TestMountIs
<1>4. Skel(ref') = Skel(ref) /\ Shape(ref') = Shape(ref)
  <2>1. SameRef(ref, ref') /\ Shape(ref') = Shape(ref)  BY <1>2, ClosedIs DEF Mounted
  <2> QED BY <2>1, SkelIs DEF SameRef
<1>5. OpEnds(fs, ref, fs', ref')  BY <1>3, <1>4 DEF OpEnds, Saved
<1> QED BY <1>2, <1>5 DEF Ended

-------------------------------------------------------------------------------
(* The invariant. *)

\* The inode of the root.
LEMMA RootInode ==
  ASSUME NEW y, y = NewInode("dir")
  PROVE  /\ y \in Inode /\ y.type = "dir" /\ y.size = 0 /\ y.blks = 0 /\ y.nlink = 0 /\ y \in Node
         /\ \A i \in Idx : y.index[i] = None
<1>1. y = [type |-> "dir", size |-> 0, blks |-> 0, nlink |-> 0, index |-> [i \in Idx |-> None]]
  BY DEF NewInode
<1>2. 0 \in 0 .. IndexSize * IndexTable  BY FileAssumption
<1>3. y \in Inode  BY <1>1, <1>2 DEF Inode
<1> QED BY <1>1, <1>3 DEF Node

\* A new file system: a root without names.
LEMMA FreshRoot ==
  ASSUME NEW c, c = [n \in Nid |-> IF n = Root THEN NewInode("dir") ELSE None]
  PROVE  TreeOK(c, NoPaths, {}) /\ AllClosed(NoPaths) /\ \A n \in Nid : c[n] # InUse
<1>1. PICK y : y = NewInode("dir")  OBVIOUS
<1>2. /\ y \in Inode /\ y.type = "dir" /\ y.size = 0 /\ y.blks = 0 /\ y.nlink = 0 /\ y \in Node
      /\ \A i \in Idx : y.index[i] = None
  BY <1>1, RootInode
<1>3. Root \in Nid /\ c[Root] = y /\ \A n \in Nid \ {Root} : c[n] = None  BY <1>1, Ranges
<1>4. c \in [Nid -> Node \cup {None, InUse}]  BY <1>1, <1>2
<1>5. IsInode(y) /\ ~IsIndex(y)  BY <1>2, Kinds
<1>6. \A n \in Nid : (IsInode(c[n]) <=> n = Root) /\ ~IsIndex(c[n])
  BY <1>3, <1>5 DEF IsInode, IsIndex
<1>7. NodesOK(c)
  <2>1. Indexed(c) /\ Apart(c)  BY <1>2, <1>3, <1>6 DEF Indexed, Apart
  <2>2. Counted(c) /\ Owned(c)  BY <1>6 DEF Counted, Owned
  <2>3. BlocksOf(c, Root) = {}
    <3>1. \A z \in Nid \X Off, i \in Idx : c[Root].index[i] # z[1]  BY <1>2, <1>3, Marks
    <3> QED BY <3>1 DEF BlocksOf
  <2>4. Cardinality(BlocksOf(c, Root)) = 0  BY <2>3, FS_EmptySet
  <2>5. Summed(c)  BY <1>2, <1>3, <1>6, <2>4 DEF Summed
  <2> QED BY <1>4, <2>1, <2>2, <2>5 DEF NodesOK
<1>8. DOMAIN NoPaths = {} /\ DirPaths(NoPaths) = {<<>>} /\ FidsOf(NoPaths) = {}
  BY DEF NoPaths, DirPaths, FidsOf
<1>9. RefOK(NoPaths)  BY <1>8 DEF RefOK
<1>10. InodesAre(c, NoPaths, {})  BY <1>3, <1>6, <1>8 DEF InodesAre
<1>11. DirIs(c, NoPaths, <<>>)
  <2>1. FidAt(NoPaths, <<>>) = Root  BY DEF FidAt
  <2>2. \A b \in Blocks : BlockAt(c, Root, b) = None
    <3>1. ASSUME NEW b \in Blocks
          PROVE  b \div IndexSize \in Idx
      BY PlaceOf DEF Blocks
    <3> QED BY <1>2, <1>3, <3>1 DEF BlockAt
  <2>3. DirNodeOK(c, Root) /\ \A m \in Names : FindFile(DirFile(c, Root), m) = None
    <3>1. NodesOK(c) /\ Root \in Nid /\ c[Root].size = 0 /\ \A i \in Idx : c[Root].index[i] = None
      BY <1>2, <1>3, <1>7
    <3> QED BY ONLY <2>2, <3>1, NewFileOK
  <2>4. \A m \in Names : FidOrNone(NoPaths, Append(<<>>, m)) = None  BY <1>8 DEF FidOrNone
  <2> QED BY <2>1, <2>3, <2>4 DEF DirIs
<1>12. IsDir(c[Root]) /\ c[Root].nlink = 0  BY <1>2, <1>3, <1>5 DEF IsDir
<1>13. \A n \in Nid : c[n] # InUse  BY <1>2, <1>3, Marks
<1>14. AllClosed(NoPaths)  BY <1>8 DEF AllClosed
<1>15. TreeOK(c, NoPaths, {})  BY <1>7, <1>8, <1>9, <1>10, <1>11, <1>12 DEF TreeOK
<1> QED BY <1>13, <1>14, <1>15

(* The inductive invariant: in memory is the tree of the reference, on the   *)
(* disk the trees of the references of the last two checkpoints, and these   *)
(* have the same paths and inodes unless an operation has changed the paths. *)
IInv ==
    /\ Mounted(fs, ref) /\ Disk(fs.saved, refAt.saved) /\ Disk(prior, refAt.prior)
    /\ Skel(refAt.saved) = Skel(ref)
    /\ Skel(refAt.prior) = Skel(ref) \/ DOMAIN refAt.prior # DOMAIN ref
    /\ ops \in 0 .. MaxOps
    /\ view = View(fs, prior)

\* A tree without inodes beyond its names is one that may be on the disk.
LEMMA TreeDisk ==
  ASSUME NEW c, NEW r, TreeOK(c, r, {})
  PROVE  Disk(c, r)
BY DEF Disk

\* A new file system is in order.
LEMMA InitInv ==
  ASSUME Init
  PROVE  IInv
<1>1. PICK c : c = [n \in Nid |-> IF n = Root THEN NewInode("dir") ELSE None]  OBVIOUS
<1>2. /\ fs = Mount(c) /\ prior = c /\ ref = NoPaths /\ refAt = [saved |-> NoPaths, prior |-> NoPaths]
      /\ ops = 0 /\ view = View(fs, prior)
  BY <1>1 DEF Init
<1>3. TreeOK(c, NoPaths, {}) /\ AllClosed(NoPaths) /\ \A n \in Nid : c[n] # InUse
  BY <1>1, FreshRoot
<1>4. Mounted(fs, ref) /\ fs.saved = c  BY <1>2, <1>3, MountIs
<1>5. refAt.saved = ref /\ refAt.prior = ref  BY <1>2
<1>6. Disk(c, ref)  BY <1>2, <1>3, TreeDisk
<1>7. ops \in 0 .. MaxOps  BY <1>2, FileAssumption
<1> QED BY <1>2, <1>4, <1>5, <1>6, <1>7 DEF IInv

\* What a reference of the disk says, with its files closed.
LEMMA SavedClosed ==
  ASSUME NEW c, NEW r, Disk(c, r)
  PROVE  Disk(c, Closed(r)) /\ Skel(Closed(r)) = Skel(r)
BY DiskClosed

\* An operation that has ended keeps the invariant.
LEMMA EndedInv ==
  ASSUME IInv, ops < MaxOps, Ended
  PROVE  IInv'
<1>1. Mounted(fs', ref')  BY DEF Ended, OpEnds
<1>2. /\ prior' = fs.saved /\ view' = View(fs', fs.saved) /\ ops' = ops + 1
      /\ refAt' = [saved |-> IF fs'.saved = fs.saved THEN refAt.saved ELSE Closed(ref'), prior |-> refAt.saved]
  BY DEF Ended, Done
<1>3. refAt'.prior = refAt.saved /\ refAt'.saved = IF fs'.saved = fs.saved THEN refAt.saved ELSE Closed(ref')
  BY <1>2
<1>4. Disk(fs.saved, refAt.saved) /\ Skel(refAt.saved) = Skel(ref)  BY DEF IInv
<1>5. Skel(ref') = Skel(ref) \/ DOMAIN ref' # DOMAIN ref
  BY DEF Ended, OpEnds, Quiet, Saved, Renewed
<1>6. Disk(fs'.saved, ref') \/ (fs'.saved = fs.saved /\ Skel(ref') = Skel(ref))
  BY DEF Ended, OpEnds, Quiet, Saved, Renewed
<1>7. Disk(fs'.saved, refAt'.saved) /\ Skel(refAt'.saved) = Skel(ref')
  <2>1. CASE fs'.saved = fs.saved
    <3>1. refAt'.saved = refAt.saved  BY <1>3, <2>1
    <3>2. Disk(fs'.saved, refAt'.saved)  BY <1>4, <2>1, <3>1
    <3>3. Disk(fs'.saved, ref') => Skel(refAt'.saved) = Skel(ref')  BY <3>2, DiskSkel
    <3> QED BY <1>4, <1>6, <3>1, <3>2, <3>3
  <2>2. CASE fs'.saved # fs.saved
    <3>1. refAt'.saved = Closed(ref') /\ Disk(fs'.saved, ref')  BY <1>3, <1>6, <2>2
    <3> QED BY <3>1, SavedClosed
  <2> QED BY <2>1, <2>2
<1>8. Disk(prior', refAt'.prior)  BY <1>2, <1>3, <1>4
<1>9. Skel(refAt'.prior) = Skel(ref') \/ DOMAIN refAt'.prior # DOMAIN ref'
  <2>1. DOMAIN refAt.saved = DOMAIN ref  BY <1>4, SkelIs
  <2> QED BY <1>3, <1>4, <1>5, <2>1
<1>10. ops' \in 0 .. MaxOps  BY <1>2, FileAssumption DEF IInv
<1>11. view' = View(fs', prior')  BY <1>2
<1> QED BY <1>1, <1>7, <1>8, <1>9, <1>10, <1>11 DEF IInv

\* What the view shows.
LEMMA ViewIs ==
  ASSUME NEW f, NEW r, NEW X, TreeOK(Content(f), r, X), NEW s, Disk(f.saved, s), NEW c, NEW t, Disk(c, t)
  PROVE  /\ View(f, c) = [tree |-> Shape(r), base |-> Shape(s), prev |-> Shape(t)]
         /\ View(f, c).tree = Shape(r) /\ View(f, c).base = Shape(s) /\ View(f, c).prev = Shape(t)
<1>1. Tree(Content(f)) = Shape(r)  BY TreeIs
<1>2. Tree(f.saved) = Shape(s) /\ Tree(c) = Shape(t)  BY DiskShape
<1> QED BY <1>1, <1>2 DEF View

\* What the view is under the invariant.
LEMMA InvView ==
  ASSUME IInv
  PROVE  view.tree = Shape(ref) /\ view.base = Shape(refAt.saved) /\ view.prev = Shape(refAt.prior)
BY ViewIs DEF IInv, Mounted

\* An operation that has ended is a step of the abstract tree.
LEMMA EndedStep ==
  ASSUME IInv, IInv', Ended
  PROVE  FT!Next
<1>1. view.tree = Shape(ref) /\ view.base = Shape(refAt.saved) /\ view.prev = Shape(refAt.prior)
  BY InvView
<1>2. view'.tree = Shape(ref') /\ view'.base = Shape(refAt'.saved) /\ view'.prev = Shape(refAt'.prior)
  BY ViewIs DEF IInv, Mounted
<1>3. view'.prev = view.base
  <2>1. refAt'.prior = refAt.saved  BY DEF Ended, Done
  <2> QED BY <1>1, <1>2, <2>1
<1>4. Disk(fs'.saved, ref') => view'.base = view'.tree
  <2>1. Disk(fs'.saved, refAt'.saved)  BY DEF IInv
  <2>2. Tree(fs'.saved) = Shape(refAt'.saved)  BY <2>1, DiskShape
  <2>3. Disk(fs'.saved, ref') => Tree(fs'.saved) = Shape(ref')  BY DiskShape
  <2> QED BY <1>2, <2>2, <2>3
<1>5. fs'.saved = fs.saved => view'.base = view.base
  <2>1. Disk(fs'.saved, refAt'.saved) /\ Disk(fs.saved, refAt.saved)  BY DEF IInv
  <2>2. Tree(fs'.saved) = Shape(refAt'.saved) /\ Tree(fs.saved) = Shape(refAt.saved)
    BY <2>1, DiskShape
  <2> QED BY <1>1, <1>2, <2>2
<1>6. CASE Quiet(fs, ref, fs', ref')
  <2>1. FT!Volatile  BY <1>3, <1>5, <1>6 DEF Quiet, FT!Volatile
  <2>2. view'.tree = view.tree \/ \E p \in Paths : FT!Writes(view.tree, view'.tree, p)
    BY <1>1, <1>2, <1>6 DEF Quiet
  <2> QED BY <2>1, <2>2 DEF FT!Next, FT!Flush, FT!Write
<1>7. CASE Saved(ref, fs', ref')
  <2>1. FT!Durable /\ view'.tree = view.tree
    BY <1>1, <1>2, <1>3, <1>4, <1>7 DEF Saved, FT!Durable
  <2> QED BY <2>1 DEF FT!Next, FT!Flush
<1>8. CASE Renewed(ref, fs', ref')
  <2>1. FT!Durable  BY <1>3, <1>4, <1>8 DEF Renewed, FT!Durable
  <2>2. \/ \E p \in Paths : FT!Creates(view.tree, view'.tree, p) \/ FT!Removes(view.tree, view'.tree, p)
        \/ \E p, q \in Paths : FT!Renames(view.tree, view'.tree, p, q)
    BY <1>1, <1>2, <1>8 DEF Renewed, Changed
  <2> QED BY <2>1, <2>2 DEF FT!Next, FT!Change
<1> QED BY <1>6, <1>7, <1>8 DEF Ended, OpEnds

-------------------------------------------------------------------------------
(* Power loss and recovery. *)

\* The references among which the recovery looks are those of the disk, or differ in paths.
LEMMA HistoryApart ==
  ASSUME IInv, NEW s \in {ref, refAt.saved, refAt.prior}, NEW r \in {refAt.saved, refAt.prior}
  PROVE  RefOK(s) /\ (Skel(s) = Skel(r) \/ DOMAIN s # DOMAIN r)
<1>1. RefOK(ref) /\ RefOK(refAt.saved) /\ RefOK(refAt.prior)  BY DEF IInv, Mounted, Disk, TreeOK
<1>2. Skel(refAt.saved) = Skel(ref) /\ (Skel(refAt.prior) = Skel(ref) \/ DOMAIN refAt.prior # DOMAIN ref)
  BY DEF IInv
<1>3. DOMAIN refAt.saved = DOMAIN ref  BY <1>2, SkelIs
<1> QED BY <1>1, <1>2, <1>3

\* The reference that the recovery takes.
Found(c, h) == Min({i \in 1 .. 3 : Verifies(c, h[i])} \cup {3})

\* It verifies, if the one of the disk does.
LEMMA FoundIs ==
  ASSUME NEW c, NEW h, NEW j \in {2, 3}, Verifies(c, h[j]), NEW i, i = Found(c, h)
  PROVE  i \in 1 .. 3 /\ Verifies(c, h[i])
<1>1. PICK S : S = {k \in 1 .. 3 : Verifies(c, h[k])} \cup {3}  OBVIOUS
<1>2. S \in SUBSET Nat /\ S # {} /\ j \in S  BY <1>1
<1>3. i \in S /\ \A k \in S : i <= k  BY <1>1, <1>2, MinIs DEF Found
<1>4. i \in 1 .. 3 /\ (i = 3 => j = 3)  BY <1>1, <1>2, <1>3
<1>5. i # 3 => Verifies(c, h[i])  BY <1>1, <1>3
<1> QED BY <1>4, <1>5

\* What the recovery of an image ends with.
Recovered(f, c, r) ==
    Mounted(f, r) /\ Disk(f.saved, r) /\ Disk(c, r)

\* fsck, Mount and the verification bring the tree of the image back.
LEMMA RecoverIs ==
  ASSUME NEW c, NEW r0, Disk(c, r0), NEW c2, c2 = Fixed(c), NEW m, m = Mount(c2),
         NEW r, r = Closed(r0), NEW g, g = AfterVerify(m, r), NEW f, f = Marked(g, ~FsckPasses(c))
  PROVE  /\ Content(m) = c2 /\ TreeOK(c2, r0, {}) /\ Shape(r) = Shape(r0)
         /\ Recovered(f, c, r) /\ View(m, c) = View(f, c)
<1>1. PICK X \in SUBSET Nid : TreeOK(c, r0, X)  BY DEF Disk
<1>2. TreeOK(c2, r0, {}) /\ \A n \in Nid : c2[n] # InUse  BY <1>1, FixedIs
<1>3. PICK E : E = {}  OBVIOUS
<1>4. TreeOK(c2, r, E) /\ AllClosed(r) /\ Shape(r) = Shape(r0)  BY <1>2, <1>3, ClosedIs
<1>5. Mounted(m, r) /\ Content(m) = c2 /\ m.saved = c2  BY <1>2, <1>3, <1>4, MountIs
<1>6. Verifies(c2, r)  BY <1>4, TreeVerifies
<1>7. Mounted(g, r) /\ Content(g) = c2 /\ g.saved = c2  BY <1>5, <1>6, AfterVerifyIs
<1>8. f = g
  <2>1. FsckPasses(c)  BY DiskShape
  <2>2. (~FsckPasses(c)) = FALSE  BY <2>1
  <2>3. Marked(g, FALSE) = g  BY <1>7, Unmarked
  <2> QED BY <2>2, <2>3
<1>9. Disk(f.saved, r)  BY <1>3, <1>4, <1>7, <1>8, TreeDisk
<1>10. Disk(c, r)  BY SavedClosed
<1>11. View(m, c) = View(f, c)  BY <1>5, <1>7, <1>8 DEF View
<1> QED BY <1>2, <1>4, <1>5, <1>7, <1>8, <1>9, <1>10, <1>11 DEF Recovered

\* A power loss, and the reference that was on the disk.
PowerLost(c, r0) ==
    LET r == Closed(r0) IN
    /\ Recovered(fs', c, r) /\ Shape(r) = Shape(r0) /\ ref' = r
    /\ refAt' = [saved |-> r, prior |-> r] /\ prior' = c /\ view' = View(fs', c) /\ ops' = ops + 1

\* TestPowerOutage: the reference that verifies is the one that was saved.
LEMMA PowerOutageIs ==
  ASSUME IInv, NEW c, NEW j \in {2, 3}, NEW r0, r0 = <<ref, refAt.saved, refAt.prior>>[j], Disk(c, r0),
         TestPowerOutage(c)
  PROVE  PowerLost(c, r0)
<1>1. PICK h : h = <<ref, refAt.saved, refAt.prior>>  OBVIOUS
<1>2. h[1] = ref /\ h[2] = refAt.saved /\ h[3] = refAt.prior /\ h[j] = r0  BY <1>1
<1>3. PICK c2, m : c2 = Fixed(c) /\ m = Mount(c2)  OBVIOUS
<1>4. PICK i, s : i = Found(Content(m), h) /\ s = Closed(h[i])  OBVIOUS
<1>5. /\ fs' = Marked(AfterVerify(m, s), ~FsckPasses(c))
      /\ ref' = s /\ refAt' = [saved |-> s, prior |-> s] /\ prior' = c /\ view' = View(m, c) /\ ops' = ops + 1
  BY <1>1, <1>3, <1>4 DEF TestPowerOutage, Found, Marked
<1>6. PICK r, g, f : r = Closed(r0) /\ g = AfterVerify(m, r) /\ f = Marked(g, ~FsckPasses(c))
  OBVIOUS
<1>7. /\ Content(m) = c2 /\ TreeOK(c2, r0, {}) /\ Shape(r) = Shape(r0)
      /\ Recovered(f, c, r) /\ View(m, c) = View(f, c)
  BY <1>3, <1>6, RecoverIs
<1>8. Verifies(c2, h[j])  BY <1>2, <1>7, TreeVerifies
<1>9. i \in 1 .. 3 /\ Verifies(c2, h[i])  BY <1>4, <1>7, <1>8, FoundIs
<1>10. h[i] \in {ref, refAt.saved, refAt.prior} /\ r0 \in {refAt.saved, refAt.prior}
  BY <1>2, <1>9
<1>11. RefOK(h[i]) /\ (Skel(h[i]) = Skel(r0) \/ DOMAIN h[i] # DOMAIN r0)  BY <1>10, HistoryApart
<1>12. Closed(h[i]) = Closed(r0)  BY <1>7, <1>9, <1>11, VerifiedSame
<1>13. s = r /\ fs' = f  BY <1>4, <1>5, <1>6, <1>12
<1>14. /\ Recovered(fs', c, r) /\ Shape(r) = Shape(r0) /\ ref' = r
       /\ refAt' = [saved |-> r, prior |-> r] /\ prior' = c /\ view' = View(fs', c) /\ ops' = ops + 1
  BY <1>5, <1>7, <1>13
<1> QED BY <1>6, <1>14 DEF PowerLost

-------------------------------------------------------------------------------
(* Every step. *)

\* A power loss keeps the invariant.
LEMMA PowerLostInv ==
  ASSUME IInv, ops < MaxOps, NEW c, NEW r0, PowerLost(c, r0)
  PROVE  IInv'
<1>1. PICK r : r = Closed(r0)  OBVIOUS
<1>2. /\ Mounted(fs', r) /\ Disk(fs'.saved, r) /\ Disk(c, r) /\ ref' = r
      /\ refAt' = [saved |-> r, prior |-> r] /\ prior' = c /\ view' = View(fs', c) /\ ops' = ops + 1
  BY <1>1 DEF PowerLost, Recovered
<1>3. refAt'.saved = r /\ refAt'.prior = r  BY <1>2
<1>4. ops' \in 0 .. MaxOps  BY <1>2, FileAssumption DEF IInv
<1> QED BY <1>2, <1>3, <1>4 DEF IInv

\* A power loss brings back the tree of the last checkpoint, or of the one before.
LEMMA PowerLostStep ==
  ASSUME IInv, IInv', NEW c, NEW r0 \in {refAt.saved, refAt.prior}, PowerLost(c, r0)
  PROVE  FT!Next
<1>1. view.base = Shape(refAt.saved) /\ view.prev = Shape(refAt.prior)  BY InvView
<1>2. view'.tree = Shape(ref') /\ view'.base = Shape(refAt'.saved) /\ view'.prev = Shape(refAt'.prior)
  BY ViewIs DEF IInv, Mounted
<1>3. PICK r : r = Closed(r0)  OBVIOUS
<1>4. Shape(r) = Shape(r0) /\ ref' = r /\ refAt' = [saved |-> r, prior |-> r]
  BY <1>3 DEF PowerLost
<1>5. view'.tree = Shape(r0) /\ view'.base = Shape(r0) /\ view'.prev = Shape(r0)  BY <1>2, <1>4
<1>6. FT!PowerLoss(view'.tree)  BY <1>1, <1>5 DEF FT!PowerLoss
<1> QED BY <1>6 DEF FT!Next

\* Garbage collection shows nothing.
Kept ==
    /\ Mounted(fs', ref) /\ fs'.saved = fs.saved /\ Content(fs') = Content(fs)
    /\ view' = View(fs', prior) /\ ops' = ops + 1 /\ UNCHANGED <<prior, ref, refAt>>

\* Moving a node block.
LEMMA GcNodeKeeps ==
  ASSUME IInv, NEW n \in Nid, GcMoveNode(n)
  PROVE  Kept
<1>1. PICK h : h = ReadNode(fs, n)  OBVIOUS
<1>2. fs.nat[n] \notin {None, InUse} /\ fs' = NodeMoved(h, n)  BY <1>1 DEF GcMoveNode, NodeMoved
<1>3. Mounted(fs, ref)  BY DEF IInv
<1>4. Mounted(fs', ref) /\ fs'.saved = fs.saved /\ Content(fs') = Content(fs)
  BY <1>1, <1>2, <1>3, GcMoveNodeIs
<1> QED BY <1>4 DEF Kept, GcMoveNode

\* Moving a data block.
LEMMA GcDataKeeps ==
  ASSUME IInv, NEW n \in Nid, GcMoveData(n)
  PROVE  Kept
<1>1. PICK node : node = Content(fs)[n]  OBVIOUS
<1>2. node \notin {None, InUse} /\ fs' = Modify(fs, n, node)  BY <1>1 DEF GcMoveData
<1>3. Mounted(fs, ref)  BY DEF IInv
<1>4. Mounted(fs', ref) /\ fs'.saved = fs.saved /\ Content(fs') = Content(fs)
  BY <1>1, <1>2, <1>3, GcMoveDataIs
<1> QED BY <1>4 DEF Kept, GcMoveData

\* Garbage collection keeps the invariant, and the view.
LEMMA KeptInv ==
  ASSUME IInv, ops < MaxOps, Kept
  PROVE  IInv' /\ view' = view
<1>1. ops' \in 0 .. MaxOps  BY FileAssumption DEF IInv, Kept
<1>2. view' = View(fs', prior') /\ view' = view  BY DEF Kept, IInv, View
<1> QED BY <1>1, <1>2 DEF IInv, Kept

\* Every step is an operation that ends, a power loss, or garbage collection.
LEMMA StepIs ==
  ASSUME "inode" \notin Refusals, "dentry" \notin Refusals, IInv, Next
  PROVE  /\ ops < MaxOps
         /\ \/ Ended
            \/ \E c : \E r0 \in {refAt.saved, refAt.prior} : PowerLost(c, r0)
            \/ Kept
<1>1. Mounted(fs, ref)  BY DEF IInv
<1>2. CASE \E p \in Paths : TestCreateFile(p) \/ TestCreateDir(p)
  <2>1. Ended  BY <1>1, <1>2, CreateFileEnds, CreateDirEnds
  <2> QED BY <1>2, <2>1 DEF TestCreateFile, TestCreateDir, Ready
<1>3. ASSUME NEW p \in DOMAIN ref,
             \/ TestDeleteFile(p)
             \/ TestDeleteDir(p)
             \/ \E name \in Names : TestMoveFile(p, name)
             \/ TestOpenFile(p)
             \/ TestCloseFile(p)
      PROVE  Ended /\ ops < MaxOps
  <2>1. Ended
    BY <1>1, <1>3, DeleteFileEnds, DeleteDirEnds, MoveFileEnds, OpenFileEnds, CloseFileEnds
  <2>2. ops < MaxOps
    BY <1>3 DEF TestDeleteFile, TestDeleteDir, TestMoveFile, TestOpenFile, TestCloseFile, Ready
  <2> QED BY <2>1, <2>2
<1>4. ASSUME NEW p \in DOMAIN ref, NEW from \in 0 .. MaxFile, NEW len \in Lengths,
             TestWriteFile(p, from, from + len)
      PROVE  Ended /\ ops < MaxOps
  <2>1. from \in Nat /\ from + len \in Nat /\ from <= from + len  BY FileAssumption
  <2>2. Ended  BY <1>1, <1>4, <2>1, WriteFileEnds
  <2>3. ops < MaxOps  BY <1>4 DEF TestWriteFile, Ready
  <2> QED BY <2>2, <2>3
<1>5. CASE TestMount
  BY <1>1, <1>5, MountEnds DEF TestMount, Ready
<1>6. ASSUME NEW c \in {fs.saved, prior}, TestPowerOutage(c)
      PROVE  ops < MaxOps /\ \E r0 \in {refAt.saved, refAt.prior} : PowerLost(c, r0)
  <2>1. ops < MaxOps  BY <1>6 DEF TestPowerOutage, Ready
  <2>2. CASE c = fs.saved
    <3>1. PICK j \in {2, 3} : j = 2  OBVIOUS
    <3>2. <<ref, refAt.saved, refAt.prior>>[j] = refAt.saved /\ Disk(c, refAt.saved)
      BY <2>2, <3>1 DEF IInv
    <3>3. PowerLost(c, refAt.saved)  BY <1>6, <3>2, PowerOutageIs
    <3> QED BY <2>1, <3>3
  <2>3. CASE c = prior
    <3>1. PICK j \in {2, 3} : j = 3  OBVIOUS
    <3>2. <<ref, refAt.saved, refAt.prior>>[j] = refAt.prior /\ Disk(c, refAt.prior)
      BY <2>3, <3>1 DEF IInv
    <3>3. PowerLost(c, refAt.prior)  BY <1>6, <3>2, PowerOutageIs
    <3> QED BY <2>1, <3>3
  <2> QED BY <2>2, <2>3
<1>7. CASE \E n \in Nid : GcMoveNode(n) \/ GcMoveData(n)
  <2>1. Kept  BY <1>7, GcNodeKeeps, GcDataKeeps
  <2> QED BY <1>7, <2>1 DEF GcMoveNode, GcMoveData, Ready
<1> QED BY <1>2, <1>3, <1>4, <1>5, <1>6, <1>7 DEF Next

\* Every step keeps the invariant, and is a step of the abstract tree or none.
LEMMA NextInv ==
  ASSUME "inode" \notin Refusals, "dentry" \notin Refusals, IInv, [Next]_vars
  PROVE  IInv' /\ [FT!Next]_(FT!vars)
<1>1. CASE Next
  <2>1. ops < MaxOps  BY <1>1, StepIs
  <2>2. CASE Ended
    <3>1. IInv'  BY <2>1, <2>2, EndedInv
    <3> QED BY <2>2, <3>1, EndedStep
  <2>3. ASSUME NEW c, NEW r0 \in {refAt.saved, refAt.prior}, PowerLost(c, r0)
        PROVE  IInv' /\ FT!Next
    <3>1. IInv'  BY <2>1, <2>3, PowerLostInv
    <3> QED BY <2>3, <3>1, PowerLostStep
  <2>4. CASE Kept
    <3>1. IInv' /\ view' = view  BY <2>1, <2>4, KeptInv
    <3> QED BY <3>1 DEF FT!vars
  <2> QED BY <1>1, <2>2, <2>3, <2>4, StepIs
<1>2. CASE UNCHANGED vars
  <2>1. fs' = fs /\ prior' = prior /\ ref' = ref /\ refAt' = refAt /\ ops' = ops /\ view' = view
    BY <1>2 DEF vars
  <2>2. IInv'  BY <2>1 DEF IInv
  <2> QED BY <2>1, <2>2 DEF FT!vars
<1> QED BY <1>1, <1>2

-------------------------------------------------------------------------------
(* The theorems. *)

\* The types follow.
LEMMA InvTypes ==
  ASSUME IInv
  PROVE  TypeOK
<1>1. fs \in Fs  BY DEF IInv, Mounted, PagesOK
<1>2. prior \in [Nid -> Node \cup {None, InUse}]  BY DEF IInv, Disk, TreeOK, NodesOK
<1>3. ASSUME NEW r \in {ref, refAt.saved, refAt.prior}
      PROVE  RefOK(r)
  BY <1>3 DEF IInv, Mounted, Disk, TreeOK
<1>4. ops \in 0 .. MaxOps  BY DEF IInv
<1> QED BY <1>1, <1>2, <1>3, <1>4 DEF TypeOK, RefOK, RefFile

\* The file system is what the reference says.
LEMMA InvMatches ==
  ASSUME IInv
  PROVE  RefMatches
<1>1. PICK c : c = Content(fs)  OBVIOUS
<1>2. TreeOK(c, ref, {}) /\ ~fs.failed /\ fs.open = OpenFids(ref)  BY <1>1 DEF IInv, Mounted
<1>3. Verifies(c, ref)  BY <1>2, TreeVerifies
<1>4. ASSUME NEW p \in DOMAIN ref
      PROVE  Lookup(c, p) = ref[p].fid
  <2>1. p \in Paths  BY <1>2, TreeFids
  <2>2. Lookup(c, p) = FidOrNone(ref, p)  BY <1>2, <2>1, LookupIs
  <2> QED BY <2>2 DEF FidOrNone
<1> QED BY <1>1, <1>2, <1>3, <1>4 DEF RefMatches, OpenFids

\* The nodes and the pages are in order, in memory and on the disk.
LEMMA InvAccounts ==
  ASSUME IInv
  PROVE  NodesAccounted /\ FsckClean /\ CacheCoherent
<1>1. Mounted(fs, ref) /\ PagesOK(fs, {}) /\ TreeOK(Content(fs), ref, {}) /\ Disk(fs.saved, refAt.saved)
  BY DEF IInv, Mounted
<1>2. FsckPasses(Content(fs)) /\ FsckPasses(fs.saved)  BY <1>1, TreeFsck, DiskShape
<1>3. fs.free = Cardinality({n \in Nid : fs.nat[n] = None})  BY <1>1 DEF PagesOK
<1>4. ASSUME NEW n \in Nid \ Reached(Content(fs)), fs.nat[n] # None
      PROVE  Content(fs)[n] # InUse /\ Content(fs)[n].type = "index" /\ Content(fs)[n].valid = 0
  <2>1. PICK c : c = Content(fs)  OBVIOUS
  <2>2. Mounted(fs, ref) /\ c = Content(fs) /\ n \in Nid \ Reached(c) /\ fs.nat[n] # None
    BY <1>1, <1>4, <2>1
  <2>3. c[n] # InUse /\ c[n].type = "index" /\ c[n].valid = 0  BY ONLY <2>2, NobodyNames
  <2> QED BY <2>1, <2>3
<1>5. CacheCoherent
  <2>1. \A n \in Nid : PageOK(fs.nat[n], fs.cache[n], n \in {})  BY <1>1 DEF PagesOK
  <2> QED BY <2>1 DEF PageOK, CacheCoherent, DirtyPages
<1>6. NodesAccounted  BY <1>2, <1>3, <1>4 DEF NodesAccounted
<1> QED BY <1>2, <1>5, <1>6 DEF FsckClean

\* The empty tree.
LEMMA InitTree ==
  ASSUME Init
  PROVE  FT!Init
<1>1. IInv  BY InitInv
<1>2. ref = NoPaths /\ refAt.saved = NoPaths /\ refAt.prior = NoPaths  BY DEF Init
<1>3. view.tree = Shape(NoPaths) /\ view.base = Shape(NoPaths) /\ view.prev = Shape(NoPaths)
  BY <1>1, <1>2, InvView
<1>4. Shape(NoPaths) = FT!Empty  BY DEF Shape, NoPaths, FT!Empty
<1> QED BY <1>3, <1>4 DEF FT!Init

\* The invariant holds in every state of a file system that refuses neither the inode
\* of a new file (InternalCreatreFile would leave a name without an inode) nor, after the
\* estimate of add_link, the index node or the block of a directory (FileRemove would
\* free a page twice).  The runs files_refused and files_dentry show the two exceptions;
\* the estimate may be refused, and of the blocks of files any.
THEOREM Invariance ==
  ASSUME "inode" \notin Refusals, "dentry" \notin Refusals
  PROVE  Spec => []IInv
<1>1. Init => IInv  BY InitInv
<1>2. IInv /\ [Next]_vars => IInv'  BY NextInv
<1> QED BY <1>1, <1>2, PTL DEF Spec

\* Every variable has its type, although NextFree, Place and Min choose from sets that
\* must not be empty and the counts of a node must not leave their range.
THEOREM TypeCorrect ==
  ASSUME "inode" \notin Refusals, "dentry" \notin Refusals
  PROVE  Spec => []TypeOK
<1>1. IInv => TypeOK  BY InvTypes
<1> QED BY <1>1, Invariance, PTL

\* After every operation of the testers the simulator shows what CReferenceFs says:
\* paths, types, sizes, inodes, open files and the data of every block; nothing throws
\* (with the two refusals of Invariance excepted: there something does).
THEOREM MatchesReference ==
  ASSUME "inode" \notin Refusals, "dentry" \notin Refusals
  PROVE  Spec => []RefMatches
<1>1. IInv => RefMatches  BY InvMatches
<1> QED BY <1>1, Invariance, PTL

\* fsck accepts the table on the disk at every moment.
THEOREM ImagesPassFsck ==
  ASSUME "inode" \notin Refusals, "dentry" \notin Refusals
  PROVE  Spec => []FsckClean
<1>1. IInv => FsckClean  BY InvAccounts
<1> QED BY <1>1, Invariance, PTL

\* free_nr counts the free nodes, every node in use is named once, and what nobody
\* names is an index node without blocks.
THEOREM NoNodeLost ==
  ASSUME "inode" \notin Refusals, "dentry" \notin Refusals
  PROVE  Spec => []NodesAccounted
<1>1. IInv => NodesAccounted  BY InvAccounts
<1> QED BY <1>1, Invariance, PTL

\* A clean page is the node in the log, a node without a place in the log has a dirty
\* page, and no page outlives its node (CloseInode, put_node, sync_fs, garbage collection).
THEOREM CacheIsCoherent ==
  ASSUME "inode" \notin Refusals, "dentry" \notin Refusals
  PROVE  Spec => []CacheCoherent
<1>1. IInv => CacheCoherent  BY InvAccounts
<1> QED BY <1>1, Invariance, PTL

\* The simulator implements the tree with atomic, crash-safe operations (FileTree):
\* every step maps to one of it, or to none.
THEOREM RefinesFileTree ==
  ASSUME "inode" \notin Refusals, "dentry" \notin Refusals
  PROVE  Spec => ImplementsFileTree
<1>1. Init => FT!Init  BY InitTree
<1>2. IInv /\ [Next]_vars => [FT!Next]_(FT!vars)  BY NextInv
<1> QED BY <1>1, <1>2, Invariance, PTL DEF Spec, ImplementsFileTree, FT!Spec
===============================================================================
