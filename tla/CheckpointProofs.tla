--------------------------- MODULE CheckpointProofs ---------------------------
(***************************************************************************)
(* Proofs about Checkpoint, for every size of the tables, of the journals  *)
(* and of the blocks: the type invariant, that the tables of the last      *)
(* completed checkpoint can be recovered in every state, and that no block *)
(* write touches what that checkpoint stands on.                           *)
(***************************************************************************)
EXTENDS Checkpoint, TLAPS

-------------------------------------------------------------------------------
(* Entries, blocks and journals *)

\* An entry belongs to a table, and so does its block.
LEMMA EntryFacts ==
    /\ \A x \in Entry : x[1] \in Tables /\ BlkOf(x) \in Block /\ BlkOf(x)[1] = x[1]
    /\ \A b \in Block : b[1] \in Tables
    /\ <<"nat", 0>> \in Entry
<1>1. \A x \in Entry : x[1] \in Tables
  BY DEF Entry
<1>2. \A x \in Entry : BlkOf(x) \in Block /\ BlkOf(x)[1] = x[1]
  BY DEF Block, BlkOf
<1>3. \A b \in Block : b[1] \in Tables
  BY <1>1, <1>2 DEF Block
<1>4. <<"nat", 0>> \in {"nat"} \X (0 .. EntryNr["nat"] - 1)
  BY ConstAssumption DEF Tables
<1>5. <<"nat", 0>> \in Entry
  BY <1>4 DEF Entry, Tables
<1> QED
  BY <1>1, <1>2, <1>3, <1>5

\* When no entry is journalled twice, the slot that names x is the one read.
LEMMA JournalledIs ==
    ASSUME NEW c \in Checkpoints, UniqueIds(c), NEW x \in Entry,
           NEW k \in 1 .. c.hdr.nr[x[1]], c.jrn[x[1]][k].id = x
    PROVE  Journalled(c, x) = c.jrn[x[1]][k].val
<1>1. x[1] \in Tables
  BY EntryFacts
<1>2. \A m \in 1 .. c.hdr.nr[x[1]] : c.jrn[x[1]][m].id = x => m = k
  BY <1>1 DEF UniqueIds
<1>3. c.hdr.nr[x[1]] \in Nat
  BY <1>1 DEF Checkpoints, Headers
<1>4. LastSlot(c, x) = k
  BY <1>2, <1>3 DEF LastSlot
<1> QED
  BY <1>4 DEF Journalled

\* Checkpoint d is c with the journal of table t emptied (journal_nr = 0).
LEMMA EmptyJournal ==
    ASSUME NEW c \in Checkpoints, UniqueIds(c), OwnIds(c), NEW t \in Tables, NEW d,
           d = [c EXCEPT !.hdr.nr[t] = 0]
    PROVE  /\ d \in Checkpoints
           /\ UniqueIds(d) /\ OwnIds(d)
           /\ d.hdr = [c.hdr EXCEPT !.nr[t] = 0]
           /\ d.hdr.nr[t] = 0
           /\ \A x \in Entry : x[1] = t => ~InJournal(d, x)
           /\ \A x \in Entry : x[1] # t =>
                 /\ InJournal(d, x) = InJournal(c, x)
                 /\ InJournal(d, x) => Journalled(d, x) = Journalled(c, x)
<1>1. /\ d \in Checkpoints
      /\ d.hdr = [c.hdr EXCEPT !.nr[t] = 0]
      /\ d.jrn = c.jrn
      /\ d.hdr.nr[t] = 0
      /\ \A u \in Tables : u # t => d.hdr.nr[u] = c.hdr.nr[u]
  <2>1. c.hdr \in Headers /\ c.jrn \in [Tables -> [Slots -> JournalEntry]]
    BY DEF Checkpoints
  <2>2. c.hdr.nr \in [Tables -> 0 .. JournalNr] /\ 0 \in 0 .. JournalNr
    BY <2>1, ConstAssumption DEF Headers
  <2>3. d.hdr = [c.hdr EXCEPT !.nr[t] = 0] /\ d.jrn = c.jrn
    BY DEF Checkpoints
  <2>4. d.hdr.nr = [c.hdr.nr EXCEPT ![t] = 0]
    BY <2>1, <2>3 DEF Headers
  <2>5. d.hdr.nr \in [Tables -> 0 .. JournalNr]
    BY <2>2, <2>4
  <2>6. d.hdr = [open |-> c.hdr.open, close |-> c.hdr.close, cur |-> c.hdr.cur,
                 nr |-> d.hdr.nr, bit |-> c.hdr.bit]
    BY <2>1, <2>3, <2>4, SMTT(30) DEF Headers
  <2>7. d.hdr \in Headers
    BY <2>1, <2>5, <2>6, SMTT(30) DEF Headers
  <2>8. d \in Checkpoints
    BY <2>1, <2>3, <2>7 DEF Checkpoints
  <2> QED
    BY <2>2, <2>3, <2>4, <2>8
<1>2. UniqueIds(d)
  <2> SUFFICES ASSUME NEW u \in Tables, NEW k \in 1 .. d.hdr.nr[u],
                      NEW m \in 1 .. d.hdr.nr[u], d.jrn[u][k].id = d.jrn[u][m].id
               PROVE  k = m
    BY DEF UniqueIds
  <2> QED
    BY <1>1 DEF UniqueIds
<1>2a. OwnIds(d)
  BY <1>1 DEF OwnIds
<1>3. ASSUME NEW x \in Entry, x[1] = t PROVE ~InJournal(d, x)
  BY <1>1, <1>3 DEF InJournal
<1>4. ASSUME NEW x \in Entry, x[1] # t
      PROVE  /\ InJournal(d, x) = InJournal(c, x)
             /\ InJournal(d, x) => Journalled(d, x) = Journalled(c, x)
  <2>1. d.hdr.nr[x[1]] = c.hdr.nr[x[1]] /\ d.jrn = c.jrn
    BY <1>1, <1>4, EntryFacts
  <2>2. InJournal(d, x) = InJournal(c, x)
    BY <2>1 DEF InJournal
  <2>3. ASSUME InJournal(d, x) PROVE Journalled(d, x) = Journalled(c, x)
    <3>1. PICK k \in 1 .. d.hdr.nr[x[1]] : d.jrn[x[1]][k].id = x
      BY <2>3 DEF InJournal
    <3>2. Journalled(d, x) = d.jrn[x[1]][k].val
      BY <3>1, <1>1, <1>2, JournalledIs
    <3>3. Journalled(c, x) = c.jrn[x[1]][k].val
      BY <3>1, <2>1, JournalledIs
    <3> QED
      BY <3>2, <3>3, <2>1
  <2> QED
    BY <2>2, <2>3
<1> QED
  BY <1>1, <1>2, <1>2a, <1>3, <1>4

\* Checkpoint d is c with entry x, of value v, in slot k, the last one of the
\* journal of its table.
IsAppend(d, c, x, v, k) ==
    /\ d.hdr.nr[x[1]] = k
    /\ d.jrn[x[1]][k].id = x /\ d.jrn[x[1]][k].val = v
    /\ \A m \in Slots : m # k => d.jrn[x[1]][m] = c.jrn[x[1]][m]
    /\ \A u \in Tables : u # x[1] => d.hdr.nr[u] = c.hdr.nr[u] /\ d.jrn[u] = c.jrn[u]
    /\ d.hdr.bit = c.hdr.bit /\ d.hdr.cur = c.hdr.cur
    /\ d.hdr.open = c.hdr.open /\ d.hdr.close = c.hdr.close

\* What the assignments to a journal slot and to journal_nr amount to.
LEMMA PutFields ==
    ASSUME NEW c \in Checkpoints, NEW x \in Entry, NEW v \in Cells, NEW k \in Slots, NEW d,
           d = [c EXCEPT !.jrn[x[1]][k] = [id |-> x, val |-> v], !.hdr.nr[x[1]] = k]
    PROVE  d \in Checkpoints /\ IsAppend(d, c, x, v, k)
<1>0. PICK t \in Tables : t = x[1]
  BY EntryFacts
<1>1. c.hdr \in Headers /\ c.jrn \in [Tables -> [Slots -> JournalEntry]]
  BY DEF Checkpoints
<1>2. c.hdr.nr \in [Tables -> 0 .. JournalNr] /\ k \in 0 .. JournalNr
  BY <1>1, ConstAssumption DEF Headers, Slots
<1>3. /\ d.hdr = [c.hdr EXCEPT !.nr[t] = k]
      /\ d.jrn = [c.jrn EXCEPT ![t][k] = [id |-> x, val |-> v]]
      /\ d = [hdr |-> d.hdr, jrn |-> d.jrn]
  BY <1>0 DEF Checkpoints
<1>4. d.hdr.nr = [c.hdr.nr EXCEPT ![t] = k]
  BY <1>1, <1>3 DEF Headers
<1>5. d.hdr.nr \in [Tables -> 0 .. JournalNr]
  BY <1>2, <1>4
<1>6. d.hdr = [open |-> c.hdr.open, close |-> c.hdr.close, cur |-> c.hdr.cur,
               nr |-> d.hdr.nr, bit |-> c.hdr.bit]
  BY <1>1, <1>3, <1>4 DEF Headers
<1>7. d.hdr \in Headers
  BY <1>1, <1>5, <1>6 DEF Headers
<1>8. [id |-> x, val |-> v] \in JournalEntry
  BY DEF JournalEntry
<1>9. d.jrn \in [Tables -> [Slots -> JournalEntry]]
  BY <1>0, <1>1, <1>3, <1>8
<1>10. d \in Checkpoints
  BY <1>3, <1>7, <1>9 DEF Checkpoints
<1>11. /\ d.jrn[t] = [c.jrn[t] EXCEPT ![k] = [id |-> x, val |-> v]]
       /\ \A u \in Tables : u # t => d.jrn[u] = c.jrn[u]
  BY <1>1, <1>3
<1>12. d.jrn[t][k] = [id |-> x, val |-> v] /\ \A m \in Slots : m # k => d.jrn[t][m] = c.jrn[t][m]
  BY <1>1, <1>11
<1>13. d.hdr.nr[t] = k /\ \A u \in Tables : u # t => d.hdr.nr[u] = c.hdr.nr[u]
  BY <1>2, <1>4
<1>14. d.jrn[t][k].id = x /\ d.jrn[t][k].val = v
  BY <1>12
<1>15. /\ d.hdr.bit = c.hdr.bit /\ d.hdr.cur = c.hdr.cur
       /\ d.hdr.open = c.hdr.open /\ d.hdr.close = c.hdr.close
  BY <1>6
<1> QED
  BY <1>0, <1>10, <1>11, <1>12, <1>13, <1>14, <1>15 DEF IsAppend

\* Appending x to a journal that does not hold it adds x and nothing else.
LEMMA AppendJournal ==
    ASSUME NEW c \in Checkpoints, UniqueIds(c), OwnIds(c), NEW d \in Checkpoints,
           NEW x \in Entry, NEW v \in Cells, NEW k \in Slots,
           k = c.hdr.nr[x[1]] + 1, ~InJournal(c, x), IsAppend(d, c, x, v, k)
    PROVE  /\ UniqueIds(d) /\ OwnIds(d)
           /\ InJournal(d, x) /\ Journalled(d, x) = v
           /\ \A y \in Entry : y # x =>
                 /\ InJournal(d, y) = InJournal(c, y)
                 /\ InJournal(d, y) => Journalled(d, y) = Journalled(c, y)
<1>0. PICK t \in Tables : t = x[1]
  BY EntryFacts
<1>1. /\ d.hdr.nr[t] = k
      /\ d.jrn[t][k].id = x /\ d.jrn[t][k].val = v
      /\ \A m \in Slots : m # k => d.jrn[t][m] = c.jrn[t][m]
      /\ \A u \in Tables : u # t => d.hdr.nr[u] = c.hdr.nr[u] /\ d.jrn[u] = c.jrn[u]
  BY <1>0 DEF IsAppend
<1>2. c.hdr.nr \in [Tables -> 0 .. JournalNr] /\ k = c.hdr.nr[t] + 1
      /\ k \in 1 .. JournalNr /\ JournalNr \in Nat
  BY <1>0, ConstAssumption DEF Checkpoints, Headers, Slots
<1>3. \A m \in 1 .. k : m = k \/ m \in 1 .. c.hdr.nr[t]
  BY <1>2
<1>4. \A m \in 1 .. c.hdr.nr[t] : m \in Slots /\ m # k /\ m \in 1 .. k
  BY <1>2 DEF Slots
<1>5. \A m \in 1 .. c.hdr.nr[t] : c.jrn[t][m].id # x /\ d.jrn[t][m] = c.jrn[t][m]
  BY <1>0, <1>1, <1>4 DEF InJournal
<1>6. UniqueIds(d)
  <2> SUFFICES ASSUME NEW u \in Tables, NEW i \in 1 .. d.hdr.nr[u],
                      NEW m \in 1 .. d.hdr.nr[u], d.jrn[u][i].id = d.jrn[u][m].id
               PROVE  i = m
    BY DEF UniqueIds
  <2>1. CASE u = t
    <3>1. i \in 1 .. k /\ m \in 1 .. k
      BY <2>1, <1>1
    <3>2. CASE i = k
      BY <3>1, <3>2, <2>1, <1>1, <1>3, <1>5
    <3>3. CASE m = k
      BY <3>1, <3>3, <2>1, <1>1, <1>3, <1>5
    <3>4. CASE i # k /\ m # k
      <4>1. i \in 1 .. c.hdr.nr[t] /\ m \in 1 .. c.hdr.nr[t]
        BY <3>1, <3>4, <1>3
      <4>2. c.jrn[t][i].id = c.jrn[t][m].id
        BY <4>1, <2>1, <1>5
      <4> QED
        BY <4>1, <4>2 DEF UniqueIds
    <3> QED
      BY <3>2, <3>3, <3>4
  <2>2. CASE u # t
    BY <2>2, <1>1 DEF UniqueIds
  <2> QED
    BY <2>1, <2>2
<1>7. OwnIds(d)
  <2> SUFFICES ASSUME NEW u \in Tables, NEW i \in 1 .. d.hdr.nr[u]
               PROVE  d.jrn[u][i].id[1] = u
    BY DEF OwnIds
  <2>1. CASE u = t /\ i = k
    BY <2>1, <1>0, <1>1
  <2>2. CASE u = t /\ i # k
    BY <2>2, <1>1, <1>3, <1>5 DEF OwnIds
  <2>3. CASE u # t
    BY <2>3, <1>1 DEF OwnIds
  <2> QED
    BY <2>1, <2>2, <2>3
<1>8. InJournal(d, x) /\ Journalled(d, x) = v
  <2>1. k \in 1 .. d.hdr.nr[x[1]] /\ d.jrn[x[1]][k].id = x
    BY <1>0, <1>1, <1>2
  <2>2. Journalled(d, x) = d.jrn[x[1]][k].val
    BY <2>1, <1>6, JournalledIs
  <2> QED
    BY <2>1, <2>2, <1>0, <1>1 DEF InJournal
<1>9. ASSUME NEW y \in Entry, y # x
      PROVE  /\ InJournal(d, y) = InJournal(c, y)
             /\ InJournal(d, y) => Journalled(d, y) = Journalled(c, y)
  <2>0. y[1] \in Tables
    BY EntryFacts
  <2>1. ASSUME NEW m \in 1 .. d.hdr.nr[y[1]], d.jrn[y[1]][m].id = y
        PROVE  m \in 1 .. c.hdr.nr[y[1]] /\ c.jrn[y[1]][m] = d.jrn[y[1]][m]
    <3>1. CASE y[1] = t
      BY <3>1, <2>1, <1>1, <1>3, <1>5, <1>9
    <3>2. CASE y[1] # t
      BY <3>2, <2>0, <2>1, <1>1
    <3> QED
      BY <3>1, <3>2
  <2>2. ASSUME NEW m \in 1 .. c.hdr.nr[y[1]], c.jrn[y[1]][m].id = y
        PROVE  m \in 1 .. d.hdr.nr[y[1]] /\ c.jrn[y[1]][m] = d.jrn[y[1]][m]
    <3>1. CASE y[1] = t
      BY <3>1, <2>2, <1>1, <1>4, <1>5
    <3>2. CASE y[1] # t
      BY <3>2, <2>0, <2>2, <1>1
    <3> QED
      BY <3>1, <3>2
  <2>3. InJournal(d, y) = InJournal(c, y)
    BY <2>1, <2>2 DEF InJournal
  <2>4. ASSUME InJournal(d, y) PROVE Journalled(d, y) = Journalled(c, y)
    <3>1. PICK m \in 1 .. d.hdr.nr[y[1]] : d.jrn[y[1]][m].id = y
      BY <2>4 DEF InJournal
    <3>2. Journalled(d, y) = d.jrn[y[1]][m].val
      BY <3>1, <1>6, JournalledIs
    <3>3. Journalled(c, y) = c.jrn[y[1]][m].val
      BY <3>1, <2>1, JournalledIs
    <3> QED
      BY <3>1, <3>2, <3>3, <2>1
  <2> QED
    BY <2>3, <2>4
<1> QED
  BY <1>6, <1>7, <1>8, <1>9

-------------------------------------------------------------------------------
(* IInv is inductive: one lemma per action *)

\* The state mkfs leaves satisfies the inductive invariant.
LEMMA InitIInv == Init => IInv
<1> SUFFICES ASSUME Init PROVE IInv
  OBVIOUS
<1> USE EntryFacts, ConstAssumption
<1>1. PICK v \in Values, cs \in CurSegs : 
        /\ mem = [x \in Entry |-> v] /\ dirty = {} /\ curSegs = cs
        /\ ckpt = [hdr |-> FirstHeader(2, cs), jrn |-> NoJournals(<<"nat", 0>>)]
        /\ curCkpt = 0 /\ pc = "idle" /\ tbl = "nat" /\ cached = {} /\ page = NoPages
        /\ chunk = 0 /\ updates = 0
        /\ area = [c \in {0, 1} |-> [x \in Entry |-> IF c = 0 THEN v ELSE Unwritten]]
        /\ pack = [i \in {0, 1} |->
                     IF i = 0 THEN ckpt
                     ELSE [hdr |-> FirstHeader(0, cs), jrn |-> NoJournals(<<"nat", 0>>)]]
        /\ committed = [pack |-> 0, tab |-> mem, cur |-> cs]
  BY DEF Init
<1>2. NoJournals(<<"nat", 0>>) \in [Tables -> [Slots -> JournalEntry]]
  BY DEF NoJournals, JournalEntry, Cells
<1>3. ASSUME NEW ver \in {0, 2} PROVE FirstHeader(ver, cs) \in Headers
  BY <1>3 DEF FirstHeader, Headers
<1>4. /\ ckpt \in Checkpoints
      /\ [hdr |-> FirstHeader(0, cs), jrn |-> NoJournals(<<"nat", 0>>)] \in Checkpoints
  BY <1>1, <1>2, <1>3 DEF Checkpoints
<1>5. TypeOK
  <2>1. pack \in [{0, 1} -> Checkpoints]
    BY <1>1, <1>4
  <2>2. area \in [{0, 1} -> [Entry -> Cells]]
    BY <1>1 DEF Cells
  <2>3. mem \in [Entry -> Values] /\ mem \in [Entry -> Cells] /\ page \in [Entry -> Cells]
    BY <1>1 DEF Cells, NoPages
  <2> QED
    BY <1>1, <1>4, <2>1, <2>2, <2>3 DEF TypeOK, Tables
<1>6. /\ ckpt.hdr = FirstHeader(2, cs)
      /\ pack[0] = ckpt
      /\ pack[1].hdr = FirstHeader(0, cs)
      /\ committed.pack = 0 /\ committed.tab = mem /\ committed.cur = cs
  BY <1>1
<1>7. \A t \in Tables : ckpt.hdr.nr[t] = 0
  BY <1>6 DEF FirstHeader
<1>8. UniqueIds(ckpt) /\ OwnIds(ckpt) /\ \A x \in Entry : ~InJournal(ckpt, x)
  BY <1>7 DEF UniqueIds, OwnIds, InJournal
<1>9. \A x \in Entry : /\ Recovered(ckpt, x) = v
                       /\ View(x) = v
                       /\ mem[x] = v
  <2>1. \A x \in Entry : ckpt.hdr.bit[BlkOf(x)] = 0
    BY <1>6 DEF FirstHeader
  <2>2. \A x \in Entry : area[0][x] = v /\ BlkOf(x) \notin cached
    BY <1>1
  <2> QED
    BY <2>1, <2>2, <1>1, <1>8 DEF Recovered, View
<1>10. CommittedPackOK
  BY <1>6, <1>8, <1>9 DEF CommittedPackOK, FirstHeader
<1>11. MemoryOK
  BY <1>1, <1>8, <1>9 DEF MemoryOK
<1>12. FlushOK /\ PackOK
  BY <1>1, <1>6 DEF FlushOK, PackOK, Flushing, Saving, FirstHeader
<1> QED
  BY <1>5, <1>10, <1>11, <1>12 DEF IInv

\* An update of a table in memory keeps IInv.
LEMMA SetEntryStep ==
    ASSUME IInv, NEW x \in Entry, NEW v \in Values, SetEntry(x, v)
    PROVE  IInv'
<1> USE DEF IInv
<1>1. /\ pc = "idle" /\ pc' = pc /\ tbl' = tbl /\ ckpt' = ckpt /\ curCkpt' = curCkpt
      /\ cached' = cached /\ page' = page /\ chunk' = chunk /\ area' = area
      /\ pack' = pack /\ committed' = committed /\ curSegs' = curSegs
      /\ mem' = [mem EXCEPT ![x] = v] /\ dirty' = dirty \cup {x}
      /\ updates < MaxUpdates /\ updates' = updates + 1
  BY DEF SetEntry, ckptVars, flushVars, diskVars
<1>2. TypeOK'
  BY <1>1, ConstAssumption DEF TypeOK, Cells
<1>3. CommittedPackOK'
  BY <1>1 DEF CommittedPackOK, Recovered
<1>4. MemoryOK'
  <2>1. mem' \in [Entry -> Values] /\ UniqueIds(ckpt)' /\ OwnIds(ckpt)'
    BY <1>1 DEF MemoryOK
  <2>2. ASSUME NEW y \in Entry, y \notin dirty' PROVE View(y)' = mem'[y]
    BY <1>1, <2>2 DEF MemoryOK, View
  <2> QED
    BY <2>1, <2>2 DEF MemoryOK
<1>5. FlushOK'
  BY <1>1 DEF FlushOK, PagesStarted, Flushed, Flushing, Saving
<1>6. PackOK'
  BY <1>1 DEF PackOK, Flushing, Saving
<1> QED
  BY <1>2, <1>3, <1>4, <1>5, <1>6

\* A new current segment in memory keeps IInv.
LEMMA SetCurSegsStep ==
    ASSUME IInv, NEW cs \in CurSegs, SetCurSegs(cs)
    PROVE  IInv'
<1> USE DEF IInv
<1>1. /\ pc = "idle" /\ pc' = pc /\ tbl' = tbl /\ ckpt' = ckpt /\ curCkpt' = curCkpt
      /\ cached' = cached /\ page' = page /\ chunk' = chunk /\ area' = area
      /\ pack' = pack /\ committed' = committed /\ curSegs' = cs
      /\ mem' = mem /\ dirty' = dirty
      /\ updates < MaxUpdates /\ updates' = updates + 1
  BY DEF SetCurSegs, ckptVars, flushVars, diskVars
<1>2. TypeOK'
  BY <1>1, ConstAssumption DEF TypeOK
<1>3. CommittedPackOK'
  BY <1>1 DEF CommittedPackOK, Recovered
<1>4. MemoryOK'
  BY <1>1 DEF MemoryOK, View
<1>5. FlushOK'
  BY <1>1 DEF FlushOK, PagesStarted, Flushed, Flushing, Saving
<1>6. PackOK'
  BY <1>1 DEF PackOK, Flushing, Saving
<1> QED
  BY <1>2, <1>3, <1>4, <1>5, <1>6

\* Folding the journal of table t into pages changes no entry's value: pages
\* and disk alone now say what journal, pages and disk said.
LEMMA FoldKeepsView ==
    ASSUME TypeOK, UniqueIds(ckpt), OwnIds(ckpt), NEW t \in Tables, FoldPages(t),
           \A b \in cached : b[1] = t
    PROVE  /\ cached' \subseteq Block
           /\ \A b \in cached' : b[1] = t
           /\ page' \in [Entry -> Cells]
           /\ \A x \in Entry : x[1] = t =>
                 View(x) = IF BlkOf(x) \in cached' THEN page'[x]
                           ELSE area[ckpt.hdr.bit[BlkOf(x)]][x]
<1> USE EntryFacts DEF TypeOK
<1>1. /\ cached' = cached \cup JournalBlocks(t)
      /\ page' = [x \in Entry |->
                    IF x[1] = t /\ BlkOf(x) \in cached' THEN View(x) ELSE page[x]]
  BY DEF FoldPages
<1>2. \A k \in 1 .. ckpt.hdr.nr[t] : ckpt.jrn[t][k].id \in Entry /\ ckpt.jrn[t][k].id[1] = t
  <2>1. ckpt.jrn \in [Tables -> [Slots -> JournalEntry]] /\ ckpt.hdr.nr[t] \in 0 .. JournalNr
    BY DEF Checkpoints, Headers
  <2>2. \A k \in 1 .. ckpt.hdr.nr[t] : k \in Slots
    BY <2>1, ConstAssumption DEF Slots
  <2> QED
    BY <2>1, <2>2 DEF OwnIds, JournalEntry
<1>3. cached' \subseteq Block /\ \A b \in cached' : b[1] = t
  BY <1>1, <1>2 DEF JournalBlocks
<1>4. ASSUME NEW x \in Entry PROVE View(x) \in Cells
  <2>1. ASSUME InJournal(ckpt, x) PROVE Journalled(ckpt, x) \in Cells
    <3>1. PICK k \in 1 .. ckpt.hdr.nr[x[1]] : ckpt.jrn[x[1]][k].id = x
      BY <2>1 DEF InJournal
    <3>2. Journalled(ckpt, x) = ckpt.jrn[x[1]][k].val
      BY <3>1, JournalledIs
    <3>3. ckpt.jrn \in [Tables -> [Slots -> JournalEntry]]
          /\ ckpt.hdr.nr[x[1]] \in 0 .. JournalNr
      BY DEF Checkpoints, Headers
    <3>4. k \in Slots
      BY <3>1, <3>3, ConstAssumption, SMTT(30) DEF Slots
    <3> QED
      BY <3>2, <3>3, <3>4 DEF JournalEntry
  <2>2. ckpt.hdr.bit[BlkOf(x)] \in {0, 1}
    BY DEF Checkpoints, Headers
  <2> QED
    BY <2>1, <2>2 DEF View
<1>5. page' \in [Entry -> Cells]
  BY <1>1, <1>4
<1>6. ASSUME NEW x \in Entry, x[1] = t, BlkOf(x) \notin cached'
      PROVE  View(x) = area[ckpt.hdr.bit[BlkOf(x)]][x]
  <2>1. ~InJournal(ckpt, x)
    BY <1>1, <1>6 DEF InJournal, JournalBlocks
  <2> QED
    BY <2>1, <1>1, <1>6 DEF View
<1> QED
  BY <1>1, <1>3, <1>5, <1>6

\* Both flushes start by folding the journal of the last checkpoint.
LEMMA BeginFlushStep ==
    ASSUME IInv, NEW t \in Tables, BeginFlush(t), cached = {},
           \/ pc = "idle" /\ t = "nat" /\ ckpt.hdr.open < MaxVer
           \/ pc = "write" /\ tbl = "nat" /\ t = "sit"
    PROVE  IInv'
<1> USE EntryFacts DEF IInv
<1>1. /\ pc' = "fill" /\ tbl' = t /\ curCkpt' = curCkpt /\ chunk' = chunk
      /\ area' = area /\ pack' = pack /\ committed' = committed /\ curSegs' = curSegs
      /\ mem' = mem /\ dirty' = dirty /\ updates' = updates
      /\ ckpt' = [ckpt EXCEPT !.hdr.nr[t] = 0]
      /\ FoldPages(t)
  BY DEF BeginFlush, memVars, diskVars
<1>2. TypeOK /\ ckpt \in Checkpoints /\ UniqueIds(ckpt) /\ OwnIds(ckpt)
  BY DEF MemoryOK, TypeOK
<1>3. /\ cached' \subseteq Block
      /\ \A b \in cached' : b[1] = t
      /\ page' \in [Entry -> Cells]
      /\ \A x \in Entry : x[1] = t =>
            View(x) = IF BlkOf(x) \in cached' THEN page'[x]
                      ELSE area[ckpt.hdr.bit[BlkOf(x)]][x]
  BY <1>1, <1>2, FoldKeepsView
<1>4. /\ ckpt' \in Checkpoints
      /\ UniqueIds(ckpt') /\ OwnIds(ckpt')
      /\ ckpt'.hdr = [ckpt.hdr EXCEPT !.nr[t] = 0]
      /\ ckpt'.hdr.nr[t] = 0
      /\ \A x \in Entry : x[1] = t => ~InJournal(ckpt', x)
      /\ \A x \in Entry : x[1] # t =>
            /\ InJournal(ckpt', x) = InJournal(ckpt, x)
            /\ InJournal(ckpt', x) => Journalled(ckpt', x) = Journalled(ckpt, x)
  BY <1>1, <1>2, EmptyJournal
<1>5. /\ ckpt'.hdr.bit = ckpt.hdr.bit /\ ckpt'.hdr.open = ckpt.hdr.open
      /\ ckpt'.hdr.close = ckpt.hdr.close
  BY <1>4, <1>2 DEF Checkpoints, Headers
<1>6. TypeOK'
  BY <1>1, <1>2, <1>3, <1>4 DEF TypeOK
<1>7. CommittedPackOK'
  BY <1>1 DEF CommittedPackOK, Recovered
<1>8. MemoryOK'
  <2>1. ASSUME NEW x \in Entry, x \notin dirty PROVE View(x)' = mem[x]
    <3>1. View(x) = mem[x]
      BY <2>1 DEF MemoryOK
    <3>2. CASE x[1] = t
      BY <3>1, <3>2, <1>1, <1>3, <1>4, <1>5 DEF View
    <3>3. CASE x[1] # t
      <4>1. BlkOf(x) \notin cached' /\ BlkOf(x) \notin cached
        BY <3>3, <1>3
      <4> QED
        BY <3>1, <3>3, <4>1, <1>1, <1>4, <1>5 DEF View
    <3> QED
      BY <3>2, <3>3
  <2> QED
    BY <2>1, <1>1, <1>4 DEF MemoryOK
<1>9. FlushOK'
  <2>1. \A x \in dirty : x[1] \in Tables
    BY <1>2 DEF TypeOK
  <2>2. \A x \in dirty : ~PagesStarted(x[1])'
    BY <2>1, <1>1 DEF FlushOK, PagesStarted, Flushed, Flushing, Saving, Tables
  <2>3. \A b \in Block : b \in cached' \/ ~PagesStarted(b[1])' =>
           ckpt'.hdr.bit[b] = pack[committed.pack].hdr.bit[b]
    BY <1>1, <1>3, <1>5 DEF FlushOK, PagesStarted, Flushed, Flushing, Saving, Tables
  <2> QED
    BY <2>2, <2>3, <1>1, <1>3, <1>4 DEF FlushOK, Flushing
<1>10. PackOK'
  BY <1>1, <1>5 DEF PackOK, Flushing, Saving
<1> QED
  BY <1>6, <1>7, <1>8, <1>9, <1>10

\* Moving a dirty entry to the journal, folding a full journal first.
LEMMA PutEntryStep ==
    ASSUME IInv, NEW x \in Entry, PutEntry(x)
    PROVE  IInv'
<1> USE EntryFacts DEF IInv
<1> DEFINE t == tbl
<1>1. /\ pc = "fill" /\ pc' = "fill" /\ tbl' = tbl /\ curCkpt' = curCkpt /\ chunk' = chunk
      /\ area' = area /\ pack' = pack /\ committed' = committed /\ curSegs' = curSegs
      /\ mem' = mem /\ dirty' = dirty \ {x} /\ updates' = updates
      /\ x \in dirty /\ x[1] = t /\ t \in Tables
  BY DEF PutEntry, diskVars, DirtyOf
<1>2. TypeOK /\ ckpt \in Checkpoints /\ UniqueIds(ckpt) /\ OwnIds(ckpt) /\ mem[x] \in Cells
  BY <1>1 DEF MemoryOK, TypeOK
<1>3. \A b \in cached : b[1] = t
  BY DEF FlushOK
<1>4. ckpt.hdr.nr[t] \in 0 .. JournalNr /\ JournalNr \in Nat \ {0}
  BY <1>1, <1>2, ConstAssumption DEF Checkpoints, Headers
\* c is the checkpoint to which x is appended, in slot k.
<1>5. \E c \in Checkpoints, k \in Slots :
        /\ k = c.hdr.nr[t] + 1
        /\ UniqueIds(c) /\ OwnIds(c) /\ ~InJournal(c, x)
        /\ ckpt' \in Checkpoints /\ IsAppend(ckpt', c, x, mem[x], k)
        /\ c.hdr.open = ckpt.hdr.open /\ c.hdr.close = ckpt.hdr.close
        /\ c.hdr.bit = ckpt.hdr.bit /\ c.hdr.cur = ckpt.hdr.cur
        /\ \A m \in 1 .. c.hdr.nr[t] : c.jrn[t][m].id \notin dirty
        /\ cached' \subseteq Block /\ \A b \in cached' : b[1] = t
        /\ page' \in [Entry -> Cells]
        /\ \A y \in Entry : View(y) = IF InJournal(c, y) THEN Journalled(c, y)
                                     ELSE IF BlkOf(y) \in cached' THEN page'[y]
                                     ELSE area[c.hdr.bit[BlkOf(y)]][y]
  <2>1. CASE JournalFull(t) /\ FoldPages(t) /\ PutInJournal(x, 1)
    <3> DEFINE c == [ckpt EXCEPT !.hdr.nr[t] = 0]
    <3>1. /\ c \in Checkpoints
          /\ UniqueIds(c) /\ OwnIds(c)
          /\ c.hdr = [ckpt.hdr EXCEPT !.nr[t] = 0]
          /\ c.hdr.nr[t] = 0
          /\ \A y \in Entry : y[1] = t => ~InJournal(c, y)
          /\ \A y \in Entry : y[1] # t =>
                /\ InJournal(c, y) = InJournal(ckpt, y)
                /\ InJournal(c, y) => Journalled(c, y) = Journalled(ckpt, y)
      BY <1>1, <1>2, EmptyJournal
    <3>2. /\ cached' \subseteq Block
          /\ \A b \in cached' : b[1] = t
          /\ page' \in [Entry -> Cells]
          /\ \A y \in Entry : y[1] = t =>
                View(y) = IF BlkOf(y) \in cached' THEN page'[y]
                          ELSE area[ckpt.hdr.bit[BlkOf(y)]][y]
      BY <2>1, <1>1, <1>2, <1>3, FoldKeepsView
    <3>3. /\ c.hdr.open = ckpt.hdr.open /\ c.hdr.close = ckpt.hdr.close
          /\ c.hdr.bit = ckpt.hdr.bit /\ c.hdr.cur = ckpt.hdr.cur
      BY <1>2 DEF Checkpoints, Headers
    <3>4. ckpt' \in Checkpoints /\ IsAppend(ckpt', c, x, mem[x], 1)
      <4>1. 1 \in Slots
        BY <1>4 DEF Slots
      <4>2. ckpt' \in Checkpoints /\ IsAppend(ckpt', ckpt, x, mem[x], 1)
        BY <2>1, <1>2, <4>1, PutFields DEF PutInJournal
      <4>3. c.jrn = ckpt.jrn
        BY <1>2 DEF Checkpoints
      <4>4. \A u \in Tables : u # t => c.hdr.nr[u] = ckpt.hdr.nr[u]
        BY <1>2, <3>1 DEF Checkpoints, Headers
      <4> HIDE DEF c
      <4> QED
        BY <4>2, <4>3, <4>4, <3>3, <1>1 DEF IsAppend
    <3>5. \A y \in Entry : View(y) = IF InJournal(c, y) THEN Journalled(c, y)
                                     ELSE IF BlkOf(y) \in cached' THEN page'[y]
                                     ELSE area[c.hdr.bit[BlkOf(y)]][y]
      <4> SUFFICES ASSUME NEW y \in Entry
                   PROVE  View(y) = IF InJournal(c, y) THEN Journalled(c, y)
                                    ELSE IF BlkOf(y) \in cached' THEN page'[y]
                                    ELSE area[c.hdr.bit[BlkOf(y)]][y]
        OBVIOUS
      <4> HIDE DEF c
      <4>1. CASE y[1] = t
        BY <4>1, <3>1, <3>2, <3>3
      <4>2. CASE y[1] # t
        <5>1. BlkOf(y) \notin cached' /\ BlkOf(y) \notin cached
          BY <4>2, <3>2, <1>3
        <5> QED
          BY <4>2, <5>1, <3>1, <3>3 DEF View
      <4> QED
        BY <4>1, <4>2
    <3>6. 1 \in Slots /\ 1 = c.hdr.nr[t] + 1 /\ ~InJournal(c, x)
          /\ \A m \in 1 .. c.hdr.nr[t] : c.jrn[t][m].id \notin dirty
      BY <3>1, <1>1, <1>4 DEF Slots
    <3> HIDE DEF c
    <3> QED
      BY <3>1, <3>2, <3>3, <3>4, <3>5, <3>6
  <2>2. CASE ~JournalFull(t) /\ PutInJournal(x, ckpt.hdr.nr[t] + 1) /\ UNCHANGED <<cached, page>>
    <3> DEFINE k == ckpt.hdr.nr[t] + 1
    <3>1. k \in Slots
      BY <2>2, <1>4 DEF JournalFull, Slots
    <3>2. \A m \in 1 .. ckpt.hdr.nr[t] : ckpt.jrn[t][m].id \notin dirty
      BY <1>1 DEF FlushOK
    <3>3. ~InJournal(ckpt, x)
      BY <3>2, <1>1 DEF InJournal
    <3>4. cached' = cached /\ page' = page
      BY <2>2
    <3>5. \A y \in Entry : View(y) = IF InJournal(ckpt, y) THEN Journalled(ckpt, y)
                                     ELSE IF BlkOf(y) \in cached' THEN page'[y]
                                     ELSE area[ckpt.hdr.bit[BlkOf(y)]][y]
      BY <3>4 DEF View
    <3>6. ckpt' \in Checkpoints /\ IsAppend(ckpt', ckpt, x, mem[x], k)
      BY <2>2, <3>1, <1>2, PutFields DEF PutInJournal
    <3>7. cached' \subseteq Block /\ page' \in [Entry -> Cells]
      BY <3>4, <1>2 DEF TypeOK
    <3> HIDE DEF k
    <3>8. k = ckpt.hdr.nr[t] + 1
      BY DEF k
    <3> QED
      BY <3>1, <3>2, <3>3, <3>4, <3>5, <3>6, <3>7, <3>8, <1>2, <1>3
  <2> QED
    BY <2>1, <2>2 DEF PutEntry
<1>6. PICK c \in Checkpoints, k \in Slots :
        /\ k = c.hdr.nr[t] + 1
        /\ UniqueIds(c) /\ OwnIds(c) /\ ~InJournal(c, x)
        /\ ckpt' \in Checkpoints /\ IsAppend(ckpt', c, x, mem[x], k)
        /\ c.hdr.open = ckpt.hdr.open /\ c.hdr.close = ckpt.hdr.close
        /\ c.hdr.bit = ckpt.hdr.bit /\ c.hdr.cur = ckpt.hdr.cur
        /\ \A m \in 1 .. c.hdr.nr[t] : c.jrn[t][m].id \notin dirty
        /\ cached' \subseteq Block /\ \A b \in cached' : b[1] = t
        /\ page' \in [Entry -> Cells]
        /\ \A y \in Entry : View(y) = IF InJournal(c, y) THEN Journalled(c, y)
                                     ELSE IF BlkOf(y) \in cached' THEN page'[y]
                                     ELSE area[c.hdr.bit[BlkOf(y)]][y]
  BY <1>5
<1>7. /\ ckpt' \in Checkpoints
      /\ UniqueIds(ckpt') /\ OwnIds(ckpt')
      /\ InJournal(ckpt', x) /\ Journalled(ckpt', x) = mem[x]
      /\ \A y \in Entry : y # x =>
            /\ InJournal(ckpt', y) = InJournal(c, y)
            /\ InJournal(ckpt', y) => Journalled(ckpt', y) = Journalled(c, y)
  <2>1. k = c.hdr.nr[x[1]] + 1 /\ mem[x] \in Cells
    BY <1>1, <1>2, <1>6
  <2> QED
    BY <2>1, <1>6, AppendJournal
<1>8. /\ ckpt'.hdr.bit = ckpt.hdr.bit /\ ckpt'.hdr.open = ckpt.hdr.open
      /\ ckpt'.hdr.close = ckpt.hdr.close /\ ckpt'.hdr.cur = ckpt.hdr.cur
  BY <1>6 DEF IsAppend
<1>9. TypeOK'
  BY <1>1, <1>2, <1>6, <1>7 DEF TypeOK
<1>10. CommittedPackOK'
  BY <1>1 DEF CommittedPackOK, Recovered
<1>11. MemoryOK'
  <2>1. ASSUME NEW y \in Entry, y \notin dirty' PROVE View(y)' = mem[y]
    <3>1. CASE y = x
      BY <3>1, <1>7 DEF View
    <3>2. CASE y # x
      <4>1. View(y) = mem[y]
        BY <3>2, <2>1, <1>1 DEF MemoryOK
      <4>2. View(y)' = View(y)
        BY <3>2, <1>1, <1>6, <1>7, <1>8 DEF View
      <4> QED
        BY <4>1, <4>2
    <3> QED
      BY <3>1, <3>2
  <2> QED
    BY <2>1, <1>1, <1>7 DEF MemoryOK
<1>12. FlushOK'
  <2>1. \A m \in 1 .. ckpt'.hdr.nr[t] : ckpt'.jrn[t][m].id \notin dirty'
    <3> SUFFICES ASSUME NEW m \in 1 .. ckpt'.hdr.nr[t], ckpt'.jrn[t][m].id # x
                 PROVE  ckpt'.jrn[t][m].id \notin dirty
      BY <1>1
    <3> DEFINE y == ckpt'.jrn[t][m].id
    <3>1. ckpt'.jrn \in [Tables -> [Slots -> JournalEntry]] /\ ckpt'.hdr.nr[t] \in 0 .. JournalNr
      BY <1>1, <1>7 DEF Checkpoints, Headers
    <3>2. m \in Slots
      BY <3>1, <1>4 DEF Slots
    <3>3. y \in Entry /\ y[1] = t
      BY <3>1, <3>2, <1>1, <1>7 DEF OwnIds, JournalEntry
    <3>4. InJournal(ckpt', y)
      BY <3>3 DEF InJournal
    <3>5. InJournal(c, y)
      BY <3>3, <3>4, <1>7
    <3> QED
      BY <3>3, <3>5, <1>6 DEF InJournal
  <2>2. \A y \in dirty' : ~PagesStarted(y[1])'
    BY <1>1 DEF FlushOK, PagesStarted, Flushed, Flushing, Saving
  <2>3. \A b \in Block : b \in cached' \/ ~PagesStarted(b[1])' =>
           ckpt'.hdr.bit[b] = pack[committed.pack].hdr.bit[b]
    <3> SUFFICES ASSUME NEW b \in Block, b \in cached' \/ ~PagesStarted(b[1])'
                 PROVE  ckpt.hdr.bit[b] = pack[committed.pack].hdr.bit[b]
      BY <1>8
    <3>1. ~PagesStarted(b[1])
      BY <1>1, <1>6 DEF PagesStarted, Flushed, Flushing, Saving
    <3> QED
      BY <3>1, <1>1 DEF FlushOK, Flushing
  <2> QED
    BY <2>1, <2>2, <2>3, <1>1, <1>6 DEF FlushOK, Flushing
<1>13. PackOK'
  BY <1>1, <1>8 DEF PackOK, Flushing, Saving
<1> QED
  BY <1>9, <1>10, <1>11, <1>12, <1>13

\* The loop over dirty entries ends when the table has none left.
LEMMA EndFillStep ==
    ASSUME IInv, EndFill
    PROVE  IInv'
<1> USE EntryFacts DEF IInv
<1>1. /\ pc = "fill" /\ pc' = "write" /\ tbl' = tbl /\ curCkpt' = curCkpt /\ chunk' = chunk
      /\ area' = area /\ pack' = pack /\ committed' = committed /\ curSegs' = curSegs
      /\ mem' = mem /\ dirty' = dirty /\ updates' = updates /\ ckpt' = ckpt
      /\ cached' = cached /\ page' = page
      /\ \A x \in dirty : x[1] # tbl
  BY DEF EndFill, DirtyOf, memVars, ckptVars, flushVars, diskVars
<1>2. TypeOK'
  BY <1>1 DEF TypeOK
<1>3. CommittedPackOK'
  BY <1>1 DEF CommittedPackOK, Recovered
<1>4. MemoryOK'
  BY <1>1 DEF MemoryOK, View
<1>5. FlushOK'
  <2>1. \A t : PagesStarted(t)' => t = tbl \/ PagesStarted(t)
    BY <1>1 DEF PagesStarted, Flushed, Flushing, Saving
  <2>2. \A b \in Block : ~PagesStarted(b[1])
           \/ b[1] # tbl
    BY <1>1, <1>2 DEF PagesStarted, Flushed, Flushing, Saving, TypeOK, Tables
  <2>3. \A b \in cached : ~PagesStarted(b[1])
    BY <2>2, <1>2, <1>1 DEF FlushOK, TypeOK
  <2>4. \A b \in Block : ~PagesStarted(b[1])' => ~PagesStarted(b[1])
    BY <1>1 DEF PagesStarted, Flushed, Flushing, Saving
  <2> QED
    BY <2>1, <2>3, <2>4, <1>1 DEF FlushOK, Flushing
<1>6. PackOK'
  BY <1>1 DEF PackOK, Flushing, Saving
<1> QED
  BY <1>2, <1>3, <1>4, <1>5, <1>6

\* Writing a page goes to the copy the committed bitmap does not point to.
LEMMA WritePageStep ==
    ASSUME IInv, NEW b \in Block, WritePage(b)
    PROVE  IInv'
<1> USE EntryFacts DEF IInv
<1> DEFINE copy == NextCopy(b)
<1>1. /\ pc = "write" /\ pc' = "write" /\ tbl' = tbl /\ curCkpt' = curCkpt /\ chunk' = chunk
      /\ pack' = pack /\ committed' = committed /\ curSegs' = curSegs
      /\ mem' = mem /\ dirty' = dirty /\ updates' = updates
      /\ b \in cached /\ cached' = cached \ {b}
      /\ ckpt' = [ckpt EXCEPT !.hdr.bit[b] = copy]
      /\ area' = [area EXCEPT ![copy] =
                    [x \in Entry |-> IF BlkOf(x) = b THEN page[x] ELSE @[x]]]
      /\ page' = [x \in Entry |-> IF BlkOf(x) = b THEN Unwritten ELSE page[x]]
  BY DEF WritePage, memVars
<1>2. TypeOK /\ ckpt \in Checkpoints /\ UniqueIds(ckpt) /\ OwnIds(ckpt)
  BY <1>1 DEF MemoryOK, TypeOK
<1>3. ckpt.hdr \in Headers /\ ckpt.hdr.bit \in [Block -> {0, 1}] /\ copy \in {0, 1}
      /\ copy = 1 - ckpt.hdr.bit[b]
  BY <1>2 DEF Checkpoints, Headers, NextCopy
<1>4. /\ ckpt'.hdr = [ckpt.hdr EXCEPT !.bit[b] = copy] /\ ckpt'.jrn = ckpt.jrn
      /\ ckpt' = [hdr |-> ckpt'.hdr, jrn |-> ckpt'.jrn]
  BY <1>1, <1>2 DEF Checkpoints
<1>5. /\ ckpt'.hdr.bit = [ckpt.hdr.bit EXCEPT ![b] = copy]
      /\ ckpt'.hdr = [open |-> ckpt.hdr.open, close |-> ckpt.hdr.close, cur |-> ckpt.hdr.cur,
                      nr |-> ckpt.hdr.nr, bit |-> ckpt'.hdr.bit]
  BY <1>3, <1>4 DEF Headers
<1>6. ckpt'.hdr.bit \in [Block -> {0, 1}]
  BY <1>3, <1>5
<1>7. ckpt'.hdr \in Headers
  BY <1>3, <1>5, <1>6 DEF Headers
<1>8. ckpt' \in Checkpoints
  BY <1>2, <1>4, <1>7 DEF Checkpoints
<1>9. /\ ckpt'.hdr.open = ckpt.hdr.open /\ ckpt'.hdr.close = ckpt.hdr.close
      /\ ckpt'.hdr.cur = ckpt.hdr.cur /\ ckpt'.hdr.nr = ckpt.hdr.nr
  BY <1>5
<1>10. /\ UniqueIds(ckpt') /\ OwnIds(ckpt')
       /\ \A x : InJournal(ckpt', x) = InJournal(ckpt, x)
       /\ \A x : Journalled(ckpt', x) = Journalled(ckpt, x)
  <2>1. UniqueIds(ckpt') /\ OwnIds(ckpt')
    BY <1>2, <1>4, <1>9 DEF UniqueIds, OwnIds
  <2>2. \A x : InJournal(ckpt', x) = InJournal(ckpt, x)
    BY <1>4, <1>9 DEF InJournal
  <2>3. \A x : Journalled(ckpt', x) = Journalled(ckpt, x)
    BY <1>4, <1>9 DEF Journalled, LastSlot
  <2> QED
    BY <2>1, <2>2, <2>3
<1>11. /\ area' \in [{0, 1} -> [Entry -> Cells]]
       /\ \A c \in {0, 1} : \A x \in Entry :
             area'[c][x] = IF c = copy /\ BlkOf(x) = b THEN page[x] ELSE area[c][x]
  BY <1>1, <1>2, <1>3 DEF TypeOK
<1>12. TypeOK'
  <2>1. page' \in [Entry -> Cells]
    BY <1>1, <1>2 DEF TypeOK, Cells
  <2> QED
    BY <2>1, <1>1, <1>2, <1>8, <1>11 DEF TypeOK
<1>13. ckpt.hdr.bit[b] = pack[committed.pack].hdr.bit[b]
  BY <1>1 DEF FlushOK, Flushing
<1>14. committed.pack \in {0, 1} /\ pack[committed.pack].hdr.bit \in [Block -> {0, 1}]
  BY <1>2 DEF TypeOK, Checkpoints, Headers
<1>15. CommittedPackOK'
  <2> DEFINE p == pack[committed.pack]
  <2>1. ASSUME NEW x \in Entry
        PROVE  area'[p.hdr.bit[BlkOf(x)]][x] = area[p.hdr.bit[BlkOf(x)]][x]
    <3>1. p.hdr.bit[BlkOf(x)] \in {0, 1}
      BY <1>14
    <3>2. BlkOf(x) = b => p.hdr.bit[BlkOf(x)] # copy
      BY <1>3, <1>13
    <3> QED
      BY <3>1, <3>2, <1>11
  <2>2. \A x \in Entry : Recovered(p, x)' = Recovered(p, x)
    BY <2>1, <1>1 DEF Recovered
  <2> QED
    BY <2>2, <1>1 DEF CommittedPackOK
<1>16. MemoryOK'
  <2>1. ASSUME NEW x \in Entry PROVE View(x)' = View(x)
    <3>1. CASE BlkOf(x) = b
      <4>1. ckpt'.hdr.bit[BlkOf(x)] = copy /\ BlkOf(x) \in cached /\ BlkOf(x) \notin cached'
        BY <3>1, <1>1, <1>3, <1>5
      <4>2. area'[copy][x] = page[x]
        BY <3>1, <1>3, <1>11
      <4> QED
        BY <4>1, <4>2, <1>10 DEF View
    <3>2. CASE BlkOf(x) # b
      <4>1. /\ ckpt'.hdr.bit[BlkOf(x)] = ckpt.hdr.bit[BlkOf(x)]
            /\ ckpt.hdr.bit[BlkOf(x)] \in {0, 1}
            /\ BlkOf(x) \in cached' <=> BlkOf(x) \in cached
            /\ page'[x] = page[x]
        BY <3>2, <1>1, <1>3, <1>5
      <4> QED
        BY <3>2, <4>1, <1>10, <1>11 DEF View
    <3> QED
      BY <3>1, <3>2
  <2> QED
    BY <2>1, <1>1, <1>10 DEF MemoryOK
<1>17. FlushOK'
  <2>1. \A t : PagesStarted(t)' = PagesStarted(t)
    BY <1>1 DEF PagesStarted, Flushed, Flushing, Saving
  <2>2. PagesStarted(b[1])
    BY <1>1 DEF FlushOK, PagesStarted
  <2>3. ASSUME NEW d \in Block, d \in cached' \/ ~PagesStarted(d[1])'
        PROVE  ckpt'.hdr.bit[d] = pack[committed.pack].hdr.bit[d]
    <3>1. d # b /\ (d \in cached \/ ~PagesStarted(d[1]))
      BY <2>1, <2>2, <2>3, <1>1
    <3>2. ckpt'.hdr.bit[d] = ckpt.hdr.bit[d]
      BY <3>1, <1>3, <1>5
    <3> QED
      BY <3>1, <3>2, <1>1 DEF FlushOK, Flushing
  <2> QED
    BY <2>1, <2>3, <1>1 DEF FlushOK, Flushing
<1>18. PackOK'
  BY <1>1, <1>9 DEF PackOK, Flushing, Saving
<1> QED
  BY <1>12, <1>15, <1>16, <1>17, <1>18

\* The first header goes to the pack that is not the committed one.
LEMMA OpenPackStep ==
    ASSUME IInv, OpenPack
    PROVE  IInv'
<1> USE EntryFacts DEF IInv
<1>1. /\ pc = "write" /\ tbl = "sit" /\ pc' = "natj" /\ tbl' = tbl /\ chunk' = chunk
      /\ curCkpt' = 1 - curCkpt /\ committed' = committed /\ curSegs' = curSegs
      /\ mem' = mem /\ dirty' = dirty /\ updates' = updates /\ area' = area
      /\ cached = {} /\ cached' = cached /\ page' = page
      /\ ckpt' = [ckpt EXCEPT !.hdr = OpenedHeader]
      /\ pack' = [pack EXCEPT ![1 - curCkpt].hdr = OpenedHeader]
  BY DEF OpenPack, OtherPack, memVars, flushVars
<1>2. /\ TypeOK /\ ckpt \in Checkpoints /\ UniqueIds(ckpt) /\ OwnIds(ckpt)
      /\ curCkpt = committed.pack /\ curCkpt \in {0, 1} /\ ckpt.hdr.open < MaxVer
      /\ ckpt.hdr.open = pack[committed.pack].hdr.close
      /\ ckpt.hdr.close = pack[committed.pack].hdr.close
  BY <1>1 DEF MemoryOK, TypeOK, PackOK, Flushing
<1>3. ckpt.hdr \in Headers /\ ckpt.hdr.open \in Nat /\ MaxVer \in Nat
  BY <1>2, ConstAssumption DEF Checkpoints, Headers
<1>4. OpenedHeader = [open |-> ckpt.hdr.open + 1, close |-> ckpt.hdr.close, cur |-> curSegs,
                      nr |-> ckpt.hdr.nr, bit |-> ckpt.hdr.bit]
  <2>1. OpenedHeader = [[ckpt.hdr EXCEPT !.open = ckpt.hdr.open + 1] EXCEPT !.cur = curSegs]
    BY DEF OpenedHeader
  <2>2. [ckpt.hdr EXCEPT !.open = ckpt.hdr.open + 1] =
          [open |-> ckpt.hdr.open + 1, close |-> ckpt.hdr.close, cur |-> ckpt.hdr.cur,
           nr |-> ckpt.hdr.nr, bit |-> ckpt.hdr.bit]
    BY <1>3 DEF Headers
  <2> QED
    BY <2>1, <2>2
<1>5. OpenedHeader \in Headers
  <2>1. ckpt.hdr.open + 1 \in 0 .. MaxVer /\ curSegs \in CurSegs
    BY <1>2, <1>3 DEF TypeOK
  <2> QED
    BY <2>1, <1>3, <1>4 DEF Headers
<1>6. /\ ckpt' \in Checkpoints /\ ckpt'.hdr = OpenedHeader /\ ckpt'.jrn = ckpt.jrn
  BY <1>1, <1>2, <1>5 DEF Checkpoints
<1>7. /\ ckpt'.hdr.open = ckpt.hdr.open + 1 /\ ckpt'.hdr.close = ckpt.hdr.close
      /\ ckpt'.hdr.cur = curSegs /\ ckpt'.hdr.nr = ckpt.hdr.nr /\ ckpt'.hdr.bit = ckpt.hdr.bit
  BY <1>4, <1>6
<1>8. 1 - curCkpt \in {0, 1} /\ 1 - curCkpt # committed.pack
  BY <1>2
<1>9. /\ pack'[committed.pack] = pack[committed.pack]
      /\ pack'[1 - curCkpt].hdr = OpenedHeader
      /\ pack' \in [{0, 1} -> Checkpoints]
  <2>1. pack \in [{0, 1} -> Checkpoints] /\ committed.pack \in {0, 1}
    BY <1>2 DEF TypeOK
  <2>2. [pack[1 - curCkpt] EXCEPT !.hdr = OpenedHeader] \in Checkpoints
    BY <2>1, <1>5, <1>8 DEF Checkpoints
  <2>3. pack' = [pack EXCEPT ![1 - curCkpt] = [pack[1 - curCkpt] EXCEPT !.hdr = OpenedHeader]]
    BY <1>1
  <2>4. [pack[1 - curCkpt] EXCEPT !.hdr = OpenedHeader].hdr = OpenedHeader
    BY <2>1, <1>8 DEF Checkpoints
  <2> QED
    BY <2>1, <2>2, <2>3, <2>4, <1>8
<1>10. TypeOK'
  BY <1>1, <1>2, <1>6, <1>8, <1>9 DEF TypeOK
<1>11. CommittedPackOK'
  <2>1. pack'[1 - committed.pack].hdr.open # pack'[1 - committed.pack].hdr.close
    BY <1>2, <1>3, <1>4, <1>9
  <2> QED
    BY <2>1, <1>1, <1>9, ZenonT(60) DEF CommittedPackOK, Recovered
<1>12. MemoryOK'
  <2>1. UniqueIds(ckpt') /\ OwnIds(ckpt')
    BY <1>2, <1>6, <1>7 DEF UniqueIds, OwnIds
  <2>2. \A x : InJournal(ckpt', x) = InJournal(ckpt, x)
    BY <1>6, <1>7 DEF InJournal
  <2>3. \A x : Journalled(ckpt', x) = Journalled(ckpt, x)
    BY <1>6, <1>7 DEF Journalled, LastSlot
  <2>4. \A x \in Entry : View(x)' = View(x)
    BY <2>2, <2>3, <1>1, <1>7 DEF View
  <2> QED
    BY <2>1, <2>4, <1>1 DEF MemoryOK
<1>13. FlushOK'
  <2>1. dirty = {}
    BY <1>1, <1>2 DEF FlushOK, TypeOK, PagesStarted, Flushed, Flushing, Tables
  <2> QED
    BY <2>1, <1>1 DEF FlushOK, Flushing
<1>14. PackOK'
  BY <1>1, <1>2, <1>6, <1>7, <1>9 DEF PackOK, Flushing, Saving
<1> QED
  BY <1>10, <1>11, <1>12, <1>13, <1>14

\* Replacing the journals of one pack leaves its header and the other pack.
LEMMA SetJournals ==
    ASSUME NEW P \in [{0, 1} -> Checkpoints], NEW i \in {0, 1}, NEW g \in {0, 1}, i # g,
           NEW v \in [Tables -> [Slots -> JournalEntry]], NEW Q,
           Q = [P EXCEPT ![i].jrn = v]
    PROVE  /\ Q \in [{0, 1} -> Checkpoints]
           /\ Q[g] = P[g]
           /\ Q[i].hdr = P[i].hdr
           /\ Q[i].jrn = v
<1>1. P[i] \in Checkpoints
  OBVIOUS
<1>2. /\ [P[i] EXCEPT !.jrn = v] \in Checkpoints
      /\ [P[i] EXCEPT !.jrn = v].hdr = P[i].hdr
      /\ [P[i] EXCEPT !.jrn = v].jrn = v
  BY <1>1 DEF Checkpoints
<1>3. Q = [P EXCEPT ![i] = [P[i] EXCEPT !.jrn = v]]
  OBVIOUS
<1> QED
  BY <1>2, <1>3

\* The journal blocks go to the open pack, the NAT journal first.
LEMMA WriteNatJournalStep ==
    ASSUME IInv, WriteNatJournal
    PROVE  IInv'
<1> USE EntryFacts DEF IInv
<1>1. /\ pc = "natj" /\ pc' = "sitj" /\ tbl' = tbl /\ chunk' = 0
      /\ curCkpt' = curCkpt /\ committed' = committed /\ curSegs' = curSegs
      /\ mem' = mem /\ dirty' = dirty /\ updates' = updates /\ area' = area
      /\ cached' = cached /\ page' = page /\ ckpt' = ckpt
      /\ pack' = [pack EXCEPT ![curCkpt].jrn["nat"] = ckpt.jrn["nat"]]
  BY DEF WriteNatJournal, memVars, ckptVars
<1>2. /\ curCkpt \in {0, 1} /\ committed.pack \in {0, 1} /\ curCkpt # committed.pack
      /\ pack \in [{0, 1} -> Checkpoints] /\ ckpt \in Checkpoints
  BY <1>1 DEF TypeOK, PackOK, Saving
<1> DEFINE v == [pack[curCkpt].jrn EXCEPT !["nat"] = ckpt.jrn["nat"]]
<1>3. /\ pack[curCkpt].jrn \in [Tables -> [Slots -> JournalEntry]]
      /\ ckpt.jrn["nat"] \in [Slots -> JournalEntry]
  BY <1>2 DEF Checkpoints, Tables
<1>4. v \in [Tables -> [Slots -> JournalEntry]] /\ v["nat"] = ckpt.jrn["nat"]
  BY <1>3 DEF Tables
<1>5. pack' = [pack EXCEPT ![curCkpt].jrn = v]
  BY <1>1
<1> HIDE DEF v
<1>6. /\ pack' \in [{0, 1} -> Checkpoints]
      /\ pack'[committed.pack] = pack[committed.pack]
      /\ pack'[curCkpt].hdr = pack[curCkpt].hdr
      /\ pack'[curCkpt].jrn = v
  BY <1>2, <1>4, <1>5, SetJournals
<1>7. TypeOK'
  BY <1>1, <1>6, ConstAssumption DEF TypeOK
<1>8. 1 - committed.pack = curCkpt
  BY <1>1 DEF PackOK, Saving
<1>9. CommittedPackOK'
  BY <1>1, <1>6, <1>8, ZenonT(30) DEF CommittedPackOK, Recovered
<1>10. MemoryOK'
  BY <1>1 DEF MemoryOK, View
<1>11. FlushOK'
  BY <1>1 DEF FlushOK, Flushing, PagesStarted, Flushed, Saving
<1>12. PackOK'
  <2>1. JournalNr \div SitJournalBlk \in Int
    BY ConstAssumption
  <2>2. \A k \in Slots : ~(k <= 0 * (JournalNr \div SitJournalBlk))
    BY <2>1 DEF Slots
  <2> QED
    BY <2>2, <1>1, <1>4, <1>6 DEF PackOK, Flushing, Saving
<1> QED
  BY <1>7, <1>9, <1>10, <1>11, <1>12

\* Each SIT journal block extends the part of the journal that is saved.
LEMMA WriteSitJournalStep ==
    ASSUME IInv, WriteSitJournal
    PROVE  IInv'
<1> USE EntryFacts DEF IInv
<1> DEFINE per == JournalNr \div SitJournalBlk
<1> DEFINE js == [k \in Slots |-> IF k \in ChunkSlots(chunk)
                                 THEN ckpt.jrn["sit"][k] ELSE pack[curCkpt].jrn["sit"][k]]
<1>1. /\ pc = "sitj" /\ pc' = "sitj" /\ tbl' = tbl /\ chunk' = chunk + 1
      /\ chunk < SitJournalBlk
      /\ curCkpt' = curCkpt /\ committed' = committed /\ curSegs' = curSegs
      /\ mem' = mem /\ dirty' = dirty /\ updates' = updates /\ area' = area
      /\ cached' = cached /\ page' = page /\ ckpt' = ckpt
      /\ pack' = [pack EXCEPT ![curCkpt].jrn["sit"] =
                    [k \in Slots |-> IF k \in ChunkSlots(chunk)
                                     THEN ckpt.jrn["sit"][k] ELSE @[k]]]
  BY DEF WriteSitJournal, memVars, ckptVars
<1>2. /\ curCkpt \in {0, 1} /\ committed.pack \in {0, 1} /\ curCkpt # committed.pack
      /\ pack \in [{0, 1} -> Checkpoints] /\ ckpt \in Checkpoints
      /\ chunk \in 0 .. SitJournalBlk
  BY <1>1 DEF TypeOK, PackOK, Saving
<1>3. js \in [Slots -> JournalEntry]
  BY <1>2 DEF Checkpoints, Tables
<1> HIDE DEF js
<1> DEFINE v == [pack[curCkpt].jrn EXCEPT !["sit"] = js]
<1>4. /\ v \in [Tables -> [Slots -> JournalEntry]]
      /\ v["sit"] = js /\ v["nat"] = pack[curCkpt].jrn["nat"]
  <2>1. pack[curCkpt].jrn \in [Tables -> [Slots -> JournalEntry]]
    BY <1>2 DEF Checkpoints
  <2> QED
    BY <2>1, <1>3 DEF Tables
<1>5. pack' = [pack EXCEPT ![curCkpt].jrn = v]
  BY <1>1 DEF js
<1> HIDE DEF v
<1>6. /\ pack' \in [{0, 1} -> Checkpoints]
      /\ pack'[committed.pack] = pack[committed.pack]
      /\ pack'[curCkpt].hdr = pack[curCkpt].hdr
      /\ pack'[curCkpt].jrn = v
  BY <1>2, <1>4, <1>5, SetJournals
<1>7. TypeOK'
  <2>1. chunk + 1 \in 0 .. SitJournalBlk
    BY <1>1, <1>2, ConstAssumption
  <2> QED
    BY <2>1, <1>1, <1>6 DEF TypeOK
<1>8. 1 - committed.pack = curCkpt
  BY <1>1 DEF PackOK, Saving
<1>9. CommittedPackOK'
  BY <1>1, <1>6, <1>8, ZenonT(30) DEF CommittedPackOK, Recovered
<1>10. MemoryOK'
  BY <1>1 DEF MemoryOK, View
<1>11. FlushOK'
  BY <1>1 DEF FlushOK, Flushing, PagesStarted, Flushed, Saving
<1>12. PackOK'
  <2>1. ASSUME NEW k \in Slots, k <= (chunk + 1) * per
        PROVE  js[k] = ckpt.jrn["sit"][k]
    <3>1. CASE k \in ChunkSlots(chunk)
      BY <3>1 DEF js
    <3>2. CASE k \notin ChunkSlots(chunk)
      <4>1. per \in Int /\ chunk * per \in Int
        BY <1>2, ConstAssumption
      <4>2. k <= chunk * per
        BY <2>1, <3>2, <4>1 DEF ChunkSlots, Slots
      <4>3. pack[curCkpt].jrn["sit"][k] = ckpt.jrn["sit"][k]
        BY <4>2, <1>1 DEF PackOK
      <4> QED
        BY <3>2, <4>3 DEF js
    <3> QED
      BY <3>1, <3>2
  <2>2. pack'[curCkpt].jrn["sit"] = js /\ pack'[curCkpt].jrn["nat"] = pack[curCkpt].jrn["nat"]
    BY <1>4, <1>6
  <2> QED
    BY <2>1, <2>2, <1>1, <1>6 DEF PackOK, Flushing, Saving
<1> QED
  BY <1>7, <1>9, <1>10, <1>11, <1>12

\* The closing header commits what is in memory: every entry is clean, so the
\* pack and the blocks it points to hold exactly the tables in memory.
LEMMA ClosePackStep ==
    ASSUME IInv, ClosePack
    PROVE  IInv'
<1> USE EntryFacts DEF IInv
<1> DEFINE hdr == [ckpt.hdr EXCEPT !.close = ckpt.hdr.close + 1]
<1>1. /\ pc = "sitj" /\ pc' = "idle" /\ tbl' = tbl /\ chunk' = 0 /\ chunk = SitJournalBlk
      /\ curCkpt' = curCkpt /\ curSegs' = curSegs
      /\ committed' = [pack |-> curCkpt, tab |-> mem, cur |-> curSegs]
      /\ mem' = mem /\ dirty' = dirty /\ updates' = updates /\ area' = area
      /\ cached' = cached /\ page' = page
      /\ ckpt' = [ckpt EXCEPT !.hdr = hdr]
      /\ pack' = [pack EXCEPT ![curCkpt].hdr = hdr]
  BY DEF ClosePack, memVars
<1>2. /\ curCkpt \in {0, 1} /\ committed.pack \in {0, 1} /\ curCkpt = 1 - committed.pack
      /\ pack \in [{0, 1} -> Checkpoints] /\ ckpt \in Checkpoints
      /\ curSegs \in CurSegs /\ mem \in [Entry -> Values]
      /\ ckpt.hdr.open = ckpt.hdr.close + 1 /\ ckpt.hdr.cur = curSegs
      /\ ckpt.hdr.close = pack[committed.pack].hdr.close
      /\ UniqueIds(ckpt) /\ OwnIds(ckpt)
      /\ cached = {}
  BY <1>1 DEF TypeOK, PackOK, MemoryOK, FlushOK, Flushing, Saving
<1>3. dirty = {}
  BY <1>1 DEF TypeOK, FlushOK, PagesStarted, Flushed, Saving
<1>4. ckpt.hdr \in Headers /\ pack[committed.pack].hdr \in Headers
  BY <1>2 DEF Checkpoints
<1>5. hdr = [open |-> ckpt.hdr.open, close |-> ckpt.hdr.open, cur |-> ckpt.hdr.cur,
             nr |-> ckpt.hdr.nr, bit |-> ckpt.hdr.bit]
  BY <1>2, <1>4 DEF Headers
<1>6. hdr \in Headers
  BY <1>4, <1>5 DEF Headers
<1> HIDE DEF hdr
<1>7. ckpt' \in Checkpoints /\ ckpt'.hdr = hdr /\ ckpt'.jrn = ckpt.jrn
  BY <1>1, <1>2, <1>6 DEF Checkpoints
<1>8. /\ pack' \in [{0, 1} -> Checkpoints]
      /\ pack'[committed.pack] = pack[committed.pack]
      /\ pack'[curCkpt].hdr = hdr
      /\ pack'[curCkpt].jrn = pack[curCkpt].jrn
  <2>1. pack[curCkpt] \in Checkpoints
    BY <1>2
  <2>2. /\ [pack[curCkpt] EXCEPT !.hdr = hdr] \in Checkpoints
        /\ [pack[curCkpt] EXCEPT !.hdr = hdr].hdr = hdr
        /\ [pack[curCkpt] EXCEPT !.hdr = hdr].jrn = pack[curCkpt].jrn
    BY <2>1, <1>6 DEF Checkpoints
  <2>3. pack' = [pack EXCEPT ![curCkpt] = [pack[curCkpt] EXCEPT !.hdr = hdr]]
    BY <1>1
  <2>4. curCkpt # committed.pack
    BY <1>2
  <2> QED
    BY <2>2, <2>3, <2>4, <1>2
<1>9. pack[curCkpt].jrn = ckpt.jrn
  <2>1. pack[curCkpt].jrn["nat"] = ckpt.jrn["nat"]
    BY <1>1 DEF PackOK
  <2>2. \A k \in Slots : k <= chunk * (JournalNr \div SitJournalBlk)
    BY <1>1, ConstAssumption DEF Slots
  <2>3. \A k \in Slots : pack[curCkpt].jrn["sit"][k] = ckpt.jrn["sit"][k]
    BY <2>2, <1>1 DEF PackOK
  <2>4. /\ pack[curCkpt].jrn \in [Tables -> [Slots -> JournalEntry]]
        /\ ckpt.jrn \in [Tables -> [Slots -> JournalEntry]]
    BY <1>2 DEF Checkpoints
  <2>5. pack[curCkpt].jrn["sit"] = ckpt.jrn["sit"]
    BY <2>3, <2>4 DEF Tables
  <2> QED
    BY <2>1, <2>4, <2>5 DEF Tables
<1>10. /\ hdr.open = ckpt.hdr.open /\ hdr.close = ckpt.hdr.open /\ hdr.cur = curSegs
       /\ hdr.nr = ckpt.hdr.nr /\ hdr.bit = ckpt.hdr.bit
  BY <1>2, <1>5
<1>11. /\ committed'.pack = curCkpt /\ committed'.tab = mem /\ committed'.cur = curSegs
       /\ 1 - committed'.pack = committed.pack
       /\ committed' \in [pack : {0, 1}, tab : [Entry -> Values], cur : CurSegs]
  BY <1>1, <1>2
<1>12. TypeOK'
  BY <1>1, <1>7, <1>8, <1>11, ConstAssumption DEF TypeOK
<1>13. ASSUME NEW c, c.hdr = hdr, c.jrn = ckpt.jrn
       PROVE  /\ UniqueIds(c) /\ OwnIds(c)
              /\ \A x : InJournal(c, x) = InJournal(ckpt, x)
              /\ \A x : Journalled(c, x) = Journalled(ckpt, x)
  <2>1. c.hdr.nr = ckpt.hdr.nr
    BY <1>10, <1>13
  <2>2. UniqueIds(c) /\ OwnIds(c)
    BY <2>1, <1>2, <1>13 DEF UniqueIds, OwnIds
  <2>3. \A x : InJournal(c, x) = InJournal(ckpt, x)
    BY <2>1, <1>13 DEF InJournal
  <2>4. \A x : Journalled(c, x) = Journalled(ckpt, x)
    BY <2>1, <1>13 DEF Journalled, LastSlot
  <2> QED
    BY <2>2, <2>3, <2>4
<1>14. \A x \in Entry : View(x) = mem[x]
  BY <1>1, <1>3 DEF MemoryOK
<1>15. CommittedPackOK'
  <2> DEFINE q == pack'[curCkpt]
  <2>1. q.hdr = hdr /\ q.jrn = ckpt.jrn
    BY <1>8, <1>9
  <2>1a. /\ \A x : InJournal(q, x) = InJournal(ckpt, x)
         /\ \A x : Journalled(q, x) = Journalled(ckpt, x)
    BY <2>1, <1>13
  <2>2. \A x \in Entry : Recovered(pack[curCkpt], x)' = mem[x]
    BY <2>1, <2>1a, <1>1, <1>2, <1>10, <1>14 DEF Recovered, View
  <2>3. /\ UniqueIds(q) /\ OwnIds(q)
    BY <2>1, <1>13
  <2>4. q.hdr.open = q.hdr.close /\ q.hdr.close > 0 /\ q.hdr.cur = curSegs
    BY <2>1, <1>2, <1>4, <1>10 DEF Headers
  <2>5. pack'[committed.pack].hdr.close < q.hdr.close
    BY <2>1, <1>2, <1>4, <1>8, <1>10 DEF Headers
  <2>6. \A x \in Entry : Recovered(pack[committed.pack], x)' = mem[x]
    BY <2>2, <1>1, <1>11 DEF Recovered
  <2> QED
    BY <2>3, <2>4, <2>5, <2>6, <1>11 DEF CommittedPackOK
<1>16. MemoryOK'
  <2>1. /\ UniqueIds(ckpt') /\ OwnIds(ckpt')
        /\ \A x : InJournal(ckpt', x) = InJournal(ckpt, x)
        /\ \A x : Journalled(ckpt', x) = Journalled(ckpt, x)
    BY <1>7, <1>13
  <2>2. \A x \in Entry : View(x)' = View(x)
    BY <2>1, <1>1, <1>7, <1>10 DEF View
  <2> QED
    BY <2>1, <2>2, <1>1, <1>2, <1>14 DEF MemoryOK
<1>17. FlushOK'
  BY <1>1, <1>2, <1>3, <1>7, <1>8, <1>11 DEF FlushOK, Flushing
<1>18. PackOK'
  BY <1>1, <1>7, <1>8, <1>10, <1>11 DEF PackOK, Flushing, Saving
<1> QED
  BY <1>12, <1>15, <1>16, <1>17, <1>18

\* A power loss touches neither the disk nor what is committed.
LEMMA PowerLossStep ==
    ASSUME IInv, PowerLoss
    PROVE  IInv'
<1> USE EntryFacts DEF IInv
<1>1. /\ pc' = "down" /\ cached' = {} /\ dirty' = {} /\ chunk' = 0
      /\ mem' = [x \in Entry |-> Unwritten] /\ page' = NoPages
      /\ committed' = committed /\ area' = area /\ pack' = pack /\ tbl' = tbl
      /\ curSegs' = curSegs /\ ckpt' = ckpt /\ curCkpt' = curCkpt /\ updates' = updates
  BY DEF PowerLoss, ckptVars, diskVars
<1>2. TypeOK'
  BY <1>1, ConstAssumption DEF TypeOK, NoPages, Cells
<1>3. CommittedPackOK'
  BY <1>1 DEF CommittedPackOK, Recovered
<1>4. MemoryOK' /\ FlushOK' /\ PackOK'
  BY <1>1 DEF MemoryOK, FlushOK, PackOK, Flushing, Saving
<1> QED
  BY <1>2, <1>3, <1>4

\* load_checkpoint picks the pack of the last completed checkpoint.
LEMMA ChosenIsCommitted ==
    ASSUME TypeOK, CommittedPackOK
    PROVE  ~CkptFail /\ ChosenPack = committed.pack
<1> DEFINE p == pack[committed.pack]
<1> DEFINE o == pack[1 - committed.pack]
<1>1. /\ committed.pack \in {0, 1}
      /\ p.hdr.open = p.hdr.close /\ p.hdr.close > 0
      /\ o.hdr.open = o.hdr.close => o.hdr.close < p.hdr.close
  BY DEF TypeOK, CommittedPackOK
<1>2. p.hdr.close \in Int /\ o.hdr.close \in Int
  BY <1>1 DEF TypeOK, Checkpoints, Headers
<1> HIDE DEF p, o
<1>3. PackVer(committed.pack) = p.hdr.close
  BY <1>1 DEF PackVer, p
<1>4. PackVer(1 - committed.pack) = IF o.hdr.open = o.hdr.close THEN o.hdr.close ELSE 0
  BY DEF PackVer, o
<1>5. /\ PackVer(committed.pack) > PackVer(1 - committed.pack)
      /\ PackVer(committed.pack) \in Int /\ PackVer(1 - committed.pack) \in Int
  BY <1>1, <1>2, <1>3, <1>4
<1>6. CASE committed.pack = 0
  BY <1>5, <1>6 DEF CkptFail, ChosenPack
<1>7. CASE committed.pack = 1
  BY <1>5, <1>7 DEF CkptFail, ChosenPack
<1> QED
  BY <1>1, <1>6, <1>7

\* Mount loads the committed tables.
LEMMA MountStep ==
    ASSUME IInv, Mount
    PROVE  IInv'
<1> USE EntryFacts DEF IInv
<1> DEFINE p == pack[committed.pack]
<1>1. ChosenPack = committed.pack
  BY ChosenIsCommitted
<1>2. /\ pc = "down" /\ pc' = "idle" /\ ckpt' = p /\ curCkpt' = committed.pack
      /\ mem' = LoadTables(p) /\ dirty' = {} /\ curSegs' = p.hdr.cur
      /\ cached' = cached /\ page' = page /\ tbl' = tbl /\ chunk' = chunk
      /\ committed' = committed /\ area' = area /\ pack' = pack /\ updates' = updates
  BY <1>1 DEF Mount, flushVars, diskVars
<1>3. committed.pack \in {0, 1} /\ p \in Checkpoints /\ cached = {}
  BY <1>2 DEF TypeOK, FlushOK, Flushing
<1>4. /\ \A x \in Entry : Recovered(p, x) = committed.tab[x]
      /\ committed.tab \in [Entry -> Values]
      /\ UniqueIds(p) /\ OwnIds(p) /\ p.hdr.cur = committed.cur
      /\ p.hdr.open = p.hdr.close
  BY DEF CommittedPackOK, TypeOK
<1>5. mem' = committed.tab
  BY <1>2, <1>4 DEF LoadTables
<1>6. TypeOK'
  BY <1>2, <1>3, <1>4, <1>5 DEF TypeOK, Cells
<1>7. CommittedPackOK'
  BY <1>2 DEF CommittedPackOK, Recovered
<1>8. MemoryOK'
  <2>1. \A x \in Entry : View(x)' = Recovered(p, x)
    BY <1>2, <1>3 DEF View, Recovered
  <2> QED
    BY <2>1, <1>2, <1>4, <1>5 DEF MemoryOK
<1>9. FlushOK'
  BY <1>2, <1>3 DEF FlushOK, Flushing
<1>10. PackOK'
  BY <1>2, <1>4 DEF PackOK, Flushing, Saving
<1> QED
  BY <1>6, <1>7, <1>8, <1>9, <1>10

-------------------------------------------------------------------------------
(* The theorems *)

\* Every step of the protocol preserves the inductive invariant.
LEMMA Inductive ==
    IInv /\ [Next]_vars => IInv'
<1> SUFFICES ASSUME IInv, [Next]_vars PROVE IInv'
  OBVIOUS
<1>1. CASE \E x \in Entry, v \in Values : SetEntry(x, v)
  BY <1>1, SetEntryStep
<1>2. CASE \E cs \in CurSegs : SetCurSegs(cs)
  BY <1>2, SetCurSegsStep
<1>3. CASE WriteCheckpoint
  <2>1. cached = {}
    BY <1>3 DEF WriteCheckpoint, IInv, FlushOK, Flushing
  <2> QED
    BY <1>3, <2>1, BeginFlushStep DEF WriteCheckpoint, Tables
<1>4. CASE \E x \in Entry : PutEntry(x)
  BY <1>4, PutEntryStep
<1>5. CASE EndFill
  BY <1>5, EndFillStep
<1>6. CASE \E b \in Block : WritePage(b)
  BY <1>6, WritePageStep
<1>7. CASE FlushSit
  BY <1>7, BeginFlushStep DEF FlushSit, Tables
<1>8. CASE OpenPack
  BY <1>8, OpenPackStep
<1>9. CASE WriteNatJournal
  BY <1>9, WriteNatJournalStep
<1>10. CASE WriteSitJournal
  BY <1>10, WriteSitJournalStep
<1>11. CASE ClosePack
  BY <1>11, ClosePackStep
<1>12. CASE PowerLoss
  BY <1>12, PowerLossStep
<1>13. CASE Mount
  BY <1>13, MountStep
<1>14. CASE UNCHANGED vars
  <2>1. TypeOK'
    BY <1>14 DEF vars, IInv, TypeOK
  <2>2. CommittedPackOK'
    BY <1>14 DEF vars, IInv, CommittedPackOK, Recovered
  <2>3. MemoryOK'
    BY <1>14 DEF vars, IInv, MemoryOK, View
  <2>4. FlushOK'
    BY <1>14 DEF vars, IInv, FlushOK, Flushing, PagesStarted, Flushed, Saving
  <2>5. PackOK'
    BY <1>14 DEF vars, IInv, PackOK, Flushing, Saving
  <2> QED
    BY <2>1, <2>2, <2>3, <2>4, <2>5 DEF IInv
<1> QED
  BY <1>1, <1>2, <1>3, <1>4, <1>5, <1>6, <1>7, <1>8, <1>9, <1>10, <1>11, <1>12, <1>13,
     <1>14 DEF Next

\* The inductive invariant holds in every reachable state of the protocol.
THEOREM Invariance == Spec => []IInv
<1>1. Init => IInv
  BY InitIInv
<1> QED
  BY <1>1, Inductive, PTL DEF Spec

\* Type correctness; with it, the journal counts of m_checkpoint never exceed
\* JOURNAL_NR whatever the number of dirty entries (f2fs_flush_*_entries fold
\* a full journal first).
THEOREM TypeCorrect == Spec => []TypeOK
<1>1. IInv => TypeOK
  BY DEF IInv
<1> QED
  BY <1>1, Invariance, PTL

\* A power loss after any block write of f2fs_write_checkpoint leaves a disk
\* from which load_checkpoint and both Load()s get back the tables and current
\* segments of the last checkpoint whose closing header was written.
THEOREM RecoverableAlways == Spec => []Recoverable
<1>1. IInv => Recoverable
  <2> SUFFICES ASSUME IInv PROVE Recoverable
    OBVIOUS
  <2>1. ~CkptFail /\ ChosenPack = committed.pack
    BY ChosenIsCommitted DEF IInv
  <2>2. committed.tab \in [Entry -> Values]
    BY DEF IInv, TypeOK
  <2>3. LoadTables(pack[committed.pack]) = committed.tab
    BY <2>2 DEF IInv, CommittedPackOK, LoadTables
  <2> QED
    BY <2>1, <2>3 DEF IInv, CommittedPackOK, Recoverable
<1> QED
  BY <1>1, Invariance, PTL

\* No block write touches the pack or the table blocks the last completed
\* checkpoint stands on: get_nat_next_block, get_sit_next_block and the pack
\* flip of save_checkpoint always lead to the other copy.
THEOREM CommittedUntouchedAlways == Spec => CommittedUntouched
<1> DEFINE Untouched ==
      LET g == committed.pack
      IN  /\ committed' = committed => pack'[g] = pack[g]
          /\ \A x \in Entry :
                LET c == pack[g].hdr.bit[BlkOf(x)]
                IN  area'[c][x] = area[c][x]
<1>1. IInv /\ [Next]_vars => [Untouched]_vars
  <2> SUFFICES ASSUME IInv, [Next]_vars PROVE Untouched
    OBVIOUS
  <2>1. CASE area' = area /\ pack' = pack
    BY <2>1
  <2>2. ASSUME NEW b \in Block, WritePage(b) PROVE Untouched
    <3>1. /\ pc = "write" /\ b \in cached /\ pack' = pack
          /\ area' = [area EXCEPT ![1 - ckpt.hdr.bit[b]] =
                        [x \in Entry |-> IF BlkOf(x) = b THEN page[x] ELSE @[x]]]
      BY <2>2 DEF WritePage, NextCopy
    <3>2. ckpt.hdr.bit[b] = pack[committed.pack].hdr.bit[b]
      BY <3>1 DEF IInv, FlushOK, Flushing
    <3>3. /\ pack[committed.pack].hdr.bit \in [Block -> {0, 1}]
          /\ area \in [{0, 1} -> [Entry -> Cells]]
      BY DEF IInv, TypeOK, Checkpoints, Headers
    <3>4. ASSUME NEW x \in Entry, NEW c \in {0, 1}, c = pack[committed.pack].hdr.bit[BlkOf(x)]
          PROVE  area'[c][x] = area[c][x]
      <4>1. BlkOf(x) = b => c # 1 - ckpt.hdr.bit[b]
        BY <3>2, <3>4
      <4> QED
        BY <4>1, <3>1, <3>3, <3>4
    <3>5. \A x \in Entry : pack[committed.pack].hdr.bit[BlkOf(x)] \in {0, 1}
      BY <3>3, EntryFacts
    <3> QED
      BY <3>1, <3>4, <3>5
  <2>3. CASE OpenPack
    <3>1. /\ area' = area /\ pack' = [pack EXCEPT ![1 - curCkpt].hdr = OpenedHeader]
          /\ pc = "write"
      BY <2>3 DEF OpenPack, OtherPack
    <3>2. curCkpt = committed.pack /\ curCkpt \in {0, 1}
      BY <3>1 DEF IInv, TypeOK, PackOK, Flushing
    <3>3. pack \in [{0, 1} -> Checkpoints] /\ 1 - curCkpt # committed.pack
      BY <3>2 DEF IInv, TypeOK
    <3> QED
      BY <3>1, <3>2, <3>3
  <2>4. CASE WriteNatJournal \/ WriteSitJournal \/ ClosePack
    <3>1. curCkpt # committed.pack /\ curCkpt \in {0, 1} /\ committed.pack \in {0, 1}
      BY <2>4 DEF WriteNatJournal, WriteSitJournal, ClosePack, IInv, TypeOK, PackOK, Saving
    <3>2. area' = area /\ pack \in [{0, 1} -> Checkpoints]
      BY <2>4 DEF WriteNatJournal, WriteSitJournal, ClosePack, IInv, TypeOK
    <3>3. \E v : pack' = [pack EXCEPT ![curCkpt] = v]
      BY <2>4 DEF WriteNatJournal, WriteSitJournal, ClosePack
    <3> QED
      BY <3>1, <3>2, <3>3
  <2> QED
    BY <2>1, <2>2, <2>3, <2>4 DEF Next, SetEntry, SetCurSegs, WriteCheckpoint, BeginFlush,
       PutEntry, EndFill, FlushSit, PowerLoss, Mount, vars, diskVars
<1>2. [][Untouched]_vars => CommittedUntouched
  BY DEF CommittedUntouched
<1> QED
  BY <1>1, <1>2, Invariance, PTL DEF Spec

\* Between operations every entry that differs from the last checkpoint has
\* its dirty bit set: f2fs_flush_nat_entries and f2fs_flush_sit_entries, which
\* look at the dirty bits only, cannot miss a change.
THEOREM DirtyCoversChangesAlways == Spec => []DirtyCoversChanges
<1>1. Init => DirtyCoversChanges
  BY DEF Init, DirtyCoversChanges
<1>2. IInv /\ DirtyCoversChanges /\ [Next]_vars => DirtyCoversChanges'
  <2> SUFFICES ASSUME IInv, DirtyCoversChanges, [Next]_vars, pc' = "idle"
               PROVE  DirtyCoversChanges'
    BY DEF DirtyCoversChanges
  <2>1. ASSUME NEW x \in Entry, NEW v \in Values, SetEntry(x, v)
        PROVE  DirtyCoversChanges'
    BY <2>1 DEF SetEntry, DirtyCoversChanges, IInv, TypeOK
  <2>2. CASE pc = "idle" /\ UNCHANGED <<mem, dirty, committed>>
    BY <2>2 DEF DirtyCoversChanges
  <2>3. CASE ClosePack
    BY <2>3 DEF ClosePack, DirtyCoversChanges, memVars
  <2>4. CASE Mount
    <3>1. mem' = committed.tab
      <4>1. ChosenPack = committed.pack
        BY ChosenIsCommitted DEF IInv
      <4> QED
        BY <2>4, <4>1 DEF Mount, LoadTables, IInv, CommittedPackOK, TypeOK
    <3> QED
      BY <2>4, <3>1 DEF Mount, DirtyCoversChanges
  <2> QED
    BY <2>1, <2>2, <2>3, <2>4 DEF Next, SetCurSegs, WriteCheckpoint, BeginFlush, PutEntry,
       EndFill, WritePage, FlushSit, OpenPack, WriteNatJournal, WriteSitJournal, PowerLoss,
       vars, memVars
<1> QED
  BY <1>1, <1>2, Invariance, PTL DEF Spec

\* What Mount would load now is what the last completed checkpoint saved.
LEMMA OnDiskIsCommitted ==
    ASSUME IInv
    PROVE  /\ OnDisk = [tab |-> committed.tab, cur |-> committed.cur]
           /\ OnDisk \in [tab : [Entry -> Values], cur : CurSegs]
<1>1. ChosenPack = committed.pack
  BY ChosenIsCommitted DEF IInv
<1>2. committed.tab \in [Entry -> Values] /\ committed.cur \in CurSegs
  BY DEF IInv, TypeOK
<1>3. LoadTables(pack[committed.pack]) = committed.tab
  BY <1>2 DEF IInv, CommittedPackOK, LoadTables
<1>4. pack[committed.pack].hdr.cur = committed.cur
  BY DEF IInv, CommittedPackOK
<1> QED
  BY <1>1, <1>2, <1>3, <1>4 DEF OnDisk

\* The protocol implements the atomic store: of all its block writes only the
\* closing header of save_checkpoint changes what a mount would load, and it
\* changes it from the whole old state to the whole new one.
THEOREM Refinement == Spec => ImplementsAtomicStore
<1> DEFINE S == [tab : [Entry -> Values], cur : CurSegs]
<1>1. Init => Store!Init
  <2> SUFFICES ASSUME Init PROVE Store!Init
    OBVIOUS
  <2>1. IInv /\ pc = "idle"
    BY InitIInv DEF Init
  <2>2. committed = [pack |-> 0, tab |-> mem, cur |-> curSegs]
    BY DEF Init
  <2>3. OnDisk = InMemory /\ OnDisk \in S
    BY <2>1, <2>2, OnDiskIsCommitted DEF InMemory
  <2> QED
    BY <2>1, <2>3 DEF Store!Init
<1>2. IInv /\ IInv' /\ [Next]_vars => [Store!Next]_Store!vars
  <2> SUFFICES ASSUME IInv, IInv', [Next]_vars PROVE [Store!Next]_Store!vars
    OBVIOUS
  <2>1. /\ OnDisk = [tab |-> committed.tab, cur |-> committed.cur]
        /\ OnDisk' = [tab |-> committed'.tab, cur |-> committed'.cur]
    <3>1. OnDisk = [tab |-> committed.tab, cur |-> committed.cur]
      BY OnDiskIsCommitted
    <3>2. IInv => OnDisk = [tab |-> committed.tab, cur |-> committed.cur]
      BY OnDiskIsCommitted
    <3>3. (IInv => OnDisk = [tab |-> committed.tab, cur |-> committed.cur])'
      BY OnDiskIsCommitted, PTL
    <3> QED
      BY <3>1, <3>3
  <2>2. InMemory = [tab |-> mem, cur |-> curSegs] /\ InMemory' = [tab |-> mem', cur |-> curSegs']
    BY DEF InMemory
  <2>3. pc' # "down" => InMemory' \in S
    BY <2>2 DEF IInv, MemoryOK, TypeOK
  <2> HIDE DEF S
  <2>4. CASE /\ pc # "down" /\ pc' # "down"
             /\ committed' = committed
    <3>1. Store!Update
      BY <2>1, <2>3, <2>4 DEF Store!Update, S
    <3> QED
      BY <3>1 DEF Store!Next
  <2>5. CASE ClosePack
    <3>1. /\ pc # "down" /\ pc' # "down" /\ InMemory' = InMemory /\ OnDisk' = InMemory
      BY <2>1, <2>2, <2>5 DEF ClosePack, memVars
    <3>2. Store!Commit
      BY <3>1 DEF Store!Commit
    <3> QED
      BY <3>2 DEF Store!Next
  <2>6. CASE PowerLoss
    <3>1. pc # "down" /\ pc' = "down" /\ OnDisk' = OnDisk
      BY <2>1, <2>6 DEF PowerLoss
    <3>2. Store!Crash
      BY <3>1 DEF Store!Crash
    <3> QED
      BY <3>2 DEF Store!Next
  <2>7. CASE Mount
    <3>1. pc = "down" /\ pc' = "idle" /\ OnDisk' = OnDisk
      BY <2>1, <2>7 DEF Mount
    <3>2. InMemory' = OnDisk
      BY <2>2, <2>7 DEF Mount, OnDisk
    <3>3. Store!Restart
      BY <3>1, <3>2 DEF Store!Restart
    <3> QED
      BY <3>3 DEF Store!Next
  <2>8. CASE UNCHANGED vars
    <3>1. pc' = pc /\ OnDisk' = OnDisk /\ InMemory' = InMemory
      BY <2>1, <2>2, <2>8 DEF vars
    <3> QED
      BY <3>1 DEF Store!vars
  <2> QED
    BY <2>4, <2>5, <2>6, <2>7, <2>8 DEF Next, SetEntry, SetCurSegs, WriteCheckpoint,
       BeginFlush, PutEntry, EndFill, WritePage, FlushSit, OpenPack, WriteNatJournal,
       WriteSitJournal
<1> QED
  BY <1>1, <1>2, Invariance, PTL DEF Spec, ImplementsAtomicStore, Store!Spec
===============================================================================
