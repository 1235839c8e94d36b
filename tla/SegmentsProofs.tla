---------------------------- MODULE SegmentsProofs ----------------------------
(***************************************************************************)
(* Proofs about Segments, for any number of segments, blocks and files,    *)
(* any limits of garbage collection and any number of operations.          *)
(*                                                                         *)
(* None of the invariants the runs check is inductive.  IInv adds          *)
(*  - the free list as a list: IsList(freeq, w) gives the segments in the  *)
(*    order of free_next, so that free_en_queue and free_de_queue are an   *)
(*    insertion and a removal at its ends (EnqueueIs, DequeueIs);          *)
(*  - the temperature of a current segment, on which InvalidBlock and the  *)
(*    scan of GC rely to tell that it is current (InOrder);                *)
(*  - that the saved tables agree with each other (SavedSound): Mount      *)
(*    turns them into the tables it works with;                            *)
(*  - what GC relies on between two of its steps (GcSound): the counts in  *)
(*    the pool are still true, its segments and the source are not         *)
(*    current, and no candidate is empty while the source is not, so that  *)
(*    the segment GC takes to write to is never one it is about to empty.  *)
(* Sound(st, F) is the part about the tables.  It speaks of a record of    *)
(* them, because a write passes through several of those: the lemmas say   *)
(* what taking a segment, putting a block and invalidating one do to it.   *)
(***************************************************************************)
EXTENDS Segments, ProofFacts

-------------------------------------------------------------------------------
(***************************************************************************)
(* The free list                                                           *)
(***************************************************************************)
Queue == [next : [Seg -> Seg \cup {None}], head : Seg \cup {None},
          tail : Seg \cup {None}, nr : Nat]

\* w lists the free segments from m_free_tail to m_free_head, along free_next.
IsList(q, w) ==
    /\ w \in [0 .. q.nr - 1 -> Seg]
    /\ \A i, j \in 0 .. q.nr - 1 : w[i] = w[j] => i = j
    /\ \A i \in 0 .. q.nr - 2 : q.next[w[i]] = w[i + 1]
    /\ q.nr = 0 => q.head = None /\ q.tail = None
    /\ q.nr # 0 => /\ q.tail = w[0] /\ q.head = w[q.nr - 1]
                   /\ q.next[q.head] = q.tail

\* The segments in the free list are those of F.
FreeOf(q, F) == \E w : IsList(q, w) /\ F = {w[i] : i \in 0 .. q.nr - 1}

\* None is not a segment.
LEMMA SegFacts == SegNr \in Nat /\ None \notin Seg /\ \A s \in Seg : s \in Nat /\ s < SegNr
BY ConstAssumption DEF Seg

\* The free list in detail.
LEMMA ListFacts ==
  ASSUME NEW q \in Queue, NEW F, FreeOf(q, F)
  PROVE  /\ F \subseteq Seg
         /\ q.nr = 0 <=> F = {}
         /\ q.nr = 0 <=> q.head = None
         /\ q.nr = 0 <=> q.tail = None
         /\ q.nr # 0 => q.head \in F /\ q.tail \in F
         /\ \A s \in F : q.next[s] \in F
<1>1. PICK w : IsList(q, w) /\ F = {w[i] : i \in 0 .. q.nr - 1}
  BY DEF FreeOf
<1>2. q.nr \in Nat
  BY DEF Queue
<1>3. CASE q.nr = 0
  <2>1. 0 .. q.nr - 1 = {}
    BY <1>3
  <2>2. F = {}
    BY <1>1, <2>1
  <2> QED BY <1>1, <1>3, <2>2 DEF IsList
<1>4. CASE q.nr # 0
  <2>1. 0 \in 0 .. q.nr - 1 /\ q.nr - 1 \in 0 .. q.nr - 1
    BY <1>2, <1>4
  <2>2. \A i \in 0 .. q.nr - 1 : w[i] \in F /\ w[i] \in Seg
    BY <1>1 DEF IsList
  <2>3. q.head \in F /\ q.tail \in F /\ F \subseteq Seg
    BY <1>1, <1>4, <2>1, <2>2 DEF IsList
  <2>4. ASSUME NEW i \in 0 .. q.nr - 1 PROVE q.next[w[i]] \in F
    <3>1. CASE i = q.nr - 1
      BY <1>1, <1>4, <2>3, <3>1 DEF IsList
    <3>2. CASE i # q.nr - 1
      <4>1. i \in 0 .. q.nr - 2 /\ i + 1 \in 0 .. q.nr - 1
        BY <1>2, <3>2
      <4> QED BY <1>1, <4>1, <2>2 DEF IsList
    <3> QED BY <3>1, <3>2
  <2>5. \A s \in F : q.next[s] \in F
    BY <1>1, <2>4
  <2> QED BY <1>4, <2>3, <2>5, SegFacts
<1> QED BY <1>3, <1>4

\* free_en_queue adds a segment at the head.
LEMMA EnqueueIs ==
  ASSUME NEW q \in Queue, NEW F, FreeOf(q, F), NEW s \in Seg, s \notin F,
         NEW r, r = Enqueue(q, s)
  PROVE  /\ r \in Queue /\ FreeOf(r, F \cup {s})
         /\ \A x \in Seg : x \notin F /\ x # s => r.next[x] = q.next[x]
<1>1. PICK w : IsList(q, w) /\ F = {w[i] : i \in 0 .. q.nr - 1}
  BY DEF FreeOf
<1>2. PICK n : n = q.nr
  OBVIOUS
<1>3. n \in Nat /\ q.next \in [Seg -> Seg \cup {None}]
  BY <1>2 DEF Queue
<1>4. PICK v : v = [i \in 0 .. n |-> IF i = n THEN s ELSE w[i]]
  OBVIOUS
<1>5. /\ v \in [0 .. n -> Seg] /\ v[n] = s /\ \A i \in 0 .. n - 1 : v[i] = w[i]
  BY <1>1, <1>2, <1>3, <1>4 DEF IsList
<1>6. \A i \in 0 .. n - 1 : w[i] \in F
  BY <1>1, <1>2
<1>7. \A i, j \in 0 .. n : v[i] = v[j] => i = j
  <2> SUFFICES ASSUME NEW i \in 0 .. n, NEW j \in 0 .. n, v[i] = v[j], i # j PROVE FALSE
    OBVIOUS
  <2>1. CASE i # n /\ j # n
    <3>1. i \in 0 .. n - 1 /\ j \in 0 .. n - 1
      BY <1>3, <2>1
    <3> QED BY <3>1, <1>1, <1>2, <1>5 DEF IsList
  <2>2. CASE i = n
    <3>1. j \in 0 .. n - 1
      BY <1>3, <2>2
    <3> QED BY <3>1, <2>2, <1>5, <1>6
  <2>3. CASE j = n
    <3>1. i \in 0 .. n - 1
      BY <1>3, <2>3
    <3> QED BY <3>1, <2>3, <1>5, <1>6
  <2> QED BY <2>1, <2>2, <2>3
<1>8. F \cup {s} = {v[i] : i \in 0 .. n}
  <2>1. \A x \in F : \E i \in 0 .. n : x = v[i]
    BY <1>1, <1>2, <1>3, <1>5
  <2>2. n \in 0 .. n /\ s = v[n]
    BY <1>3, <1>5
  <2>3. \A i \in 0 .. n : v[i] \in F \cup {s}
    BY <1>3, <1>5, <1>6
  <2> QED BY <2>1, <2>2, <2>3
<1>9. CASE n = 0
  <2>1. q.head = None /\ F = {}
    BY <1>2, <1>9, ListFacts
  <2>2. r = [q EXCEPT !.next[s] = s, !.head = s, !.tail = s, !.nr = 1]
    BY <1>2, <1>9, <2>1 DEF Enqueue
  <2>3. /\ r \in Queue /\ r.nr = 1 /\ r.head = s /\ r.tail = s /\ r.next[s] = s
        /\ \A x \in Seg : x # s => r.next[x] = q.next[x]
    <3>1. PICK m \in Nat : m = 1
      OBVIOUS
    <3>2. r = [q EXCEPT !.next[s] = s, !.head = s, !.tail = s, !.nr = m]
      BY <2>2, <3>1
    <3>3. r \in Queue
      BY <3>2 DEF Queue
    <3>4. /\ r.nr = m /\ r.head = s /\ r.tail = s /\ r.next[s] = s
          /\ \A x \in Seg : x # s => r.next[x] = q.next[x]
      BY <3>2 DEF Queue
    <3> QED BY <3>1, <3>3, <3>4
  <2>4. IsList(r, v)
    BY <1>3, <1>5, <1>7, <1>9, <2>3 DEF IsList
  <2> QED BY <1>8, <1>9, <2>3, <2>4 DEF FreeOf
<1>10. CASE n # 0
  <2>1. q.head # None /\ q.head \in F /\ q.head \in Seg /\ q.tail \in F
    BY <1>2, <1>10, ListFacts
  <2>2. PICK m : m = n + 1
    OBVIOUS
  <2>3. /\ r = [q EXCEPT !.next[s] = q.next[q.head], !.next[q.head] = s, !.head = s, !.nr = m]
        /\ q.head # s /\ m \in Nat
    BY <1>2, <1>3, <2>1, <2>2 DEF Enqueue
  <2>4. /\ r \in Queue /\ r.nr = n + 1 /\ r.head = s /\ r.tail = q.tail
        /\ r.next[s] = q.next[q.head] /\ r.next[q.head] = s
        /\ \A x \in Seg : x # s /\ x # q.head => r.next[x] = q.next[x]
    <3>1. r \in Queue
      <4>1. PICK h \in Seg : h = q.head
        BY <2>1
      <4>2. PICK y \in Seg \cup {None} : y = q.next[h]
        BY <1>3
      <4>3. m \in Nat /\ r = [q EXCEPT !.next[s] = y, !.next[h] = s, !.head = s, !.nr = m]
        BY <2>3, <4>1, <4>2
      <4>4. PICK x : x = [q.next EXCEPT ![s] = y, ![h] = s]
        OBVIOUS
      <4>5. x \in [Seg -> Seg \cup {None}]
        BY <1>3, <4>4
      <4>6. r = [q EXCEPT !.next = x, !.head = s, !.nr = m]
        BY <4>3, <4>4 DEF Queue
      <4> QED BY <4>3, <4>5, <4>6 DEF Queue
    <3>2. /\ r.nr = m /\ r.head = s /\ r.tail = q.tail
          /\ r.next[s] = q.next[q.head] /\ r.next[q.head] = s
          /\ \A x \in Seg : x # s /\ x # q.head => r.next[x] = q.next[x]
      BY <2>1, <2>3 DEF Queue
    <3> QED BY <3>1, <3>2, <2>2
  <2>5. /\ q.tail = w[0] /\ q.head = w[n - 1] /\ q.next[q.head] = q.tail
        /\ \A i \in 0 .. n - 2 : q.next[w[i]] = w[i + 1]
        /\ \A i, j \in 0 .. n - 1 : w[i] = w[j] => i = j
    BY <1>1, <1>2, <1>10 DEF IsList
  <2>6. ASSUME NEW i \in 0 .. n - 1 PROVE r.next[v[i]] = v[i + 1]
    <3>1. CASE i = n - 1
      BY <1>3, <1>5, <2>4, <2>5, <3>1
    <3>2. CASE i # n - 1
      <4>1. i \in 0 .. n - 2 /\ i + 1 \in 0 .. n - 1 /\ n - 1 \in 0 .. n - 1
        BY <1>3, <3>2
      <4>2. w[i] # q.head /\ w[i] # s /\ w[i] \in Seg
        BY <1>1, <1>2, <1>6, <2>5, <3>2, <4>1 DEF IsList
      <4> QED BY <1>5, <2>4, <2>5, <4>1, <4>2
    <3> QED BY <3>1, <3>2
  <2>7. r.tail = v[0] /\ r.head = v[n] /\ r.next[r.head] = r.tail
    BY <1>3, <1>5, <1>10, <2>4, <2>5
  <2>8. r.nr - 1 = n /\ r.nr - 2 = n - 1 /\ r.nr # 0
    BY <1>3, <2>4
  <2>9. IsList(r, v)
    BY <1>5, <1>7, <2>6, <2>7, <2>8 DEF IsList
  <2> QED BY <1>8, <2>1, <2>4, <2>8, <2>9 DEF FreeOf
<1> QED BY <1>9, <1>10

\* free_next has not changed for the segments outside F.
SameNext(r, q, F) == \A x \in Seg \ F : r.next[x] = q.next[x]

\* free_de_queue takes the segment at the tail.
LEMMA DequeueIs ==
  ASSUME NEW q \in Queue, NEW F, FreeOf(q, F), q.nr # 0, NEW r, r = Dequeue(q)
  PROVE  /\ r \in Queue /\ FreeOf(r, F \ {q.tail})
         /\ SameNext(r, q, F \ {q.tail})
<1>1. PICK w : IsList(q, w) /\ F = {w[i] : i \in 0 .. q.nr - 1}
  BY DEF FreeOf
<1>2. PICK n : n = q.nr
  OBVIOUS
<1>3. n \in Nat /\ n # 0 /\ q.next \in [Seg -> Seg \cup {None}]
  BY <1>2 DEF Queue
<1>4. q.head \in F /\ q.tail \in F /\ F \subseteq Seg
  BY ListFacts
<1>5. /\ q.tail = w[0] /\ q.head = w[n - 1] /\ q.next[q.head] = q.tail
      /\ \A i \in 0 .. n - 2 : q.next[w[i]] = w[i + 1]
      /\ \A i, j \in 0 .. n - 1 : w[i] = w[j] => i = j
      /\ \A i \in 0 .. n - 1 : w[i] \in Seg /\ w[i] \in F
  BY <1>1, <1>2, <1>3 DEF IsList
<1>6. CASE n = 1
  <2>1. q.tail = q.head
    BY <1>5, <1>6
  <2>2. r = [q EXCEPT !.head = None, !.tail = None, !.nr = 0]
    BY <1>2, <1>6, <2>1 DEF Dequeue
  <2>3. r \in Queue /\ r.nr = 0 /\ r.head = None /\ r.tail = None /\ r.next = q.next
    <3>1. PICK m \in Nat : m = 0
      OBVIOUS
    <3>2. r = [q EXCEPT !.head = None, !.tail = None, !.nr = m]
      BY <2>2, <3>1
    <3>3. r \in Queue
      BY <3>2 DEF Queue
    <3>4. r.nr = m /\ r.head = None /\ r.tail = None /\ r.next = q.next
      BY <3>2 DEF Queue
    <3> QED BY <3>1, <3>3, <3>4
  <2>4. F \ {q.tail} = {}
    BY <1>1, <1>2, <1>5, <1>6
  <2>5. PICK v : v = [i \in 0 .. r.nr - 1 |-> w[i]]
    OBVIOUS
  <2>6. 0 .. r.nr - 1 = {}
    BY <2>3
  <2>7. IsList(r, v)
    BY <2>3, <2>5, <2>6 DEF IsList
  <2>8. F \ {q.tail} = {v[i] : i \in 0 .. r.nr - 1}
    BY <2>4, <2>6
  <2> QED BY <2>3, <2>7, <2>8 DEF FreeOf, SameNext
<1>7. CASE n # 1
  <2>1. 0 \in 0 .. n - 1 /\ n - 1 \in 0 .. n - 1 /\ 0 # n - 1 /\ 0 \in 0 .. n - 2
    BY <1>3, <1>7
  <2>2. q.tail # q.head /\ q.next[q.tail] = w[1]
    <3>1. q.next[w[0]] = w[0 + 1] /\ 0 + 1 = 1
      BY <1>5, <2>1
    <3> QED BY <1>5, <2>1, <3>1
  <2>3. PICK m : m = n - 1
    OBVIOUS
  <2>4. 1 \in 0 .. n - 1 /\ w[1] \in Seg
    BY <1>3, <1>5, <1>7
  <2>5. /\ r \in Queue /\ r.nr = n - 1 /\ r.head = q.head /\ r.tail = w[1]
        /\ r.next[q.head] = w[1] /\ \A x \in Seg : x # q.head => r.next[x] = q.next[x]
    <3>1. r = [q EXCEPT !.tail = w[1], !.next[q.head] = w[1], !.nr = m] /\ m \in Nat
      BY <1>2, <1>3, <2>2, <2>3 DEF Dequeue
    <3>2. /\ r \in Queue /\ r.nr = m /\ r.head = q.head /\ r.tail = w[1]
          /\ r.next[q.head] = w[1] /\ \A x \in Seg : x # q.head => r.next[x] = q.next[x]
      BY <1>4, <2>4, <3>1, ZenonT(30) DEF Queue
    <3> QED BY <2>3, <3>2
  <2>6. PICK v : v = [i \in 0 .. n - 2 |-> w[i + 1]]
    OBVIOUS
  <2>7. \A i \in 0 .. n - 2 : i + 1 \in 0 .. n - 1 /\ v[i] = w[i + 1]
    BY <1>3, <2>6
  <2>8. v \in [0 .. n - 2 -> Seg] /\ \A i, j \in 0 .. n - 2 : v[i] = v[j] => i = j
    <3>1. v \in [0 .. n - 2 -> Seg]
      BY <1>5, <2>6, <2>7
    <3>2. ASSUME NEW i \in 0 .. n - 2, NEW j \in 0 .. n - 2, v[i] = v[j] PROVE i = j
      <4>1. i + 1 = j + 1
        BY <1>5, <2>7, <3>2
      <4> QED BY <4>1
    <3> QED BY <3>1, <3>2
  <2>9. ASSUME NEW i \in 0 .. n - 3 PROVE r.next[v[i]] = v[i + 1]
    <3>1. /\ i \in 0 .. n - 2 /\ i + 1 \in 0 .. n - 2 /\ i + 1 \in 0 .. n - 1
          /\ i + 1 # n - 1
      BY <1>3
    <3>2. w[i + 1] # q.head /\ w[i + 1] \in Seg
      BY <1>5, <2>1, <3>1
    <3>3. q.next[w[i + 1]] = w[(i + 1) + 1]
      BY <1>5, <3>1
    <3> QED BY <2>5, <2>7, <3>1, <3>2, <3>3
  <2>10. r.tail = v[0] /\ r.head = v[n - 2] /\ r.next[r.head] = r.tail
    <3>1. 0 \in 0 .. n - 2 /\ n - 2 \in 0 .. n - 2 /\ 0 + 1 = 1 /\ (n - 2) + 1 = n - 1
      BY <1>3, <2>1
    <3> QED BY <1>5, <2>5, <2>7, <3>1
  <2>11. r.nr - 1 = n - 2 /\ r.nr - 2 = n - 3 /\ r.nr # 0
    BY <1>3, <1>7, <2>5
  <2>12. IsList(r, v)
    BY <2>8, <2>9, <2>10, <2>11 DEF IsList
  <2>13. F \ {q.tail} = {v[i] : i \in 0 .. n - 2}
    <3>1. ASSUME NEW x \in F \ {q.tail} PROVE \E i \in 0 .. n - 2 : x = v[i]
      <4>1. PICK k \in 0 .. n - 1 : x = w[k]
        BY <1>1, <1>2
      <4>2. k # 0
        BY <1>5, <4>1
      <4>3. k - 1 \in 0 .. n - 2 /\ (k - 1) + 1 = k
        BY <1>3, <4>2
      <4> QED BY <2>7, <4>1, <4>3
    <3>2. ASSUME NEW i \in 0 .. n - 2 PROVE v[i] \in F \ {q.tail}
      <4>1. i + 1 \in 0 .. n - 1 /\ i + 1 # 0
        BY <1>3
      <4> QED BY <1>5, <2>1, <2>7, <4>1
    <3> QED BY <3>1, <3>2
  <2>14. FreeOf(r, F \ {q.tail})
    BY <2>11, <2>12, <2>13 DEF FreeOf
  <2>15. q.head \in F \ {q.tail}
    BY <1>4, <2>2
  <2> QED BY <2>5, <2>14, <2>15 DEF SameNext
<1> QED BY <1>6, <1>7

\* One step of build_free_link.
LinkStep(q, S, s) == IF s \in S THEN Enqueue(q, s) ELSE q

\* free_en_queue returns a queue whatever it is given.
LEMMA EnqueueTyped ==
  ASSUME NEW q \in Queue, NEW s \in Seg
  PROVE  Enqueue(q, s) \in Queue
<1>1. PICK m \in Nat : m = q.nr + 1
  BY DEF Queue
<1>2. q.next \in [Seg -> Seg \cup {None}] /\ q.head \in Seg \cup {None}
  BY DEF Queue
<1>3. CASE q.head = None
  <2>1. Enqueue(q, s) = [q EXCEPT !.next[s] = s, !.head = s, !.tail = s, !.nr = m]
    BY <1>1, <1>3 DEF Enqueue
  <2> QED BY <2>1 DEF Queue
<1>4. CASE q.head # None
  <2>1. PICK h \in Seg : h = q.head
    BY <1>2, <1>4
  <2>2. PICK y \in Seg \cup {None} : y = q.next[h]
    BY <1>2
  <2>3. Enqueue(q, s) = [q EXCEPT !.next[s] = y, !.next[h] = s, !.head = s, !.nr = m]
    BY <1>1, <1>4, <2>1, <2>2 DEF Enqueue
  <2>4. PICK x : x = [q.next EXCEPT ![s] = y, ![h] = s]
    OBVIOUS
  <2>5. x \in [Seg -> Seg \cup {None}]
    BY <1>2, <2>4
  <2>6. Enqueue(q, s) = [q EXCEPT !.next = x, !.head = s, !.nr = m]
    BY <2>3, <2>4 DEF Queue
  <2> QED BY <2>5, <2>6 DEF Queue
<1> QED BY <1>3, <1>4

\* The queues that build_free_link goes through.
LEMMA EnqueueAllSteps ==
  ASSUME NEW q \in Queue, NEW S
  PROVE  \E g \in [0 .. SegNr -> Queue] :
            /\ g[0] = q /\ EnqueueAll(q, S) = g[SegNr]
            /\ \A i \in 1 .. SegNr : g[i] = LinkStep(g[i - 1], S, i - 1)
<1> DEFINE P(g) == g = [i \in 0 .. SegNr |->
                          IF i = 0 THEN q
                          ELSE IF i - 1 \in S THEN Enqueue(g[i - 1], i - 1) ELSE g[i - 1]]
<1>1. PICK f : f = [i \in 1 .. SegNr |-> [x \in Queue |-> LinkStep(x, S, i - 1)]]
  OBVIOUS
<1>2. \A i \in 1 .. SegNr : i - 1 \in Seg /\ i - 1 \in 0 .. SegNr /\ i # 0
  BY SegFacts DEF Seg
<1>3. \A i \in 1 .. SegNr : \A x \in Queue : f[i][x] = LinkStep(x, S, i - 1) /\ f[i][x] \in Queue
  BY <1>1, <1>2, EnqueueTyped DEF LinkStep
<1>4. \E g : g \in [0 .. SegNr -> Queue] /\ IsRecAt(g, q, f, SegNr)
  BY <1>3, SegFacts, RecAtExists
<1>5. PICK g \in [0 .. SegNr -> Queue] : g[0] = q /\ \A i \in 1 .. SegNr : g[i] = f[i][g[i - 1]]
  BY <1>4 DEF IsRecAt
<1>6. \A i \in 1 .. SegNr : g[i] = LinkStep(g[i - 1], S, i - 1)
  BY <1>2, <1>3, <1>5
<1>7. P(g)
  <2>1. \A i \in 0 .. SegNr : i # 0 => i \in 1 .. SegNr
    BY SegFacts
  <2>2. \A i \in 0 .. SegNr : g[i] = IF i = 0 THEN q
           ELSE IF i - 1 \in S THEN Enqueue(g[i - 1], i - 1) ELSE g[i - 1]
    BY <1>5, <1>6, <2>1 DEF LinkStep
  <2> QED BY <2>2
<1>8. PICK h : h = CHOOSE x : P(x)
  OBVIOUS
<1>9. P(h)
  <2>1. P(CHOOSE x : P(x))
    BY <1>7, Zenon
  <2> HIDE DEF P
  <2> QED BY <1>8, <2>1
<1>10. EnqueueAll(q, S) = h[SegNr]
  BY <1>8 DEF EnqueueAll
<1>11. \A i \in 0 .. SegNr : h[i] = IF i = 0 THEN q
           ELSE IF i - 1 \in S THEN Enqueue(h[i - 1], i - 1) ELSE h[i - 1]
  BY <1>9
<1>12. DOMAIN h = 0 .. SegNr
  BY <1>9
<1>13. \A i \in 0 .. SegNr : h[i] = g[i]
  <2> DEFINE T == {i \in Nat : i <= SegNr => h[i] = g[i]}
  <2>1. 0 \in T
    BY <1>5, <1>11, SegFacts
  <2>2. ASSUME NEW i \in Nat, i \in T PROVE i + 1 \in T
    <3> SUFFICES ASSUME i + 1 <= SegNr PROVE h[i + 1] = g[i + 1]
      OBVIOUS
    <3>1. i + 1 \in 1 .. SegNr /\ i + 1 \in 0 .. SegNr /\ (i + 1) - 1 = i /\ i + 1 # 0 /\ i <= SegNr
      BY SegFacts
    <3>2. h[i] = g[i]
      BY <2>2, <3>1
    <3>3. h[i + 1] = IF i \in S THEN Enqueue(h[i], i) ELSE h[i]
      BY <1>11, <3>1
    <3>4. g[i + 1] = IF i \in S THEN Enqueue(g[i], i) ELSE g[i]
      BY <1>6, <3>1 DEF LinkStep
    <3> QED BY <3>2, <3>3, <3>4
  <2>3. Nat \subseteq T
    <3> HIDE DEF T
    <3> QED BY <2>1, <2>2, Induct
  <2> QED BY <2>3, SegFacts
<1>14. EnqueueAll(q, S) = g[SegNr]
  BY <1>10, <1>13, SegFacts
<1> QED BY <1>5, <1>6, <1>14

\* build_free_link and the scan of GarbageCollection link every segment they are
\* given, once.
LEMMA EnqueueAllIs ==
  ASSUME NEW q \in Queue, NEW F, FreeOf(q, F), NEW S \in SUBSET Seg, S \cap F = {},
         NEW r, r = EnqueueAll(q, S)
  PROVE  /\ r \in Queue /\ FreeOf(r, F \cup S)
         /\ \A x \in Seg : x \notin F \cup S => r.next[x] = q.next[x]
<1>1. PICK g \in [0 .. SegNr -> Queue] :
         /\ g[0] = q /\ EnqueueAll(q, S) = g[SegNr]
         /\ \A i \in 1 .. SegNr : g[i] = LinkStep(g[i - 1], S, i - 1)
  BY EnqueueAllSteps
<1> DEFINE low(i) == {s \in S : s < i}
           Good(i) == /\ FreeOf(g[i], F \cup low(i))
                      /\ \A x \in Seg : x \notin F \cup S => g[i].next[x] = q.next[x]
           T == {i \in Nat : i <= SegNr => Good(i)}
<1>2. 0 \in T
  <2>1. low(0) = {}
    BY SegFacts
  <2>2. F \cup low(0) = F
    BY <2>1
  <2> HIDE DEF low
  <2> QED BY <1>1, <2>2
<1>3. ASSUME NEW i \in Nat, i \in T PROVE i + 1 \in T
  <2> SUFFICES ASSUME i + 1 <= SegNr PROVE Good(i + 1)
    OBVIOUS
  <2>1. /\ i + 1 \in 1 .. SegNr /\ (i + 1) - 1 = i /\ i <= SegNr /\ i \in 0 .. SegNr
        /\ i \in Seg
    BY SegFacts DEF Seg
  <2>2. Good(i) /\ g[i] \in Queue /\ g[i + 1] = LinkStep(g[i], S, i)
    BY <1>1, <1>3, <2>1
  <2>3. CASE i \in S
    <3>1. low(i + 1) = low(i) \cup {i} /\ i \notin low(i)
      <4>1. \A s \in S : s \in Nat
        BY SegFacts
      <4>2. \A s \in S : s < i + 1 <=> s < i \/ s = i
        BY <4>1
      <4>3. i \notin low(i)
        OBVIOUS
      <4>4. \A s : s \in low(i + 1) <=> s \in low(i) \/ s = i
        BY <2>3, <4>2
      <4> QED BY <4>3, <4>4
    <3>2. i \notin F \cup low(i) /\ (F \cup low(i)) \cup {i} = F \cup low(i + 1)
      BY <2>3, <3>1
    <3>3. low(i) \subseteq S
      OBVIOUS
    <3>4. g[i + 1] = Enqueue(g[i], i)
      BY <2>2, <2>3 DEF LinkStep
    <3> HIDE DEF low
    <3>5. /\ FreeOf(g[i + 1], (F \cup low(i)) \cup {i})
          /\ \A x \in Seg : x \notin F \cup low(i) /\ x # i => g[i + 1].next[x] = g[i].next[x]
      BY <2>1, <2>2, <3>2, <3>4, EnqueueIs
    <3> QED BY <2>2, <2>3, <3>2, <3>3, <3>5
  <2>4. CASE i \notin S
    <3>1. low(i + 1) = low(i)
      BY <2>4, SegFacts
    <3> HIDE DEF low
    <3> QED BY <2>2, <2>4, <3>1 DEF LinkStep
  <2> QED BY <2>3, <2>4
<1>4. Nat \subseteq T
  <2> HIDE DEF T
  <2> QED BY <1>2, <1>3, Induct
<1>5. low(SegNr) = S
  BY SegFacts
<1>6. Good(SegNr) /\ g[SegNr] \in Queue
  <2> HIDE DEF Good
  <2>1. SegNr \in Nat /\ SegNr <= SegNr /\ SegNr \in 0 .. SegNr
    BY SegFacts
  <2> QED BY <1>4, <2>1
<1> HIDE DEF low
<1> QED BY <1>1, <1>5, <1>6

\* m_free_nr counts the segments in the list, so it never passes MAIN_SEG_NR.
LEMMA FreeCard ==
  ASSUME NEW q \in Queue, NEW F, FreeOf(q, F)
  PROVE  IsFiniteSet(F) /\ Cardinality(F) = q.nr /\ q.nr \in 0 .. SegNr
<1>1. PICK w : IsList(q, w) /\ F = {w[i] : i \in 0 .. q.nr - 1}
  BY DEF FreeOf
<1>2. q.nr \in Nat
  BY DEF Queue
<1>3. PICK I : I = 0 .. q.nr - 1
  OBVIOUS
<1>4. IsFiniteSet(I) /\ Cardinality(I) = q.nr
  <2>1. 0 \in Int /\ q.nr - 1 \in Int
    BY <1>2
  <2>2. IsFiniteSet(I) /\ Cardinality(I) = IF 0 > q.nr - 1 THEN 0 ELSE (q.nr - 1) - 0 + 1
    BY <1>3, <2>1, FS_Interval
  <2> QED BY <1>2, <2>2
<1>5. ExistsBijection(I, F)
  <2>1. w \in [I -> F] /\ (\A i, j \in I : w[i] = w[j] => i = j) /\ \A x \in F : \E i \in I : w[i] = x
    BY <1>1, <1>3 DEF IsList
  <2>2. w \in Bijection(I, F)
    BY <2>1 DEF Bijection, Injection, Surjection, IsInjective
  <2> QED BY <2>2 DEF ExistsBijection
<1>6. IsFiniteSet(F) /\ Cardinality(F) = q.nr
  BY <1>4, <1>5, FS_Bijection
<1>7. IsFiniteSet(Seg) /\ Cardinality(Seg) = SegNr
  <2>1. 0 \in Int /\ SegNr - 1 \in Int
    BY SegFacts
  <2>2. IsFiniteSet(Seg) /\ Cardinality(Seg) = IF 0 > SegNr - 1 THEN 0 ELSE (SegNr - 1) - 0 + 1
    BY <2>1, FS_Interval DEF Seg
  <2> QED BY <2>2, SegFacts
<1>8. Cardinality(F) <= Cardinality(Seg)
  BY <1>7, ListFacts, FS_Subset
<1> QED BY <1>2, <1>6, <1>7, <1>8, SegFacts

\* FreeSet follows free_next from m_free_tail.
LEMMA FreeSetIs ==
  ASSUME freeq \in Queue, NEW F, FreeOf(freeq, F)
  PROVE  FreeSet = F /\ (freeq.nr # 0 => FreeAt[freeq.nr - 1] = freeq.head)
<1>1. PICK w : IsList(freeq, w) /\ F = {w[i] : i \in 0 .. freeq.nr - 1}
  BY DEF FreeOf
<1>2. PICK n : n = freeq.nr
  OBVIOUS
<1>3. n \in 0 .. SegNr
  BY <1>2, FreeCard
<1>4. CASE n = 0
  <2>1. 0 .. freeq.nr - 1 = {}
    BY <1>2, <1>4
  <2> QED BY <1>1, <1>2, <1>4, <2>1 DEF FreeSet
<1>5. CASE n # 0
  <2> DEFINE P(g) == g = [i \in 0 .. SegNr |-> IF i = 0 THEN freeq.tail ELSE freeq.next[g[i - 1]]]
  <2>1. freeq.tail \in F /\ \A x \in F : freeq.next[x] \in F
    BY <1>2, <1>5, ListFacts
  <2>2. \E g : g \in [0 .. SegNr -> F] /\ IsRec(g, freeq.tail, freeq.next, SegNr)
    BY <2>1, SegFacts, RecExists
  <2>3. PICK g \in [0 .. SegNr -> F] :
           g[0] = freeq.tail /\ \A i \in 1 .. SegNr : g[i] = freeq.next[g[i - 1]]
    BY <2>2 DEF IsRec
  <2>4. P(g)
    <3>1. \A i \in 0 .. SegNr : i # 0 => i \in 1 .. SegNr
      BY SegFacts
    <3>2. \A i \in 0 .. SegNr : g[i] = IF i = 0 THEN freeq.tail ELSE freeq.next[g[i - 1]]
      BY <2>3, <3>1
    <3> QED BY <3>2
  <2>5. P(FreeAt)
    <3>1. P(CHOOSE x : P(x))
      BY <2>4, Zenon
    <3>2. FreeAt = CHOOSE x : P(x)
      BY DEF FreeAt
    <3> HIDE DEF P
    <3> QED BY <3>1, <3>2
  <2>6. \A i \in 0 .. SegNr : FreeAt[i] = IF i = 0 THEN freeq.tail ELSE freeq.next[FreeAt[i - 1]]
    BY <2>5
  <2>7. \A i \in 0 .. n - 1 : FreeAt[i] = w[i]
    <3> DEFINE T == {i \in Nat : i <= n - 1 => FreeAt[i] = w[i]}
    <3>1. 0 \in T
      BY <1>1, <1>2, <1>5, <2>6, SegFacts DEF IsList
    <3>2. ASSUME NEW i \in Nat, i \in T PROVE i + 1 \in T
      <4> SUFFICES ASSUME i + 1 <= n - 1 PROVE FreeAt[i + 1] = w[i + 1]
        OBVIOUS
      <4>1. /\ i + 1 \in 0 .. SegNr /\ (i + 1) - 1 = i /\ i + 1 # 0 /\ i <= n - 1
            /\ i \in 0 .. n - 2
        BY <1>3, SegFacts
      <4>2. FreeAt[i] = w[i]
        BY <3>2, <4>1
      <4>3. FreeAt[i + 1] = freeq.next[FreeAt[i]]
        BY <2>6, <4>1
      <4>4. freeq.next[w[i]] = w[i + 1]
        BY <1>1, <1>2, <4>1 DEF IsList
      <4> QED BY <4>2, <4>3, <4>4
    <3>3. Nat \subseteq T
      <4> HIDE DEF T
      <4> QED BY <3>1, <3>2, Induct
    <3> QED BY <1>3, <3>3
  <2>8. FreeSet = F
    BY <1>1, <1>2, <2>7 DEF FreeSet
  <2>9. n - 1 \in 0 .. n - 1 /\ freeq.head = w[n - 1]
    BY <1>1, <1>2, <1>3, <1>5 DEF IsList
  <2> QED BY <1>2, <2>7, <2>8, <2>9
<1> QED BY <1>4, <1>5

-------------------------------------------------------------------------------
(***************************************************************************)
(* The tables                                                              *)
(***************************************************************************)
SegInfo == [valid : SUBSET Blk, own : [Blk -> Logical \cup {None}], temp : Temps \cup {None}]

Typed(st) ==
    st \in [sit : [Seg -> SegInfo], q : Queue, cur : CurInfo,
            phy : [Logical -> Addr \cup {None}]]

\* The free segments are those of F, and the current segments are written in order.
InOrder(st, F) ==
    /\ FreeOf(st.q, F)
    /\ \A s \in F : st.sit[s].valid = {} /\ st.sit[s].temp = None
    /\ \A s \in Seg : st.sit[s].valid = {} /\ ~Current(st.cur, s) =>
          s \in F \/ (s = 0 /\ st.q.next[0] = None)
    /\ \A t \in Temps : st.cur[t].seg # None =>
          /\ st.sit[st.cur[t].seg].temp = t
          /\ \A b \in st.sit[st.cur[t].seg].valid : b < st.cur[t].off

\* The map p and the summaries agree, but for the block x that is to be invalidated.
Mapped(st, p, x) ==
    /\ \A l \in Logical : p[l] # None =>
          /\ p[l] # x
          /\ p[l][2] \in st.sit[p[l][1]].valid
          /\ st.sit[p[l][1]].own[p[l][2]] = l
    /\ \A s \in Seg : \A b \in st.sit[s].valid : <<s, b>> # x =>
          st.sit[s].own[b] # None /\ p[st.sit[s].own[b]] = <<s, b>>

\* Current segments have room.
Open(c) == \A t \in Temps : c[t].seg # None => c[t].off < BlkPerSeg

Sound(st, F) ==
    Typed(st) /\ InOrder(st, F) /\ Mapped(st, st.phy, None) /\ Open(st.cur)

\* The tables without the block x, before its segment may be freed.
Drop(st, s, b) ==
    [st EXCEPT !.sit[s].valid = @ \ {b}, !.sit[s].own[b] = None]

\* What the tables hold then.
LEMMA DropIs ==
  ASSUME NEW st, Typed(st), NEW s \in Seg, NEW b \in Blk, NEW r, r = Drop(st, s, b)
  PROVE  /\ Typed(r) /\ r.q = st.q /\ r.cur = st.cur /\ r.phy = st.phy
         /\ r.sit[s].valid = st.sit[s].valid \ {b} /\ r.sit[s].temp = st.sit[s].temp
         /\ \A c \in Blk \ {b} : r.sit[s].own[c] = st.sit[s].own[c]
         /\ \A u \in Seg \ {s} : r.sit[u] = st.sit[u]
<1>1. st.sit[s] \in SegInfo /\ st.sit \in [Seg -> SegInfo]
  BY DEF Typed
<1>2. PICK i : i = [st.sit[s] EXCEPT !.valid = @ \ {b}, !.own[b] = None]
  OBVIOUS
<1>3. /\ i \in SegInfo /\ i.valid = st.sit[s].valid \ {b} /\ i.temp = st.sit[s].temp
      /\ \A c \in Blk \ {b} : i.own[c] = st.sit[s].own[c]
  BY <1>1, <1>2 DEF SegInfo
<1>4. r = [st EXCEPT !.sit[s] = i]
  BY <1>1, <1>2 DEF Typed, Drop, SegInfo
<1>5. Typed(r)
  BY <1>3, <1>4 DEF Typed
<1>6. r.q = st.q /\ r.cur = st.cur /\ r.phy = st.phy /\ r.sit = [st.sit EXCEPT ![s] = i]
  BY <1>4 DEF Typed
<1> QED BY <1>1, <1>3, <1>5, <1>6

\* Types of the parts of the tables.
LEMMA TypedFacts ==
  ASSUME NEW st, Typed(st)
  PROVE  /\ st.q \in Queue /\ st.sit \in [Seg -> SegInfo] /\ st.cur \in CurInfo
         /\ st.phy \in [Logical -> Addr \cup {None}]
         /\ \A s \in Seg : /\ st.sit[s] \in SegInfo /\ st.sit[s].valid \subseteq Blk
                           /\ st.sit[s].own \in [Blk -> Logical \cup {None}]
                           /\ st.sit[s].temp \in Temps \cup {None}
         /\ \A t \in Temps : st.cur[t].seg \in Seg \cup {None} /\ st.cur[t].off \in 0 .. BlkPerSeg
<1>1. /\ st.q \in Queue /\ st.sit \in [Seg -> SegInfo] /\ st.cur \in CurInfo
      /\ st.phy \in [Logical -> Addr \cup {None}]
  BY DEF Typed
<1>2. \A s \in Seg : st.sit[s] \in SegInfo
  BY <1>1
<1>3. \A t \in Temps : st.cur[t].seg \in Seg \cup {None} /\ st.cur[t].off \in 0 .. BlkPerSeg
  BY <1>1 DEF CurInfo
<1> QED BY <1>1, <1>2, <1>3 DEF SegInfo

\* None is not a temperature.
LEMMA TempFacts ==
  /\ None \notin Temps
  /\ \A l \in Logical : TempOf(l) \in Temps
  /\ None \notin Logical
<1>1. \A l \in Logical : TempOf(l) \in Temps
  BY DEF TempOf, Temps
<1>2. None \notin Logical
  BY ConstAssumption DEF Logical
<1> QED BY <1>1, <1>2, NoneAssumption

\* None is not an address.
LEMMA NoneNotAddr == \A s \in Seg, b \in Blk : <<s, b>> # None
BY NoneAssumption

\* InvalidBlock leaves the tables in order, whether or not the segment is freed.
LEMMA InvalidBlockIs ==
  ASSUME NEW st, Typed(st), NEW F, InOrder(st, F), NEW p \in [Logical -> Addr \cup {None}],
         NEW s \in Seg, NEW b \in Blk, b \in st.sit[s].valid, Mapped(st, p, <<s, b>>),
         NEW r, r = InvalidBlock(st, <<s, b>>)
  PROVE  /\ Typed(r) /\ r.cur = st.cur /\ r.phy = st.phy
         /\ (\E G \in SUBSET Seg : InOrder(r, G)) /\ Mapped(r, p, None)
         /\ r.sit[s].valid = st.sit[s].valid \ {b}
         /\ \A u \in Seg \ {s} : r.sit[u] = st.sit[u]
         /\ \A u \in Seg : \A c \in r.sit[u].valid : r.sit[u].own[c] = st.sit[u].own[c]
<1>1. PICK d : d = Drop(st, s, b)
  OBVIOUS
<1>2. /\ Typed(d) /\ d.q = st.q /\ d.cur = st.cur /\ d.phy = st.phy
      /\ d.sit[s].valid = st.sit[s].valid \ {b} /\ d.sit[s].temp = st.sit[s].temp
      /\ \A c \in Blk \ {b} : d.sit[s].own[c] = st.sit[s].own[c]
      /\ \A u \in Seg \ {s} : d.sit[u] = st.sit[u]
  BY <1>1, DropIs
<1>3. /\ FreeOf(st.q, F) /\ F \subseteq Seg /\ st.q \in Queue
      /\ \A u \in F : st.sit[u].valid = {} /\ st.sit[u].temp = None
      /\ \A u \in Seg : st.sit[u].valid = {} /\ ~Current(st.cur, u) =>
            u \in F \/ (u = 0 /\ st.q.next[0] = None)
      /\ \A t \in Temps : st.cur[t].seg # None =>
            /\ st.sit[st.cur[t].seg].temp = t
            /\ \A c \in st.sit[st.cur[t].seg].valid : c < st.cur[t].off
  BY TypedFacts, ListFacts DEF InOrder
<1>4. s \notin F
  BY <1>3
<1>5. \A t \in Temps : st.cur[t].seg \in Seg \cup {None}
  BY TypedFacts
<1>6. /\ \A u \in Seg : d.sit[u].valid \subseteq st.sit[u].valid /\ d.sit[u].temp = st.sit[u].temp
      /\ \A u \in Seg : \A c \in d.sit[u].valid : d.sit[u].own[c] = st.sit[u].own[c]
  BY <1>2, TypedFacts
<1>7. Mapped(d, p, None)
  <2>1. ASSUME NEW l \in Logical, p[l] # None
        PROVE  p[l][2] \in d.sit[p[l][1]].valid /\ d.sit[p[l][1]].own[p[l][2]] = l
    <3>1. p[l] \in Seg \X Blk /\ p[l] # <<s, b>>
      BY <2>1 DEF Mapped, Addr
    <3>2. p[l][2] \in st.sit[p[l][1]].valid /\ st.sit[p[l][1]].own[p[l][2]] = l
      BY <2>1 DEF Mapped
    <3>3. p[l][1] # s \/ p[l][2] # b
      BY <3>1
    <3>4. p[l][2] \in d.sit[p[l][1]].valid
      BY <1>2, <3>1, <3>2, <3>3
    <3> QED BY <1>6, <3>1, <3>2, <3>4
  <2>2. ASSUME NEW u \in Seg, NEW c \in d.sit[u].valid
        PROVE  d.sit[u].own[c] # None /\ p[d.sit[u].own[c]] = <<u, c>>
    <3>1. c \in st.sit[u].valid /\ <<u, c>> # <<s, b>>
      BY <1>2, <1>6
    <3>2. st.sit[u].own[c] # None /\ p[st.sit[u].own[c]] = <<u, c>>
      BY <3>1 DEF Mapped
    <3>3. d.sit[u].own[c] = st.sit[u].own[c]
      BY <1>6
    <3> QED BY <3>2, <3>3
  <2> QED BY <2>1, <2>2 DEF Mapped
<1>8. r = IF d.sit[s].valid = {} /\ ~CurrentOfTemp(d.cur, d.sit, s)
          THEN FreeSegment(d, s) ELSE d
  BY <1>1 DEF InvalidBlock, Drop
<1>9. CASE d.sit[s].valid = {} /\ ~CurrentOfTemp(d.cur, d.sit, s)
  <2>1. ~Current(st.cur, s)
    BY <1>2, <1>3, <1>9, SegFacts, TempFacts DEF Current, CurrentOfTemp
  <2>2. PICK e : e = Enqueue(d.q, s)
    OBVIOUS
  <2>3. /\ e \in Queue /\ FreeOf(e, F \cup {s})
        /\ \A x \in Seg : x \notin F /\ x # s => e.next[x] = st.q.next[x]
    <3>1. e = Enqueue(st.q, s)
      BY <1>2, <2>2
    <3>2. st.q \in Queue /\ FreeOf(st.q, F)
      BY <1>3
    <3> QED BY <1>4, <3>1, <3>2, EnqueueIs
  <2>4. r = [d EXCEPT !.sit[s].temp = None, !.q = e]
    BY <1>8, <1>9, <2>2 DEF FreeSegment
  <2>5. PICK i : i = [d.sit[s] EXCEPT !.temp = None]
    OBVIOUS
  <2>6. d.sit[s] \in SegInfo /\ d.sit \in [Seg -> SegInfo]
    BY <1>2, TypedFacts
  <2>7. i \in SegInfo /\ i.valid = d.sit[s].valid /\ i.temp = None /\ i.own = d.sit[s].own
    BY <2>5, <2>6 DEF SegInfo
  <2>8. r = [d EXCEPT !.sit[s] = i, !.q = e]
    BY <1>2, <2>4, <2>5 DEF Typed
  <2>9. Typed(r)
    <3>1. [d.sit EXCEPT ![s] = i] \in [Seg -> SegInfo]
      BY <2>6, <2>7
    <3>2. r = [d EXCEPT !.sit = [d.sit EXCEPT ![s] = i], !.q = e]
      BY <2>8
    <3> QED BY <1>2, <2>3, <3>1, <3>2 DEF Typed
  <2>10. r.q = e /\ r.cur = d.cur /\ r.phy = d.phy /\ r.sit = [d.sit EXCEPT ![s] = i]
    BY <1>2, <2>8 DEF Typed
  <2>11. r.sit[s] = i /\ \A u \in Seg \ {s} : r.sit[u] = d.sit[u]
    BY <2>6, <2>10
  <2>12. InOrder(r, F \cup {s})
    <3>1. \A u \in F \cup {s} : r.sit[u].valid = {} /\ r.sit[u].temp = None
      BY <1>2, <1>3, <1>4, <1>9, <2>7, <2>11
    <3>2. ASSUME NEW u \in Seg, r.sit[u].valid = {}, ~Current(r.cur, u), u \notin F \cup {s}
          PROVE  u = 0 /\ r.q.next[0] = None
      <4>1. u = 0 /\ st.q.next[0] = None
        BY <1>2, <1>3, <2>10, <2>11, <3>2
      <4> QED BY <2>3, <2>10, <3>2, <4>1
    <3>3. ASSUME NEW t \in Temps, r.cur[t].seg # None
          PROVE  /\ r.sit[r.cur[t].seg].temp = t
                 /\ \A c \in r.sit[r.cur[t].seg].valid : c < r.cur[t].off
      <4>1. r.cur[t].seg \in Seg /\ r.cur[t].seg # s /\ r.cur = st.cur
        BY <1>2, <1>5, <2>1, <2>10, <3>3 DEF Current
      <4>2. r.sit[r.cur[t].seg] = st.sit[r.cur[t].seg]
        BY <1>2, <2>11, <4>1
      <4> QED BY <1>3, <3>3, <4>1, <4>2
    <3> QED BY <2>3, <2>10, <3>1, <3>2, <3>3 DEF InOrder
  <2>13. Mapped(r, p, None)
    <3>1. \A u \in Seg : r.sit[u].valid = d.sit[u].valid /\ r.sit[u].own = d.sit[u].own
      BY <2>7, <2>11
    <3>2. \A l \in Logical : p[l] # None => p[l][1] \in Seg
      BY DEF Addr
    <3>3. \A l \in Logical : p[l] # None =>
             p[l][2] \in r.sit[p[l][1]].valid /\ r.sit[p[l][1]].own[p[l][2]] = l
      BY <1>7, <3>1, <3>2 DEF Mapped
    <3>4. ASSUME NEW u \in Seg, NEW c \in r.sit[u].valid
          PROVE  r.sit[u].own[c] # None /\ p[r.sit[u].own[c]] = <<u, c>>
      <4>1. c \in d.sit[u].valid /\ c \in Blk
        BY <1>2, <3>1, TypedFacts
      <4>2. d.sit[u].own[c] # None /\ p[d.sit[u].own[c]] = <<u, c>>
        BY <1>7, <4>1, NoneNotAddr DEF Mapped
      <4> QED BY <3>1, <4>2
    <3> QED BY <3>3, <3>4 DEF Mapped
  <2>14. F \cup {s} \in SUBSET Seg
    BY <1>3
  <2> QED BY <1>2, <1>6, <2>7, <2>9, <2>10, <2>11, <2>12, <2>13, <2>14
<1>10. CASE ~(d.sit[s].valid = {} /\ ~CurrentOfTemp(d.cur, d.sit, s))
  <2>1. r = d
    BY <1>8, <1>10
  <2>2. InOrder(d, F)
    <3>1. \A u \in F : d.sit[u].valid = {} /\ d.sit[u].temp = None
      BY <1>2, <1>3, <1>4
    <3>2. ASSUME NEW u \in Seg, d.sit[u].valid = {}, ~Current(d.cur, u)
          PROVE  u \in F \/ (u = 0 /\ d.q.next[0] = None)
      <4>1. u # s
        <5> SUFFICES ASSUME u = s PROVE FALSE
          OBVIOUS
        <5>1. CurrentOfTemp(d.cur, d.sit, s)
          BY <1>10, <3>2
        <5>2. d.sit[s].temp \in Temps
          BY <1>2, <5>1, TypedFacts DEF CurrentOfTemp
        <5> QED BY <3>2, <5>1, <5>2 DEF CurrentOfTemp, Current
      <4> QED BY <1>2, <1>3, <3>2, <4>1
    <3>3. ASSUME NEW t \in Temps, d.cur[t].seg # None
          PROVE  /\ d.sit[d.cur[t].seg].temp = t
                 /\ \A c \in d.sit[d.cur[t].seg].valid : c < d.cur[t].off
      <4>1. d.cur[t].seg \in Seg /\ d.cur = st.cur
        BY <1>2, <1>5, <3>3
      <4> QED BY <1>3, <1>6, <3>3, <4>1
    <3> QED BY <1>2, <1>3, <3>1, <3>2, <3>3 DEF InOrder
  <2>3. \E G \in SUBSET Seg : InOrder(r, G)
    BY <1>3, <2>1, <2>2
  <2> QED BY <1>2, <1>6, <1>7, <2>1, <2>3
<1> QED BY <1>9, <1>10

\* The first half of WriteBlockToSeg: the block at the end of the log is taken.
Put(st, l) ==
    LET t == TempOf(l)
        a == Place(st, l)
    IN  [st EXCEPT !.sit[a[1]].valid = @ \cup {a[2]}, !.sit[a[1]].own[a[2]] = l,
                   !.cur[t].off = @ + 1]

\* The segment it is in.
PutInfo(info, b, l) == [info EXCEPT !.valid = @ \cup {b}, !.own[b] = l]

PutTable(st, s, b, l) == [st EXCEPT !.sit[s].valid = @ \cup {b}, !.sit[s].own[b] = l]

\* Both say the same.
LEMMA PutSit ==
  ASSUME NEW st, Typed(st), NEW s \in Seg, NEW b \in Blk, NEW l
  PROVE  PutTable(st, s, b, l) = [st EXCEPT !.sit[s] = PutInfo(st.sit[s], b, l)]
<1>1. st.sit[s] \in SegInfo /\ st.sit \in [Seg -> SegInfo]
  BY DEF Typed
<1>2. PICK i : i = PutInfo(st.sit[s], b, l)
  OBVIOUS
<1>3. PutTable(st, s, b, l) = [st EXCEPT !.sit[s] = i]
  BY <1>1, <1>2 DEF PutTable, PutInfo, Typed, SegInfo
<1> QED BY <1>2, <1>3

Remap(p, l, a) == [p EXCEPT ![l] = a]

Puts(st, r, F, l, t, s, b, p) ==
    /\ b \in Blk /\ b \notin st.sit[s].valid /\ Typed(r) /\ r.q = st.q /\ r.phy = st.phy
    /\ InOrder(r, F) /\ Mapped(r, p, st.phy[l]) /\ p \in [Logical -> Addr \cup {None}]
    /\ r.sit[s].valid = st.sit[s].valid \cup {b}
    /\ \A u \in Seg \ {s} : r.sit[u] = st.sit[u]
    /\ \A u \in Seg : \A c \in st.sit[u].valid : r.sit[u].own[c] = st.sit[u].own[c]
    /\ r.cur[t].seg = s /\ r.cur[t].off = b + 1
    /\ \A u \in Temps \ {t} : r.cur[u] = st.cur[u]

\* A block that is mapped is in use, and is its owner's.
BlocksOfFiles(st, p) ==
    \A m \in Logical : p[m] # None =>
        /\ p[m][1] \in Seg /\ p[m][2] \in Blk /\ p[m] = <<p[m][1], p[m][2]>>
        /\ p[m][2] \in st.sit[p[m][1]].valid
        /\ st.sit[p[m][1]].own[p[m][2]] = m

\* The mapping says so.
LEMMA MappedAt ==
  ASSUME NEW st, NEW p \in [Logical -> Addr \cup {None}], NEW x, Mapped(st, p, x)
  PROVE  BlocksOfFiles(st, p)
<1> SUFFICES ASSUME NEW m \in Logical, p[m] # None
             PROVE  /\ p[m][1] \in Seg /\ p[m][2] \in Blk /\ p[m] = <<p[m][1], p[m][2]>>
                    /\ p[m][2] \in st.sit[p[m][1]].valid
                    /\ st.sit[p[m][1]].own[p[m][2]] = m
  BY Zenon DEF BlocksOfFiles
<1>1. p[m] \in Addr
  OBVIOUS
<1>2. p[m][1] \in Seg /\ p[m][2] \in Blk /\ p[m] = <<p[m][1], p[m][2]>>
  BY <1>1 DEF Addr
<1>3. p[m][2] \in st.sit[p[m][1]].valid /\ st.sit[p[m][1]].own[p[m][2]] = m
  BY Zenon DEF Mapped
<1> QED BY <1>2, <1>3

\* The block taken was not in use; the old one is still to be invalidated.
LEMMA PutIs ==
  ASSUME NEW st, NEW F, Sound(st, F), NEW l \in Logical, NEW t, t = TempOf(l),
         NEW s \in Seg, s = st.cur[t].seg, NEW b, b = st.cur[t].off,
         NEW p, p = Remap(st.phy, l, <<s, b>>), NEW r, r = Put(st, l)
  PROVE  Puts(st, r, F, l, t, s, b, p)
<1>1. /\ Typed(st) /\ InOrder(st, F) /\ Mapped(st, st.phy, None) /\ Open(st.cur) /\ t \in Temps
      /\ st.cur[t].seg # None
  BY TempFacts, SegFacts DEF Sound
<1>2. /\ st.sit[s] \in SegInfo /\ st.sit \in [Seg -> SegInfo] /\ st.q \in Queue
      /\ st.cur \in CurInfo /\ st.phy \in [Logical -> Addr \cup {None}]
      /\ st.sit[s].valid \subseteq Blk
      /\ \A u \in Temps : st.cur[u].seg \in Seg \cup {None} /\ st.cur[u].off \in 0 .. BlkPerSeg
  BY <1>1, TypedFacts
<1>3. b \in Blk /\ b + 1 \in 0 .. BlkPerSeg /\ b \in Nat
  <2>1. b < BlkPerSeg /\ b \in 0 .. BlkPerSeg /\ BlkPerSeg \in Nat
    BY <1>1, <1>2, ConstAssumption DEF Open
  <2> QED BY <2>1 DEF Blk
<1>4. /\ \A u \in Temps : st.cur[u].seg # None =>
            /\ st.sit[st.cur[u].seg].temp = u
            /\ \A c \in st.sit[st.cur[u].seg].valid : c < st.cur[u].off
      /\ FreeOf(st.q, F)
      /\ \A u \in F : st.sit[u].valid = {} /\ st.sit[u].temp = None
      /\ \A u \in Seg : st.sit[u].valid = {} /\ ~Current(st.cur, u) =>
            u \in F \/ (u = 0 /\ st.q.next[0] = None)
  BY <1>1 DEF InOrder
<1>5. b \notin st.sit[s].valid
  <2>1. b \in st.sit[s].valid => b < b
    BY <1>1, <1>4
  <2> QED BY <1>3, <2>1
<1>6. PICK i : i = PutInfo(st.sit[s], b, l)
  OBVIOUS
<1>7. /\ i \in SegInfo /\ i.valid = st.sit[s].valid \cup {b} /\ i.temp = st.sit[s].temp
      /\ i.own[b] = l /\ \A c \in Blk \ {b} : i.own[c] = st.sit[s].own[c]
  BY <1>2, <1>3, <1>6 DEF SegInfo, PutInfo
<1>8. PICK k : k = b + 1
  OBVIOUS
<1>9. PICK j : j = [st.cur[t] EXCEPT !.off = k]
  OBVIOUS
<1>10. j \in [seg : Seg \cup {None}, off : 0 .. BlkPerSeg] /\ j.seg = s /\ j.off = k
  <2>1. st.cur[t] \in [seg : Seg \cup {None}, off : 0 .. BlkPerSeg] /\ k \in 0 .. BlkPerSeg
    BY <1>1, <1>2, <1>3, <1>8 DEF CurInfo
  <2> QED BY <1>9, <2>1
<1>11. r = [st EXCEPT !.sit[s].valid = @ \cup {b}, !.sit[s].own[b] = l, !.cur[t].off = k]
  BY <1>8 DEF Put, Place
<1>12. r = [st EXCEPT !.sit[s] = i, !.cur[t] = j]
  <2>1. PICK x : x = PutTable(st, s, b, l)
    OBVIOUS
  <2>2. x = [st EXCEPT !.sit[s] = i]
    BY <1>1, <1>3, <1>6, <2>1, PutSit
  <2>3. x.cur = st.cur
    BY <1>1, <2>2 DEF Typed
  <2>4. r = [x EXCEPT !.cur[t].off = k]
    BY <1>11, <2>1 DEF PutTable
  <2>5. r = [x EXCEPT !.cur[t] = j]
    BY <1>1, <1>9, <2>2, <2>3, <2>4 DEF Typed
  <2> QED BY <1>1, <2>2, <2>5 DEF Typed
<1>13. [st.sit EXCEPT ![s] = i] \in [Seg -> SegInfo] /\ [st.cur EXCEPT ![t] = j] \in CurInfo
  BY <1>2, <1>7, <1>10 DEF CurInfo
<1>14. /\ Typed(r) /\ r.q = st.q /\ r.phy = st.phy
       /\ r.sit = [st.sit EXCEPT ![s] = i] /\ r.cur = [st.cur EXCEPT ![t] = j]
  <2>1. r = [st EXCEPT !.sit = [st.sit EXCEPT ![s] = i], !.cur = [st.cur EXCEPT ![t] = j]]
    BY <1>1, <1>12 DEF Typed
  <2>2. PICK x : x = [st.sit EXCEPT ![s] = i]
    OBVIOUS
  <2>3. PICK y : y = [st.cur EXCEPT ![t] = j]
    OBVIOUS
  <2>4. r = [st EXCEPT !.sit = x, !.cur = y] /\ x \in [Seg -> SegInfo] /\ y \in CurInfo
    BY <1>13, <2>1, <2>2, <2>3
  <2>5. Typed(r) /\ r.q = st.q /\ r.phy = st.phy /\ r.sit = x /\ r.cur = y
    BY <1>1, <2>4 DEF Typed
  <2> QED BY <2>2, <2>3, <2>5
<1>15. r.sit[s] = i /\ \A u \in Seg \ {s} : r.sit[u] = st.sit[u]
  BY <1>2, <1>14
<1>16. r.cur[t] = j /\ \A u \in Temps \ {t} : r.cur[u] = st.cur[u]
  BY <1>1, <1>2, <1>14 DEF CurInfo
<1>17. \A u \in Seg : \A c \in st.sit[u].valid : r.sit[u].own[c] = st.sit[u].own[c]
  BY <1>2, <1>5, <1>7, <1>15, ZenonT(30)
<1>18. InOrder(r, F)
  <2>1. s \notin F
    BY <1>1, <1>4, TempFacts
  <2>2. \A u \in F : r.sit[u].valid = {} /\ r.sit[u].temp = None
    BY <1>2, <1>4, <1>15, <2>1, ListFacts
  <2>3. ASSUME NEW u \in Seg, r.sit[u].valid = {}, ~Current(r.cur, u)
        PROVE  u \in F \/ (u = 0 /\ r.q.next[0] = None)
    <3>1. u # s
      BY <1>7, <1>15, <2>3
    <3>2. ~Current(st.cur, u)
      BY <1>10, <1>16, <2>3, <3>1 DEF Current
    <3>3. r.sit[u] = st.sit[u]
      BY <1>15, <3>1
    <3> QED BY <1>4, <1>14, <2>3, <3>2, <3>3
  <2>4. ASSUME NEW v \in Temps, r.cur[v].seg # None
        PROVE  /\ r.sit[r.cur[v].seg].temp = v
               /\ \A c \in r.sit[r.cur[v].seg].valid : c < r.cur[v].off
    <3>1. CASE v = t
      <4>1. r.cur[v].seg = s /\ r.cur[v].off = b + 1
        BY <1>8, <1>10, <1>16, <3>1
      <4>2. i.temp = t
        BY <1>1, <1>4, <1>7
      <4>3. \A c \in i.valid : c < b + 1
        <5> SUFFICES ASSUME NEW c \in i.valid PROVE c < b + 1
          OBVIOUS
        <5>1. CASE c = b
          BY <1>3, <5>1
        <5>2. CASE c \in st.sit[s].valid
          <6>1. c \in Nat
            BY <1>2, <5>2 DEF Blk
          <6>2. c < b
            BY <1>1, <1>4, <5>2
          <6> QED BY <1>3, <6>1, <6>2
        <5> QED BY <1>7, <5>1, <5>2
      <4> QED BY <1>15, <3>1, <4>1, <4>2, <4>3
    <3>2. CASE v # t
      <4>1. r.cur[v] = st.cur[v] /\ st.cur[v].seg \in Seg
        BY <1>2, <1>16, <2>4, <3>2
      <4>2. st.cur[v].seg # s
        BY <1>1, <1>4, <2>4, <3>2, <4>1
      <4>3. r.sit[st.cur[v].seg] = st.sit[st.cur[v].seg]
        BY <1>15, <4>1, <4>2
      <4> QED BY <1>4, <2>4, <4>1, <4>3
    <3> QED BY <3>1, <3>2
  <2> QED BY <1>4, <1>14, <2>2, <2>3, <2>4 DEF InOrder
<1>19. p \in [Logical -> Addr \cup {None}] /\ p[l] = <<s, b>> /\ \A m \in Logical \ {l} : p[m] = st.phy[m]
  <2>1. <<s, b>> \in Addr
    BY <1>3 DEF Addr
  <2> QED BY <1>2, <2>1 DEF Remap
<1>20. \A m \in Logical : st.phy[m] # None =>
          /\ st.phy[m][1] \in Seg /\ st.phy[m][2] \in Blk /\ st.phy[m] = <<st.phy[m][1], st.phy[m][2]>>
          /\ st.phy[m][2] \in st.sit[st.phy[m][1]].valid
          /\ st.sit[st.phy[m][1]].own[st.phy[m][2]] = m
  <2>1. Mapped(st, st.phy, None) /\ st.phy \in [Logical -> Addr \cup {None}]
    BY <1>1, <1>2
  <2>2. BlocksOfFiles(st, st.phy)
    BY <2>1, MappedAt
  <2> QED BY <2>2, Zenon DEF BlocksOfFiles
<1>21. Mapped(r, p, st.phy[l])
  <2>1. ASSUME NEW m \in Logical, p[m] # None
        PROVE  /\ p[m] # st.phy[l] /\ p[m][2] \in r.sit[p[m][1]].valid
               /\ r.sit[p[m][1]].own[p[m][2]] = m
    <3>1. CASE m = l
      <4>1. p[m] = <<s, b>> /\ p[m][1] = s /\ p[m][2] = b
        BY <1>19, <3>1
      <4>2. p[m] # st.phy[l]
        <5>1. CASE st.phy[l] = None
          BY <1>3, <4>1, <5>1, NoneNotAddr
        <5>2. CASE st.phy[l] # None
          <6>1. st.phy[l][2] \in st.sit[st.phy[l][1]].valid
            BY <1>20, <5>2
          <6> QED BY <1>5, <4>1, <6>1
        <5> QED BY <5>1, <5>2
      <4> QED BY <1>7, <1>15, <3>1, <4>1, <4>2
    <3>2. CASE m # l
      <4>1. p[m] = st.phy[m] /\ st.phy[m] # None
        BY <1>19, <2>1, <3>2
      <4>2. st.phy[m] # st.phy[l]
        BY <1>20, <3>2, <4>1
      <4>3. PICK u \in Seg, c \in Blk : u = st.phy[m][1] /\ c = st.phy[m][2] /\ c \in st.sit[u].valid /\ st.sit[u].own[c] = m
        BY <1>20, <4>1
      <4>4. c \in r.sit[u].valid
        BY <1>7, <1>15, <4>3
      <4>5. r.sit[u].own[c] = m
        BY <1>17, <4>3
      <4> QED BY <4>1, <4>2, <4>3, <4>4, <4>5
    <3> QED BY <3>1, <3>2
  <2>2. ASSUME NEW u \in Seg, NEW c \in r.sit[u].valid, <<u, c>> # st.phy[l]
        PROVE  r.sit[u].own[c] # None /\ p[r.sit[u].own[c]] = <<u, c>>
    <3>1. CASE u = s /\ c = b
      <4>1. r.sit[u].own[c] = l
        BY <1>7, <1>15, <3>1
      <4> QED BY <1>19, <3>1, <4>1, TempFacts
    <3>2. CASE ~(u = s /\ c = b)
      <4>1. c \in st.sit[u].valid /\ c \in Blk
        BY <1>1, <1>7, <1>15, <2>2, <3>2, TypedFacts
      <4>2. PICK m : m = st.sit[u].own[c]
        OBVIOUS
      <4>3. m # None /\ st.phy[m] = <<u, c>> /\ m \in Logical
        <5>1. m \in Logical \cup {None}
          BY <1>1, <4>1, <4>2, TypedFacts
        <5>2. m # None /\ st.phy[m] = <<u, c>>
          BY <1>1, <4>1, <4>2, NoneNotAddr DEF Mapped
        <5> QED BY <5>1, <5>2
      <4>4. m # l
        BY <2>2, <4>3
      <4>5. r.sit[u].own[c] = m
        BY <1>17, <4>1, <4>2
      <4>6. p[m] = st.phy[m]
        BY <1>19, <4>3, <4>4
      <4> QED BY <4>3, <4>5, <4>6
    <3> QED BY <3>1, <3>2
  <2> QED BY <2>1, <2>2 DEF Mapped
<1> QED BY <1>3, <1>5, <1>7, <1>8, <1>10, <1>14, <1>15, <1>16, <1>17, <1>18, <1>19, <1>21 DEF Puts

\* The end of WriteBlockToSeg: the new place is recorded, a full segment closed.
Close(st, l, a) ==
    [st EXCEPT !.phy[l] = a, !.cur[TempOf(l)] = CloseIfFull(@)]

\* It leaves the rest of the tables alone.
LEMMA CloseIs ==
  ASSUME NEW st, Typed(st), NEW l \in Logical, NEW a \in Addr, NEW t, t = TempOf(l),
         NEW r, r = Close(st, l, a)
  PROVE  /\ Typed(r) /\ r.sit = st.sit /\ r.q = st.q /\ r.phy = [st.phy EXCEPT ![l] = a]
         /\ r.cur[t].seg = (IF st.cur[t].off >= BlkPerSeg THEN None ELSE st.cur[t].seg)
         /\ r.cur[t].off = st.cur[t].off
         /\ \A u \in Temps \ {t} : r.cur[u] = st.cur[u]
<1>1. /\ st.cur \in CurInfo /\ st.phy \in [Logical -> Addr \cup {None}] /\ t \in Temps
      /\ st.cur[t] \in [seg : Seg \cup {None}, off : 0 .. BlkPerSeg]
  BY TypedFacts, TempFacts DEF CurInfo
<1>2. PICK j : j = CloseIfFull(st.cur[t])
  OBVIOUS
<1>3. /\ j \in [seg : Seg \cup {None}, off : 0 .. BlkPerSeg]
      /\ j.seg = (IF st.cur[t].off >= BlkPerSeg THEN None ELSE st.cur[t].seg)
      /\ j.off = st.cur[t].off
  BY <1>1, <1>2 DEF CloseIfFull
<1>4. PICK y : y = [st.cur EXCEPT ![t] = j]
  OBVIOUS
<1>5. PICK p : p = [st.phy EXCEPT ![l] = a]
  OBVIOUS
<1>6. /\ y \in CurInfo /\ y[t] = j /\ \A u \in Temps \ {t} : y[u] = st.cur[u]
      /\ p \in [Logical -> Addr \cup {None}]
  BY <1>1, <1>3, <1>4, <1>5 DEF CurInfo
<1>7. r = [st EXCEPT !.phy = p, !.cur = y]
  BY <1>2, <1>4, <1>5 DEF Close, Typed
<1>8. Typed(r) /\ r.sit = st.sit /\ r.q = st.q /\ r.phy = p /\ r.cur = y
  BY <1>6, <1>7 DEF Typed
<1> QED BY <1>3, <1>5, <1>6, <1>8

\* What a write does to the tables: block b of segment s is taken, the old one
\* given back, and every other block that is in use keeps its owner.
Writes(st, r, l, s, b, old) ==
    /\ r.phy = [st.phy EXCEPT ![l] = <<s, b>>]
    /\ \A u \in Seg : \A c \in Blk :
          c \in r.sit[u].valid <=> (c \in st.sit[u].valid \/ (u = s /\ c = b)) /\ <<u, c>> # old
    /\ \A u \in Seg : \A c \in st.sit[u].valid \cap r.sit[u].valid :
          r.sit[u].own[c] = st.sit[u].own[c]
    /\ r.cur[TempOf(l)].seg \in {s, None}
    /\ \A u \in Temps \ {TempOf(l)} : r.cur[u] = st.cur[u]

\* WriteBlockToSeg puts the block, invalidates the old one and closes.
LEMMA AppendBlockSteps ==
  ASSUME NEW st, NEW l, NEW old
  PROVE  AppendBlock(st, l, old) =
            Close(IF old # None THEN InvalidBlock(Put(st, l), old) ELSE Put(st, l), l, Place(st, l))
BY DEF AppendBlock, Put, Close

\* WriteBlockToSeg leaves the tables sound.
LEMMA AppendBlockIs ==
  ASSUME NEW st, NEW F, Sound(st, F), NEW l \in Logical, NEW old, old = st.phy[l],
         st.cur[TempOf(l)].seg # None, NEW r, r = AppendBlock(st, l, old)
  PROVE  /\ \E G \in SUBSET Seg : Sound(r, G)
         /\ Place(st, l) \in Addr /\ Place(st, l)[2] \notin st.sit[Place(st, l)[1]].valid
         /\ Writes(st, r, l, Place(st, l)[1], Place(st, l)[2], old)
<1>1. PICK t : t = TempOf(l)
  OBVIOUS
<1>2. /\ Typed(st) /\ InOrder(st, F) /\ Mapped(st, st.phy, None) /\ Open(st.cur) /\ t \in Temps
  BY <1>1, TempFacts DEF Sound
<1>3. PICK s \in Seg : s = st.cur[t].seg
  BY <1>1, <1>2, TypedFacts
<1>4. PICK b : b = st.cur[t].off
  OBVIOUS
<1>5. PICK p : p = Remap(st.phy, l, <<s, b>>)
  OBVIOUS
<1>6. PICK st1 : st1 = Put(st, l)
  OBVIOUS
<1>7. /\ b \in Blk /\ b \notin st.sit[s].valid /\ Typed(st1) /\ st1.phy = st.phy
      /\ InOrder(st1, F) /\ Mapped(st1, p, old) /\ p \in [Logical -> Addr \cup {None}]
      /\ st1.sit[s].valid = st.sit[s].valid \cup {b}
      /\ \A u \in Seg \ {s} : st1.sit[u] = st.sit[u]
      /\ \A u \in Seg : \A c \in st.sit[u].valid : st1.sit[u].own[c] = st.sit[u].own[c]
      /\ st1.cur[t].seg = s /\ st1.cur[t].off = b + 1
      /\ \A u \in Temps \ {t} : st1.cur[u] = st.cur[u]
  <2>1. Puts(st, st1, F, l, t, s, b, p)
    BY <1>1, <1>3, <1>4, <1>5, <1>6, PutIs
  <2> QED BY <2>1 DEF Puts
<1>8. /\ \A u \in Seg : st.sit[u].valid \subseteq Blk /\ st1.sit[u].valid \subseteq Blk
      /\ \A u \in Seg : \A c \in Blk : c \in st1.sit[u].valid <=> c \in st.sit[u].valid \/ (u = s /\ c = b)
  BY <1>2, <1>7, TypedFacts
<1>9. PICK st2 : st2 = IF old # None THEN InvalidBlock(st1, old) ELSE st1
  OBVIOUS
<1>10. /\ Typed(st2) /\ st2.cur = st1.cur /\ st2.phy = st.phy
       /\ (\E G \in SUBSET Seg : InOrder(st2, G)) /\ Mapped(st2, p, None)
       /\ \A u \in Seg : \A c \in Blk : c \in st2.sit[u].valid <=> c \in st1.sit[u].valid /\ <<u, c>> # old
       /\ \A u \in Seg : \A c \in st2.sit[u].valid : st2.sit[u].own[c] = st1.sit[u].own[c]
  <2>1. CASE old = None
    <3>1. st2 = st1
      BY <1>9, <2>1
    <3>2. F \in SUBSET Seg
      BY <1>2, TypedFacts, ListFacts DEF InOrder
    <3> QED BY <1>7, <2>1, <3>1, <3>2, NoneNotAddr
  <2>2. CASE old # None
    <3>1. old \in Seg \X Blk
      BY <1>2, <2>2, TypedFacts DEF Addr
    <3>2. PICK u1 \in Seg, c1 \in Blk : old = <<u1, c1>>
      BY <3>1
    <3>3. c1 \in st.sit[u1].valid
      <4>1. st.phy[l][2] \in st.sit[st.phy[l][1]].valid
        BY <1>2, <2>2 DEF Mapped
      <4>2. st.phy[l][1] = u1 /\ st.phy[l][2] = c1
        BY <3>2
      <4> QED BY <4>1, <4>2
    <3>4. c1 \in st1.sit[u1].valid
      BY <1>8, <3>3
    <3>5. st2 = InvalidBlock(st1, <<u1, c1>>) /\ Mapped(st1, p, <<u1, c1>>)
      BY <1>7, <1>9, <2>2, <3>2
    <3>6. /\ Typed(st2) /\ st2.cur = st1.cur /\ st2.phy = st1.phy
          /\ (\E G \in SUBSET Seg : InOrder(st2, G)) /\ Mapped(st2, p, None)
          /\ st2.sit[u1].valid = st1.sit[u1].valid \ {c1}
          /\ \A u \in Seg \ {u1} : st2.sit[u] = st1.sit[u]
          /\ \A u \in Seg : \A c \in st2.sit[u].valid : st2.sit[u].own[c] = st1.sit[u].own[c]
      BY <1>7, <3>4, <3>5, InvalidBlockIs
    <3>7. ASSUME NEW u \in Seg, NEW c \in Blk
          PROVE  c \in st2.sit[u].valid <=> c \in st1.sit[u].valid /\ <<u, c>> # old
      <4>1. CASE u = u1
        BY <3>2, <3>6, <4>1
      <4>2. CASE u # u1
        BY <3>2, <3>6, <4>2
      <4> QED BY <4>1, <4>2
    <3> QED BY <1>7, <3>6, <3>7
  <2> QED BY <2>1, <2>2
<1>11. Place(st, l) = <<s, b>> /\ <<s, b>> \in Addr
  BY <1>1, <1>3, <1>4, <1>7 DEF Place, Addr
<1>12. r = Close(st2, l, <<s, b>>)
  BY <1>6, <1>9, <1>11, AppendBlockSteps
<1>13. /\ Typed(r) /\ r.sit = st2.sit /\ r.q = st2.q /\ r.phy = p
       /\ r.cur[t].seg = (IF b + 1 >= BlkPerSeg THEN None ELSE s) /\ r.cur[t].off = b + 1
       /\ \A u \in Temps \ {t} : r.cur[u] = st.cur[u]
  <2>1. /\ Typed(r) /\ r.sit = st2.sit /\ r.q = st2.q /\ r.phy = [st2.phy EXCEPT ![l] = <<s, b>>]
        /\ r.cur[t].seg = (IF st2.cur[t].off >= BlkPerSeg THEN None ELSE st2.cur[t].seg)
        /\ r.cur[t].off = st2.cur[t].off
        /\ \A u \in Temps \ {t} : r.cur[u] = st2.cur[u]
    BY <1>1, <1>10, <1>11, <1>12, CloseIs
  <2> QED BY <1>5, <1>7, <1>10, <2>1 DEF Remap
<1>14. PICK G \in SUBSET Seg : InOrder(st2, G)
  BY <1>10
<1>15. b \in st2.sit[s].valid
  <2>1. old # <<s, b>>
    <3> SUFFICES ASSUME st.phy[l] = <<s, b>> PROVE FALSE
      OBVIOUS
    <3>1. st.phy[l] # None
      BY <1>7, NoneNotAddr
    <3>2. st.phy[l][2] \in st.sit[st.phy[l][1]].valid
      BY <1>2, <3>1 DEF Mapped
    <3>3. st.phy[l][1] = s /\ st.phy[l][2] = b
      OBVIOUS
    <3> QED BY <1>7, <3>2, <3>3
  <2>2. b \in st1.sit[s].valid
    BY <1>7
  <2> QED BY <1>7, <1>10, <2>1, <2>2
<1>16. InOrder(r, G)
  <2>1. /\ FreeOf(st2.q, G)
        /\ \A u \in G : st2.sit[u].valid = {} /\ st2.sit[u].temp = None
        /\ \A u \in Seg : st2.sit[u].valid = {} /\ ~Current(st2.cur, u) =>
              u \in G \/ (u = 0 /\ st2.q.next[0] = None)
        /\ \A v \in Temps : st2.cur[v].seg # None =>
              /\ st2.sit[st2.cur[v].seg].temp = v
              /\ \A c \in st2.sit[st2.cur[v].seg].valid : c < st2.cur[v].off
    BY <1>14 DEF InOrder
  <2>2. ASSUME NEW u \in Seg, r.sit[u].valid = {}, ~Current(r.cur, u)
        PROVE  u \in G \/ (u = 0 /\ r.q.next[0] = None)
    <3>1. u # s
      BY <1>13, <1>15, <2>2
    <3>2. ~Current(st2.cur, u)
      BY <1>7, <1>10, <1>13, <2>2, <3>1 DEF Current
    <3> QED BY <1>13, <2>1, <2>2, <3>2
  <2>3. ASSUME NEW v \in Temps, r.cur[v].seg # None
        PROVE  /\ r.sit[r.cur[v].seg].temp = v
               /\ \A c \in r.sit[r.cur[v].seg].valid : c < r.cur[v].off
    <3>1. r.cur[v].seg = st2.cur[v].seg /\ r.cur[v].off = st2.cur[v].off
      BY <1>7, <1>10, <1>13, <2>3
    <3> QED BY <1>13, <2>1, <2>3, <3>1
  <2> QED BY <1>13, <2>1, <2>2, <2>3, ZenonT(30) DEF InOrder
<1>17. Mapped(r, r.phy, None)
  <2>1. Mapped(st2, p, None) /\ r.sit = st2.sit /\ r.phy = p
    BY <1>10, <1>13
  <2> QED BY <2>1 DEF Mapped
<1>18. Open(r.cur)
  <2> SUFFICES ASSUME NEW v \in Temps, r.cur[v].seg # None PROVE r.cur[v].off < BlkPerSeg
    BY DEF Open
  <2>1. CASE v = t
    <3>1. ~(b + 1 >= BlkPerSeg) /\ b + 1 \in Int /\ BlkPerSeg \in Int
      BY <1>7, <1>13, <2>1, ConstAssumption DEF Blk
    <3> QED BY <1>13, <2>1, <3>1
  <2>2. CASE v # t
    BY <1>2, <1>13, <2>2 DEF Open
  <2> QED BY <2>1, <2>2
<1>19. \E H \in SUBSET Seg : Sound(r, H)
  BY <1>13, <1>14, <1>16, <1>17, <1>18 DEF Sound
<1>20. Writes(st, r, l, s, b, old)
  <2>1. \A u \in Seg : \A c \in Blk :
           c \in r.sit[u].valid <=> (c \in st.sit[u].valid \/ (u = s /\ c = b)) /\ <<u, c>> # old
    BY <1>8, <1>10, <1>13
  <2>2. \A u \in Seg : \A c \in st.sit[u].valid \cap r.sit[u].valid :
           r.sit[u].own[c] = st.sit[u].own[c]
    BY <1>7, <1>10, <1>13
  <2>3. r.cur[t].seg \in {s, None}
    BY <1>13
  <2> QED BY <1>1, <1>5, <1>13, <2>1, <2>2, <2>3 DEF Writes, Remap
<1> QED BY <1>7, <1>11, <1>19, <1>20

\* What taking segment s does.
Takes(st, r, F, t, s) ==
    /\ Sound(r, F \ {s}) /\ s \in F /\ r.phy = st.phy
    /\ r.cur[t].seg = s /\ \A u \in Temps \ {t} : r.cur[u] = st.cur[u]
    /\ \A u \in Seg : r.sit[u].valid = st.sit[u].valid
    /\ \A u \in Seg : u # s => r.sit[u] = st.sit[u]

\* free_de_queue and the initialisation of the segment leave the tables sound,
\* unless the segment that was current until now is empty.
LEMMA TakeSegmentIs ==
  ASSUME NEW st, NEW F, Sound(st, F), st.q.nr # 0, NEW t \in Temps,
         st.cur[t].seg # None => st.sit[st.cur[t].seg].valid # {},
         NEW r, r = TakeSegment(st, t), NEW s, s = st.q.tail
  PROVE  Takes(st, r, F, t, s)
<1>1. /\ Typed(st) /\ InOrder(st, F) /\ Mapped(st, st.phy, None) /\ Open(st.cur)
  BY DEF Sound
<1>2. /\ FreeOf(st.q, F) /\ F \subseteq Seg /\ st.q \in Queue /\ s \in F /\ s \in Seg
      /\ \A u \in F : st.sit[u].valid = {} /\ st.sit[u].temp = None
      /\ \A u \in Seg : st.sit[u].valid = {} /\ ~Current(st.cur, u) =>
            u \in F \/ (u = 0 /\ st.q.next[0] = None)
      /\ \A v \in Temps : st.cur[v].seg # None =>
            /\ st.sit[st.cur[v].seg].temp = v
            /\ \A c \in st.sit[st.cur[v].seg].valid : c < st.cur[v].off
  BY <1>1, TypedFacts, ListFacts DEF InOrder
<1>3. PICK e : e = Dequeue(st.q)
  OBVIOUS
<1>4. /\ e \in Queue /\ FreeOf(e, F \ {s})
      /\ \A x \in Seg : x \notin F \ {s} => e.next[x] = st.q.next[x]
  <2>1. PICK q : q = st.q
    OBVIOUS
  <2>2. q \in Queue /\ FreeOf(q, F) /\ q.nr # 0 /\ e = Dequeue(q) /\ q.tail = s
    BY <1>2, <1>3, <2>1
  <2>3. e \in Queue
    BY <2>2, DequeueIs
  <2>4. FreeOf(e, F \ {q.tail})
    BY <2>2, DequeueIs
  <2>5. SameNext(e, q, F \ {q.tail})
    BY <2>2, DequeueIs
  <2> QED BY <2>1, <2>2, <2>3, <2>4, <2>5 DEF SameNext
<1>5. PICK i : i = FreshSegment(t)
  OBVIOUS
<1>6. i \in SegInfo /\ i.valid = {} /\ i.temp = t
  BY <1>5 DEF FreshSegment, SegInfo
<1>7. PICK j : j = [seg |-> s, off |-> 0]
  OBVIOUS
<1>8. j \in [seg : Seg \cup {None}, off : 0 .. BlkPerSeg] /\ j.seg = s /\ j.off = 0
  BY <1>2, <1>7, ConstAssumption
<1>9. PICK x : x = [st.sit EXCEPT ![s] = i]
  OBVIOUS
<1>10. PICK y : y = [st.cur EXCEPT ![t] = j]
  OBVIOUS
<1>11. /\ x \in [Seg -> SegInfo] /\ x[s] = i /\ \A u \in Seg \ {s} : x[u] = st.sit[u]
       /\ y \in CurInfo /\ y[t] = j /\ \A u \in Temps \ {t} : y[u] = st.cur[u]
  BY <1>1, <1>2, <1>6, <1>8, <1>9, <1>10, TypedFacts DEF CurInfo
<1>12. r = [st EXCEPT !.q = e, !.sit = x, !.cur = y]
  <2>1. r = [st EXCEPT !.q = e, !.sit[s] = i, !.cur[t] = j]
    BY <1>3, <1>5, <1>7 DEF TakeSegment
  <2> QED BY <1>1, <1>9, <1>10, <2>1 DEF Typed
<1>13. Typed(r) /\ r.q = e /\ r.sit = x /\ r.cur = y /\ r.phy = st.phy
  BY <1>1, <1>4, <1>11, <1>12 DEF Typed
<1>14. ASSUME NEW u \in Seg PROVE r.sit[u].valid = st.sit[u].valid
  <2>1. CASE u = s
    BY <1>2, <1>6, <1>11, <1>13, <2>1
  <2>2. CASE u # s
    BY <1>11, <1>13, <2>2
  <2> QED BY <2>1, <2>2
<1>15. \A v \in Temps : st.cur[v].seg # s
  BY <1>2, TempFacts, SegFacts
<1>16. InOrder(r, F \ {s})
  <2>1. \A u \in F \ {s} : r.sit[u].valid = {} /\ r.sit[u].temp = None
    BY <1>2, <1>11, <1>13
  <2>2. ASSUME NEW u \in Seg, r.sit[u].valid = {}, ~Current(r.cur, u)
        PROVE  u \in F \ {s} \/ (u = 0 /\ r.q.next[0] = None)
    <3>1. u # s
      BY <1>8, <1>11, <1>13, <2>2 DEF Current
    <3>2. st.sit[u].valid = {}
      BY <1>14, <2>2
    <3>3. ~Current(st.cur, u)
      <4> SUFFICES ASSUME NEW v \in Temps, st.cur[v].seg = u PROVE FALSE
        BY DEF Current
      <4>1. v = t
        BY <1>11, <1>13, <2>2 DEF Current
      <4> QED BY <3>2, <4>1, SegFacts
    <3>4. u \in F \/ (u = 0 /\ st.q.next[0] = None)
      BY <1>2, <3>2, <3>3
    <3> QED BY <1>4, <1>13, <3>1, <3>4
  <2>3. ASSUME NEW v \in Temps, r.cur[v].seg # None
        PROVE  /\ r.sit[r.cur[v].seg].temp = v
               /\ \A c \in r.sit[r.cur[v].seg].valid : c < r.cur[v].off
    <3>1. CASE v = t
      BY <1>6, <1>8, <1>11, <1>13, <3>1
    <3>2. CASE v # t
      <4>1. r.cur[v] = st.cur[v] /\ st.cur[v].seg # s /\ st.cur[v].seg \in Seg
        BY <1>1, <1>11, <1>13, <1>15, <2>3, <3>2, TypedFacts
      <4>2. r.sit[r.cur[v].seg] = st.sit[st.cur[v].seg]
        BY <1>11, <1>13, <4>1
      <4> QED BY <1>2, <2>3, <4>1, <4>2
    <3> QED BY <3>1, <3>2
  <2> QED BY <1>4, <1>13, <2>1, <2>2, <2>3 DEF InOrder
<1>17. Mapped(r, r.phy, None)
  <2>1. ASSUME NEW l \in Logical, st.phy[l] # None
        PROVE  /\ st.phy[l][2] \in r.sit[st.phy[l][1]].valid
               /\ r.sit[st.phy[l][1]].own[st.phy[l][2]] = l
    <3>1. /\ st.phy[l][1] \in Seg /\ st.phy[l][2] \in st.sit[st.phy[l][1]].valid
          /\ st.sit[st.phy[l][1]].own[st.phy[l][2]] = l
      BY <1>1, <2>1, TypedFacts DEF Mapped, Addr
    <3>2. st.phy[l][1] # s
      BY <1>2, <3>1
    <3> QED BY <1>11, <1>13, <3>1, <3>2
  <2>2. ASSUME NEW u \in Seg, NEW c \in r.sit[u].valid, <<u, c>> # None
        PROVE  r.sit[u].own[c] # None /\ st.phy[r.sit[u].own[c]] = <<u, c>>
    <3>1. c \in st.sit[u].valid /\ u # s
      BY <1>2, <1>14
    <3>2. r.sit[u] = st.sit[u]
      BY <1>11, <1>13, <3>1
    <3> QED BY <1>1, <2>2, <3>1, <3>2 DEF Mapped
  <2> QED BY <1>13, <2>1, <2>2 DEF Mapped
<1>18. Open(r.cur)
  <2>1. 0 < BlkPerSeg
    BY ConstAssumption
  <2> QED BY <1>1, <1>8, <1>11, <1>13, <2>1 DEF Open
<1>19. Sound(r, F \ {s})
  BY <1>13, <1>16, <1>17, <1>18 DEF Sound
<1> QED BY <1>2, <1>8, <1>11, <1>13, <1>14, <1>19 DEF Takes

-------------------------------------------------------------------------------
(***************************************************************************)
(* The inductive invariant                                                 *)
(***************************************************************************)
\* The saved tables agree with each other, as Mount needs it.
SavedSound(v) ==
    /\ v \in [valid : [Seg -> SUBSET Blk], temp : [Seg -> Temps \cup {None}],
              cur : CurInfo, phy : [Logical -> Addr \cup {None}]]
    /\ \A l \in Logical : v.phy[l] # None => v.phy[l][2] \in v.valid[v.phy[l][1]]
    /\ \A l, m \in Logical : v.phy[l] # None /\ v.phy[l] = v.phy[m] => l = m
    /\ \A s \in Seg : \A b \in v.valid[s] : \E l \in Logical : v.phy[l] = <<s, b>>
    /\ \A t \in Temps : v.cur[t].seg # None =>
          /\ v.temp[v.cur[t].seg] = t /\ v.cur[t].off < BlkPerSeg
          /\ \A b \in v.valid[v.cur[t].seg] : b < v.cur[t].off

\* The candidates are not current and have as many valid blocks as when GC began;
\* the source is not current, left counts what it has, and while it has any no
\* candidate is empty; the segment GC opened for the waiting write is not empty.
GcSound ==
    /\ req.l \in Logical /\ (req.l \in Data => req.old = phy[req.l])
    /\ \A x \in DOMAIN pool : pool[x] = Cardinality(sit[x].valid) /\ ~Current(cur, x)
    /\ src.seg # None =>
          /\ src.seg \notin DOMAIN pool /\ ~Current(cur, src.seg)
          /\ src.left = Cardinality(sit[src.seg].valid)
          /\ sit[src.seg].valid # {} => \A x \in DOMAIN pool : pool[x] > 0
    /\ cur[TempOf(req.l)].seg # None => sit[cur[TempOf(req.l)].seg].valid # {}

\* The types of the other variables.
OthersTyped ==
    /\ pc \in {"idle", "gc", "down", "no free segment", "gc failed", "no space", "damaged"}
    /\ req \in [l : Logical \cup {None}, old : Addr \cup {None}, force : BOOLEAN]
    /\ DOMAIN pool \subseteq Seg /\ \A s \in DOMAIN pool : pool[s] \in 0 .. BlkPerSeg
    /\ src \in [seg : Seg \cup {None}, next : 0 .. BlkPerSeg, left : 0 .. BlkPerSeg]
    /\ lost \subseteq Logical
    /\ ops \in 0 .. MaxOps

IInv ==
    /\ Typed(State) /\ OthersTyped /\ SavedSound(saved)
    /\ \E F \in SUBSET Seg : FreeOf(freeq, F)
    /\ Running => \E F \in SUBSET Seg : Sound(State, F)
    /\ pc = "gc" => GcSound

\* Blocks that stay in use keep their owner.
OwnersKept ==
    \A s \in Seg : \A b \in sit[s].valid \cap sit'[s].valid : sit'[s].own[b] = sit[s].own[b]

\* The tables as one record.
LEMMA StateIs ==
  ASSUME NEW st, Typed(st), Becomes(st)
  PROVE  State' = st
BY DEF Typed, Becomes, State

\* Its parts are the variables.
LEMMA StateFields ==
  /\ State.sit = sit /\ State.q = freeq /\ State.cur = cur /\ State.phy = phy
  /\ State'.sit = sit' /\ State'.q = freeq' /\ State'.cur = cur' /\ State'.phy = phy'
BY DEF State

\* NoReq, NoPool and NoSrc.
LEMMA NoGc ==
  /\ NoReq \in [l : Logical \cup {None}, old : Addr \cup {None}, force : BOOLEAN]
  /\ NoSrc \in [seg : Seg \cup {None}, next : 0 .. BlkPerSeg, left : 0 .. BlkPerSeg]
  /\ NoSrc.seg = None /\ DOMAIN NoPool = {}
BY ConstAssumption DEF NoReq, NoSrc, NoPool

\* The valid blocks of a segment can be counted.
LEMMA ValidCard ==
  ASSUME NEW V \in SUBSET Blk
  PROVE  /\ IsFiniteSet(V) /\ Cardinality(V) \in 0 .. BlkPerSeg
         /\ V # {} <=> Cardinality(V) > 0
<1>1. IsFiniteSet(Blk) /\ Cardinality(Blk) = BlkPerSeg
  <2>1. 0 \in Int /\ BlkPerSeg - 1 \in Int /\ BlkPerSeg \in Nat /\ BlkPerSeg # 0
    BY ConstAssumption
  <2>2. IsFiniteSet(Blk) /\ Cardinality(Blk) = IF 0 > BlkPerSeg - 1 THEN 0 ELSE (BlkPerSeg - 1) - 0 + 1
    BY <2>1, FS_Interval DEF Blk
  <2> QED BY <2>1, <2>2
<1>2. IsFiniteSet(V) /\ Cardinality(V) <= Cardinality(Blk)
  BY <1>1, FS_Subset
<1>3. Cardinality(V) \in Nat /\ (V # {} <=> Cardinality(V) > 0)
  BY <1>2, CardPos
<1> QED BY <1>1, <1>2, <1>3, ConstAssumption

\* What a checkpoint saves of sound tables is sound.
LEMMA SnapshotIs ==
  ASSUME NEW F, Sound(State, F)
  PROVE  SavedSound(Snapshot)
<1>1. Typed(State) /\ InOrder(State, F) /\ Mapped(State, phy, None) /\ Open(cur)
  BY StateFields DEF Sound
<1>2. /\ sit \in [Seg -> SegInfo] /\ cur \in CurInfo /\ phy \in [Logical -> Addr \cup {None}]
      /\ \A s \in Seg : /\ sit[s].valid \subseteq Blk /\ sit[s].temp \in Temps \cup {None}
                        /\ sit[s].own \in [Blk -> Logical \cup {None}]
      /\ \A t \in Temps : cur[t].seg \in Seg \cup {None}
  BY <1>1, TypedFacts, StateFields
<1>3. PICK v : v = Snapshot
  OBVIOUS
<1>4. /\ v.cur = cur /\ v.phy = phy
      /\ \A s \in Seg : v.valid[s] = sit[s].valid /\ v.temp[s] = sit[s].temp
      /\ v \in [valid : [Seg -> SUBSET Blk], temp : [Seg -> Temps \cup {None}],
                cur : CurInfo, phy : [Logical -> Addr \cup {None}]]
  BY <1>2, <1>3 DEF Snapshot
<1>5. \A l \in Logical : phy[l] # None =>
         phy[l][1] \in Seg /\ phy[l][2] \in sit[phy[l][1]].valid /\ sit[phy[l][1]].own[phy[l][2]] = l
  BY <1>1, <1>2, StateFields DEF Mapped, Addr
<1>6. \A l \in Logical : v.phy[l] # None => v.phy[l][2] \in v.valid[v.phy[l][1]]
  BY <1>4, <1>5
<1>7. \A l, m \in Logical : v.phy[l] # None /\ v.phy[l] = v.phy[m] => l = m
  BY <1>4, <1>5
<1>8. ASSUME NEW s \in Seg, NEW b \in v.valid[s] PROVE \E l \in Logical : v.phy[l] = <<s, b>>
  <2>1. b \in sit[s].valid /\ b \in Blk
    BY <1>2, <1>4
  <2>2. sit[s].own[b] # None /\ phy[sit[s].own[b]] = <<s, b>>
    BY <1>1, <2>1, NoneNotAddr, StateFields DEF Mapped
  <2>3. sit[s].own[b] \in Logical
    BY <1>2, <2>1, <2>2
  <2> QED BY <1>4, <2>2, <2>3
<1>9. ASSUME NEW t \in Temps, v.cur[t].seg # None
      PROVE  /\ v.temp[v.cur[t].seg] = t /\ v.cur[t].off < BlkPerSeg
             /\ \A b \in v.valid[v.cur[t].seg] : b < v.cur[t].off
  <2>1. cur[t].seg # None /\ cur[t].seg \in Seg
    BY <1>2, <1>4, <1>9
  <2>2. sit[cur[t].seg].temp = t /\ \A b \in sit[cur[t].seg].valid : b < cur[t].off
    BY <1>1, <2>1, StateFields DEF InOrder
  <2>3. cur[t].off < BlkPerSeg
    BY <1>1, <2>1 DEF Open
  <2> QED BY <1>4, <2>1, <2>2, <2>3
<1> QED BY <1>3, <1>4, <1>6, <1>7, <1>8, <1>9 DEF SavedSound

-------------------------------------------------------------------------------
(***************************************************************************)
(* mkfs                                                                    *)
(***************************************************************************)
\* The free list before any segment is linked.
LEMMA EmptyQueueIs ==
  EmptyQueue \in Queue /\ FreeOf(EmptyQueue, {}) /\ \A s \in Seg : EmptyQueue.next[s] = None
<1>1. PICK q : q = EmptyQueue
  OBVIOUS
<1>2. /\ q \in Queue /\ q.nr = 0 /\ q.head = None /\ q.tail = None
      /\ \A s \in Seg : q.next[s] = None
  BY <1>1 DEF EmptyQueue, Queue
<1>3. PICK w : w = [i \in 0 .. q.nr - 1 |-> 0]
  OBVIOUS
<1>4. 0 .. q.nr - 1 = {} /\ 0 .. q.nr - 2 = {}
  BY <1>2
<1>5. IsList(q, w)
  BY <1>2, <1>3, <1>4 DEF IsList
<1>6. {} = {w[i] : i \in 0 .. q.nr - 1}
  BY <1>4
<1> QED BY <1>1, <1>2, <1>5, <1>6 DEF FreeOf

\* The tables before mkfs writes: every segment is free.
Blank ==
    [sit |-> [s \in Seg |-> FreeSeg],
     q   |-> EnqueueAll(EmptyQueue, Seg),
     cur |-> [t \in Temps |-> [seg |-> None, off |-> 0]],
     phy |-> [l \in Logical |-> None]]

\* They are sound.
LEMMA BlankSound == Sound(Blank, Seg)
<1>1. PICK r : r = EnqueueAll(EmptyQueue, Seg)
  OBVIOUS
<1>2. r \in Queue /\ FreeOf(r, Seg)
  <2>1. PICK q : q = EmptyQueue
    OBVIOUS
  <2>2. q \in Queue /\ FreeOf(q, {}) /\ r = EnqueueAll(q, Seg)
    BY <1>1, <2>1, EmptyQueueIs
  <2>3. r \in Queue /\ FreeOf(r, {} \cup Seg)
    BY <2>2, EnqueueAllIs
  <2>4. {} \cup Seg = Seg
    OBVIOUS
  <2> QED BY <2>3, <2>4
<1>3. PICK st : st = Blank
  OBVIOUS
<1>4. FreeSeg \in SegInfo /\ FreeSeg.valid = {} /\ FreeSeg.temp = None
  BY DEF FreeSeg, FreshSegment, SegInfo
<1>5. PICK f : f = FreeSeg
  OBVIOUS
<1>6. PICK c : c = [t \in Temps |-> [seg |-> None, off |-> 0]]
  OBVIOUS
<1>7. c \in CurInfo /\ \A t \in Temps : c[t].seg = None
  BY <1>6, ConstAssumption DEF CurInfo
<1>8. /\ Typed(st) /\ st.q = r /\ st.cur = c
      /\ \A s \in Seg : st.sit[s] = f
      /\ \A l \in Logical : st.phy[l] = None
  <2>1. st = [sit |-> [s \in Seg |-> f], q |-> r, cur |-> c, phy |-> [l \in Logical |-> None]]
    BY <1>1, <1>3, <1>5, <1>6 DEF Blank
  <2> QED BY <1>2, <1>4, <1>5, <1>7, <2>1 DEF Typed
<1>9. InOrder(st, Seg)
  BY <1>2, <1>4, <1>5, <1>7, <1>8 DEF InOrder
<1>10. Mapped(st, st.phy, None)
  BY <1>4, <1>5, <1>8 DEF Mapped
<1>11. Open(st.cur)
  BY <1>7, <1>8 DEF Open
<1> QED BY <1>3, <1>8, <1>9, <1>10, <1>11 DEF Sound

\* mkfs leaves the tables sound.
LEMMA InitStateSound ==
  \E G \in SUBSET Seg : Sound(InitState, G)
<1>1. PICK st : st = Blank
  OBVIOUS
<1>2. Sound(st, Seg) /\ "node" \in Temps /\ TempOf(Root) = "node" /\ Root \in Logical
  BY <1>1, BlankSound, ConstAssumption DEF Temps, TempOf, Logical
<1>3. /\ st.q \in Queue /\ FreeOf(st.q, Seg)
      /\ st.cur["node"].seg = None /\ st.phy[Root] = None
  <2>1. Typed(st) /\ InOrder(st, Seg)
    BY <1>2 DEF Sound
  <2>2. st.cur["node"].seg = None /\ st.phy[Root] = None
    BY <1>1, <1>2 DEF Blank
  <2> QED BY <2>1, <2>2, TypedFacts DEF InOrder
<1>4. st.q.nr # 0
  <2>1. PICK q : q = st.q
    OBVIOUS
  <2>2. q.nr = 0 <=> Seg = {}
    BY <1>3, <2>1, ListFacts
  <2>3. 0 \in Seg
    BY ConstAssumption DEF Seg
  <2> QED BY <2>1, <2>2, <2>3
<1>5. PICK r : r = TakeSegment(st, "node")
  OBVIOUS
<1>6. PICK s : s = st.q.tail
  OBVIOUS
<1>7. /\ Sound(r, Seg \ {s}) /\ s \in Seg /\ r.phy = st.phy /\ r.cur["node"].seg = s
  <2>1. Takes(st, r, Seg, "node", s)
    BY <1>2, <1>3, <1>4, <1>5, <1>6, TakeSegmentIs
  <2> QED BY <2>1 DEF Takes
<1>8. r.phy[Root] = None /\ r.cur[TempOf(Root)].seg # None
  BY <1>2, <1>3, <1>7, SegFacts
<1>9. PICK z : z = AppendBlock(r, Root, None)
  OBVIOUS
<1>10. \E G \in SUBSET Seg : Sound(z, G)
  BY <1>2, <1>7, <1>8, <1>9, AppendBlockIs
<1>11. InitState = z
  BY <1>1, <1>5, <1>9 DEF InitState, Blank
<1> QED BY <1>10, <1>11

\* The invariant holds after mkfs.
LEMMA InvInit ==
  ASSUME Init
  PROVE  IInv
<1>1. PICK z : z = InitState
  OBVIOUS
<1>2. PICK G \in SUBSET Seg : Sound(z, G)
  BY <1>1, InitStateSound
<1>3. State = z
  <2>1. Typed(z)
    BY <1>2 DEF Sound
  <2>2. State = [sit |-> z.sit, q |-> z.q, cur |-> z.cur, phy |-> z.phy]
    BY <1>1 DEF Init, State
  <2> QED BY <2>1, <2>2 DEF Typed
<1>4. Sound(State, G) /\ Typed(State) /\ InOrder(State, G)
  BY <1>2, <1>3 DEF Sound
<1>5. FreeOf(freeq, G)
  BY <1>4, StateFields DEF InOrder
<1>6. SavedSound(saved)
  <2>1. saved = Snapshot
    BY DEF Init
  <2> QED BY <1>4, <2>1, SnapshotIs
<1>7. OthersTyped
  <2>1. pc = "idle" /\ req = NoReq /\ pool = NoPool /\ src = NoSrc /\ lost = {} /\ ops = 0
    BY DEF Init
  <2> QED BY <2>1, NoGc, ConstAssumption DEF OthersTyped
<1>8. pc = "idle"
  BY DEF Init
<1> QED BY <1>4, <1>5, <1>6, <1>7, <1>8 DEF IInv

-------------------------------------------------------------------------------
(***************************************************************************)
(* Writing                                                                 *)
(***************************************************************************)
\* The invariant from what a step leaves in the tables and elsewhere.
LEMMA Settle ==
  ASSUME NEW G \in SUBSET Seg, Sound(State', G), OthersTyped', SavedSound(saved'),
         pc' = "gc" => GcSound'
  PROVE  IInv'
<1>1. Typed(State') /\ InOrder(State', G)
  BY DEF Sound
<1>2. FreeOf(freeq', G)
  BY <1>1, StateFields DEF InOrder
<1> QED BY <1>1, <1>2 DEF IInv

\* The same after a step that changes no table.
LEMMA SettleSame ==
  ASSUME IInv, UNCHANGED <<sit, freeq, cur, phy>>, OthersTyped', SavedSound(saved'),
         pc' \in {"idle", "gc"} => Running, pc' = "gc" => GcSound'
  PROVE  IInv'
<1>1. State' = State
  BY DEF State
<1>2. Typed(State') /\ \E F \in SUBSET Seg : FreeOf(freeq', F)
  BY <1>1 DEF IInv
<1>3. pc' \in {"idle", "gc"} => \E F \in SUBSET Seg : Sound(State', F)
  BY <1>1 DEF IInv
<1> QED BY <1>2, <1>3 DEF IInv, Running

\* st holds the same blocks as the tables.
SameBlocks(st) ==
    /\ st.phy = phy
    /\ \A u \in Seg : /\ st.sit[u].valid = sit[u].valid
                      /\ \A c \in sit[u].valid : st.sit[u].own[c] = sit[u].own[c]

\* A write from tables that hold these blocks: they stay sound, and no block in
\* use is overwritten.
LEMMA WriteInPlaceIs ==
  ASSUME OthersTyped, NEW F \in SUBSET Seg, NEW st, Sound(st, F), SameBlocks(st),
         NEW l \in Logical, NEW old, old = phy[l], st.cur[TempOf(l)].seg # None,
         WriteInPlace(l, old, st)
  PROVE  /\ \E G \in SUBSET Seg : Sound(State', G)
         /\ Place(st, l) \in Addr /\ Place(st, l)[2] \notin st.sit[Place(st, l)[1]].valid
         /\ Writes(st, State', l, Place(st, l)[1], Place(st, l)[2], old)
         /\ lost' \subseteq Logical /\ OwnersKept
<1>1. PICK r : r = AppendBlock(st, l, old)
  OBVIOUS
<1>2. old = st.phy[l]
  BY DEF SameBlocks
<1>3. /\ \E G \in SUBSET Seg : Sound(r, G)
      /\ Place(st, l) \in Addr /\ Place(st, l)[2] \notin st.sit[Place(st, l)[1]].valid
      /\ Writes(st, r, l, Place(st, l)[1], Place(st, l)[2], old)
  BY <1>1, <1>2, AppendBlockIs
<1>4. State' = r
  <2>1. Typed(r) /\ Becomes(r)
    BY <1>1, <1>3 DEF Sound, WriteInPlace
  <2> QED BY <2>1, StateIs
<1>5. OwnersKept
  <2>1. \A u \in Seg : \A c \in st.sit[u].valid \cap r.sit[u].valid : r.sit[u].own[c] = st.sit[u].own[c]
    BY <1>3 DEF Writes
  <2>2. r.sit = sit'
    BY <1>4, StateFields
  <2> QED BY <2>1, <2>2 DEF SameBlocks, OwnersKept
<1>6. lost' \subseteq Logical
  BY DEF WriteInPlace, Overwrite, OthersTyped
<1> QED BY <1>3, <1>4, <1>5, <1>6

\* The tables themselves hold these blocks.
LEMMA SameState == SameBlocks(State)
BY StateFields DEF SameBlocks

\* So do the tables after a segment is taken from the free list.
LEMMA TakenIs ==
  ASSUME NEW F \in SUBSET Seg, Sound(State, F), freeq.nr # 0, NEW t \in Temps,
         cur[t].seg # None => sit[cur[t].seg].valid # {},
         NEW r, r = TakeSegment(State, t), NEW s, s = freeq.tail
  PROVE  /\ F \ {s} \in SUBSET Seg /\ Sound(r, F \ {s}) /\ s \in F /\ SameBlocks(r)
         /\ sit[s].valid = {} /\ s \in Seg
         /\ r.cur[t].seg = s /\ \A u \in Temps \ {t} : r.cur[u] = cur[u]
<1>1. PICK st : st = State
  OBVIOUS
<1>2. st.sit = sit /\ st.q = freeq /\ st.cur = cur /\ st.phy = phy
  BY <1>1, StateFields
<1>3. /\ Sound(st, F) /\ st.q.nr # 0 /\ (st.cur[t].seg # None => st.sit[st.cur[t].seg].valid # {})
      /\ r = TakeSegment(st, t) /\ s = st.q.tail
  BY <1>1, <1>2
<1>4. /\ Sound(r, F \ {s}) /\ s \in F /\ r.phy = st.phy
      /\ r.cur[t].seg = s /\ \A u \in Temps \ {t} : r.cur[u] = st.cur[u]
      /\ \A u \in Seg : r.sit[u].valid = st.sit[u].valid
      /\ \A u \in Seg : u # s => r.sit[u] = st.sit[u]
  <2>1. Takes(st, r, F, t, s)
    BY <1>3, TakeSegmentIs
  <2> QED BY <2>1 DEF Takes
<1>5. sit[s].valid = {}
  BY <1>2, <1>3, <1>4 DEF Sound, InOrder
<1>6. SameBlocks(r)
  BY <1>2, <1>4, <1>5 DEF SameBlocks
<1> QED BY <1>2, <1>4, <1>5, <1>6

\* Operation only counts.
LEMMA OperationIs ==
  ASSUME OthersTyped, Operation
  PROVE  ops' \in 0 .. MaxOps /\ pc = "idle"
BY ConstAssumption DEF OthersTyped, Operation

\* OthersTyped after a step outside GC.
LEMMA OthersKept ==
  ASSUME OthersTyped, UNCHANGED gcVars, pc' \in {"idle", "gc", "down", "no free segment",
         "gc failed", "no space", "damaged"}, lost' \subseteq Logical, ops' \in 0 .. MaxOps
  PROVE  OthersTyped'
BY DEF OthersTyped, gcVars

\* What a step must give.
StepOK == IInv' /\ (Running => OwnersKept)

\* Write
LEMMA WriteOK ==
  ASSUME IInv, NEW l \in Logical, Write(l)
  PROVE  StepOK
<1>1. /\ Operation /\ cur[TempOf(l)].seg # None /\ WriteInPlace(l, phy[l], State)
      /\ UNCHANGED <<pc, gcVars, saved>>
  BY DEF Write
<1>2. OthersTyped /\ pc = "idle" /\ ops' \in 0 .. MaxOps /\ SavedSound(saved)
  BY <1>1, OperationIs DEF IInv
<1>3. PICK F \in SUBSET Seg : Sound(State, F)
  BY <1>2 DEF IInv, Running
<1>4. PICK st : st = State
  OBVIOUS
<1>5. PICK old : old = phy[l]
  OBVIOUS
<1>6. Sound(st, F) /\ SameBlocks(st) /\ st.cur[TempOf(l)].seg # None /\ WriteInPlace(l, old, st)
  BY <1>1, <1>3, <1>4, <1>5, SameState, StateFields
<1>7. (\E G \in SUBSET Seg : Sound(State', G)) /\ lost' \subseteq Logical /\ OwnersKept
  BY <1>2, <1>5, <1>6, WriteInPlaceIs
<1>8. OthersTyped' /\ SavedSound(saved') /\ pc' = "idle"
  BY <1>1, <1>2, <1>7, OthersKept
<1> QED BY <1>7, <1>8, Settle DEF StepOK

\* WriteAlloc
LEMMA WriteAllocOK ==
  ASSUME IInv, NEW l \in Logical, WriteAlloc(l)
  PROVE  StepOK
<1>1. /\ Operation /\ cur[TempOf(l)].seg = None /\ freeq.nr # 0
      /\ WriteInPlace(l, phy[l], TakeSegment(State, TempOf(l)))
      /\ UNCHANGED <<pc, gcVars, saved>>
  BY DEF WriteAlloc, NoFreeSegment
<1>2. /\ OthersTyped /\ pc = "idle" /\ ops' \in 0 .. MaxOps /\ SavedSound(saved)
      /\ TempOf(l) \in Temps
  BY <1>1, OperationIs, TempFacts DEF IInv
<1>3. PICK F \in SUBSET Seg : Sound(State, F)
  BY <1>2 DEF IInv, Running
<1>4. PICK st : st = TakeSegment(State, TempOf(l))
  OBVIOUS
<1>5. PICK old : old = phy[l]
  OBVIOUS
<1>6. PICK s : s = freeq.tail
  OBVIOUS
<1>7. /\ F \ {s} \in SUBSET Seg /\ Sound(st, F \ {s}) /\ SameBlocks(st)
      /\ st.cur[TempOf(l)].seg = s /\ s \in Seg
  BY <1>1, <1>2, <1>3, <1>4, <1>6, TakenIs, SMTT(30)
<1>8. st.cur[TempOf(l)].seg # None /\ WriteInPlace(l, old, st)
  BY <1>1, <1>4, <1>5, <1>7, SegFacts
<1>9. (\E G \in SUBSET Seg : Sound(State', G)) /\ lost' \subseteq Logical /\ OwnersKept
  BY <1>2, <1>5, <1>7, <1>8, WriteInPlaceIs
<1>10. OthersTyped' /\ SavedSound(saved') /\ pc' = "idle"
  BY <1>1, <1>2, <1>9, OthersKept
<1> QED BY <1>9, <1>10, Settle DEF StepOK

\* A step that fails leaves the tables alone.
LEMMA FailOK ==
  ASSUME IInv, ops' \in 0 .. MaxOps,
         NEW reason \in {"no free segment", "gc failed", "no space", "damaged"}, Fail(reason)
  PROVE  StepOK
<1>1. /\ pc' = reason /\ UNCHANGED <<sit, freeq, cur, phy>> /\ UNCHANGED gcVars
      /\ UNCHANGED <<saved, lost>>
  BY DEF Fail
<1>2. OthersTyped' /\ SavedSound(saved')
  <2>1. OthersTyped /\ SavedSound(saved) /\ lost' \subseteq Logical
    BY <1>1 DEF IInv, OthersTyped
  <2>2. pc' \in {"idle", "gc", "down", "no free segment", "gc failed", "no space", "damaged"}
    BY <1>1
  <2> QED BY <1>1, <2>1, <2>2, OthersKept
<1>3. pc' # "idle" /\ pc' # "gc"
  BY <1>1
<1>4. OwnersKept
  BY <1>1 DEF OwnersKept
<1> QED BY <1>1, <1>2, <1>3, <1>4, SettleSame DEF StepOK

\* WriteFails
LEMMA WriteFailsOK ==
  ASSUME IInv, NEW l \in Logical, WriteFails(l)
  PROVE  StepOK
<1>1. Operation /\ Fail("no free segment") /\ OthersTyped
  BY DEF WriteFails, IInv
<1>2. ops' \in 0 .. MaxOps
  BY <1>1, OperationIs
<1> QED BY <1>1, <1>2, FailOK

\* FreeSet is what FreeOf says.
FreeSetRight == \A F \in SUBSET Seg : freeq \in Queue /\ FreeOf(freeq, F) => FreeSet = F

\* It is so in every state,
LEMMA FreeSetNow == FreeSetRight
BY FreeSetIs DEF FreeSetRight

\* and after every step.
LEMMA FreeSetNext == FreeSetRight'
BY FreeSetNow, PTL

\* The segments the scan of GC links are not in the free list yet.
LEMMA UnlinkedIs ==
  ASSUME NEW F \in SUBSET Seg, Sound(State, F)
  PROVE  Unlinked \in SUBSET Seg /\ Unlinked \cap F = {} /\ freeq \in Queue /\ FreeOf(freeq, F)
<1>1. freeq \in Queue /\ FreeOf(freeq, F)
  BY TypedFacts, StateFields DEF Sound, InOrder
<1>2. \A s \in F : freeq.next[s] # None
  BY <1>1, ListFacts, SegFacts
<1> QED BY <1>1, <1>2 DEF Unlinked

\* The scan leaves the tables sound when it links no current segment.
LEMMA ScanIs ==
  ASSUME NEW F \in SUBSET Seg, Sound(State, F), NEW l \in Logical, NEW force \in BOOLEAN,
         WriteBeginGc(l, force), CurrentNotFree'
  PROVE  Sound(State', F \cup Unlinked) /\ F \cup Unlinked \in SUBSET Seg
<1>1. PICK U : U = Unlinked
  OBVIOUS
<1>2. U \in SUBSET Seg /\ U \cap F = {} /\ freeq \in Queue /\ FreeOf(freeq, F)
  BY <1>1, UnlinkedIs
<1>3. \A s \in Seg : s \in U <=> sit[s].valid = {} /\ freeq.next[s] = None
  BY <1>1 DEF Unlinked
<1>4. /\ freeq' = EnqueueAll(freeq, U) /\ cur' = cur /\ phy' = phy
      /\ sit' = [s \in Seg |-> IF s \in U THEN [sit[s] EXCEPT !.temp = None] ELSE sit[s]]
  BY <1>1 DEF WriteBeginGc
<1>5. freeq' \in Queue /\ FreeOf(freeq', F \cup U)
  <2>1. PICK q : q = freeq
    OBVIOUS
  <2>2. PICK r : r = EnqueueAll(q, U)
    OBVIOUS
  <2>3. r \in Queue /\ FreeOf(r, F \cup U)
    BY <1>2, <2>1, <2>2, EnqueueAllIs
  <2> QED BY <1>4, <2>1, <2>2, <2>3
<1>6. /\ Typed(State) /\ InOrder(State, F) /\ Mapped(State, phy, None) /\ Open(cur)
  BY StateFields DEF Sound
<1>7. /\ sit \in [Seg -> SegInfo] /\ cur \in CurInfo /\ phy \in [Logical -> Addr \cup {None}]
      /\ \A s \in Seg : sit[s] \in SegInfo
      /\ \A t \in Temps : cur[t].seg \in Seg \cup {None}
  BY <1>6, TypedFacts, StateFields
<1>8. ASSUME NEW s \in Seg
      PROVE  /\ sit'[s] \in SegInfo /\ sit'[s].valid = sit[s].valid /\ sit'[s].own = sit[s].own
             /\ sit'[s].temp = IF s \in U THEN None ELSE sit[s].temp
  <2>1. sit'[s] = IF s \in U THEN [sit[s] EXCEPT !.temp = None] ELSE sit[s]
    BY <1>4
  <2>2. sit[s] \in SegInfo
    BY <1>7
  <2> QED BY <2>1, <2>2 DEF SegInfo
<1>9. sit' \in [Seg -> SegInfo]
  BY <1>4, <1>8
<1>10. PICK r : r = State'
  OBVIOUS
<1>11. r.sit = sit' /\ r.q = freeq' /\ r.cur = cur /\ r.phy = phy
  BY <1>4, <1>10, StateFields
<1>12. Typed(r)
  BY <1>4, <1>5, <1>7, <1>9, <1>10 DEF Typed, State
<1>13. \A t \in Temps : cur[t].seg \notin F \cup U
  <2>1. FreeSet' = F \cup U
    BY <1>2, <1>5, FreeSetNext DEF FreeSetRight
  <2>2. \A s \in FreeSet' : ~Current(cur', s)
    BY DEF CurrentNotFree
  <2> QED BY <1>4, <2>1, <2>2 DEF Current
<1>14. InOrder(r, F \cup U)
  <2>1. ASSUME NEW s \in F \cup U PROVE r.sit[s].valid = {} /\ r.sit[s].temp = None
    <3>1. s \in Seg
      BY <1>2
    <3>2. CASE s \in U
      BY <1>3, <1>8, <1>11, <3>1, <3>2
    <3>3. CASE s \notin U
      <4>1. sit[s].valid = {} /\ sit[s].temp = None
        BY <1>6, <3>3, StateFields DEF InOrder
      <4> QED BY <1>8, <1>11, <3>1, <3>3, <4>1
    <3> QED BY <3>2, <3>3
  <2>2. ASSUME NEW s \in Seg, r.sit[s].valid = {}, ~Current(r.cur, s)
        PROVE  s \in F \cup U
    <3>1. sit[s].valid = {} /\ ~Current(cur, s)
      BY <1>8, <1>11, <2>2
    <3>2. s \in F \/ (s = 0 /\ freeq.next[0] = None)
      BY <1>6, <3>1, StateFields DEF InOrder
    <3> QED BY <1>3, <3>1, <3>2
  <2>3. ASSUME NEW t \in Temps, r.cur[t].seg # None
        PROVE  /\ r.sit[r.cur[t].seg].temp = t
               /\ \A b \in r.sit[r.cur[t].seg].valid : b < r.cur[t].off
    <3>1. PICK s \in Seg : s = cur[t].seg
      BY <1>7, <1>11, <2>3
    <3>2. sit[s].temp = t /\ \A b \in sit[s].valid : b < cur[t].off
      BY <1>6, <1>11, <2>3, <3>1, StateFields DEF InOrder
    <3>3. s \notin U
      BY <1>13, <3>1
    <3> QED BY <1>8, <1>11, <3>1, <3>2, <3>3
  <2>4. FreeOf(r.q, F \cup U)
    BY <1>5, <1>11
  <2> QED BY <2>1, <2>2, <2>3, <2>4 DEF InOrder
<1>15. Mapped(r, r.phy, None)
  <2>1. ASSUME NEW m \in Logical, r.phy[m] # None
        PROVE  r.phy[m][2] \in r.sit[r.phy[m][1]].valid /\ r.sit[r.phy[m][1]].own[r.phy[m][2]] = m
    <3>1. phy[m] \in Addr /\ phy[m][1] \in Seg
      BY <1>7, <1>11, <2>1 DEF Addr
    <3>2. phy[m][2] \in sit[phy[m][1]].valid /\ sit[phy[m][1]].own[phy[m][2]] = m
      BY <1>6, <1>11, <2>1, StateFields DEF Mapped
    <3> QED BY <1>8, <1>11, <3>1, <3>2
  <2>2. ASSUME NEW s \in Seg, NEW b \in r.sit[s].valid
        PROVE  r.sit[s].own[b] # None /\ r.phy[r.sit[s].own[b]] = <<s, b>>
    <3>1. b \in sit[s].valid /\ b \in Blk /\ r.sit[s].own = sit[s].own
      BY <1>7, <1>8, <1>11 DEF SegInfo
    <3>2. sit[s].own[b] # None /\ phy[sit[s].own[b]] = <<s, b>>
      BY <1>6, <3>1, NoneNotAddr, StateFields DEF Mapped
    <3> QED BY <1>11, <3>1, <3>2
  <2> QED BY <2>1, <2>2 DEF Mapped
<1> QED BY <1>1, <1>2, <1>6, <1>10, <1>11, <1>12, <1>14, <1>15 DEF Sound

\* WriteBeginGc
LEMMA WriteBeginGcOK ==
  ASSUME IInv, NEW l \in Logical, NEW force \in BOOLEAN, WriteBeginGc(l, force), CurrentNotFree'
  PROVE  StepOK
<1>1. OthersTyped /\ Operation /\ SavedSound(saved)
  BY DEF WriteBeginGc, IInv
<1>2. pc = "idle" /\ ops' \in 0 .. MaxOps
  BY <1>1, OperationIs
<1>3. PICK F \in SUBSET Seg : Sound(State, F)
  BY <1>2 DEF IInv, Running
<1>4. \E G \in SUBSET Seg : Sound(State', G)
  BY <1>3, ScanIs
<1>5. PICK U : U = Unlinked
  OBVIOUS
<1>6. PICK P : P = {x \in Seg \ U : ~CurrentOfTemp(cur, sit, x)}
  OBVIOUS
<1>7. /\ pool' = [s \in P |-> Cardinality(sit[s].valid)]
      /\ sit' = [s \in Seg |-> IF s \in U THEN [sit[s] EXCEPT !.temp = None] ELSE sit[s]]
      /\ src' = NoSrc /\ req' = [l |-> l, old |-> phy[l], force |-> force] /\ pc' = "gc"
      /\ cur' = cur /\ phy' = phy /\ saved' = saved /\ lost' = lost
      /\ cur[TempOf(l)].seg = None
  BY <1>5, <1>6 DEF WriteBeginGc
<1>8. /\ \A s \in Seg : sit[s] \in SegInfo /\ sit[s].valid \in SUBSET Blk
      /\ phy[l] \in Addr \cup {None}
  BY <1>3, TypedFacts, StateFields DEF Sound
<1>9. \A s \in Seg : sit'[s].valid = sit[s].valid /\ sit'[s].own = sit[s].own
  BY <1>7, <1>8 DEF SegInfo
<1>10. DOMAIN pool' = P /\ P \subseteq Seg /\ \A s \in P : pool'[s] = Cardinality(sit[s].valid)
  BY <1>6, <1>7
<1>11. \A s \in P : pool'[s] \in 0 .. BlkPerSeg
  BY <1>8, <1>10, ValidCard
<1>12. /\ req' \in [l : Logical \cup {None}, old : Addr \cup {None}, force : BOOLEAN]
       /\ req'.l = l /\ req'.old = phy[l]
  BY <1>7, <1>8
<1>13. OthersTyped'
  BY <1>1, <1>2, <1>7, <1>10, <1>11, <1>12, NoGc DEF OthersTyped
<1>14. \A x \in P : ~Current(cur, x)
  <2>1. \A t \in Temps : cur[t].seg # None => sit[cur[t].seg].temp = t
    BY <1>3, StateFields DEF Sound, InOrder
  <2> QED BY <1>6, <2>1, SegFacts, TempFacts DEF CurrentOfTemp, Current
<1>15. GcSound'
  <2>1. \A x \in DOMAIN pool' : pool'[x] = Cardinality(sit'[x].valid) /\ ~Current(cur', x)
    BY <1>7, <1>9, <1>10, <1>14
  <2>2. req'.l \in Logical /\ req'.old = phy'[req'.l] /\ cur'[TempOf(req'.l)].seg = None
    BY <1>7, <1>12
  <2>3. src'.seg = None
    BY <1>7, NoGc
  <2> QED BY <2>1, <2>2, <2>3 DEF GcSound
<1>16. OwnersKept
  BY <1>9 DEF OwnersKept
<1>17. SavedSound(saved')
  BY <1>1, <1>7
<1> QED BY <1>4, <1>13, <1>15, <1>16, <1>17, Settle DEF StepOK

-------------------------------------------------------------------------------
(***************************************************************************)
(* Deleting, checkpoint, power loss, mount                                 *)
(***************************************************************************)
\* Remove
LEMMA RemoveOK ==
  ASSUME IInv, NEW l \in Logical, Remove(l)
  PROVE  StepOK
<1>1. /\ Operation /\ phy[l] # None
      /\ Becomes([InvalidBlock(State, phy[l]) EXCEPT !.phy[l] = None])
      /\ UNCHANGED <<pc, gcVars, saved, lost>>
  BY DEF Remove
<1>2. OthersTyped /\ pc = "idle" /\ ops' \in 0 .. MaxOps /\ SavedSound(saved)
  BY <1>1, OperationIs DEF IInv
<1>3. PICK F \in SUBSET Seg : Sound(State, F)
  BY <1>2 DEF IInv, Running
<1>4. PICK st : st = State
  OBVIOUS
<1>5. st.sit = sit /\ st.q = freeq /\ st.cur = cur /\ st.phy = phy
  BY <1>4, StateFields
<1>6. Typed(st) /\ InOrder(st, F) /\ Mapped(st, st.phy, None) /\ Open(st.cur)
  BY <1>3, <1>4 DEF Sound
<1>7. PICK p : p = Remap(st.phy, l, None)
  OBVIOUS
<1>8. /\ st.phy \in [Logical -> Addr \cup {None}] /\ p \in [Logical -> Addr \cup {None}]
      /\ p[l] = None /\ \A m \in Logical \ {l} : p[m] = st.phy[m]
      /\ \A s \in Seg : /\ st.sit[s].valid \subseteq Blk
                        /\ st.sit[s].own \in [Blk -> Logical \cup {None}]
  BY <1>6, <1>7, TypedFacts DEF Remap
<1>9. PICK s \in Seg, b \in Blk : st.phy[l] = <<s, b>>
  BY <1>1, <1>5, <1>8 DEF Addr
<1>10. b \in st.sit[s].valid /\ st.sit[s].own[b] = l
  <2>1. st.phy[l] # None
    BY <1>1, <1>5
  <2>2. st.phy[l][2] \in st.sit[st.phy[l][1]].valid /\ st.sit[st.phy[l][1]].own[st.phy[l][2]] = l
    BY <1>6, <2>1 DEF Mapped
  <2> QED BY <1>9, <2>2
<1>11. Mapped(st, p, <<s, b>>)
  <2>1. ASSUME NEW m \in Logical, p[m] # None
        PROVE  /\ p[m] # <<s, b>> /\ p[m][2] \in st.sit[p[m][1]].valid
               /\ st.sit[p[m][1]].own[p[m][2]] = m
    <3>1. m # l /\ p[m] = st.phy[m]
      BY <1>8, <2>1
    <3>2. p[m][2] \in st.sit[p[m][1]].valid /\ st.sit[p[m][1]].own[p[m][2]] = m
      BY <1>6, <2>1, <3>1 DEF Mapped
    <3>3. p[m] # <<s, b>>
      BY <1>10, <3>1, <3>2
    <3> QED BY <3>2, <3>3
  <2>2. ASSUME NEW u \in Seg, NEW c \in st.sit[u].valid, <<u, c>> # <<s, b>>
        PROVE  st.sit[u].own[c] # None /\ p[st.sit[u].own[c]] = <<u, c>>
    <3>1. c \in Blk
      BY <1>8
    <3>2. st.sit[u].own[c] # None /\ st.phy[st.sit[u].own[c]] = <<u, c>>
      BY <1>6, <3>1, NoneNotAddr DEF Mapped
    <3>3. st.sit[u].own[c] \in Logical /\ st.sit[u].own[c] # l
      BY <1>8, <1>9, <2>2, <3>1, <3>2
    <3> QED BY <1>8, <3>2, <3>3
  <2> QED BY <2>1, <2>2 DEF Mapped
<1>12. PICK r : r = InvalidBlock(st, <<s, b>>)
  OBVIOUS
<1>13. /\ Typed(r) /\ r.cur = st.cur /\ r.phy = st.phy
       /\ (\E G \in SUBSET Seg : InOrder(r, G)) /\ Mapped(r, p, None)
       /\ \A u \in Seg : \A c \in r.sit[u].valid : r.sit[u].own[c] = st.sit[u].own[c]
  BY <1>6, <1>8, <1>10, <1>11, <1>12, InvalidBlockIs
<1>14. PICK G \in SUBSET Seg : InOrder(r, G)
  BY <1>13
<1>15. PICK z : z = [r EXCEPT !.phy = p]
  OBVIOUS
<1>16. Becomes(z)
  <2>1. z = [InvalidBlock(State, phy[l]) EXCEPT !.phy[l] = None]
    BY <1>4, <1>5, <1>7, <1>9, <1>12, <1>13, <1>15 DEF Remap, Typed
  <2> QED BY <1>1, <2>1
<1>17. Typed(z) /\ z.sit = r.sit /\ z.q = r.q /\ z.cur = r.cur /\ z.phy = p
  BY <1>8, <1>13, <1>15 DEF Typed
<1>18. State' = z
  BY <1>16, <1>17, StateIs
<1>19. Sound(State', G)
  <2>1. InOrder(z, G)
    BY <1>14, <1>17 DEF InOrder
  <2>2. Mapped(z, z.phy, None)
    BY <1>13, <1>17 DEF Mapped
  <2>3. Open(z.cur)
    BY <1>6, <1>13, <1>17
  <2> QED BY <1>17, <1>18, <2>1, <2>2, <2>3 DEF Sound
<1>20. OwnersKept
  <2>1. sit' = r.sit
    BY <1>17, <1>18, StateFields
  <2> QED BY <1>5, <1>13, <2>1 DEF OwnersKept
<1>21. OthersTyped' /\ SavedSound(saved') /\ pc' = "idle"
  <2>1. lost' \subseteq Logical
    BY <1>1, <1>2 DEF OthersTyped
  <2> QED BY <1>1, <1>2, <2>1, OthersKept
<1> QED BY <1>19, <1>20, <1>21, Settle DEF StepOK

\* SaveTables
LEMMA SaveTablesOK ==
  ASSUME IInv, SaveTables
  PROVE  StepOK
<1>1. /\ Operation /\ saved' = Snapshot /\ lost' = {} /\ UNCHANGED <<sit, freeq, cur, phy>>
      /\ pc' = pc /\ UNCHANGED gcVars
  BY DEF SaveTables
<1>2. OthersTyped /\ pc = "idle" /\ ops' \in 0 .. MaxOps
  BY <1>1, OperationIs DEF IInv
<1>3. SavedSound(saved')
  <2>1. PICK F \in SUBSET Seg : Sound(State, F)
    BY <1>2 DEF IInv, Running
  <2> QED BY <1>1, <2>1, SnapshotIs
<1>4. OthersTyped'
  BY <1>1, <1>2, OthersKept
<1>5. OwnersKept
  BY <1>1 DEF OwnersKept
<1> QED BY <1>1, <1>2, <1>3, <1>4, <1>5, SettleSame DEF StepOK, Running

\* PowerLoss
LEMMA PowerLossOK ==
  ASSUME IInv, PowerLoss
  PROVE  StepOK
<1>1. /\ pc' = "down" /\ sit' = [s \in Seg |-> FreeSeg] /\ freeq' = EmptyQueue
      /\ cur' = [t \in Temps |-> [seg |-> None, off |-> 0]]
      /\ phy' = [l \in Logical |-> None]
      /\ req' = NoReq /\ pool' = NoPool /\ src' = NoSrc
      /\ saved' = saved /\ lost' = lost /\ ops' = ops
  BY DEF PowerLoss
<1>2. FreeSeg \in SegInfo /\ FreeSeg.valid = {}
  BY DEF FreeSeg, FreshSegment, SegInfo
<1>3. cur' \in CurInfo
  BY <1>1, ConstAssumption DEF CurInfo
<1>4. PICK f : f = FreeSeg
  OBVIOUS
<1>5. sit' \in [Seg -> SegInfo] /\ \A s \in Seg : sit'[s] = f
  BY <1>1, <1>2, <1>4
<1>6. phy' \in [Logical -> Addr \cup {None}]
  BY <1>1
<1>7. freeq' \in Queue /\ FreeOf(freeq', {})
  BY <1>1, EmptyQueueIs
<1>8. Typed(State')
  BY <1>3, <1>5, <1>6, <1>7 DEF Typed, State
<1>9. OthersTyped'
  <2>1. OthersTyped
    BY DEF IInv
  <2> QED BY <1>1, <2>1, NoGc DEF OthersTyped
<1>10. SavedSound(saved')
  BY <1>1 DEF IInv
<1>11. IInv'
  BY <1>1, <1>7, <1>8, <1>9, <1>10 DEF IInv, Running
<1>12. OwnersKept
  BY <1>2, <1>4, <1>5 DEF OwnersKept
<1> QED BY <1>11, <1>12 DEF StepOK

\* MountDamaged
LEMMA MountDamagedOK ==
  ASSUME IInv, MountDamaged
  PROVE  StepOK
<1>1. Fail("damaged") /\ ops' = ops /\ OthersTyped
  BY DEF MountDamaged, IInv
<1>2. ops' \in 0 .. MaxOps
  BY <1>1 DEF OthersTyped
<1> QED BY <1>1, <1>2, FailOK

\* The owner fsck finds for a block.
Owner(s, b) ==
    IF \E l \in Logical : saved.phy[l] = <<s, b>>
    THEN CHOOSE l \in Logical : saved.phy[l] = <<s, b>>
    ELSE None

\* Exactly one logical block is saved at a valid block.
LEMMA OwnerIs ==
  ASSUME SavedSound(saved), NEW s \in Seg, NEW b \in Blk
  PROVE  /\ Owner(s, b) \in Logical \cup {None}
         /\ \A l \in Logical : saved.phy[l] = <<s, b>> => Owner(s, b) = l
         /\ b \in saved.valid[s] => Owner(s, b) \in Logical /\ saved.phy[Owner(s, b)] = <<s, b>>
<1>1. PICK o : o = Owner(s, b)
  OBVIOUS
<1>2. (\E l \in Logical : saved.phy[l] = <<s, b>>) => o \in Logical /\ saved.phy[o] = <<s, b>>
  BY <1>1 DEF Owner
<1>3. ~(\E l \in Logical : saved.phy[l] = <<s, b>>) => o = None
  BY <1>1 DEF Owner
<1>4. \A l \in Logical : saved.phy[l] = <<s, b>> => o = l
  <2>1. \A l, m \in Logical : saved.phy[l] # None /\ saved.phy[l] = saved.phy[m] => l = m
    BY DEF SavedSound
  <2>2. PICK a : a = <<s, b>> /\ a # None
    BY NoneNotAddr
  <2>3. ASSUME NEW l \in Logical, saved.phy[l] = a PROVE o = l
    BY <1>2, <2>1, <2>2, <2>3
  <2> QED BY <2>2, <2>3
<1>5. b \in saved.valid[s] => \E l \in Logical : saved.phy[l] = <<s, b>>
  BY DEF SavedSound
<1> QED BY <1>1, <1>2, <1>3, <1>4, <1>5

\* Mount rebuilds sound tables from what the checkpoint saved.
LEMMA MountSound ==
  ASSUME SavedSound(saved), Mount
  PROVE  \E G \in SUBSET Seg : Sound(State', G)
<1>1. PICK E \in SUBSET Seg : E = EmptyAtMount
  BY DEF EmptyAtMount
<1>2. \A s \in Seg : s \in E <=>
        saved.valid[s] = {} /\ IF saved.temp[s] = None THEN s # 0
                               ELSE saved.cur[saved.temp[s]].seg # s
  BY <1>1 DEF EmptyAtMount
<1>3. /\ sit' = [s \in Seg |->
                  [valid |-> saved.valid[s],
                   own   |-> [b \in Blk |-> Owner(s, b)],
                   temp  |-> IF s \in E THEN None ELSE saved.temp[s]]]
      /\ freeq' = EnqueueAll(EmptyQueue, E) /\ cur' = saved.cur /\ phy' = saved.phy
  BY <1>1 DEF Mount, Owner, LoadedCur
<1>4. /\ saved.valid \in [Seg -> SUBSET Blk] /\ saved.temp \in [Seg -> Temps \cup {None}]
      /\ saved.cur \in CurInfo /\ saved.phy \in [Logical -> Addr \cup {None}]
  BY DEF SavedSound
<1>5. /\ \A t \in Temps : saved.cur[t].seg # None =>
           /\ saved.temp[saved.cur[t].seg] = t /\ saved.cur[t].off < BlkPerSeg
           /\ \A b \in saved.valid[saved.cur[t].seg] : b < saved.cur[t].off
      /\ \A l \in Logical : saved.phy[l] # None => saved.phy[l][2] \in saved.valid[saved.phy[l][1]]
  BY DEF SavedSound
<1>6. freeq' \in Queue /\ FreeOf(freeq', E) /\ \A x \in Seg \ E : freeq'.next[x] = None
  <2>1. PICK q : q = EmptyQueue
    OBVIOUS
  <2>2. PICK r : r = EnqueueAll(q, E)
    OBVIOUS
  <2>3. q \in Queue /\ FreeOf(q, {}) /\ \A s \in Seg : q.next[s] = None
    BY <2>1, EmptyQueueIs
  <2>4. /\ r \in Queue /\ FreeOf(r, {} \cup E)
        /\ \A x \in Seg : x \notin {} \cup E => r.next[x] = q.next[x]
    BY <2>2, <2>3, EnqueueAllIs
  <2>5. {} \cup E = E
    OBVIOUS
  <2> QED BY <1>3, <2>1, <2>2, <2>3, <2>4, <2>5
<1>7. ASSUME NEW s \in Seg
      PROVE  /\ sit'[s] \in SegInfo /\ sit'[s].valid = saved.valid[s]
             /\ \A b \in Blk : sit'[s].own[b] = Owner(s, b)
             /\ sit'[s].temp = IF s \in E THEN None ELSE saved.temp[s]
  <2>1. PICK o : o = [b \in Blk |-> Owner(s, b)]
    OBVIOUS
  <2>2. PICK t : t = IF s \in E THEN None ELSE saved.temp[s]
    OBVIOUS
  <2>3. o \in [Blk -> Logical \cup {None}] /\ \A b \in Blk : o[b] = Owner(s, b)
    BY <2>1, OwnerIs
  <2>4. t \in Temps \cup {None} /\ saved.valid[s] \in SUBSET Blk
    BY <1>4, <2>2
  <2>5. sit'[s] = [valid |-> saved.valid[s], own |-> o, temp |-> t]
    BY <1>3, <2>1, <2>2
  <2>6. sit'[s] \in SegInfo /\ sit'[s].valid = saved.valid[s] /\ sit'[s].own = o /\ sit'[s].temp = t
    BY <2>3, <2>4, <2>5 DEF SegInfo
  <2> QED BY <2>2, <2>3, <2>6
<1>8. sit' \in [Seg -> SegInfo]
  BY <1>3, <1>7
<1>9. PICK r : r = State'
  OBVIOUS
<1>10. r.sit = sit' /\ r.q = freeq' /\ r.cur = saved.cur /\ r.phy = saved.phy
  BY <1>3, <1>9, StateFields
<1>11. Typed(r)
  BY <1>3, <1>4, <1>6, <1>8, <1>9 DEF Typed, State
<1>12. InOrder(r, E)
  <2>1. \A s \in E : r.sit[s].valid = {} /\ r.sit[s].temp = None
    BY <1>2, <1>7, <1>10
  <2>2. ASSUME NEW s \in Seg, r.sit[s].valid = {}, ~Current(r.cur, s)
        PROVE  s \in E \/ (s = 0 /\ r.q.next[0] = None)
    <3>1. saved.valid[s] = {} /\ \A t \in Temps : saved.cur[t].seg # s
      BY <1>7, <1>10, <2>2 DEF Current
    <3>2. saved.temp[s] # None => s \in E
      BY <1>2, <1>4, <3>1
    <3>3. saved.temp[s] = None => s = 0 \/ s \in E
      BY <1>2, <3>1
    <3> QED BY <1>6, <1>10, <3>2, <3>3
  <2>3. ASSUME NEW t \in Temps, r.cur[t].seg # None
        PROVE  /\ r.sit[r.cur[t].seg].temp = t
               /\ \A b \in r.sit[r.cur[t].seg].valid : b < r.cur[t].off
    <3>1. PICK s \in Seg : s = saved.cur[t].seg
      BY <1>4, <1>10, <2>3 DEF CurInfo
    <3>2. saved.temp[s] = t /\ \A b \in saved.valid[s] : b < saved.cur[t].off
      BY <1>5, <1>10, <2>3, <3>1
    <3>3. s \notin E
      BY <1>2, <3>1, <3>2, TempFacts
    <3> QED BY <1>7, <1>10, <3>1, <3>2, <3>3
  <2>4. FreeOf(r.q, E)
    BY <1>6, <1>10
  <2> QED BY <2>1, <2>2, <2>3, <2>4 DEF InOrder
<1>13. Mapped(r, r.phy, None)
  <2>1. ASSUME NEW m \in Logical, r.phy[m] # None
        PROVE  r.phy[m][2] \in r.sit[r.phy[m][1]].valid /\ r.sit[r.phy[m][1]].own[r.phy[m][2]] = m
    <3>1. PICK s \in Seg, b \in Blk : saved.phy[m] = <<s, b>>
      BY <1>4, <1>10, <2>1 DEF Addr
    <3>2. b \in saved.valid[s]
      <4>1. saved.phy[m][2] \in saved.valid[saved.phy[m][1]]
        BY <1>5, <1>10, <2>1
      <4> QED BY <3>1, <4>1
    <3>3. Owner(s, b) = m
      BY <3>1, OwnerIs
    <3>4. b \in r.sit[s].valid /\ r.sit[s].own[b] = m
      BY <1>7, <1>10, <3>2, <3>3
    <3>5. r.phy[m][1] = s /\ r.phy[m][2] = b
      BY <1>10, <3>1
    <3> QED BY <3>4, <3>5
  <2>2. ASSUME NEW s \in Seg, NEW b \in r.sit[s].valid
        PROVE  r.sit[s].own[b] # None /\ r.phy[r.sit[s].own[b]] = <<s, b>>
    <3>1. b \in saved.valid[s] /\ b \in Blk
      BY <1>4, <1>7, <1>10
    <3>2. Owner(s, b) \in Logical /\ saved.phy[Owner(s, b)] = <<s, b>>
      BY <3>1, OwnerIs
    <3>3. r.sit[s].own[b] = Owner(s, b)
      BY <1>7, <1>10, <3>1
    <3> QED BY <1>10, <3>2, <3>3, TempFacts
  <2> QED BY <2>1, <2>2 DEF Mapped
<1>14. Open(r.cur)
  BY <1>5, <1>10 DEF Open
<1> QED BY <1>9, <1>11, <1>12, <1>13, <1>14 DEF Sound

\* Mount
LEMMA MountOK ==
  ASSUME IInv, Mount
  PROVE  StepOK
<1>1. /\ pc = "down" /\ pc' = "idle" /\ UNCHANGED gcVars /\ saved' = saved /\ lost' = lost
      /\ ops' = ops /\ OthersTyped /\ SavedSound(saved)
  BY DEF Mount, IInv
<1>2. \E G \in SUBSET Seg : Sound(State', G)
  BY <1>1, MountSound
<1>3. lost' \subseteq Logical /\ ops' \in 0 .. MaxOps
  BY <1>1 DEF OthersTyped
<1>4. OthersTyped'
  BY <1>1, <1>3, OthersKept
<1>5. IInv'
  BY <1>1, <1>2, <1>4, Settle
<1> QED BY <1>1, <1>5 DEF StepOK, Running

-------------------------------------------------------------------------------
(***************************************************************************)
(* Garbage collection                                                      *)
(***************************************************************************)
\* What GC may rely on.
LEMMA GcFacts ==
  ASSUME IInv, pc = "gc"
  PROVE  OthersTyped /\ SavedSound(saved) /\ GcSound /\ \E F \in SUBSET Seg : Sound(State, F)
BY DEF IInv, Running

\* A step that changes no table keeps the owners.
LEMMA SameOwners == sit' = sit => OwnersKept
BY DEF OwnersKept

\* GcPop
LEMMA GcPopOK ==
  ASSUME IInv, NEW s \in Seg, GcPop(s)
  PROVE  StepOK
<1>1. /\ pc = "gc" /\ s \in DOMAIN pool /\ \A x \in DOMAIN pool : pool[s] <= pool[x]
      /\ pool' = [x \in DOMAIN pool \ {s} |-> pool[x]]
      /\ src' = [seg |-> s, next |-> 0, left |-> Cardinality(sit[s].valid)]
      /\ sit' = sit /\ freeq' = freeq /\ cur' = cur /\ phy' = phy /\ pc' = pc /\ req' = req
      /\ saved' = saved /\ lost' = lost /\ ops' = ops
  BY DEF GcPop
<1>2. PICK F \in SUBSET Seg : Sound(State, F)
  BY <1>1, GcFacts
<1>3. OthersTyped /\ SavedSound(saved) /\ GcSound
  BY <1>1, GcFacts
<1>4. sit[s].valid \in SUBSET Blk
  BY <1>2, TypedFacts, StateFields DEF Sound
<1>5. PICK m : m = Cardinality(sit[s].valid)
  OBVIOUS
<1>6. m \in 0 .. BlkPerSeg /\ (sit[s].valid # {} <=> m > 0)
  BY <1>4, <1>5, ValidCard
<1>7. /\ src' \in [seg : Seg \cup {None}, next : 0 .. BlkPerSeg, left : 0 .. BlkPerSeg]
      /\ src'.seg = s /\ src'.left = m
  BY <1>1, <1>5, <1>6, ConstAssumption
<1>8. /\ DOMAIN pool' = DOMAIN pool \ {s} /\ \A x \in DOMAIN pool' : pool'[x] = pool[x]
  BY <1>1
<1>9. OthersTyped'
  BY <1>1, <1>3, <1>7, <1>8 DEF OthersTyped
<1>10. GcSound'
  <2>1. /\ req.l \in Logical /\ (req.l \in Data => req.old = phy[req.l])
        /\ \A x \in DOMAIN pool : pool[x] = Cardinality(sit[x].valid) /\ ~Current(cur, x)
        /\ cur[TempOf(req.l)].seg # None => sit[cur[TempOf(req.l)].seg].valid # {}
    BY <1>3 DEF GcSound
  <2>2. pool[s] = m /\ ~Current(cur, s)
    BY <1>1, <1>5, <2>1
  <2>3. \A x \in DOMAIN pool : pool[x] \in Nat /\ m <= pool[x]
    BY <1>1, <1>3, <2>2 DEF OthersTyped
  <2>4. sit[s].valid # {} => \A x \in DOMAIN pool : pool[x] > 0
    BY <1>6, <2>3
  <2>5. s \notin DOMAIN pool'
    BY <1>8
  <2>6. /\ src'.seg \notin DOMAIN pool' /\ ~Current(cur', src'.seg)
        /\ src'.left = Cardinality(sit'[src'.seg].valid)
        /\ sit'[src'.seg].valid # {} => \A x \in DOMAIN pool' : pool'[x] > 0
    BY <1>1, <1>5, <1>7, <1>8, <2>2, <2>4, <2>5
  <2> QED BY <1>1, <1>8, <2>1, <2>6 DEF GcSound
<1>11. SavedSound(saved') /\ OwnersKept
  BY <1>1, <1>3, SameOwners
<1> QED BY <1>1, <1>9, <1>10, <1>11, SettleSame DEF StepOK, Running

\* The next block of the source that GC looks at.
LEMMA GcBlockIs ==
  ASSUME NEW F \in SUBSET Seg, Sound(State, F), src.seg \in Seg, BlocksAhead # {}
  PROVE  GcBlock \in Blk /\ GcBlock \in sit[src.seg].valid
<1>1. BlocksAhead \subseteq sit[src.seg].valid /\ sit[src.seg].valid \subseteq Blk
  BY TypedFacts, StateFields DEF Sound, BlocksAhead
<1>2. BlocksAhead \in SUBSET Nat
  BY <1>1 DEF Blk
<1>3. \E b \in BlocksAhead : \A x \in BlocksAhead : b <= x
  BY <1>2, Least
<1>4. GcBlock \in BlocksAhead
  BY <1>3 DEF GcBlock
<1> QED BY <1>1, <1>4

\* GcSkip
LEMMA GcSkipOK ==
  ASSUME IInv, GcSkip
  PROVE  StepOK
<1>1. /\ pc = "gc" /\ src.seg # None /\ BlocksAhead # {}
      /\ src' = [src EXCEPT !.next = GcBlock + 1]
      /\ sit' = sit /\ freeq' = freeq /\ cur' = cur /\ phy' = phy /\ pc' = pc /\ req' = req
      /\ pool' = pool /\ saved' = saved /\ lost' = lost /\ ops' = ops
  BY DEF GcSkip
<1>2. PICK F \in SUBSET Seg : Sound(State, F)
  BY <1>1, GcFacts
<1>3. OthersTyped /\ SavedSound(saved) /\ GcSound
  BY <1>1, GcFacts
<1>4. src \in [seg : Seg \cup {None}, next : 0 .. BlkPerSeg, left : 0 .. BlkPerSeg]
  BY <1>3 DEF OthersTyped
<1>5. PICK m : m = GcBlock + 1
  OBVIOUS
<1>6. m \in 0 .. BlkPerSeg
  <2>1. GcBlock \in Blk
    BY <1>1, <1>2, <1>4, GcBlockIs
  <2> QED BY <1>5, <2>1, ConstAssumption DEF Blk
<1>7. src' = [src EXCEPT !.next = m]
  BY <1>1, <1>5
<1>8. /\ src' \in [seg : Seg \cup {None}, next : 0 .. BlkPerSeg, left : 0 .. BlkPerSeg]
      /\ src'.seg = src.seg /\ src'.left = src.left
  BY <1>4, <1>6, <1>7
<1>9. OthersTyped'
  BY <1>1, <1>3, <1>8 DEF OthersTyped
<1>10. GcSound'
  BY <1>1, <1>3, <1>8 DEF GcSound
<1>11. SavedSound(saved') /\ OwnersKept
  BY <1>1, <1>3, SameOwners
<1> QED BY <1>1, <1>9, <1>10, <1>11, SettleSame DEF StepOK, Running

\* GcSegmentDone
LEMMA GcSegmentDoneOK ==
  ASSUME IInv, GcSegmentDone
  PROVE  StepOK
<1>1. /\ pc = "gc" /\ src' = NoSrc
      /\ sit' = sit /\ freeq' = freeq /\ cur' = cur /\ phy' = phy /\ pc' = pc /\ req' = req
      /\ pool' = pool /\ saved' = saved /\ lost' = lost /\ ops' = ops
  BY DEF GcSegmentDone
<1>2. OthersTyped /\ SavedSound(saved) /\ GcSound
  BY <1>1, GcFacts
<1>3. OthersTyped'
  BY <1>1, <1>2, NoGc DEF OthersTyped
<1>4. GcSound'
  BY <1>1, <1>2, NoGc DEF GcSound
<1>5. SavedSound(saved') /\ OwnersKept
  BY <1>1, <1>2, SameOwners
<1> QED BY <1>1, <1>3, <1>4, <1>5, SettleSame DEF StepOK, Running

\* GcMoveFails
LEMMA GcMoveFailsOK ==
  ASSUME IInv, GcMoveFails
  PROVE  StepOK
<1>1. Fail("gc failed") /\ ops' = ops /\ OthersTyped
  BY DEF GcMoveFails, IInv
<1>2. ops' \in 0 .. MaxOps
  BY <1>1 DEF OthersTyped
<1> QED BY <1>1, <1>2, FailOK

\* GcThenFail
LEMMA GcThenFailOK ==
  ASSUME IInv, GcThenFail
  PROVE  StepOK
<1>1. Fail("no space") /\ ops' = ops /\ OthersTyped
  BY DEF GcThenFail, IInv
<1>2. ops' \in 0 .. MaxOps
  BY <1>1 DEF OthersTyped
<1> QED BY <1>1, <1>2, FailOK

\* GcThenRefuse
LEMMA GcThenRefuseOK ==
  ASSUME IInv, GcThenRefuse
  PROVE  StepOK
<1>1. /\ pc = "gc" /\ pc' = "idle" /\ req' = NoReq /\ pool' = NoPool /\ src' = NoSrc
      /\ sit' = sit /\ freeq' = freeq /\ cur' = cur /\ phy' = phy
      /\ saved' = saved /\ lost' = lost /\ ops' = ops
  BY DEF GcThenRefuse, GcOver
<1>2. OthersTyped /\ SavedSound(saved)
  BY <1>1, GcFacts
<1>3. OthersTyped'
  BY <1>1, <1>2, NoGc DEF OthersTyped
<1>4. SavedSound(saved') /\ OwnersKept
  BY <1>1, <1>2, SameOwners
<1> QED BY <1>1, <1>3, <1>4, SettleSame DEF StepOK, Running

\* GcThenWrite
LEMMA GcThenWriteOK ==
  ASSUME IInv, GcThenWrite
  PROVE  StepOK
<1>1. /\ pc = "gc" /\ freeq.nr > 1
      /\ WriteInPlace(req.l, OldPlace, TakeSegment(State, TempOf(req.l)))
      /\ pc' = "idle" /\ req' = NoReq /\ pool' = NoPool /\ src' = NoSrc
      /\ saved' = saved /\ ops' = ops
  BY DEF GcThenWrite, GcOver
<1>2. OthersTyped /\ SavedSound(saved) /\ GcSound
  BY <1>1, GcFacts
<1>3. PICK F \in SUBSET Seg : Sound(State, F)
  BY <1>1, GcFacts
<1>4. PICK l \in Logical : l = req.l
  BY <1>2 DEF GcSound
<1>5. PICK old : old = phy[l]
  OBVIOUS
<1>6. OldPlace = old
  BY <1>2, <1>4, <1>5 DEF OldPlace, GcSound, Logical
<1>7. PICK t \in Temps : t = TempOf(l)
  BY TempFacts
<1>8. cur[t].seg # None => sit[cur[t].seg].valid # {}
  BY <1>2, <1>4, <1>7 DEF GcSound
<1>9. PICK st : st = TakeSegment(State, t)
  OBVIOUS
<1>10. PICK s : s = freeq.tail
  OBVIOUS
<1>11. /\ F \ {s} \in SUBSET Seg /\ Sound(st, F \ {s}) /\ SameBlocks(st)
       /\ st.cur[t].seg = s /\ s \in Seg
  <2>1. freeq.nr # 0
    BY <1>1
  <2>2. CASE cur[t].seg = None
    BY <1>3, <1>9, <1>10, <2>1, <2>2, TakenIs
  <2>3. CASE cur[t].seg # None
    <3>1. sit[cur[t].seg].valid # {}
      BY <1>8, <2>3
    <3> QED BY <1>3, <1>9, <1>10, <2>1, <3>1, TakenIs
  <2> QED BY <2>2, <2>3
<1>12. st.cur[TempOf(l)].seg # None /\ WriteInPlace(l, old, st)
  BY <1>1, <1>4, <1>6, <1>7, <1>9, <1>11, SegFacts
<1>13. (\E G \in SUBSET Seg : Sound(State', G)) /\ lost' \subseteq Logical /\ OwnersKept
  BY <1>2, <1>5, <1>11, <1>12, WriteInPlaceIs
<1>14. OthersTyped'
  BY <1>1, <1>2, <1>13, NoGc DEF OthersTyped
<1>15. SavedSound(saved')
  BY <1>1, <1>2
<1> QED BY <1>1, <1>13, <1>14, <1>15, Settle DEF StepOK

\* GC moves the block b of the source S to the segment d.
Moves(l, S, b, st, d) ==
    /\ S = src.seg /\ S \in Seg /\ b \in Blk /\ b \in sit[S].valid /\ b = GcBlock
    /\ l \in Logical /\ phy[l] = <<S, b>> /\ ~(l \in Data /\ l = req.l)
    /\ SameBlocks(st) /\ (\E F \in SUBSET Seg : Sound(st, F))
    /\ st.cur[TempOf(l)].seg = d /\ d \in Seg /\ d # S /\ d \notin DOMAIN pool
    /\ \A u \in Temps \ {TempOf(l)} : st.cur[u] = cur[u]
    /\ WriteInPlace(l, <<S, b>>, st)

\* Where GC moves the next block of the source.
LEMMA GcMoveIs ==
  ASSUME IInv, GcMove
  PROVE  \E l, S, b, st, d : Moves(l, S, b, st, d)
<1>1. pc = "gc" /\ src.seg # None /\ BlocksAhead # {}
  BY DEF GcMove
<1>2. PICK F \in SUBSET Seg : Sound(State, F)
  BY <1>1, GcFacts
<1>3. OthersTyped /\ GcSound
  BY <1>1, GcFacts
<1>4. PICK S \in Seg : S = src.seg
  BY <1>1, <1>3 DEF OthersTyped
<1>5. PICK b : b = GcBlock
  OBVIOUS
<1>6. b \in Blk /\ b \in sit[S].valid
  BY <1>1, <1>2, <1>4, <1>5, GcBlockIs
<1>7. PICK l : l = sit[S].own[b]
  OBVIOUS
<1>8. l \in Logical /\ phy[l] = <<S, b>>
  <2>1. Mapped(State, phy, None) /\ sit[S].own \in [Blk -> Logical \cup {None}]
    BY <1>2, TypedFacts, StateFields DEF Sound
  <2>2. sit[S].own[b] # None /\ phy[sit[S].own[b]] = <<S, b>>
    BY <1>6, <2>1, NoneNotAddr, StateFields DEF Mapped
  <2> QED BY <1>6, <1>7, <2>1, <2>2
<1>9. PICK t \in Temps : t = TempOf(l)
  BY <1>8, TempFacts
<1>10. PICK st : st = IF cur[t].seg # None THEN State ELSE TakeSegment(State, t)
  OBVIOUS
<1>11. /\ ~(l \in Data /\ l = req.l) /\ (cur[t].seg # None \/ ~NoFreeSegment)
       /\ WriteInPlace(l, <<S, b>>, st)
  BY <1>4, <1>5, <1>7, <1>9, <1>10 DEF GcMove, WaitingBlock
<1>12. /\ ~Current(cur, S) /\ \A x \in DOMAIN pool : pool[x] > 0
       /\ \A x \in DOMAIN pool : x \in Seg /\ pool[x] = Cardinality(sit[x].valid) /\ ~Current(cur, x)
  <2>1. sit[S].valid # {}
    BY <1>6
  <2> QED BY <1>1, <1>3, <1>4, <2>1 DEF GcSound, OthersTyped
<1>13. \A x \in DOMAIN pool : sit[x].valid # {}
  <2>1. \A x \in Seg : sit[x].valid \in SUBSET Blk
    BY <1>2, TypedFacts, StateFields DEF Sound
  <2> QED BY <1>12, <2>1, ValidCard
<1>14. CASE cur[t].seg # None
  <2>1. st = State
    BY <1>10, <1>14
  <2>2. PICK d \in Seg : d = cur[t].seg
    BY <1>2, <1>14, TypedFacts, StateFields DEF Sound
  <2>3. d # S /\ d \notin DOMAIN pool
    BY <1>12, <2>2 DEF Current
  <2>4. SameBlocks(st) /\ Sound(st, F) /\ st.cur = cur
    BY <1>2, <2>1, SameState, StateFields
  <2>5. Moves(l, S, b, st, d)
    BY <1>4, <1>5, <1>6, <1>8, <1>9, <1>11, <2>2, <2>3, <2>4 DEF Moves
  <2> QED BY <2>5
<1>15. CASE cur[t].seg = None
  <2>1. st = TakeSegment(State, t) /\ freeq.nr # 0
    BY <1>10, <1>11, <1>15 DEF NoFreeSegment
  <2>2. PICK d : d = freeq.tail
    OBVIOUS
  <2>3. /\ F \ {d} \in SUBSET Seg /\ Sound(st, F \ {d}) /\ SameBlocks(st) /\ sit[d].valid = {}
        /\ d \in Seg /\ st.cur[t].seg = d /\ \A u \in Temps \ {t} : st.cur[u] = cur[u]
    BY <1>2, <1>15, <2>1, <2>2, TakenIs
  <2>4. d # S /\ d \notin DOMAIN pool
    BY <1>6, <1>13, <2>3
  <2>5. \E G \in SUBSET Seg : Sound(st, G)
    BY <2>3
  <2>6. Moves(l, S, b, st, d)
    BY <1>4, <1>5, <1>6, <1>8, <1>9, <1>11, <2>3, <2>4, <2>5 DEF Moves
  <2> QED BY <2>6
<1> QED BY <1>14, <1>15

\* GcMove
LEMMA GcMoveOK ==
  ASSUME IInv, GcMove
  PROVE  StepOK
<1>1. /\ pc = "gc" /\ src.seg # None /\ pc' = pc /\ req' = req /\ pool' = pool /\ saved' = saved
      /\ ops' = ops
      /\ src' = IF src.left = 1 THEN NoSrc ELSE [src EXCEPT !.next = GcBlock + 1, !.left = @ - 1]
  BY DEF GcMove
<1>2. OthersTyped /\ SavedSound(saved) /\ GcSound
  BY <1>1, GcFacts
<1>3. PICK l, S, b, st, d : Moves(l, S, b, st, d)
  BY GcMoveIs
<1>4. PICK F \in SUBSET Seg : Sound(st, F)
  BY <1>3 DEF Moves
<1>5. PICK t \in Temps : t = TempOf(l)
  BY <1>3, TempFacts DEF Moves
<1>6. /\ S = src.seg /\ S \in Seg /\ b \in Blk /\ b \in sit[S].valid /\ b = GcBlock
      /\ l \in Logical /\ phy[l] = <<S, b>> /\ ~(l \in Data /\ l = req.l) /\ SameBlocks(st)
      /\ st.cur[t].seg = d /\ d \in Seg /\ d # S /\ d \notin DOMAIN pool /\ d # None
      /\ \A u \in Temps \ {t} : st.cur[u] = cur[u]
      /\ WriteInPlace(l, <<S, b>>, st)
  BY <1>3, <1>5, SegFacts DEF Moves
<1>7. PICK old : old = <<S, b>>
  OBVIOUS
<1>8. PICK c : c = Place(st, l)[2]
  OBVIOUS
<1>9. Place(st, l)[1] = d
  BY <1>5, <1>6 DEF Place
<1>10. /\ (\E G \in SUBSET Seg : Sound(State', G)) /\ lost' \subseteq Logical /\ OwnersKept
       /\ Place(st, l) \in Addr /\ c \notin st.sit[d].valid /\ Writes(st, State', l, d, c, old)
  <2>1. /\ old = phy[l] /\ st.cur[TempOf(l)].seg # None /\ WriteInPlace(l, old, st)
    BY <1>5, <1>6, <1>7
  <2> QED BY <1>2, <1>4, <1>6, <1>8, <1>9, <2>1, WriteInPlaceIs
<1>11. c \in Blk
  BY <1>8, <1>10 DEF Addr
<1>12. /\ phy' = [st.phy EXCEPT ![l] = <<d, c>>] /\ st.phy = phy
       /\ \A u \in Seg : \A x \in Blk :
            x \in sit'[u].valid <=> (x \in sit[u].valid \/ (u = d /\ x = c)) /\ <<u, x>> # old
       /\ cur'[t].seg \in {d, None}
       /\ \A u \in Temps \ {t} : cur'[u] = cur[u]
  BY <1>5, <1>6, <1>10, StateFields DEF Writes, SameBlocks
<1>13. \A u \in Seg : sit[u].valid \subseteq Blk /\ sit'[u].valid \subseteq Blk
  <2>1. \A u \in Seg : sit'[u].valid \subseteq Blk
    BY <1>10, TypedFacts, StateFields DEF Sound
  <2>2. \A u \in Seg : st.sit[u].valid \subseteq Blk
    BY <1>4, TypedFacts DEF Sound
  <2> QED BY <1>6, <2>1, <2>2 DEF SameBlocks
<1>14. \A u \in Seg : u # d /\ u # S => sit'[u].valid = sit[u].valid
  BY <1>7, <1>12, <1>13
<1>15. sit'[S].valid = sit[S].valid \ {b}
  BY <1>6, <1>7, <1>12, <1>13
<1>16. c \in sit'[d].valid /\ \A u \in Seg : u # S => sit[u].valid \subseteq sit'[u].valid
  BY <1>6, <1>7, <1>11, <1>12, <1>13
<1>17. /\ req.l \in Logical /\ (req.l \in Data => req.old = phy[req.l])
       /\ \A x \in DOMAIN pool : x \in Seg /\ pool[x] = Cardinality(sit[x].valid) /\ ~Current(cur, x)
       /\ src.seg \notin DOMAIN pool /\ ~Current(cur, S)
       /\ src.left = Cardinality(sit[S].valid)
       /\ \A x \in DOMAIN pool : pool[x] > 0
       /\ cur[TempOf(req.l)].seg # None => sit[cur[TempOf(req.l)].seg].valid # {}
  <2>1. sit[S].valid # {}
    BY <1>6
  <2> QED BY <1>1, <1>2, <1>6, <2>1 DEF GcSound, OthersTyped
<1>18. ASSUME NEW x \in Seg, x # d, ~Current(cur, x) PROVE ~Current(cur', x)
  <2>1. ASSUME NEW u \in Temps PROVE cur'[u].seg # x
    <3>1. CASE u = t
      BY <1>12, <1>18, <3>1, SegFacts
    <3>2. CASE u # t
      BY <1>12, <1>18, <3>2 DEF Current
    <3> QED BY <3>1, <3>2
  <2> QED BY <2>1 DEF Current
<1>19. req.l \in Data => req.old = phy'[req.l]
  <2>1. ASSUME req.l \in Data PROVE req.old = phy'[req.l]
    <3>1. req.l # l /\ req.l \in Logical
      BY <1>6, <1>17, <2>1
    <3> QED BY <1>12, <1>17, <2>1, <3>1
  <2> QED BY <2>1
<1>20. \A x \in DOMAIN pool : pool[x] = Cardinality(sit'[x].valid) /\ ~Current(cur', x)
  <2>1. ASSUME NEW x \in DOMAIN pool PROVE pool[x] = Cardinality(sit'[x].valid) /\ ~Current(cur', x)
    <3>1. x \in Seg /\ x # d /\ x # S /\ ~Current(cur, x) /\ pool[x] = Cardinality(sit[x].valid)
      BY <1>6, <1>17
    <3>2. sit'[x].valid = sit[x].valid
      BY <1>14, <3>1
    <3> QED BY <1>18, <3>1, <3>2
  <2> QED BY <2>1
<1>21. PICK k \in Temps : k = TempOf(req.l)
  BY <1>17, TempFacts
<1>22. cur'[k].seg # None => sit'[cur'[k].seg].valid # {}
  <2>1. ASSUME cur'[k].seg # None PROVE sit'[cur'[k].seg].valid # {}
    <3>1. CASE k = t
      <4>1. cur'[k].seg = d
        BY <1>12, <2>1, <3>1
      <4> QED BY <1>16, <4>1
    <3>2. CASE k # t
      <4>1. cur'[k] = cur[k] /\ cur[k].seg # None
        BY <1>12, <2>1, <3>2
      <4>2. sit[cur[k].seg].valid # {} /\ cur[k].seg # S
        BY <1>17, <1>21, <4>1 DEF Current
      <4>3. cur[k].seg \in Seg
        <5>1. st.cur[k] = cur[k]
          BY <1>6, <3>2
        <5> QED BY <1>4, <4>1, <5>1, TypedFacts DEF Sound
      <4> QED BY <1>16, <4>1, <4>2, <4>3
    <3> QED BY <3>1, <3>2
  <2> QED BY <2>1
<1>23. Cardinality(sit'[S].valid) = src.left - 1 /\ src.left \in 1 .. BlkPerSeg
  <2>1. PICK V : V = sit[S].valid
    OBVIOUS
  <2>2. PICK W : W = V \ {b}
    OBVIOUS
  <2>3. V \in SUBSET Blk /\ b \in V
    BY <1>6, <1>13, <2>1
  <2>4. IsFiniteSet(V) /\ Cardinality(V) \in 0 .. BlkPerSeg /\ Cardinality(V) > 0
    BY <2>3, ValidCard
  <2>5. Cardinality(W) = Cardinality(V) - 1
    BY <2>2, <2>3, <2>4, CardRemove
  <2> QED BY <1>15, <1>17, <2>1, <2>2, <2>4, <2>5
<1>24. CASE src.left = 1
  <2>1. src' = NoSrc /\ src'.seg = None
    BY <1>1, <1>24, NoGc
  <2>2. GcSound'
    BY <1>1, <1>17, <1>19, <1>20, <1>21, <1>22, <2>1 DEF GcSound
  <2>3. OthersTyped'
    BY <1>1, <1>2, <1>10, <2>1, NoGc DEF OthersTyped
  <2>4. SavedSound(saved')
    BY <1>1, <1>2
  <2> QED BY <1>10, <2>2, <2>3, <2>4, Settle DEF StepOK
<1>25. CASE src.left # 1
  <2>1. PICK m \in 0 .. BlkPerSeg : m = GcBlock + 1
    BY <1>6, ConstAssumption DEF Blk
  <2>2. PICK n \in 0 .. BlkPerSeg : n = src.left - 1
    BY <1>23, ConstAssumption
  <2>3. src' = [src EXCEPT !.next = m, !.left = n]
    BY <1>1, <1>25, <2>1, <2>2
  <2>4. src \in [seg : Seg \cup {None}, next : 0 .. BlkPerSeg, left : 0 .. BlkPerSeg]
    BY <1>2 DEF OthersTyped
  <2>5. /\ src' \in [seg : Seg \cup {None}, next : 0 .. BlkPerSeg, left : 0 .. BlkPerSeg]
        /\ src'.seg = S /\ src'.left = n
    BY <1>6, <2>3, <2>4
  <2>6. /\ src'.seg \notin DOMAIN pool /\ ~Current(cur', src'.seg)
        /\ src'.left = Cardinality(sit'[src'.seg].valid)
        /\ \A x \in DOMAIN pool : pool[x] > 0
    BY <1>6, <1>17, <1>18, <1>23, <2>2, <2>5
  <2>7. GcSound'
    BY <1>1, <1>17, <1>19, <1>20, <1>21, <1>22, <2>6 DEF GcSound
  <2>8. OthersTyped'
    BY <1>1, <1>2, <1>10, <2>5 DEF OthersTyped
  <2>9. SavedSound(saved')
    BY <1>1, <1>2
  <2> QED BY <1>10, <2>7, <2>8, <2>9, Settle DEF StepOK
<1> QED BY <1>24, <1>25

-------------------------------------------------------------------------------
(***************************************************************************)
(* The theorems                                                            *)
(*                                                                         *)
(* WriteBeginGc can link a segment that writes go to into the free list:   *)
(* MCSegmentsCurrent shows it.  What follows therefore holds of the        *)
(* behaviours in which that does not happen, []CurrentNotFree; the run of  *)
(* MCSegments stops at the same states.  No other action needs it.         *)
(***************************************************************************)
\* Every step from a state with the invariant leads to one with it, and keeps
\* the owners of the blocks in use.
LEMMA InvNext ==
  ASSUME IInv, CurrentNotFree', Next
  PROVE  StepOK
<1>1. ASSUME NEW l \in Logical, Write(l) PROVE StepOK
  BY <1>1, WriteOK
<1>2. ASSUME NEW l \in Logical, WriteAlloc(l) PROVE StepOK
  BY <1>2, WriteAllocOK
<1>3. ASSUME NEW l \in Logical, NEW force \in BOOLEAN, WriteBeginGc(l, force) PROVE StepOK
  BY <1>3, WriteBeginGcOK
<1>4. ASSUME NEW l \in Logical, WriteFails(l) PROVE StepOK
  BY <1>4, WriteFailsOK
<1>5. ASSUME NEW s \in Seg, GcPop(s) PROVE StepOK
  BY <1>5, GcPopOK
<1>6. CASE GcSkip
  BY <1>6, GcSkipOK
<1>7. CASE GcMove
  BY <1>7, GcMoveOK
<1>8. CASE GcMoveFails
  BY <1>8, GcMoveFailsOK
<1>9. CASE GcSegmentDone
  BY <1>9, GcSegmentDoneOK
<1>10. CASE GcThenWrite
  BY <1>10, GcThenWriteOK
<1>11. CASE GcThenRefuse
  BY <1>11, GcThenRefuseOK
<1>12. CASE GcThenFail
  BY <1>12, GcThenFailOK
<1>13. ASSUME NEW l \in Logical, Remove(l) PROVE StepOK
  BY <1>13, RemoveOK
<1>14. CASE SaveTables
  BY <1>14, SaveTablesOK
<1>15. CASE PowerLoss
  BY <1>15, PowerLossOK
<1>16. CASE Mount
  BY <1>16, MountOK
<1>17. CASE MountDamaged
  BY <1>17, MountDamagedOK
<1> QED BY <1>1, <1>2, <1>3, <1>4, <1>5, <1>6, <1>7, <1>8, <1>9, <1>10, <1>11, <1>12,
           <1>13, <1>14, <1>15, <1>16, <1>17 DEF Next

\* Standing still keeps the invariant.
LEMMA InvStutter ==
  ASSUME IInv, UNCHANGED vars
  PROVE  IInv'
<1>1. /\ sit' = sit /\ freeq' = freeq /\ cur' = cur /\ phy' = phy /\ pc' = pc /\ req' = req
      /\ pool' = pool /\ src' = src /\ saved' = saved /\ lost' = lost /\ ops' = ops
  BY DEF vars
<1>2. OthersTyped' /\ SavedSound(saved')
  BY <1>1 DEF IInv, OthersTyped
<1>3. pc' = "gc" => GcSound'
  BY <1>1 DEF IInv, GcSound
<1>4. pc' \in {"idle", "gc"} => Running
  BY <1>1 DEF Running
<1> QED BY <1>1, <1>2, <1>3, <1>4, SettleSame

\* The inductive invariant holds always.
LEMMA Invariant == Spec /\ []CurrentNotFree => []IInv
<1>1. Init => IInv
  BY InvInit
<1>2. IInv /\ CurrentNotFree' /\ [Next]_vars => IInv'
  BY InvNext, InvStutter DEF StepOK
<1> QED BY <1>1, <1>2, PTL DEF Spec

\* From the invariant: the free list in all states.
LEMMA InvFree ==
  ASSUME IInv
  PROVE  \E F \in SUBSET Seg :
            /\ freeq \in Queue /\ FreeOf(freeq, F) /\ FreeSet = F
            /\ Running => Sound(State, F)
<1>1. freeq \in Queue
  BY TypedFacts, StateFields DEF IInv
<1>2. CASE Running
  <2>1. PICK F \in SUBSET Seg : Sound(State, F)
    BY <1>2 DEF IInv
  <2>2. FreeOf(freeq, F)
    BY <2>1, StateFields DEF Sound, InOrder
  <2>3. FreeSet = F
    BY <1>1, <2>2, FreeSetIs
  <2> QED BY <1>1, <2>1, <2>2, <2>3
<1>3. CASE ~Running
  <2>1. PICK F \in SUBSET Seg : FreeOf(freeq, F)
    BY DEF IInv
  <2>2. FreeSet = F
    BY <1>1, <2>1, FreeSetIs
  <2> QED BY <1>1, <1>3, <2>1, <2>2
<1> QED BY <1>2, <1>3

\* Every variable keeps its type; in particular m_free_nr, an unsigned counter
\* that free_en_queue and free_de_queue maintain, stays between 0 and
\* MAIN_SEG_NR, and no offset in m_cur_segs passes the end of its segment.
THEOREM SegmentsTyped == Spec /\ []CurrentNotFree => []TypeOK
<1>1. ASSUME IInv PROVE TypeOK
  <2>1. /\ sit \in [Seg -> SegInfo] /\ cur \in CurInfo /\ phy \in [Logical -> Addr \cup {None}]
        /\ OthersTyped /\ SavedSound(saved)
    BY <1>1, TypedFacts, StateFields DEF IInv
  <2>2. PICK F \in SUBSET Seg : freeq \in Queue /\ FreeOf(freeq, F)
    BY <1>1, InvFree
  <2>3. freeq.nr \in 0 .. SegNr
    BY <2>2, FreeCard
  <2>4. freeq \in [next : [Seg -> Seg \cup {None}], head : Seg \cup {None},
                   tail : Seg \cup {None}, nr : 0 .. SegNr]
    BY <2>2, <2>3 DEF Queue
  <2> QED BY <2>1, <2>4 DEF TypeOK, OthersTyped, SavedSound, SegInfo
<1> QED BY <1>1, Invariant, PTL

\* The circular list that free_en_queue and free_de_queue thread through
\* free_next stays one list of m_free_nr different segments.
THEOREM SegmentsFreeList == Spec /\ []CurrentNotFree => []FreeListOK
<1>1. ASSUME IInv PROVE FreeListOK
  <2>1. PICK F \in SUBSET Seg : freeq \in Queue /\ FreeOf(freeq, F) /\ FreeSet = F
    BY <1>1, InvFree
  <2>2. Cardinality(FreeSet) = freeq.nr
    BY <2>1, FreeCard
  <2>3. freeq.nr # 0 => FreeAt[freeq.nr - 1] = freeq.head
    BY <2>1, FreeSetIs
  <2>4. /\ freeq.nr = 0 <=> freeq.head = None
        /\ freeq.nr = 0 <=> freeq.tail = None
    BY <2>1, ListFacts
  <2>5. freeq.nr # 0 => freeq.next[freeq.head] = freeq.tail
    BY <2>1 DEF FreeOf, IsList
  <2> QED BY <2>2, <2>3, <2>4, <2>5 DEF FreeListOK
<1> QED BY <1>1, Invariant, PTL

\* While the file system runs, InvalidBlock, AllocSegment, the scan of GC and
\* build_free_link keep the free list and the empty segments the same, but for
\* the current segments and segment 0 after a mount.
THEOREM SegmentsFreeIffEmpty == Spec /\ []CurrentNotFree => []FreeIffEmpty
<1>1. ASSUME IInv PROVE FreeIffEmpty
  <2>1. SUFFICES ASSUME Running
                 PROVE  /\ \A s \in FreeSet : sit[s].valid = {} /\ sit[s].temp = None
                        /\ \A s \in Seg : sit[s].valid = {} /\ ~Current(cur, s) =>
                              s \in FreeSet \/ (s = 0 /\ freeq.next[0] = None)
    BY DEF FreeIffEmpty
  <2>2. PICK F \in SUBSET Seg : FreeSet = F /\ Sound(State, F)
    BY <1>1, <2>1, InvFree
  <2>3. InOrder(State, F)
    BY <2>2 DEF Sound
  <2> QED BY <2>2, <2>3, StateFields DEF InOrder
<1> QED BY <1>1, Invariant, PTL

\* WriteBlockToSeg, InvalidBlock, GC and Mount keep the map from logical blocks
\* to places and the valid bitmaps and summaries of the segments in agreement.
THEOREM SegmentsMapsAgree == Spec /\ []CurrentNotFree => []MapsAgree
<1>1. ASSUME IInv PROVE MapsAgree
  <2>1. SUFFICES ASSUME Running
                 PROVE  /\ \A l \in Logical : phy[l] # None =>
                              /\ phy[l][2] \in sit[phy[l][1]].valid
                              /\ sit[phy[l][1]].own[phy[l][2]] = l
                        /\ \A s \in Seg : \A b \in sit[s].valid :
                              sit[s].own[b] # None /\ phy[sit[s].own[b]] = <<s, b>>
    BY DEF MapsAgree
  <2>2. PICK F \in SUBSET Seg : Sound(State, F)
    BY <1>1, <2>1, InvFree
  <2>3. Mapped(State, phy, None) /\ \A s \in Seg : sit[s].valid \subseteq Blk
    BY <2>2, TypedFacts, StateFields DEF Sound
  <2>4. \A l \in Logical : phy[l] # None =>
           phy[l][2] \in sit[phy[l][1]].valid /\ sit[phy[l][1]].own[phy[l][2]] = l
    BY <2>3, StateFields DEF Mapped
  <2>5. ASSUME NEW s \in Seg, NEW b \in sit[s].valid
        PROVE  sit[s].own[b] # None /\ phy[sit[s].own[b]] = <<s, b>>
    BY <2>3, NoneNotAddr, StateFields DEF Mapped
  <2> QED BY <2>4, <2>5
<1> QED BY <1>1, Invariant, PTL

\* What is left of a current segment, where WriteBlockToSeg writes next, is free.
THEOREM SegmentsLogEnd == Spec /\ []CurrentNotFree => []LogEndFree
<1>1. ASSUME IInv PROVE LogEndFree
  <2>1. SUFFICES ASSUME Running, NEW t \in Temps, cur[t].seg # None
                 PROVE  cur[t].off < BlkPerSeg /\ \A b \in sit[cur[t].seg].valid : b < cur[t].off
    BY DEF LogEndFree
  <2>2. PICK F \in SUBSET Seg : Sound(State, F)
    BY <1>1, <2>1, InvFree
  <2>3. InOrder(State, F) /\ Open(cur)
    BY <2>2, StateFields DEF Sound
  <2> QED BY <2>1, <2>3, StateFields DEF InOrder, Open
<1> QED BY <1>1, Invariant, PTL

\* No write of the file system or of GC hits a block in use: a block that stays
\* valid keeps its owner.
THEOREM SegmentsKeepBlocks == Spec /\ []CurrentNotFree => ValidBlocksKept
<1>1. IInv /\ CurrentNotFree' /\ [Next]_vars =>
        [Running /\ pc' \in {"idle", "gc"} =>
           \A s \in Seg : \A b \in sit[s].valid \cap sit'[s].valid :
               sit'[s].own[b] = sit[s].own[b]]_vars
  BY InvNext DEF StepOK, OwnersKept
<1> QED BY <1>1, Invariant, PTL DEF Spec, ValidBlocksKept
===============================================================================
