---------------------------- MODULE ExplorerProofs ----------------------------
(***************************************************************************)
(* Proofs about Explorer, for any graph of operations, any depth of the    *)
(* test and any number of threads and states.                              *)
(***************************************************************************)
EXTENDS Explorer, ProofFacts

-------------------------------------------------------------------------------
(***************************************************************************)
(* The pool of states.  p is a pair of the states and the pool, h[x] how   *)
(* often state x is held by something else than the states copied from it. *)
(***************************************************************************)
StateInfo == [ref : Nat, enc : Encodings \cup {Null}, depth : Int, parent : State \cup {Null}]

Kids(s, x) == {y \in State : s[y].parent = x}

OneToOne(q) == \A i, j \in 1 .. Len(q) : q[i] = q[j] => i = j

Entries(q) == {q[i] : i \in 1 .. Len(q)}

Typed(p) ==
    p \in [st : [State -> StateInfo], pool : [free : Seq(State), allocated : 1 .. MaxStates]]

Counted(s, h) == \A x \in State : s[x].ref = h[x] + Cardinality(Kids(s, x))

Rooted(s) ==
    \A x \in State : s[x].parent # Null =>
        s[x].ref # 0 /\ s[x].depth = s[s[x].parent].depth + 1

Pooled(p) ==
    /\ OneToOne(p.pool.free)
    /\ \A x \in State : x \in Entries(p.pool.free) <=> x <= p.pool.allocated /\ p.st[x].ref = 0
    /\ \A x \in State : x > p.pool.allocated => p.st[x].ref = 0

Good(p, h) == Typed(p) /\ Counted(p.st, h) /\ Rooted(p.st) /\ Pooled(p)

\* The states are numbers, Null is none.
LEMMA StateFacts ==
  /\ MaxStates \in Nat /\ MaxStates # 0 /\ Null \notin State
  /\ \A s \in State : s \in Nat /\ s # 0 /\ s <= MaxStates
  /\ IsFiniteSet(State) /\ Cardinality(State) = MaxStates
<1>1. MaxStates \in Nat /\ MaxStates # 0 /\ Null \notin Nat
  BY ConstAssumption
<1>2. IsFiniteSet(1 .. MaxStates) /\ Cardinality(1 .. MaxStates) = MaxStates
  <2>1. 1 \in Int /\ MaxStates \in Int
    BY <1>1
  <2>2. /\ IsFiniteSet(1 .. MaxStates)
        /\ Cardinality(1 .. MaxStates) = IF 1 > MaxStates THEN 0 ELSE MaxStates - 1 + 1
    BY <2>1, FS_Interval
  <2> QED BY <1>1, <2>2
<1> QED BY <1>1, <1>2 DEF State

\* The parts of a pair.
LEMMA TypedFacts ==
  ASSUME NEW p, Typed(p)
  PROVE  /\ p.st \in [State -> StateInfo] /\ p.pool.free \in Seq(State)
         /\ p.pool.allocated \in 1 .. MaxStates
         /\ p.pool \in [free : Seq(State), allocated : 1 .. MaxStates]
         /\ \A x \in State : /\ p.st[x] \in StateInfo /\ p.st[x].ref \in Nat
                             /\ p.st[x].enc \in Encodings \cup {Null} /\ p.st[x].depth \in Int
                             /\ p.st[x].parent \in State \cup {Null}
<1>1. p.st \in [State -> StateInfo] /\ p.pool \in [free : Seq(State), allocated : 1 .. MaxStates]
  BY DEF Typed
<1>2. \A x \in State : p.st[x] \in StateInfo
  BY <1>1
<1> QED BY <1>1, <1>2 DEF StateInfo

\* A set of states can be counted.
LEMMA KidsCard ==
  ASSUME NEW K \in SUBSET State
  PROVE  IsFiniteSet(K) /\ Cardinality(K) \in Nat /\ (K # {} <=> Cardinality(K) > 0)
<1>1. IsFiniteSet(K)
  BY StateFacts, FS_Subset
<1> QED BY <1>1, CardPos

\* One step up.
Parent(s, x) == IF x = Null THEN Null ELSE s[x].parent

\* Ancestor follows the parents.
LEMMA AncestorIs ==
  ASSUME NEW s \in [State -> StateInfo], NEW x \in State, NEW up, up = Ancestor(s, x)
  PROVE  /\ up \in [0 .. MaxStates -> State \cup {Null}] /\ up[0] = x
         /\ \A i \in 1 .. MaxStates : up[i] = Parent(s, up[i - 1])
<1> DEFINE P(g) == g = [i \in 0 .. MaxStates |->
                          IF i = 0 THEN x ELSE IF g[i - 1] = Null THEN Null ELSE s[g[i - 1]].parent]
<1>1. PICK A : A = State \cup {Null}
  OBVIOUS
<1>2. PICK f : f = [y \in A |-> Parent(s, y)]
  OBVIOUS
<1>3. \A y \in A : f[y] \in A /\ f[y] = Parent(s, y)
  <2>1. \A y \in State : s[y] \in StateInfo
    OBVIOUS
  <2> QED BY <1>1, <1>2, <2>1 DEF Parent, StateInfo
<1>4. PICK g : g \in [0 .. MaxStates -> A] /\ IsRec(g, x, f, MaxStates)
  BY <1>1, <1>3, StateFacts, RecExists
<1>5. \A i \in 1 .. MaxStates : i - 1 \in 0 .. MaxStates
  BY StateFacts
<1>6. g[0] = x /\ \A i \in 1 .. MaxStates : g[i] = Parent(s, g[i - 1])
  BY <1>3, <1>4, <1>5 DEF IsRec
<1>7. P(g)
  <2>1. ASSUME NEW i \in 0 .. MaxStates
        PROVE  g[i] = IF i = 0 THEN x ELSE IF g[i - 1] = Null THEN Null ELSE s[g[i - 1]].parent
    <3>1. i # 0 => i \in 1 .. MaxStates
      BY StateFacts
    <3> QED BY <1>6, <3>1 DEF Parent
  <2> QED BY <1>4, <2>1
<1>8. P(CHOOSE e : P(e))
  BY <1>7, Zenon
<1>9. up = CHOOSE e : P(e)
  BY DEF Ancestor
<1>10. P(up)
  BY <1>8, <1>9
<1>11. \A i \in 0 .. MaxStates :
          up[i] = IF i = 0 THEN x ELSE IF up[i - 1] = Null THEN Null ELSE s[up[i - 1]].parent
  BY <1>10
<1>12. DOMAIN up = 0 .. MaxStates
  BY <1>10
<1> HIDE DEF P
<1>13. up[0] = x
  BY <1>11, StateFacts
<1>14. \A i \in 1 .. MaxStates : up[i] = Parent(s, up[i - 1])
  BY <1>11, StateFacts DEF Parent
<1> DEFINE S == {i \in Nat : i <= MaxStates => up[i] = g[i]}
<1>15. 0 \in S
  BY <1>6, <1>13
<1>16. ASSUME NEW i \in Nat, i \in S PROVE i + 1 \in S
  <2> SUFFICES ASSUME i + 1 <= MaxStates PROVE up[i + 1] = g[i + 1]
    OBVIOUS
  <2>1. i + 1 \in 1 .. MaxStates /\ (i + 1) - 1 = i /\ i <= MaxStates
    BY StateFacts
  <2> QED BY <1>6, <1>14, <1>16, <2>1
<1>17. Nat \subseteq S
  <2> HIDE DEF S
  <2> QED BY <1>15, <1>16, Induct
<1>18. \A i \in 0 .. MaxStates : up[i] = g[i]
  BY <1>17, StateFacts
<1>19. up = [i \in 0 .. MaxStates |-> up[i]]
  BY <1>10 DEF P
<1>20. up \in [0 .. MaxStates -> State \cup {Null}]
  BY <1>1, <1>4, <1>12, <1>18, <1>19
<1> QED BY <1>13, <1>14, <1>20

\* The ancestors get less deep with every step, so they are all different.
LEMMA AncestorDepth ==
  ASSUME NEW s \in [State -> StateInfo], Rooted(s), NEW x \in State, NEW up, up = Ancestor(s, x),
         NEW i \in 0 .. MaxStates, up[i] # Null
  PROVE  s[up[i]].depth = s[x].depth - i /\ \A j \in 0 .. i : up[j] \in State
<1>1. /\ up \in [0 .. MaxStates -> State \cup {Null}] /\ up[0] = x
      /\ \A k \in 1 .. MaxStates : up[k] = Parent(s, up[k - 1])
  BY AncestorIs
<1>2. \A y \in State : s[y].depth \in Int /\ s[y].parent \in State \cup {Null}
  <2>1. \A y \in State : s[y] \in StateInfo
    OBVIOUS
  <2> QED BY <2>1 DEF StateInfo
<1> DEFINE S == {k \in Nat : k <= MaxStates /\ up[k] # Null =>
                   s[up[k]].depth = s[x].depth - k /\ \A j \in 0 .. k : up[j] \in State}
<1>3. 0 \in S
  BY <1>1, <1>2
<1>4. ASSUME NEW k \in Nat, k \in S PROVE k + 1 \in S
  <2> SUFFICES ASSUME k + 1 <= MaxStates, up[k + 1] # Null
               PROVE  /\ s[up[k + 1]].depth = s[x].depth - (k + 1)
                      /\ \A j \in 0 .. k + 1 : up[j] \in State
    OBVIOUS
  <2>1. k + 1 \in 1 .. MaxStates /\ (k + 1) - 1 = k /\ k <= MaxStates /\ k + 1 \in 0 .. MaxStates
    BY StateFacts
  <2>2. up[k + 1] = Parent(s, up[k])
    BY <1>1, <2>1
  <2>3. up[k] # Null /\ up[k + 1] = s[up[k]].parent
    BY <2>2 DEF Parent
  <2>4. s[up[k]].depth = s[x].depth - k /\ \A j \in 0 .. k : up[j] \in State
    BY <1>4, <2>1, <2>3
  <2>5. up[k] \in State /\ up[k + 1] \in State
    BY <1>1, <2>1, <2>4
  <2>6. s[up[k]].depth = s[up[k + 1]].depth + 1
    BY <2>3, <2>5 DEF Rooted
  <2>7. s[up[k + 1]].depth = s[x].depth - (k + 1)
    BY <1>2, <2>4, <2>5, <2>6
  <2>8. \A j \in 0 .. k + 1 : j \in 0 .. k \/ j = k + 1
    OBVIOUS
  <2> QED BY <2>4, <2>5, <2>7, <2>8
<1>5. Nat \subseteq S
  <2> HIDE DEF S
  <2> QED BY <1>3, <1>4, Induct
<1>6. i \in Nat /\ i <= MaxStates
  BY StateFacts
<1> QED BY <1>5, <1>6

\* put(x) stops at k: it returns the first k of x and its ancestors.
Stops(s, up, k) ==
    /\ \A j \in 0 .. k - 1 : up[j] # Null /\ s[up[j]].ref = 1
    /\ up[k] # Null => s[up[k]].ref # 1

\* It does stop.
LEMMA PutStops ==
  ASSUME NEW s \in [State -> StateInfo], Rooted(s), NEW x \in State, NEW up, up = Ancestor(s, x)
  PROVE  \E k \in 0 .. MaxStates : Stops(s, up, k)
<1>1. up \in [0 .. MaxStates -> State \cup {Null}]
  BY AncestorIs
<1>2. PICK T : T = {k \in 0 .. MaxStates : up[k] = Null \/ s[up[k]].ref # 1}
  OBVIOUS
<1>3. T # {}
  <2> SUFFICES ASSUME T = {} PROVE FALSE
    OBVIOUS
  <2>1. \A k \in 0 .. MaxStates : up[k] # Null
    BY <1>2
  <2>2. PICK D : D = 0 .. MaxStates
    OBVIOUS
  <2>3. up \in [D -> State]
    BY <1>1, <2>1, <2>2
  <2>4. IsFiniteSet(D) /\ Cardinality(D) = MaxStates + 1
    <3>1. 0 \in Int /\ MaxStates \in Int /\ MaxStates \in Nat
      BY StateFacts
    <3>2. IsFiniteSet(D) /\ Cardinality(D) = IF 0 > MaxStates THEN 0 ELSE MaxStates - 0 + 1
      BY <2>2, <3>1, FS_Interval
    <3> QED BY <3>1, <3>2
  <2>5. Cardinality(State) < Cardinality(D)
    BY <2>4, StateFacts
  <2>6. \E i, j \in D : i # j /\ up[i] = up[j]
    BY <2>3, <2>4, <2>5, StateFacts, FS_PigeonHole
  <2>7. PICK i \in D, j \in D : i # j /\ up[i] = up[j]
    BY <2>6
  <2>8. s[up[i]].depth = s[x].depth - i /\ s[up[j]].depth = s[x].depth - j
    BY <2>1, <2>2, AncestorDepth
  <2>9. s[x].depth \in Int /\ i \in Int /\ j \in Int
    <3>1. s[x] \in StateInfo
      OBVIOUS
    <3> QED BY <2>2, <3>1, StateFacts DEF StateInfo
  <2> QED BY <2>7, <2>8, <2>9
<1>4. T \in SUBSET Nat
  BY <1>2, StateFacts
<1>5. PICK k \in T : \A m \in T : k <= m
  BY <1>3, <1>4, Least
<1>6. ASSUME NEW j \in 0 .. k - 1 PROVE up[j] # Null /\ s[up[j]].ref = 1
  <2>1. j \in 0 .. MaxStates /\ j \in Nat /\ k \in Nat /\ j < k
    BY <1>2, <1>4, <1>5, StateFacts
  <2>2. j \notin T
    BY <1>4, <1>5, <2>1
  <2> QED BY <1>2, <2>1, <2>2
<1> QED BY <1>2, <1>5, <1>6 DEF Stops

\* One list behind another.
LEMMA ConcatIs ==
  ASSUME NEW u \in Seq(State), NEW q \in Seq(State), OneToOne(u), OneToOne(q),
         Entries(u) \cap Entries(q) = {}, NEW z, z = u \o q
  PROVE  z \in Seq(State) /\ OneToOne(z) /\ Entries(z) = Entries(u) \cup Entries(q)
<1>1. PICK m \in Nat, n \in Nat : m = Len(u) /\ n = Len(q)
  BY LenProperties
<1>2. z \in Seq(State) /\ Len(z) = m + n
  BY <1>1, ConcatProperties
<1>3. \A i \in 1 .. m + n : z[i] = IF i <= m THEN u[i] ELSE q[i - m]
  BY <1>1, ConcatProperties
<1>4. ASSUME NEW i \in 1 .. m PROVE z[i] = u[i] /\ i \in 1 .. m + n
  <2>1. i \in 1 .. m + n /\ i <= m
    OBVIOUS
  <2> QED BY <1>3, <2>1
<1>5. ASSUME NEW i \in 1 .. n PROVE z[m + i] = q[i] /\ m + i \in 1 .. m + n
  <2>1. m + i \in 1 .. m + n /\ ~(m + i <= m) /\ (m + i) - m = i
    OBVIOUS
  <2> QED BY <1>3, <2>1
<1>6. ASSUME NEW i \in 1 .. m + n, i \notin 1 .. m
      PROVE  i - m \in 1 .. n /\ z[i] = q[i - m]
  <2>1. i - m \in 1 .. n /\ ~(i <= m)
    BY <1>6
  <2> QED BY <1>3, <2>1
<1>7. Entries(z) = Entries(u) \cup Entries(q)
  <2>1. \A y \in Entries(z) : y \in Entries(u) \cup Entries(q)
    BY <1>1, <1>2, <1>4, <1>6 DEF Entries
  <2>2. \A y \in Entries(u) : y \in Entries(z)
    BY <1>1, <1>2, <1>4 DEF Entries
  <2>3. \A y \in Entries(q) : y \in Entries(z)
    <3> SUFFICES ASSUME NEW j \in 1 .. n PROVE q[j] \in Entries(z)
      BY <1>1 DEF Entries
    <3>1. m + j \in 1 .. Len(z) /\ z[m + j] = q[j]
      BY <1>2, <1>5
    <3> QED BY <3>1 DEF Entries
  <2> QED BY <2>1, <2>2, <2>3
<1>8. ASSUME NEW i \in 1 .. m + n, NEW j \in 1 .. m + n, z[i] = z[j] PROVE i = j
  <2>1. \A a \in 1 .. m, b \in 1 .. n : u[a] # q[b]
    BY <1>1 DEF Entries
  <2>2. CASE i \in 1 .. m /\ j \in 1 .. m
    BY <1>1, <1>4, <1>8, <2>2 DEF OneToOne
  <2>3. CASE i \notin 1 .. m /\ j \notin 1 .. m
    <3>1. i - m \in 1 .. n /\ j - m \in 1 .. n /\ q[i - m] = q[j - m]
      BY <1>6, <1>8, <2>3
    <3>2. i - m = j - m
      BY <1>1, <3>1 DEF OneToOne
    <3> QED BY <3>2
  <2>4. CASE i \in 1 .. m /\ j \notin 1 .. m
    BY <1>4, <1>6, <1>8, <2>1, <2>4
  <2>5. CASE i \notin 1 .. m /\ j \in 1 .. m
    BY <1>4, <1>6, <1>8, <2>1, <2>5
  <2> QED BY <2>2, <2>3, <2>4, <2>5
<1>9. OneToOne(z)
  BY <1>2, <1>8 DEF OneToOne
<1> QED BY <1>2, <1>7, <1>9

\* put and the references taken change no encoding and no depth, and no parent
\* of a state that stays in use.
Kept(p, r) ==
    /\ r.pool.allocated = p.pool.allocated
    /\ \A x \in State :
          /\ r.st[x].enc = p.st[x].enc /\ r.st[x].depth = p.st[x].depth
          /\ r.st[x].ref # 0 => p.st[x].ref # 0 /\ r.st[x].parent = p.st[x].parent
          /\ r.st[x].parent # Null => r.st[x].parent = p.st[x].parent

\* One reference less.
Less(h, x) == [h EXCEPT ![x] = h[x] - 1]

\* One more.
More(h, x) == [h EXCEPT ![x] = h[x] + 1]

\* The states put returns: the first k of up.
Released(up, k) == {up[j] : j \in 0 .. k - 1}

\* What is known of them: the other states keep their children, a state that is
\* returned has no other child than the one returned before it, and the one where put
\* stops loses one child, unless put stops at once.
PutFacts(s, h, x, up, k, R) ==
    /\ R \in SUBSET State /\ \A y \in R : s[y].ref = 1
    /\ \A i, j \in 0 .. k : up[i] # Null /\ up[i] = up[j] => i = j
    /\ up[k] \in State \cup {Null} /\ up[k] \notin R
    /\ \A y \in R : Kids(s, y) \subseteq R
    /\ \A y \in R \ {x} : h[y] = 0
    /\ x \in R => h[x] = 1
    /\ \A y \in State \ R : y # up[k] => Kids(s, y) \cap R = {}
    /\ up[k] # Null /\ k = 0 => x = up[k] /\ R = {}
    /\ up[k] # Null /\ k # 0 =>
          x # up[k] /\ \E e \in Kids(s, up[k]) : Kids(s, up[k]) \cap R = {e}

\* So it is: the loop of put meets no state twice.
LEMMA ReleasedIs ==
  ASSUME NEW s \in [State -> StateInfo], NEW h \in [State -> Nat], Counted(s, h), Rooted(s),
         NEW x \in State, h[x] # 0, NEW up, up = Ancestor(s, x),
         NEW k \in 0 .. MaxStates, Stops(s, up, k), NEW R, R = Released(up, k)
  PROVE  PutFacts(s, h, x, up, k, R)
<1>1. /\ up \in [0 .. MaxStates -> State \cup {Null}] /\ up[0] = x
      /\ \A i \in 1 .. MaxStates : up[i] = Parent(s, up[i - 1])
  BY AncestorIs
<1>2. k \in Nat /\ k <= MaxStates /\ MaxStates \in Nat
  BY StateFacts
<1>3. \A j \in 0 .. k - 1 : j \in 0 .. MaxStates /\ up[j] \in State /\ s[up[j]].ref = 1
  BY <1>1, <1>2 DEF Stops
<1>4. R \in SUBSET State /\ \A y \in R : s[y].ref = 1
  BY <1>3 DEF Released
<1>5. \A y \in State : /\ s[y] \in StateInfo /\ s[y].depth \in Int /\ s[y].ref \in Nat
                       /\ s[y].parent \in State \cup {Null}
  <2>1. \A y \in State : s[y] \in StateInfo
    OBVIOUS
  <2> QED BY <2>1 DEF StateInfo
<1>6. ASSUME NEW i \in 0 .. k, NEW j \in 0 .. k, up[i] # Null, up[i] = up[j] PROVE i = j
  <2>1. i \in 0 .. MaxStates /\ j \in 0 .. MaxStates /\ i \in Int /\ j \in Int
    BY <1>2
  <2>2. s[up[i]].depth = s[x].depth - i /\ s[up[j]].depth = s[x].depth - j
    BY <1>6, <2>1, AncestorDepth
  <2> QED BY <1>5, <1>6, <2>1, <2>2
<1>7. ASSUME NEW j \in 0 .. k - 1 PROVE s[up[j]].parent = up[j + 1] /\ j + 1 \in 1 .. k
  <2>1. j + 1 \in 1 .. MaxStates /\ (j + 1) - 1 = j /\ j + 1 \in 1 .. k
    BY <1>2
  <2>2. up[j + 1] = Parent(s, up[j]) /\ up[j] # Null
    BY <1>1, <1>3, <2>1, StateFacts
  <2> QED BY <2>1, <2>2 DEF Parent
<1>8. up[k] \in State \cup {Null} /\ up[k] \notin R
  <2>1. up[k] \in State \cup {Null}
    BY <1>1, <1>2
  <2>2. \A j \in 0 .. k - 1 : up[k] # up[j]
    <3> SUFFICES ASSUME NEW j \in 0 .. k - 1, up[k] = up[j] PROVE FALSE
      OBVIOUS
    <3>1. j \in 0 .. k /\ k \in 0 .. k /\ j # k /\ up[j] # Null
      BY <1>2, <1>3, StateFacts
    <3> QED BY <1>6, <3>1
  <2> QED BY <2>1, <2>2 DEF Released
<1>9. \A y \in State : Kids(s, y) \in SUBSET State
  BY DEF Kids
<1>10. \A y \in State : s[y].ref = h[y] + Cardinality(Kids(s, y)) /\ h[y] \in Nat
  BY DEF Counted
<1>11. 0 \in 0 .. k - 1 => h[x] = 1 /\ Kids(s, x) = {}
  <2> SUFFICES ASSUME 0 \in 0 .. k - 1 PROVE h[x] = 1 /\ Kids(s, x) = {}
    OBVIOUS
  <2>1. s[x].ref = 1
    BY <1>1, <1>3
  <2>2. Cardinality(Kids(s, x)) \in Nat /\ (Kids(s, x) # {} <=> Cardinality(Kids(s, x)) > 0)
    BY <1>9, KidsCard
  <2> QED BY <1>10, <2>1, <2>2
<1>12. ASSUME NEW j \in 1 .. k - 1 PROVE h[up[j]] = 0 /\ Kids(s, up[j]) = {up[j - 1]}
  <2>1. j - 1 \in 0 .. k - 1 /\ (j - 1) + 1 = j /\ j \in 0 .. k - 1
    BY <1>2
  <2>2. s[up[j - 1]].parent = up[j] /\ up[j - 1] \in State /\ up[j] \in State /\ s[up[j]].ref = 1
    BY <1>3, <1>7, <2>1
  <2>3. PICK K : K = Kids(s, up[j])
    OBVIOUS
  <2>4. up[j - 1] \in K /\ K \in SUBSET State
    BY <2>2, <2>3 DEF Kids
  <2>5. IsFiniteSet(K) /\ Cardinality(K) \in Nat /\ Cardinality(K) > 0
    BY <2>4, KidsCard
  <2>6. 1 = h[up[j]] + Cardinality(K) /\ h[up[j]] \in Nat
    BY <1>10, <2>2, <2>3
  <2>7. h[up[j]] = 0 /\ Cardinality(K) = 1
    BY <2>5, <2>6
  <2>8. \E e : K = {e}
    BY <2>5, <2>7, FS_Singleton
  <2> QED BY <2>3, <2>4, <2>7, <2>8
<1>13. ASSUME NEW y \in R PROVE Kids(s, y) \subseteq R /\ (y # x => h[y] = 0)
  <2>1. PICK j \in 0 .. k - 1 : y = up[j]
    BY DEF Released
  <2>2. CASE j = 0
    BY <1>1, <1>11, <2>1, <2>2
  <2>3. CASE j # 0
    <3>1. j \in 1 .. k - 1 /\ j - 1 \in 0 .. k - 1
      BY <1>2, <2>3
    <3>2. up[j - 1] \in R
      BY <3>1 DEF Released
    <3> QED BY <1>12, <2>1, <3>1, <3>2
  <2> QED BY <2>2, <2>3
<1>14. x \in R => h[x] = 1
  <2> SUFFICES ASSUME x \in R PROVE h[x] = 1
    OBVIOUS
  <2>1. PICK j \in 0 .. k - 1 : x = up[j]
    BY DEF Released
  <2>2. 0 \in 0 .. k - 1
    BY <1>2
  <2> QED BY <1>11, <2>2
<1>15. ASSUME NEW y \in State, NEW e \in Kids(s, y) \cap R
       PROVE  \E j \in 0 .. k - 1 : e = up[j] /\ y = up[j + 1]
  <2>1. PICK j \in 0 .. k - 1 : e = up[j]
    BY DEF Released
  <2>2. s[e].parent = y
    BY <1>15 DEF Kids
  <2> QED BY <1>7, <2>1, <2>2
<1>16. ASSUME NEW y \in State \ R, y # up[k] PROVE Kids(s, y) \cap R = {}
  <2> SUFFICES ASSUME NEW e \in Kids(s, y) \cap R PROVE FALSE
    OBVIOUS
  <2>1. PICK j \in 0 .. k - 1 : e = up[j] /\ y = up[j + 1]
    BY <1>15
  <2>2. j + 1 = k \/ j + 1 \in 0 .. k - 1
    BY <1>2
  <2> QED BY <1>16, <2>1, <2>2 DEF Released
<1>17. up[k] # Null /\ k = 0 => x = up[k] /\ R = {}
  <2>1. k = 0 => 0 .. k - 1 = {}
    OBVIOUS
  <2> QED BY <1>1, <2>1 DEF Released
<1>18. ASSUME up[k] # Null, k # 0
       PROVE  x # up[k] /\ \E e \in Kids(s, up[k]) : Kids(s, up[k]) \cap R = {e}
  <2>1. 0 \in 0 .. k /\ k \in 0 .. k /\ k - 1 \in 0 .. k - 1 /\ (k - 1) + 1 = k
    BY <1>2, <1>18
  <2>2. x # up[k]
    BY <1>1, <1>6, <1>18, <2>1
  <2>3. PICK e : e = up[k - 1]
    OBVIOUS
  <2>4. e \in Kids(s, up[k]) /\ e \in R
    BY <1>3, <1>7, <2>1, <2>3 DEF Kids, Released
  <2>5. ASSUME NEW f \in Kids(s, up[k]) \cap R PROVE f = e
    <3>1. PICK j \in 0 .. k - 1 : f = up[j] /\ up[k] = up[j + 1]
      BY <1>8, <1>15, <1>18
    <3>2. j + 1 \in 0 .. k
      BY <1>2
    <3>3. k = j + 1
      BY <1>6, <1>18, <2>1, <3>1, <3>2
    <3>4. j = k - 1
      BY <1>2, <3>3
    <3> QED BY <2>3, <3>1, <3>4
  <2> QED BY <2>2, <2>4, <2>5
<1> QED BY <1>4, <1>6, <1>8, <1>13, <1>14, <1>16, <1>17, <1>18 DEF PutFacts

\* put: one holder of x less.
LEMMA PutIs ==
  ASSUME NEW p, NEW h \in [State -> Nat], Good(p, h), NEW x \in State, h[x] # 0,
         NEW r, r = AfterPut(p, x)
  PROVE  Good(r, Less(h, x)) /\ Less(h, x) \in [State -> Nat] /\ Kept(p, r)
<1>1. Typed(p) /\ Counted(p.st, h) /\ Rooted(p.st) /\ Pooled(p)
  BY DEF Good
<1>2. /\ p.st \in [State -> StateInfo] /\ p.pool.free \in Seq(State)
      /\ p.pool.allocated \in 1 .. MaxStates
      /\ p.pool \in [free : Seq(State), allocated : 1 .. MaxStates]
  BY <1>1, TypedFacts
<1>3. PICK s, up, f, a : s = p.st /\ up = Ancestor(p.st, x) /\ f = p.pool.free /\ a = p.pool.allocated
  OBVIOUS
<1>4. PICK k \in 0 .. MaxStates : k = PutReleases(p, x) /\ Stops(s, up, k)
  <2>1. \E j \in 0 .. MaxStates : Stops(s, up, j)
    BY <1>1, <1>2, <1>3, PutStops
  <2>2. PutReleases(p, x) = CHOOSE j \in 0 .. MaxStates : Stops(s, up, j)
    BY <1>3 DEF PutReleases, Stops
  <2> QED BY <2>1, <2>2
<1>5. PICK R : R = Released(up, k)
  OBVIOUS
<1>6. PICK u : u = [j \in 1 .. k |-> up[k - j]]
  OBVIOUS
<1>7. /\ R \in SUBSET State /\ \A y \in R : s[y].ref = 1
      /\ \A i, j \in 0 .. k : up[i] # Null /\ up[i] = up[j] => i = j
      /\ up[k] \in State \cup {Null} /\ up[k] \notin R
      /\ \A y \in R : Kids(s, y) \subseteq R
      /\ \A y \in R \ {x} : h[y] = 0
      /\ x \in R => h[x] = 1
      /\ \A y \in State \ R : y # up[k] => Kids(s, y) \cap R = {}
      /\ up[k] # Null /\ k = 0 => x = up[k] /\ R = {}
      /\ up[k] # Null /\ k # 0 =>
            x # up[k] /\ \E e \in Kids(s, up[k]) : Kids(s, up[k]) \cap R = {e}
  <2>1. s \in [State -> StateInfo] /\ Counted(s, h) /\ Rooted(s) /\ up = Ancestor(s, x)
    BY <1>1, <1>2, <1>3
  <2>2. Stops(s, up, k) /\ h[x] # 0 /\ k \in 0 .. MaxStates
    BY <1>4
  <2>3. PutFacts(s, h, x, up, k, R)
    BY <1>5, <2>1, <2>2, ReleasedIs
  <2> QED BY <2>3 DEF PutFacts
<1>8. /\ up \in [0 .. MaxStates -> State \cup {Null}] /\ up[0] = x
  <2>1. s \in [State -> StateInfo] /\ x \in State /\ up = Ancestor(s, x)
    BY <1>2, <1>3
  <2> QED BY ONLY <2>1, AncestorIs
<1>9. k \in Nat /\ k <= MaxStates
  BY StateFacts
<1>10. PICK t : t = [y \in State |->
                       IF y \in R THEN [s[y] EXCEPT !.ref = 0, !.parent = Null]
                       ELSE IF y = up[k] THEN [s[y] EXCEPT !.ref = s[y].ref - 1]
                       ELSE s[y]]
  OBVIOUS
<1>11. r = [st |-> t, pool |-> [p.pool EXCEPT !.free = u \o f]]
  BY <1>3, <1>4, <1>5, <1>6, <1>10 DEF AfterPut, Released
<1>12. r.st = t /\ r.pool = [p.pool EXCEPT !.free = u \o f]
  BY <1>11
<1>13. r.pool.free = u \o f /\ r.pool.allocated = a
  BY <1>2, <1>3, <1>12
<1>14. \A y \in State : /\ s[y] \in StateInfo /\ s[y].ref \in Nat /\ s[y].depth \in Int
                        /\ s[y].enc \in Encodings \cup {Null} /\ s[y].parent \in State \cup {Null}
  BY <1>1, <1>3, TypedFacts
<1>15. \A y \in State : s[y].ref = h[y] + Cardinality(Kids(s, y)) /\ h[y] \in Nat
  BY <1>1, <1>3 DEF Counted
<1>16. \A y \in State : /\ Kids(s, y) \in SUBSET State /\ IsFiniteSet(Kids(s, y))
                        /\ Cardinality(Kids(s, y)) \in Nat
                        /\ (Kids(s, y) # {} <=> Cardinality(Kids(s, y)) > 0)
  <2>1. \A y \in State : Kids(s, y) \in SUBSET State
    BY DEF Kids
  <2> QED BY <2>1, KidsCard
<1>17. up[k] # Null => /\ up[k] \in State /\ s[up[k]].ref - 1 \in Nat /\ s[up[k]].ref - 1 # 0
  <2> SUFFICES ASSUME up[k] # Null
               PROVE  /\ up[k] \in State /\ s[up[k]].ref - 1 \in Nat /\ s[up[k]].ref - 1 # 0
    OBVIOUS
  <2>1. up[k] \in State /\ s[up[k]].ref # 1
    BY <1>4, <1>7 DEF Stops
  <2>2. PICK n \in Nat, c \in Nat : s[up[k]].ref = n + c /\ n = h[up[k]] /\ c = Cardinality(Kids(s, up[k]))
    BY <1>15, <1>16, <2>1
  <2>3. n # 0 \/ c # 0
    <3>1. CASE k = 0
      BY <1>7, <2>2, <3>1
    <3>2. CASE k # 0
      <4>1. Kids(s, up[k]) # {}
        BY <1>7, <3>2
      <4> QED BY <1>16, <2>1, <2>2, <4>1
    <3> QED BY <3>1, <3>2
  <2> QED BY <2>1, <2>2, <2>3
<1>18. ASSUME NEW y \in State
       PROVE  /\ t[y] \in StateInfo /\ t[y].enc = s[y].enc /\ t[y].depth = s[y].depth
              /\ t[y].parent = IF y \in R THEN Null ELSE s[y].parent
              /\ t[y].ref = IF y \in R THEN 0 ELSE IF y = up[k] THEN s[y].ref - 1 ELSE s[y].ref
  <2>1. CASE y \in R
    <3>0. PICK n \in Nat : n = 0
      OBVIOUS
    <3>1. t[y] = [s[y] EXCEPT !.ref = n, !.parent = Null]
      BY <1>10, <2>1, <3>0
    <3>2. s[y] \in StateInfo
      BY <1>14
    <3>3. /\ t[y].enc = s[y].enc /\ t[y].depth = s[y].depth
          /\ t[y].parent = Null /\ t[y].ref = 0
      BY <3>0, <3>1, <3>2 DEF StateInfo
    <3>4. t[y] \in StateInfo
      BY <3>1, <3>2 DEF StateInfo
    <3> QED BY <2>1, <3>3, <3>4
  <2>2. CASE y \notin R /\ y = up[k]
    <3>1. PICK n : n = s[y].ref - 1
      OBVIOUS
    <3>2. t[y] = [s[y] EXCEPT !.ref = n]
      BY <1>10, <2>2, <3>1
    <3>3. s[y] \in StateInfo /\ n \in Nat
      BY <1>14, <1>17, <2>2, <3>1, StateFacts
    <3>4. t[y] \in StateInfo /\ t[y].enc = s[y].enc /\ t[y].depth = s[y].depth
          /\ t[y].parent = s[y].parent /\ t[y].ref = n
      BY <3>2, <3>3 DEF StateInfo
    <3> QED BY <2>2, <3>1, <3>4
  <2>3. CASE y \notin R /\ y # up[k]
    BY <1>10, <1>14, <2>3
  <2> QED BY <2>1, <2>2, <2>3
<1>19. t \in [State -> StateInfo]
  BY <1>10, <1>18
<1>20. \A y \in State : Kids(t, y) = Kids(s, y) \ R
  BY <1>18, StateFacts DEF Kids
<1>21. x \in R \/ x = up[k]
  <2>1. k = 0 \/ 0 \in 0 .. k - 1
    BY <1>9
  <2> QED BY <1>5, <1>8, <2>1 DEF Released
<1>22. PICK g : g = Less(h, x)
  OBVIOUS
<1>23. g \in [State -> Nat] /\ g[x] = h[x] - 1 /\ \A y \in State : y # x => g[y] = h[y]
  BY <1>15, <1>22 DEF Less
<1>24. Counted(t, g)
  <2> SUFFICES ASSUME NEW y \in State PROVE t[y].ref = g[y] + Cardinality(Kids(t, y))
    BY DEF Counted
  <2>1. CASE y \in R
    <3>1. Kids(t, y) = {}
      BY <1>7, <1>20, <2>1
    <3>2. Cardinality(Kids(t, y)) = 0
      BY <3>1, FS_EmptySet
    <3>3. g[y] = 0
      BY <1>7, <1>23, <2>1
    <3> QED BY <1>18, <2>1, <3>2, <3>3
  <2>2. CASE y \notin R /\ y = up[k]
    <3>1. up[k] # Null
      BY <2>2, StateFacts
    <3>2. t[y].ref = s[y].ref - 1
      BY <1>18, <2>2
    <3>3. CASE k = 0
      <4>1. Kids(t, y) = Kids(s, y) /\ x = y
        BY <1>7, <1>20, <2>2, <3>1, <3>3
      <4> QED BY <1>14, <1>15, <1>16, <1>23, <3>2, <4>1
    <3>4. CASE k # 0
      <4>1. PICK e \in Kids(s, y) : Kids(s, y) \cap R = {e}
        BY <1>7, <2>2, <3>1, <3>4
      <4>2. Kids(t, y) = Kids(s, y) \ {e} /\ x # y
        BY <1>7, <1>20, <2>2, <3>1, <3>4, <4>1
      <4>3. Cardinality(Kids(t, y)) = Cardinality(Kids(s, y)) - 1
        BY <1>16, <4>1, <4>2, CardRemove
      <4>4. g[y] = h[y]
        BY <1>23, <4>2
      <4> QED BY <1>14, <1>15, <1>16, <3>2, <4>3, <4>4
    <3> QED BY <3>3, <3>4
  <2>3. CASE y \notin R /\ y # up[k]
    <3>1. Kids(t, y) = Kids(s, y)
      BY <1>7, <1>20, <2>3
    <3>2. g[y] = h[y]
      BY <1>21, <1>23, <2>3
    <3>3. t[y].ref = s[y].ref
      BY <1>18, <2>3
    <3> QED BY <1>15, <3>1, <3>2, <3>3
  <2> QED BY <2>1, <2>2, <2>3
<1>25. ASSUME NEW y \in State PROVE t[y].ref = 0 <=> y \in R \/ s[y].ref = 0
  <2>1. y = up[k] => s[y].ref # 0 /\ s[y].ref - 1 # 0
    BY <1>14, <1>17, StateFacts
  <2> QED BY <1>18, <2>1
<1>26. Rooted(t)
  <2> SUFFICES ASSUME NEW y \in State, t[y].parent # Null
               PROVE  t[y].ref # 0 /\ t[y].depth = t[t[y].parent].depth + 1
    BY DEF Rooted
  <2>1. y \notin R /\ t[y].parent = s[y].parent /\ s[y].parent # Null /\ s[y].parent \in State
    BY <1>14, <1>18
  <2>2. s[y].ref # 0 /\ s[y].depth = s[s[y].parent].depth + 1
    BY <1>1, <1>3, <2>1 DEF Rooted
  <2> QED BY <1>18, <1>25, <2>1, <2>2
<1>27. u \in Seq(State) /\ OneToOne(u) /\ Entries(u) = R
  <2>1. ASSUME NEW j \in 1 .. k PROVE k - j \in 0 .. k - 1 /\ u[j] = up[k - j] /\ u[j] \in R
    <3>1. k - j \in 0 .. k - 1
      BY <1>9
    <3>2. u[j] = up[k - j]
      BY <1>6
    <3> QED BY <1>5, <3>1, <3>2 DEF Released
  <2>2. u \in [1 .. k -> State]
    BY <1>6, <1>7, <2>1
  <2>3. u \in Seq(State) /\ Len(u) = k
    BY <1>9, <2>2, FunSeq
  <2>4. ASSUME NEW i \in 1 .. k, NEW j \in 1 .. k, u[i] = u[j] PROVE i = j
    <3>1. k - i \in 0 .. k /\ k - j \in 0 .. k /\ up[k - i] = up[k - j]
      BY <1>9, <2>1, <2>4
    <3>2. up[k - i] # Null
      BY <1>7, <2>1, StateFacts
    <3>3. k - i = k - j
      BY <1>7, <3>1, <3>2
    <3> QED BY <1>9, <3>3
  <2>5. ASSUME NEW y \in R PROVE \E j \in 1 .. k : y = u[j]
    <3>1. PICK i \in 0 .. k - 1 : y = up[i]
      BY <1>5 DEF Released
    <3>2. k - i \in 1 .. k /\ k - (k - i) = i
      BY <1>9
    <3> QED BY <2>1, <3>1, <3>2
  <2>6. Entries(u) = R
    <3>1. Len(u) = k
      BY <2>3
    <3>2. \A j \in 1 .. k : u[j] \in R
      BY <2>1
    <3> QED BY <2>5, <3>1, <3>2 DEF Entries
  <2> QED BY <2>3, <2>4, <2>6 DEF OneToOne
<1>28. /\ OneToOne(f) /\ \A y \in State : y > a => s[y].ref = 0
       /\ \A y \in State : y \in Entries(f) <=> y <= a /\ s[y].ref = 0
  BY <1>1, <1>3 DEF Pooled
<1>29. PICK z : z = u \o f
  OBVIOUS
<1>30. z \in Seq(State) /\ OneToOne(z) /\ Entries(z) = R \cup Entries(f)
  <2>1. R \cap Entries(f) = {}
    <3>1. \A y \in R : y \in State /\ s[y].ref = 1
      BY <1>7
    <3> QED BY <1>28, <3>1
  <2>2. f \in Seq(State)
    BY <1>2, <1>3
  <2>3. u \in Seq(State) /\ OneToOne(u) /\ OneToOne(f) /\ Entries(u) \cap Entries(f) = {}
    BY <1>27, <1>28, <2>1
  <2>4. z \in Seq(State) /\ OneToOne(z) /\ Entries(z) = Entries(u) \cup Entries(f)
    BY <1>29, <2>2, <2>3, ConcatIs
  <2> QED BY <1>27, <2>4
<1>31. \A y \in R : y <= a
  <2>1. \A y \in R : y \in State /\ s[y].ref # 0
    BY <1>7
  <2>2. \A y \in State : y \in Nat
    BY StateFacts
  <2>3. a \in Nat
    BY <1>2, <1>3, StateFacts
  <2> QED BY <1>28, <2>1, <2>2, <2>3
<1>32. Typed(r)
  <2>1. r.pool \in [free : Seq(State), allocated : 1 .. MaxStates]
    BY <1>2, <1>12, <1>29, <1>30
  <2> QED BY <1>11, <1>12, <1>19, <2>1 DEF Typed
<1>33. Pooled(r)
  <2>1. \A y \in State : y \in Entries(z) <=> y <= a /\ t[y].ref = 0
    BY <1>25, <1>28, <1>30, <1>31
  <2>2. \A y \in State : y > a => t[y].ref = 0
    BY <1>25, <1>28
  <2> QED BY <1>12, <1>13, <1>29, <1>30, <2>1, <2>2 DEF Pooled
<1>34. Good(r, g)
  BY <1>12, <1>24, <1>26, <1>32, <1>33 DEF Good
<1>35. Kept(p, r)
  <2>1. ASSUME NEW y \in State
        PROVE  /\ r.st[y].enc = p.st[y].enc /\ r.st[y].depth = p.st[y].depth
               /\ r.st[y].ref # 0 => p.st[y].ref # 0 /\ r.st[y].parent = p.st[y].parent
               /\ r.st[y].parent # Null => r.st[y].parent = p.st[y].parent
    <3>1. r.st[y] = t[y] /\ p.st[y] = s[y]
      BY <1>3, <1>12
    <3>2. t[y].ref # 0 => y \notin R /\ s[y].ref # 0
      BY <1>25
    <3> QED BY <1>18, <3>1, <3>2
  <2> QED BY <1>3, <1>13, <2>1 DEF Kept
<1> QED BY <1>22, <1>23, <1>34, <1>35

\* Changing one state: t is s with x made e.
Changed(t, s, x, e) == t = [s EXCEPT ![x] = e]

\* Only that state changes.
LEMMA ChangedIs ==
  ASSUME NEW s \in [State -> StateInfo], NEW x \in State, NEW e \in StateInfo, NEW t, Changed(t, s, x, e)
  PROVE  t \in [State -> StateInfo] /\ t[x] = e /\ \A y \in State : y # x => t[y] = s[y]
BY DEF Changed

\* A holder more of a state in use.
LEMMA AddRefIs ==
  ASSUME NEW p, NEW h \in [State -> Nat], Good(p, h), NEW x \in State, p.st[x].ref # 0,
         NEW r, r = AddRef(p, x)
  PROVE  /\ Good(r, More(h, x)) /\ More(h, x) \in [State -> Nat] /\ Kept(p, r)
         /\ r.pool = p.pool
         /\ \A y \in State : r.st[y].parent = p.st[y].parent /\ (r.st[y].ref = 0 <=> p.st[y].ref = 0)
<1>1. Typed(p) /\ Counted(p.st, h) /\ Rooted(p.st) /\ Pooled(p)
  BY DEF Good
<1>2. PICK s, n, e, t : /\ s = p.st /\ n = s[x].ref + 1 /\ e = [s[x] EXCEPT !.ref = n]
                        /\ t = [s EXCEPT ![x] = e]
  OBVIOUS
<1>3. /\ s \in [State -> StateInfo]
      /\ \A y \in State : /\ s[y] \in StateInfo /\ s[y].ref \in Nat /\ s[y].depth \in Int
                          /\ s[y].parent \in State \cup {Null}
  BY <1>1, <1>2, TypedFacts
<1>4. p \in [st : [State -> StateInfo], pool : [free : Seq(State), allocated : 1 .. MaxStates]]
  BY <1>1 DEF Typed
<1>5. r = [p EXCEPT !.st = t]
  BY <1>2, <1>4 DEF AddRef
<1>6. r.st = t /\ r.pool = p.pool
  BY <1>4, <1>5
<1>7. n \in Nat /\ n # 0
  BY <1>2, <1>3
<1>8. /\ e.enc = s[x].enc /\ e.depth = s[x].depth /\ e.parent = s[x].parent /\ e.ref = n
  BY <1>2, <1>3 DEF StateInfo
<1>9. e \in StateInfo
  BY <1>2, <1>3, <1>7 DEF StateInfo
<1>10. t \in [State -> StateInfo] /\ t[x] = e /\ \A y \in State : y # x => t[y] = s[y]
  BY <1>2, <1>3, <1>9, ChangedIs DEF Changed
<1>11. ASSUME NEW y \in State
       PROVE  /\ t[y].enc = s[y].enc /\ t[y].depth = s[y].depth /\ t[y].parent = s[y].parent
              /\ t[y].ref = 0 <=> s[y].ref = 0
  BY <1>2, <1>7, <1>8, <1>10
<1>12. PICK g : g = More(h, x)
  OBVIOUS
<1>13. g \in [State -> Nat] /\ g[x] = h[x] + 1 /\ \A y \in State : y # x => g[y] = h[y]
  BY <1>12 DEF More
<1>14. Counted(t, g)
  <2> SUFFICES ASSUME NEW y \in State PROVE t[y].ref = g[y] + Cardinality(Kids(t, y))
    BY DEF Counted
  <2>1. Kids(t, y) = Kids(s, y)
    BY <1>11 DEF Kids
  <2>2. PICK c \in Nat : c = Cardinality(Kids(s, y))
    <3>1. Kids(s, y) \in SUBSET State
      BY DEF Kids
    <3> QED BY <3>1, KidsCard
  <2>3. s[y].ref = h[y] + c /\ h[y] \in Nat
    BY <1>1, <1>2, <2>2 DEF Counted
  <2>4. CASE y = x
    BY <1>2, <1>8, <1>10, <1>13, <2>1, <2>2, <2>3, <2>4
  <2>5. CASE y # x
    BY <1>10, <1>13, <2>1, <2>2, <2>3, <2>5
  <2> QED BY <2>4, <2>5
<1>15. Rooted(t)
  <2> SUFFICES ASSUME NEW y \in State, t[y].parent # Null
               PROVE  t[y].ref # 0 /\ t[y].depth = t[t[y].parent].depth + 1
    BY DEF Rooted
  <2>1. t[y].parent = s[y].parent /\ s[y].parent \in State
    BY <1>3, <1>11
  <2>2. s[y].ref # 0 /\ s[y].depth = s[s[y].parent].depth + 1
    BY <1>1, <1>2, <2>1, StateFacts DEF Rooted
  <2> QED BY <1>11, <2>1, <2>2
<1>16. Typed(r)
  BY <1>4, <1>5, <1>10 DEF Typed
<1>17. Pooled(r)
  BY <1>1, <1>2, <1>6, <1>11 DEF Pooled
<1>18. Good(r, g)
  BY <1>6, <1>14, <1>15, <1>16, <1>17 DEF Good
<1>19. Kept(p, r)
  BY <1>2, <1>6, <1>11 DEF Kept
<1> QED BY <1>2, <1>6, <1>11, <1>12, <1>13, <1>18, <1>19

\* A list without its first entry.
LEMMA TailIs ==
  ASSUME NEW q \in Seq(State), OneToOne(q), q # <<>>, NEW z, z = Tail(q)
  PROVE  /\ z \in Seq(State) /\ OneToOne(z) /\ Entries(z) = Entries(q) \ {Head(q)}
         /\ Head(q) \in Entries(q) /\ Head(q) \in State /\ Len(z) = Len(q) - 1
<1>1. PICK n : n = Len(q)
  OBVIOUS
<1>2. n \in Nat /\ n # 0 /\ Head(q) = q[1] /\ 1 \in 1 .. n
  BY <1>1, LenProperties, EmptySeq
<1>3. z \in Seq(State) /\ Len(z) = n - 1 /\ \A i \in 1 .. n - 1 : z[i] = q[i + 1]
  BY <1>1, HeadTailProperties
<1>4. \A i, j \in 1 .. n : q[i] = q[j] => i = j
  BY <1>1 DEF OneToOne
<1>5. ASSUME NEW i \in 1 .. n - 1 PROVE i + 1 \in 1 .. n /\ z[i] = q[i + 1] /\ i + 1 # 1
  BY <1>2, <1>3
<1>6. OneToOne(z)
  <2> SUFFICES ASSUME NEW i \in 1 .. n - 1, NEW j \in 1 .. n - 1, z[i] = z[j] PROVE i = j
    BY <1>3 DEF OneToOne
  <2>1. i + 1 = j + 1
    BY <1>4, <1>5
  <2> QED BY <2>1
<1>7. Head(q) \in Entries(q) /\ Head(q) \in State
  <2>1. q[1] \in State
    BY <1>1, <1>2, ElementOfSeq
  <2> QED BY <1>1, <1>2, <2>1 DEF Entries
<1>8. ASSUME NEW y \in Entries(z) PROVE y \in Entries(q) /\ y # Head(q)
  <2>1. PICK i \in 1 .. n - 1 : y = z[i]
    BY <1>3 DEF Entries
  <2>2. i + 1 \in 1 .. n /\ y = q[i + 1] /\ i + 1 # 1
    BY <1>5, <2>1
  <2> QED BY <1>1, <1>2, <1>4, <2>2 DEF Entries
<1>9. ASSUME NEW y \in Entries(q), y # Head(q) PROVE y \in Entries(z)
  <2>1. PICK i \in 1 .. n : y = q[i]
    BY <1>1 DEF Entries
  <2>2. i # 1
    BY <1>2, <1>9, <2>1
  <2>3. i - 1 \in 1 .. n - 1 /\ (i - 1) + 1 = i
    BY <1>2, <2>2
  <2> QED BY <1>3, <2>1, <2>3 DEF Entries
<1>10. Entries(z) = Entries(q) \ {Head(q)}
  BY <1>8, <1>9
<1> QED BY <1>1, <1>3, <1>6, <1>7, <1>10

\* get: the state it returns was in nobody's use, and has one holder now.
LEMMA GetIs ==
  ASSUME NEW p, NEW h \in [State -> Nat], Good(p, h), NEW x \in State, x = GetState(p),
         NEW r, r = AfterGet(p)
  PROVE  /\ Good(r, More(h, x)) /\ More(h, x) \in [State -> Nat]
         /\ p.st[x].ref = 0 /\ h[x] = 0 /\ Kids(p.st, x) = {}
         /\ Changed(r.st, p.st, x, FreshState) /\ x <= r.pool.allocated
         /\ FreshState \in StateInfo
<1>1. Typed(p) /\ Counted(p.st, h) /\ Rooted(p.st) /\ Pooled(p)
  BY DEF Good
<1>2. PICK s, f, a, t : /\ s = p.st /\ f = p.pool.free /\ a = p.pool.allocated
                        /\ t = [s EXCEPT ![x] = FreshState]
  OBVIOUS
<1>3. /\ s \in [State -> StateInfo] /\ f \in Seq(State) /\ a \in 1 .. MaxStates
      /\ p.pool \in [free : Seq(State), allocated : 1 .. MaxStates]
      /\ \A y \in State : /\ s[y] \in StateInfo /\ s[y].ref \in Nat /\ s[y].depth \in Int
                          /\ s[y].parent \in State \cup {Null}
  BY <1>1, <1>2, TypedFacts
<1>4. /\ OneToOne(f) /\ \A y \in State : y > a => s[y].ref = 0
      /\ \A y \in State : y \in Entries(f) <=> y <= a /\ s[y].ref = 0
  BY <1>1, <1>2 DEF Pooled
<1>5. PICK b : b = IF f # <<>> THEN [p.pool EXCEPT !.free = Tail(f)]
                   ELSE [p.pool EXCEPT !.allocated = a + 1]
  OBVIOUS
<1>6. r = [st |-> t, pool |-> b]
  <2>1. r = [st |-> [p.st EXCEPT ![x] = FreshState],
             pool |-> IF p.pool.free # <<>> THEN [p.pool EXCEPT !.free = Tail(p.pool.free)]
                      ELSE [p.pool EXCEPT !.allocated = p.pool.allocated + 1]]
    BY DEF AfterGet
  <2> QED BY <1>2, <1>5, <2>1
<1>7. a \in Nat /\ a <= MaxStates /\ MaxStates \in Nat /\ \A y \in State : y \in Nat /\ y <= MaxStates
  BY <1>3, StateFacts
<1>8. /\ s[x].ref = 0
      /\ b \in [free : Seq(State), allocated : 1 .. MaxStates]
      /\ OneToOne(b.free) /\ x <= b.allocated
      /\ \A y \in State : y > b.allocated => s[y].ref = 0 /\ y # x
      /\ \A y \in State : y \in Entries(b.free) <=> y <= b.allocated /\ s[y].ref = 0 /\ y # x
  <2>1. CASE f # <<>>
    <3>1. PICK z : z = Tail(f)
      OBVIOUS
    <3>2. /\ z \in Seq(State) /\ OneToOne(z) /\ Entries(z) = Entries(f) \ {Head(f)}
          /\ Head(f) \in Entries(f) /\ Head(f) \in State
      BY <1>3, <1>4, <2>1, <3>1, TailIs
    <3>3. x = Head(f)
      BY <1>2, <2>1 DEF GetState
    <3>4. b = [p.pool EXCEPT !.free = z]
      BY <1>5, <2>1, <3>1
    <3>5. b \in [free : Seq(State), allocated : 1 .. MaxStates] /\ b.free = z /\ b.allocated = a
      BY <1>2, <1>3, <3>2, <3>4
    <3>6. s[x].ref = 0 /\ x <= a
      BY <1>4, <3>2, <3>3
    <3>7. \A y \in State : y > a => y # x
      BY <1>7, <3>6
    <3> QED BY <1>4, <3>2, <3>3, <3>5, <3>6, <3>7
  <2>2. CASE f = <<>>
    <3>1. x = a + 1
      BY <1>2, <2>2 DEF GetState
    <3>2. s[x].ref = 0 /\ a + 1 \in 1 .. MaxStates
      BY <1>4, <1>7, <3>1
    <3>3. b = [p.pool EXCEPT !.allocated = x]
      BY <1>5, <2>2, <3>1
    <3>4. b \in [free : Seq(State), allocated : 1 .. MaxStates] /\ b.free = f /\ b.allocated = x
      BY <1>2, <1>3, <3>1, <3>2, <3>3
    <3>5. Entries(f) = {}
      BY <2>2 DEF Entries
    <3>6. ASSUME NEW y \in State
          PROVE  /\ y > x => s[y].ref = 0 /\ y # x
                 /\ y \notin Entries(f) /\ (y <= x /\ s[y].ref = 0 => y = x)
      <4>1. y > x => y > a /\ y # x
        BY <1>7, <3>1
      <4>2. y <= x => y <= a \/ y = x
        BY <1>7, <3>1
      <4> QED BY <1>4, <3>5, <4>1, <4>2
    <3>7. x <= x
      BY <1>7
    <3> QED BY <1>4, <3>2, <3>4, <3>5, <3>6, <3>7
  <2> QED BY <2>1, <2>2
<1>9. s[x].parent = Null
  BY <1>1, <1>2, <1>8 DEF Rooted
<1>10. FreshState \in StateInfo /\ FreshState.ref = 1 /\ FreshState.parent = Null
  BY DEF FreshState, StateInfo
<1>11. t \in [State -> StateInfo] /\ t[x] = FreshState /\ \A y \in State : y # x => t[y] = s[y]
  BY <1>2, <1>3, <1>10, ChangedIs DEF Changed
<1>12. \A y \in State : t[y].parent = s[y].parent
  BY <1>9, <1>10, <1>11
<1>13. h[x] = 0 /\ Kids(s, x) = {}
  <2>1. Kids(s, x) \in SUBSET State
    BY DEF Kids
  <2>2. PICK c \in Nat : c = Cardinality(Kids(s, x)) /\ (Kids(s, x) # {} <=> c > 0)
    BY <2>1, KidsCard
  <2>3. s[x].ref = h[x] + c /\ h[x] \in Nat
    BY <1>1, <1>2, <2>2 DEF Counted
  <2> QED BY <1>8, <2>2, <2>3
<1>14. PICK g : g = More(h, x)
  OBVIOUS
<1>15. g \in [State -> Nat] /\ g[x] = 1 /\ \A y \in State : y # x => g[y] = h[y]
  BY <1>13, <1>14 DEF More
<1>16. Counted(t, g)
  <2> SUFFICES ASSUME NEW y \in State PROVE t[y].ref = g[y] + Cardinality(Kids(t, y))
    BY DEF Counted
  <2>1. Kids(t, y) = Kids(s, y)
    BY <1>12 DEF Kids
  <2>2. CASE y = x
    <3>1. Cardinality(Kids(t, y)) = 0
      BY <1>13, <2>1, <2>2, FS_EmptySet
    <3> QED BY <1>10, <1>11, <1>15, <2>2, <3>1
  <2>3. CASE y # x
    BY <1>1, <1>2, <1>11, <1>15, <2>1, <2>3 DEF Counted
  <2> QED BY <2>2, <2>3
<1>17. Rooted(t)
  <2> SUFFICES ASSUME NEW y \in State, t[y].parent # Null
               PROVE  t[y].ref # 0 /\ t[y].depth = t[t[y].parent].depth + 1
    BY DEF Rooted
  <2>1. t[y].parent = s[y].parent /\ s[y].parent \in State /\ y # x /\ s[y].parent # x
    BY <1>3, <1>9, <1>12, <1>13 DEF Kids
  <2>2. s[y].ref # 0 /\ s[y].depth = s[s[y].parent].depth + 1
    BY <1>1, <1>2, <2>1, StateFacts DEF Rooted
  <2> QED BY <1>11, <2>1, <2>2
<1>18. r.st = t /\ r.pool = b
  BY <1>6
<1>19. Typed(r)
  BY <1>6, <1>8, <1>11 DEF Typed
<1>20. Pooled(r)
  <2>1. \A y \in State : t[y].ref = 0 <=> s[y].ref = 0 /\ y # x
    BY <1>10, <1>11
  <2>2. \A y \in State : y > b.allocated => t[y].ref = 0
    BY <1>8, <2>1
  <2>3. \A y \in State : y \in Entries(b.free) <=> y <= b.allocated /\ t[y].ref = 0
    BY <1>8, <2>1
  <2> QED BY <1>8, <1>18, <2>2, <2>3 DEF Pooled
<1>21. Good(r, g)
  BY <1>16, <1>17, <1>18, <1>19, <1>20 DEF Good
<1> QED BY <1>2, <1>8, <1>10, <1>13, <1>14, <1>15, <1>18, <1>21 DEF Changed

\* DuplicateFrom: x is a copy of y from now on and holds it.
LEMMA DuplicatedIs ==
  ASSUME NEW p, NEW h \in [State -> Nat], Good(p, h), NEW x \in State, NEW y \in State, x # y,
         p.st[x].ref # 0, p.st[x].parent = Null, Kids(p.st, x) = {}, p.st[y].ref # 0,
         NEW r, r = Duplicated(p, x, y)
  PROVE  /\ Good(r, h) /\ r.pool = p.pool
         /\ r.st[x].parent = y /\ r.st[x].enc = p.st[y].enc /\ r.st[x].depth = p.st[y].depth + 1
         /\ \A z \in State : r.st[z].ref = 0 <=> p.st[z].ref = 0
         /\ \A z \in State \ {x} : /\ r.st[z].enc = p.st[z].enc /\ r.st[z].depth = p.st[z].depth
                                   /\ r.st[z].parent = p.st[z].parent
<1>1. Typed(p) /\ Counted(p.st, h) /\ Rooted(p.st) /\ Pooled(p)
  BY DEF Good
<1>2. PICK s, d, c : s = p.st /\ d = p.st[y].depth + 1 /\ c = p.st[y].enc
  OBVIOUS
<1>3. /\ s \in [State -> StateInfo]
      /\ \A z \in State : /\ s[z] \in StateInfo /\ s[z].ref \in Nat /\ s[z].depth \in Int
                          /\ s[z].parent \in State \cup {Null} /\ s[z].enc \in Encodings \cup {Null}
  BY <1>1, <1>2, TypedFacts
<1>4. p \in [st : [State -> StateInfo], pool : [free : Seq(State), allocated : 1 .. MaxStates]]
  BY <1>1 DEF Typed
<1>5. PICK e, n, f : /\ e = [s[x] EXCEPT !.enc = c, !.depth = d, !.parent = y]
                     /\ n = s[y].ref + 1 /\ f = [s[y] EXCEPT !.ref = n]
  OBVIOUS
<1>6. PICK u : u = [s EXCEPT ![x] = e]
  OBVIOUS
<1>7. PICK t : t = [u EXCEPT ![y] = f]
  OBVIOUS
<1>8. d \in Int /\ c \in Encodings \cup {Null} /\ n \in Nat /\ n # 0
  BY <1>2, <1>3, <1>5
<1>9. e.ref = s[x].ref /\ e.enc = c /\ e.depth = d /\ e.parent = y
  BY <1>3, <1>5 DEF StateInfo
<1>10. e \in StateInfo
  BY <1>3, <1>5, <1>8 DEF StateInfo
<1>11. f.ref = n /\ f.enc = s[y].enc /\ f.depth = s[y].depth /\ f.parent = s[y].parent
  BY <1>3, <1>5 DEF StateInfo
<1>12. f \in StateInfo
  BY <1>3, <1>5, <1>8 DEF StateInfo
<1>13. u \in [State -> StateInfo] /\ u[x] = e /\ \A z \in State : z # x => u[z] = s[z]
  BY <1>3, <1>6, <1>10, ChangedIs DEF Changed
<1>14. t \in [State -> StateInfo] /\ t[y] = f /\ \A z \in State : z # y => t[z] = u[z]
  BY <1>7, <1>12, <1>13, ChangedIs DEF Changed
<1>15. r = [p EXCEPT !.st = t]
  <2>1. PICK q : q = [p EXCEPT !.st[x].enc = c, !.st[x].depth = d, !.st[x].parent = y]
    OBVIOUS
  <2>2. q = [p EXCEPT !.st = u]
    BY <1>2, <1>3, <1>4, <1>5, <1>6, <2>1, ZenonT(30) DEF StateInfo
  <2>3. q.st = u
    BY <1>4, <2>2
  <2>4. u[y] = s[y]
    BY <1>13
  <2>5. [q EXCEPT !.st[y].ref = n] = [p EXCEPT !.st = t]
    BY <1>4, <1>5, <1>7, <2>2, <2>3, <2>4
  <2>6. r = AddRef(q, y)
    BY <1>2, <2>1 DEF Duplicated
  <2>7. r = [q EXCEPT !.st[y].ref = q.st[y].ref + 1]
    BY <2>6 DEF AddRef
  <2> QED BY <1>5, <2>3, <2>4, <2>5, <2>7
<1>16. r.st = t /\ r.pool = p.pool
  BY <1>4, <1>15
<1>17. ASSUME NEW z \in State
       PROVE  /\ t[z].ref = 0 <=> s[z].ref = 0
              /\ z # x => t[z].enc = s[z].enc /\ t[z].depth = s[z].depth /\ t[z].parent = s[z].parent
  <2>1. CASE z = x
    BY <1>9, <1>13, <1>14, <2>1
  <2>2. CASE z = y
    BY <1>2, <1>8, <1>11, <1>14, <2>2
  <2>3. CASE z # x /\ z # y
    BY <1>13, <1>14, <2>3
  <2> QED BY <2>1, <2>2, <2>3
<1>18. t[x] = e
  BY <1>13, <1>14
<1>19. Counted(t, h)
  <2> SUFFICES ASSUME NEW z \in State PROVE t[z].ref = h[z] + Cardinality(Kids(t, z))
    BY DEF Counted
  <2>1. Kids(s, z) \in SUBSET State
    BY DEF Kids
  <2>2. PICK k \in Nat : k = Cardinality(Kids(s, z)) /\ IsFiniteSet(Kids(s, z))
    BY <2>1, KidsCard
  <2>3. s[z].ref = h[z] + k /\ h[z] \in Nat
    BY <1>1, <1>2, <2>2 DEF Counted
  <2>4. s[x].parent = Null
    BY <1>2
  <2>5. CASE z = y
    <3>1. Kids(t, z) = Kids(s, z) \cup {x}
      BY <1>9, <1>17, <1>18, <2>5 DEF Kids
    <3>2. x \notin Kids(s, z)
      BY <2>4, StateFacts DEF Kids
    <3>3. Cardinality(Kids(t, z)) = k + 1
      BY <2>2, <3>1, <3>2, CardAdd
    <3>4. t[z].ref = s[z].ref + 1
      BY <1>5, <1>11, <1>14, <2>5
    <3> QED BY <2>3, <3>3, <3>4
  <2>6. CASE z # y
    <3>1. Kids(t, z) = Kids(s, z)
      BY <1>9, <1>17, <1>18, <2>4, <2>6, StateFacts DEF Kids
    <3>2. t[z].ref = s[z].ref
      BY <1>9, <1>13, <1>14, <2>6
    <3> QED BY <2>2, <2>3, <3>1, <3>2
  <2> QED BY <2>5, <2>6
<1>20. Rooted(t)
  <2> SUFFICES ASSUME NEW z \in State, t[z].parent # Null
               PROVE  t[z].ref # 0 /\ t[z].depth = t[t[z].parent].depth + 1
    BY DEF Rooted
  <2>1. CASE z = x
    <3>1. t[y].depth = s[y].depth
      BY <1>17
    <3> QED BY <1>2, <1>9, <1>17, <1>18, <2>1, <3>1
  <2>2. CASE z # x
    <3>1. t[z].parent = s[z].parent /\ s[z].parent \in State /\ s[z].parent # x
      BY <1>2, <1>3, <1>17, <2>2 DEF Kids
    <3>2. s[z].ref # 0 /\ s[z].depth = s[s[z].parent].depth + 1
      BY <1>1, <1>2, <3>1, StateFacts DEF Rooted
    <3> QED BY <1>17, <2>2, <3>1, <3>2
  <2> QED BY <2>1, <2>2
<1>21. Typed(r)
  BY <1>4, <1>14, <1>15 DEF Typed
<1>22. Pooled(r)
  BY <1>1, <1>2, <1>16, <1>17 DEF Pooled
<1>23. Good(r, h)
  BY <1>16, <1>19, <1>20, <1>21, <1>22 DEF Good
<1> QED BY <1>2, <1>9, <1>16, <1>17, <1>18, <1>23

\* The encoding of a state is set.
Encoded(p, x, c) == [p EXCEPT !.st[x].enc = c]

\* The operation changes the encoding of its state alone.
LEMMA EncIs ==
  ASSUME NEW p, NEW h, Good(p, h), NEW x \in State, NEW c \in Encodings \cup {Null},
         NEW r, r = Encoded(p, x, c)
  PROVE  /\ Good(r, h) /\ r.pool = p.pool /\ r.st[x].enc = c
         /\ \A z \in State : /\ r.st[z].ref = p.st[z].ref /\ r.st[z].depth = p.st[z].depth
                             /\ r.st[z].parent = p.st[z].parent
         /\ \A z \in State \ {x} : r.st[z].enc = p.st[z].enc
<1>1. Typed(p) /\ Counted(p.st, h) /\ Rooted(p.st) /\ Pooled(p)
  BY DEF Good
<1>2. PICK s, e, t : s = p.st /\ e = [s[x] EXCEPT !.enc = c] /\ t = [s EXCEPT ![x] = e]
  OBVIOUS
<1>3. /\ s \in [State -> StateInfo]
      /\ \A z \in State : s[z] \in StateInfo /\ s[z].parent \in State \cup {Null}
  BY <1>1, <1>2, TypedFacts
<1>4. p \in [st : [State -> StateInfo], pool : [free : Seq(State), allocated : 1 .. MaxStates]]
  BY <1>1 DEF Typed
<1>5. r = [p EXCEPT !.st = t]
  BY <1>2, <1>4 DEF Encoded
<1>6. r.st = t /\ r.pool = p.pool
  BY <1>4, <1>5
<1>7. e.enc = c /\ e.ref = s[x].ref /\ e.depth = s[x].depth /\ e.parent = s[x].parent
  BY <1>2, <1>3 DEF StateInfo
<1>8. e \in StateInfo
  BY <1>2, <1>3 DEF StateInfo
<1>9. t \in [State -> StateInfo] /\ t[x] = e /\ \A z \in State : z # x => t[z] = s[z]
  BY <1>2, <1>3, <1>8, ChangedIs DEF Changed
<1>10. \A z \in State : t[z].ref = s[z].ref /\ t[z].depth = s[z].depth /\ t[z].parent = s[z].parent
  BY <1>7, <1>9
<1>11. \A z \in State : Kids(t, z) = Kids(s, z)
  BY <1>10 DEF Kids
<1>12. Counted(t, h)
  BY <1>1, <1>2, <1>10, <1>11 DEF Counted
<1>13. Rooted(t)
  BY <1>1, <1>2, <1>3, <1>10 DEF Rooted
<1>14. Typed(r)
  BY <1>4, <1>5, <1>9 DEF Typed
<1>15. Pooled(r)
  BY <1>1, <1>2, <1>6, <1>10 DEF Pooled
<1>16. Good(r, h)
  BY <1>6, <1>12, <1>13, <1>14, <1>15 DEF Good
<1> QED BY <1>2, <1>6, <1>7, <1>9, <1>10, <1>16

\* Who is held is in use.
LEMMA Held ==
  ASSUME NEW p, NEW h \in [State -> Nat], Good(p, h), NEW x \in State, h[x] # 0
  PROVE  p.st[x].ref # 0
<1>1. Kids(p.st, x) \in SUBSET State
  BY DEF Kids
<1>2. PICK c \in Nat : c = Cardinality(Kids(p.st, x))
  BY <1>1, KidsCard
<1>3. p.st[x].ref = h[x] + c /\ h[x] \in Nat
  BY <1>2 DEF Good, Counted
<1> QED BY <1>2, <1>3

\* So is who has a child.
LEMMA ParentHeld ==
  ASSUME NEW p, NEW h \in [State -> Nat], Good(p, h), NEW x \in State, Kids(p.st, x) # {}
  PROVE  p.st[x].ref # 0
<1>1. Kids(p.st, x) \in SUBSET State
  BY DEF Kids
<1>2. PICK c \in Nat : c = Cardinality(Kids(p.st, x)) /\ c > 0
  BY <1>1, KidsCard
<1>3. p.st[x].ref = h[x] + c /\ h[x] \in Nat
  BY <1>2 DEF Good, Counted
<1> QED BY <1>2, <1>3

\* What two changes keep, they keep together.
LEMMA KeptTrans ==
  ASSUME NEW p, NEW q, NEW r, Kept(p, q), Kept(q, r)
  PROVE  Kept(p, r)
BY DEF Kept

-------------------------------------------------------------------------------
(***************************************************************************)
(* The holders: the open list O, the works W, the main thread, which holds *)
(* the state c it expands once and once more for each of the n works, and  *)
(* d, the state found deepest.                                             *)
(***************************************************************************)
In(x, S) == IF x \in S THEN 1 ELSE 0

HoldOf(O, W, c, n, d) ==
    [x \in State |-> In(x, O) + In(x, W) + (IF x = c THEN n + 1 ELSE 0) + In(x, {d})]

\* They are counted, ...
LEMMA HoldType ==
  ASSUME NEW O, NEW W, NEW c, NEW n \in Nat, NEW d
  PROVE  /\ HoldOf(O, W, c, n, d) \in [State -> Nat]
         /\ \A x \in State : x \in O \/ x \in W \/ x = c \/ x = d => HoldOf(O, W, c, n, d)[x] # 0
         /\ \A x \in State : HoldOf(O, W, c, n, d)[x] = 0 => x \notin O /\ x \notin W /\ x # c /\ x # d
BY DEF HoldOf, In

\* a state held has a count, a state without a count is not held.
LEMMA HoldHeld ==
  ASSUME NEW O, NEW W, NEW c, NEW n \in Nat, NEW d, NEW h, h = HoldOf(O, W, c, n, d),
         NEW x \in State, x \in O \/ x \in W \/ x = c \/ x = d
  PROVE  h[x] # 0
BY HoldType

\* A state without a count is not held.
LEMMA HoldFree ==
  ASSUME NEW O, NEW W, NEW c, NEW n \in Nat, NEW d, NEW h, h = HoldOf(O, W, c, n, d),
         NEW x \in State, h[x] = 0
  PROVE  x \notin O /\ x \notin W /\ x # c /\ x # d
BY HoldType

\* A count less or more, ...
LEMMA LessMoreIs ==
  ASSUME NEW h \in [State -> Nat], NEW g \in [State -> Nat], NEW x \in State,
         \A y \in State : y # x => g[y] = h[y]
  PROVE  /\ g[x] = h[x] - 1 => Less(h, x) = g
         /\ g[x] = h[x] + 1 => More(h, x) = g
<1>1. ASSUME g[x] = h[x] - 1 PROVE Less(h, x) = g
  BY <1>1 DEF Less
<1>2. ASSUME g[x] = h[x] + 1 PROVE More(h, x) = g
  BY <1>2 DEF More
<1> QED BY <1>1, <1>2

\* One holder less or more: the open list, ...
LEMMA HoldOpenLess ==
  ASSUME NEW O, NEW W, NEW c, NEW n \in Nat, NEW d, NEW x \in State, x \in O,
         NEW h, h = HoldOf(O, W, c, n, d), NEW Q, Q = O \ {x}, NEW g, g = HoldOf(Q, W, c, n, d)
  PROVE  Less(h, x) = g
<1>1. h \in [State -> Nat] /\ g \in [State -> Nat]
  BY HoldType
<1>2. \A y \in State : y # x => g[y] = h[y]
  BY StateFacts DEF HoldOf, In
<1>3. g[x] = h[x] - 1
  BY StateFacts DEF HoldOf, In
<1> QED BY <1>1, <1>2, <1>3, LessMoreIs

\* One state more in the open list.
LEMMA HoldOpenMore ==
  ASSUME NEW O, NEW W, NEW c, NEW n \in Nat, NEW d, NEW x \in State, x \notin O,
         NEW h, h = HoldOf(O, W, c, n, d), NEW Q, Q = O \cup {x}, NEW g, g = HoldOf(Q, W, c, n, d)
  PROVE  More(h, x) = g
<1>1. h \in [State -> Nat] /\ g \in [State -> Nat]
  BY HoldType
<1>2. \A y \in State : y # x => g[y] = h[y]
  BY StateFacts DEF HoldOf, In
<1>3. g[x] = h[x] + 1
  BY StateFacts DEF HoldOf, In
<1> QED BY <1>1, <1>2, <1>3, LessMoreIs

\* the works, ...
LEMMA HoldWorkLess ==
  ASSUME NEW O, NEW W, NEW c, NEW n \in Nat, NEW d, NEW x \in State, x \in W,
         NEW h, h = HoldOf(O, W, c, n, d), NEW V, V = W \ {x}, NEW g, g = HoldOf(O, V, c, n, d)
  PROVE  Less(h, x) = g
<1>1. h \in [State -> Nat] /\ g \in [State -> Nat]
  BY HoldType
<1>2. \A y \in State : y # x => g[y] = h[y]
  BY StateFacts DEF HoldOf, In
<1>3. g[x] = h[x] - 1
  BY StateFacts DEF HoldOf, In
<1> QED BY <1>1, <1>2, <1>3, LessMoreIs

\* One work more.
LEMMA HoldWorkMore ==
  ASSUME NEW O, NEW W, NEW c, NEW n \in Nat, NEW d, NEW x \in State, x \notin W,
         NEW h, h = HoldOf(O, W, c, n, d), NEW V, V = W \cup {x}, NEW g, g = HoldOf(O, V, c, n, d)
  PROVE  More(h, x) = g
<1>1. h \in [State -> Nat] /\ g \in [State -> Nat]
  BY HoldType
<1>2. \A y \in State : y # x => g[y] = h[y]
  BY StateFacts DEF HoldOf, In
<1>3. g[x] = h[x] + 1
  BY StateFacts DEF HoldOf, In
<1> QED BY <1>1, <1>2, <1>3, LessMoreIs

\* From the works to the open list: the count stays.
LEMMA HoldWorkMove ==
  ASSUME NEW O, NEW W, NEW c, NEW n \in Nat, NEW d, NEW x \in State, x \in W, x \notin O,
         NEW Q, Q = O \cup {x}, NEW V, V = W \ {x}
  PROVE  HoldOf(O, W, c, n, d) = HoldOf(Q, V, c, n, d)
BY DEF HoldOf, In

\* the main thread, ...
LEMMA HoldMainMore ==
  ASSUME NEW O, NEW W, NEW c \in State, NEW n \in Nat, NEW d,
         NEW h, h = HoldOf(O, W, c, n, d), NEW m, m = n + 1, NEW g, g = HoldOf(O, W, c, m, d)
  PROVE  More(h, c) = g
<1>1. h \in [State -> Nat] /\ g \in [State -> Nat]
  BY HoldType
<1>2. \A y \in State : y # c => g[y] = h[y]
  BY StateFacts DEF HoldOf, In
<1>3. g[c] = h[c] + 1
  BY StateFacts DEF HoldOf, In
<1> QED BY <1>1, <1>2, <1>3, LessMoreIs

\* One work less holds the state expanded.
LEMMA HoldMainLess ==
  ASSUME NEW O, NEW W, NEW c \in State, NEW n \in Nat, n # 0, NEW d,
         NEW h, h = HoldOf(O, W, c, n, d), NEW m, m = n - 1, NEW g, g = HoldOf(O, W, c, m, d)
  PROVE  Less(h, c) = g
<1>1. h \in [State -> Nat] /\ g \in [State -> Nat]
  <2>1. m \in Nat
    OBVIOUS
  <2> QED BY <2>1, HoldType
<1>2. \A y \in State : y # c => g[y] = h[y]
  BY StateFacts DEF HoldOf, In
<1>3. g[c] = h[c] - 1
  BY StateFacts DEF HoldOf, In
<1> QED BY <1>1, <1>2, <1>3, LessMoreIs

\* The main thread gives it up when no work holds it.
LEMMA HoldMainDrop ==
  ASSUME NEW O, NEW W, NEW c \in State, NEW n \in Nat, n = 0, NEW d,
         NEW h, h = HoldOf(O, W, c, n, d), NEW g, g = HoldOf(O, W, Null, n, d)
  PROVE  Less(h, c) = g
<1>1. h \in [State -> Nat] /\ g \in [State -> Nat]
  BY HoldType
<1>2. \A y \in State : y # c => g[y] = h[y]
  BY StateFacts DEF HoldOf, In
<1>3. g[c] = h[c] - 1
  BY StateFacts DEF HoldOf, In
<1> QED BY <1>1, <1>2, <1>3, LessMoreIs

\* From the open list to the main thread: the count stays.
LEMMA HoldMainTake ==
  ASSUME NEW O, NEW W, NEW c \in State, c \in O, NEW d, NEW Q, Q = O \ {c}
  PROVE  HoldOf(O, W, Null, 0, d) = HoldOf(Q, W, c, 0, d)
BY StateFacts DEF HoldOf, In

\* and the state found deepest.
LEMMA HoldDeepest ==
  ASSUME NEW O, NEW W, NEW c, NEW n \in Nat, NEW d \in State
  PROVE  /\ Less(HoldOf(O, W, c, n, d), d) = HoldOf(O, W, c, n, Null)
         /\ More(HoldOf(O, W, c, n, Null), d) = HoldOf(O, W, c, n, d)
<1>1. Less(HoldOf(O, W, c, n, d), d) = HoldOf(O, W, c, n, Null)
  <2>1. PICK h, g : h = HoldOf(O, W, c, n, d) /\ g = HoldOf(O, W, c, n, Null)
    OBVIOUS
  <2>2. h \in [State -> Nat] /\ g \in [State -> Nat]
    BY <2>1, HoldType
  <2>3. \A y \in State : y # d => g[y] = h[y]
    BY <2>1, StateFacts DEF HoldOf, In
  <2>4. g[d] = h[d] - 1
    BY <2>1, StateFacts DEF HoldOf, In
  <2> QED BY <2>1, <2>2, <2>3, <2>4, LessMoreIs
<1>2. More(HoldOf(O, W, c, n, Null), d) = HoldOf(O, W, c, n, d)
  <2>1. PICK h, g : h = HoldOf(O, W, c, n, Null) /\ g = HoldOf(O, W, c, n, d)
    OBVIOUS
  <2>2. h \in [State -> Nat] /\ g \in [State -> Nat]
    BY <2>1, HoldType
  <2>3. \A y \in State : y # d => g[y] = h[y]
    BY <2>1, StateFacts DEF HoldOf, In
  <2>4. g[d] = h[d] + 1
    BY <2>1, StateFacts DEF HoldOf, In
  <2> QED BY <2>1, <2>2, <2>3, <2>4, LessMoreIs
<1> QED BY <1>1, <1>2

\* What is known of the states in use: their encoding, unless they are pending; the states
\* of the works have no copies, and those of pending works are not yet copies.
Contents(s, P, W) ==
    /\ \A x \in State : s[x].ref # 0 /\ x \notin P => s[x].enc \in Encodings
    /\ \A x \in State : s[x].parent \notin W
    /\ \A x \in P : s[x].parent = Null

\* References taken and given back do not change this.
LEMMA KeptContents ==
  ASSUME NEW p, NEW r, Kept(p, r), NEW P \in SUBSET State, NEW W, NEW V, V \subseteq W,
         Null \notin W, Contents(p.st, P, W)
  PROVE  Contents(r.st, P, V)
<1>1. ASSUME NEW x \in State, r.st[x].ref # 0, x \notin P PROVE r.st[x].enc \in Encodings
  BY <1>1 DEF Kept, Contents
<1>2. ASSUME NEW x \in State PROVE r.st[x].parent \notin V
  <2>1. r.st[x].parent = Null \/ r.st[x].parent = p.st[x].parent
    BY DEF Kept
  <2> QED BY <2>1 DEF Contents
<1>3. ASSUME NEW x \in P PROVE r.st[x].parent = Null
  <2>1. r.st[x].parent = Null \/ r.st[x].parent = p.st[x].parent
    BY DEF Kept
  <2> QED BY <2>1 DEF Contents
<1> QED BY <1>1, <1>2, <1>3 DEF Contents

\* The operations lead from encodings to encodings: the reference file system of
\* an ancestor, which a power loss may bring back, is there.
LEMMA EncAfterIs ==
  ASSUME NEW p, NEW h \in [State -> Nat], Good(p, h), NEW P \in SUBSET State, NEW W, P \subseteq W,
         Contents(p.st, P, W), NEW x \in State, x \notin P, p.st[x].ref # 0,
         NEW op \in Operation, NEW e \in EncAfter(p.st, x, op)
  PROVE  e \in Encodings
<1>1. p.st \in [State -> StateInfo]
  BY TypedFacts DEF Good
<1>2. PICK up : up = Ancestor(p.st, x)
  OBVIOUS
<1>3. /\ up \in [0 .. MaxStates -> State \cup {Null}] /\ up[0] = x
      /\ \A i \in 1 .. MaxStates : up[i] = Parent(p.st, up[i - 1])
  BY <1>1, <1>2, AncestorIs
<1>4. \A y \in State : p.st[y].ref # 0 /\ y \notin P => p.st[y].enc \in Encodings
  BY DEF Contents
<1>5. ASSUME NEW i \in 0 .. MaxStates, up[i] # Null PROVE p.st[up[i]].enc \in Encodings
  <2>1. CASE i = 0
    BY <1>3, <1>4, <2>1
  <2>2. CASE i # 0
    <3>1. i \in 1 .. MaxStates /\ i - 1 \in 0 .. MaxStates
      BY <2>2, StateFacts
    <3>2. up[i] \in State /\ up[i] = Parent(p.st, up[i - 1])
      BY <1>3, <1>5, <3>1
    <3>3. up[i - 1] \in State /\ up[i] = p.st[up[i - 1]].parent
      BY <1>3, <1>5, <3>1, <3>2 DEF Parent
    <3>4. up[i - 1] \in Kids(p.st, up[i])
      BY <3>3 DEF Kids
    <3>5. p.st[up[i]].ref # 0
      BY <3>2, <3>4, ParentHeld
    <3>6. up[i] \notin P
      BY <3>3 DEF Contents
    <3> QED BY <1>4, <3>2, <3>5, <3>6
  <2> QED BY <2>1, <2>2
<1>6. op.to \in Encodings /\ op.kind \in {"apply", "no operation", "failed", "power"}
  BY DEF Operation
<1>7. CASE op.kind \in {"apply", "no operation"}
  BY <1>6, <1>7 DEF EncAfter
<1>8. CASE op.kind = "power"
  <2>1. e \in {p.st[a].enc : a \in {Ancestor(p.st, x)[i] : i \in 0 .. MaxStates} \ {Null}}
    BY <1>8 DEF EncAfter
  <2>2. PICK i \in 0 .. MaxStates : up[i] # Null /\ e = p.st[up[i]].enc
    BY <1>2, <2>1
  <2> QED BY <1>5, <2>2
<1>9. CASE op.kind = "failed"
  <2>1. e = p.st[x].enc
    BY <1>9 DEF EncAfter
  <2> QED BY <1>4, <2>1
<1> QED BY <1>6, <1>7, <1>8, <1>9

-------------------------------------------------------------------------------
(***************************************************************************)
(* The queues of works.  sq is the queue of the works submitted, cq that   *)
(* of the works done, wk what the worker threads have in hand.             *)
(***************************************************************************)
\* A state has one work.
Ordered(q) == \A i, j \in 1 .. Len(q) : q[i].state = q[j].state => i = j

Apart(A, B) == \A c \in A, d \in B : c.state # d.state

Running(wk) == {wk[w] : w \in Workers} \ {Null}

Distinct(wk) ==
    \A v, w \in Workers : wk[v] # Null /\ wk[w] # Null /\ wk[v].state = wk[w].state => v = w

QueuesOK(sq, cq, wk) ==
    /\ sq \in Seq(Work) /\ cq \in Seq(Work) /\ wk \in [Workers -> Work \cup {Null}]
    /\ Ordered(sq) /\ Ordered(cq) /\ Distinct(wk)
    /\ Apart(Entries(sq), Entries(cq))
    /\ Apart(Entries(sq), Running(wk)) /\ Apart(Entries(cq), Running(wk))
    /\ \A c \in Entries(cq) : c.res \notin {"pending", "running"}

WorksOf(sq, cq, wk) == Entries(sq) \cup Entries(cq) \cup Running(wk)

\* The entries of a queue are works.
LEMMA EntriesWork ==
  ASSUME NEW q \in Seq(Work)
  PROVE  Entries(q) \subseteq Work /\ Len(q) \in Nat
<1>1. \A i \in 1 .. Len(q) : q[i] \in Work
  BY ElementOfSeq
<1> QED BY <1>1, LenProperties DEF Entries

\* All works are.
LEMMA WorksTyped ==
  ASSUME NEW sq, NEW cq, NEW wk, QueuesOK(sq, cq, wk)
  PROVE  /\ WorksOf(sq, cq, wk) \subseteq Work /\ Null \notin WorksOf(sq, cq, wk)
         /\ \A c \in WorksOf(sq, cq, wk) : c.state \in State /\ c.src \in State /\ c.op \in Operation
<1>1. sq \in Seq(Work) /\ cq \in Seq(Work) /\ wk \in [Workers -> Work \cup {Null}]
  BY DEF QueuesOK
<1>2. Entries(sq) \subseteq Work /\ Entries(cq) \subseteq Work
  BY <1>1, EntriesWork
<1>3. Running(wk) \subseteq Work
  BY <1>1 DEF Running
<1>4. WorksOf(sq, cq, wk) \subseteq Work
  BY <1>2, <1>3 DEF WorksOf
<1>5. \A c \in Work : c.state \in State /\ c.src \in State /\ c.op \in Operation
  BY DEF Work
<1> QED BY <1>4, <1>5, NullAssumption

\* A state has one work in a queue ...
LEMMA OrderedOne ==
  ASSUME NEW q, Ordered(q), NEW c \in Entries(q), NEW d \in Entries(q), c.state = d.state
  PROVE  c = d
<1>1. PICK i \in 1 .. Len(q), j \in 1 .. Len(q) : c = q[i] /\ d = q[j]
  BY DEF Entries
<1>2. i = j
  BY <1>1 DEF Ordered
<1> QED BY <1>1, <1>2

\* and in all of them.
LEMMA WorksOne ==
  ASSUME NEW sq, NEW cq, NEW wk, QueuesOK(sq, cq, wk), NEW c \in WorksOf(sq, cq, wk),
         NEW d \in WorksOf(sq, cq, wk), c.state = d.state
  PROVE  c = d
<1>1. /\ Ordered(sq) /\ Ordered(cq) /\ Distinct(wk) /\ Apart(Entries(sq), Entries(cq))
      /\ Apart(Entries(sq), Running(wk)) /\ Apart(Entries(cq), Running(wk))
  BY DEF QueuesOK
<1>2. c \in Running(wk) /\ d \in Running(wk) => c = d
  BY <1>1 DEF Running, Distinct
<1>3. c \in Entries(sq) /\ d \in Entries(sq) => c = d
  BY <1>1, OrderedOne
<1>4. c \in Entries(cq) /\ d \in Entries(cq) => c = d
  BY <1>1, OrderedOne
<1> QED BY <1>1, <1>2, <1>3, <1>4 DEF WorksOf, Apart

\* A work more at the end of a queue.
LEMMA AppendQ ==
  ASSUME NEW q \in Seq(Work), Ordered(q), NEW c \in Work, \A d \in Entries(q) : d.state # c.state,
         NEW z, z = Append(q, c)
  PROVE  z \in Seq(Work) /\ Ordered(z) /\ Entries(z) = Entries(q) \cup {c}
<1>1. PICK n \in Nat : n = Len(q)
  BY LenProperties
<1>2. /\ z \in Seq(Work) /\ Len(z) = n + 1 /\ z[n + 1] = c
      /\ \A i \in 1 .. n : z[i] = q[i]
  BY <1>1, AppendProperties
<1>3. \A i \in 1 .. n + 1 : i \in 1 .. n \/ i = n + 1
  OBVIOUS
<1>4. \A i \in 1 .. n : q[i] \in Entries(q)
  BY <1>1 DEF Entries
<1>5. ASSUME NEW i \in 1 .. n + 1, NEW j \in 1 .. n + 1, z[i].state = z[j].state PROVE i = j
  <2>1. CASE i \in 1 .. n /\ j \in 1 .. n
    BY <1>1, <1>2, <1>5, <2>1 DEF Ordered
  <2>2. CASE i = n + 1 /\ j = n + 1
    BY <2>2
  <2>3. CASE i \in 1 .. n /\ j = n + 1
    BY <1>2, <1>4, <1>5, <2>3
  <2>4. CASE i = n + 1 /\ j \in 1 .. n
    BY <1>2, <1>4, <1>5, <2>4
  <2> QED BY <1>3, <2>1, <2>2, <2>3, <2>4
<1>6. \A y \in Entries(z) : y \in Entries(q) \cup {c}
  BY <1>2, <1>3, <1>4 DEF Entries
<1>7. ASSUME NEW y \in Entries(q) \cup {c} PROVE y \in Entries(z)
  <2>1. \A i \in 1 .. n + 1 : z[i] \in Entries(z)
    BY <1>2 DEF Entries
  <2>2. n + 1 \in 1 .. n + 1 /\ \A i \in 1 .. n : i \in 1 .. n + 1
    OBVIOUS
  <2>3. CASE y = c
    BY <1>2, <2>1, <2>2, <2>3
  <2>4. CASE y \in Entries(q)
    <3>1. PICK i \in 1 .. n : y = q[i]
      BY <1>1, <2>4 DEF Entries
    <3> QED BY <1>2, <2>1, <2>2, <3>1
  <2> QED BY <2>3, <2>4
<1>8. Entries(z) = Entries(q) \cup {c}
  BY <1>6, <1>7
<1>9. Ordered(z)
  BY <1>2, <1>5 DEF Ordered
<1> QED BY <1>2, <1>8, <1>9

\* The first work is taken from a queue.
LEMMA TailQ ==
  ASSUME NEW q \in Seq(Work), Ordered(q), q # <<>>, NEW z, z = Tail(q), NEW c, c = Head(q)
  PROVE  /\ z \in Seq(Work) /\ Ordered(z) /\ c \in Entries(q) /\ c \in Work
         /\ Entries(z) = Entries(q) \ {c}
         /\ \A d \in Entries(z) : d.state # c.state
<1>1. PICK n : n = Len(q)
  OBVIOUS
<1>2. n \in Nat /\ n # 0 /\ c = q[1] /\ 1 \in 1 .. n
  BY <1>1, LenProperties, EmptySeq
<1>3. z \in Seq(Work) /\ Len(z) = n - 1 /\ \A i \in 1 .. n - 1 : z[i] = q[i + 1]
  BY <1>1, HeadTailProperties
<1>4. \A i, j \in 1 .. n : q[i].state = q[j].state => i = j
  BY <1>1 DEF Ordered
<1>5. ASSUME NEW i \in 1 .. n - 1 PROVE i + 1 \in 1 .. n /\ z[i] = q[i + 1] /\ i + 1 # 1
  BY <1>2, <1>3
<1>6. Ordered(z)
  <2> SUFFICES ASSUME NEW i \in 1 .. n - 1, NEW j \in 1 .. n - 1, z[i].state = z[j].state PROVE i = j
    BY <1>3 DEF Ordered
  <2>1. i + 1 = j + 1
    BY <1>4, <1>5
  <2> QED BY <2>1
<1>7. c \in Entries(q) /\ c \in Work
  <2>1. q[1] \in Work
    BY <1>1, <1>2, ElementOfSeq
  <2> QED BY <1>1, <1>2, <2>1 DEF Entries
<1>8. ASSUME NEW y \in Entries(z) PROVE y \in Entries(q) /\ y # c /\ y.state # c.state
  <2>1. PICK i \in 1 .. n - 1 : y = z[i]
    BY <1>3 DEF Entries
  <2>2. i + 1 \in 1 .. n /\ y = q[i + 1] /\ i + 1 # 1
    BY <1>5, <2>1
  <2> QED BY <1>1, <1>2, <1>4, <2>2 DEF Entries
<1>9. ASSUME NEW y \in Entries(q), y # c PROVE y \in Entries(z)
  <2>1. PICK i \in 1 .. n : y = q[i]
    BY <1>1 DEF Entries
  <2>2. i # 1
    BY <1>2, <1>9, <2>1
  <2>3. i - 1 \in 1 .. n - 1 /\ (i - 1) + 1 = i
    BY <1>2, <2>2
  <2> QED BY <1>3, <2>1, <2>3 DEF Entries
<1>10. Entries(z) = Entries(q) \ {c}
  BY <1>8, <1>9
<1> QED BY <1>3, <1>6, <1>7, <1>8, <1>10

\* Worker thread w gets another work, or none: one whose state is in no other hand.
Handed(wz, wk, w, e) == wz = [wk EXCEPT ![w] = e]

Fits(wk, w, e) == \A d \in Running(wk) \ {wk[w]} : e = Null \/ d.state # e.state

RunsNow(wz, wk, w, e) ==
    /\ wz \in [Workers -> Work \cup {Null}] /\ Distinct(wz)
    /\ Running(wz) = (Running(wk) \ {wk[w]}) \cup ({e} \ {Null})

\* The works in hand are the others and this one.
LEMMA RunningIs ==
  ASSUME NEW wk \in [Workers -> Work \cup {Null}], Distinct(wk), NEW w \in Workers,
         NEW e \in Work \cup {Null}, Fits(wk, w, e), NEW wz, Handed(wz, wk, w, e)
  PROVE  RunsNow(wz, wk, w, e)
<1>1. wz \in [Workers -> Work \cup {Null}] /\ wz[w] = e /\ \A v \in Workers : v # w => wz[v] = wk[v]
  BY DEF Handed
<1>2. ASSUME NEW v \in Workers, v # w, wk[v] # Null PROVE wk[v] \in Running(wk) \ {wk[w]}
  BY <1>2 DEF Distinct, Running
<1>3. Distinct(wz)
  <2> SUFFICES ASSUME NEW u \in Workers, NEW v \in Workers, wz[u] # Null, wz[v] # Null,
                      wz[u].state = wz[v].state
               PROVE  u = v
    BY DEF Distinct
  <2>1. CASE u # w /\ v # w
    BY <1>1, <2>1 DEF Distinct
  <2>2. CASE u = w /\ v # w
    BY <1>1, <1>2, <2>2 DEF Fits
  <2>3. CASE u # w /\ v = w
    BY <1>1, <1>2, <2>3 DEF Fits
  <2> QED BY <2>1, <2>2, <2>3
<1>4. \A c \in Running(wz) : c \in (Running(wk) \ {wk[w]}) \cup ({e} \ {Null})
  <2> SUFFICES ASSUME NEW v \in Workers, wz[v] # Null
               PROVE  wz[v] \in (Running(wk) \ {wk[w]}) \cup ({e} \ {Null})
    BY DEF Running
  <2> QED BY <1>1, <1>2
<1>5. \A c \in Running(wk) \ {wk[w]} : c \in Running(wz)
  <2> SUFFICES ASSUME NEW v \in Workers, wk[v] # Null, wk[v] # wk[w] PROVE wk[v] \in Running(wz)
    BY DEF Running
  <2>1. v # w /\ wz[v] = wk[v]
    BY <1>1
  <2> QED BY <2>1 DEF Running
<1>6. e # Null => e \in Running(wz)
  BY <1>1 DEF Running
<1> QED BY <1>1, <1>3, <1>4, <1>5, <1>6 DEF RunsNow

\* None of them has the state of e.
Unlike(Ws, e) == \A f \in Ws : f.state # e.state

\* A work more.
Added(sz, cq, wk, Ws, e) == QueuesOK(sz, cq, wk) /\ WorksOf(sz, cq, wk) = Ws \cup {e}

\* DoFsOperator_Queue: a work more.
LEMMA SubmitQ ==
  ASSUME NEW sq, NEW cq, NEW wk, QueuesOK(sq, cq, wk), NEW c \in Work,
         NEW Ws, Ws = WorksOf(sq, cq, wk), Unlike(Ws, c), NEW z, z = Append(sq, c)
  PROVE  Added(z, cq, wk, Ws, c)
<1>1. /\ sq \in Seq(Work) /\ cq \in Seq(Work) /\ wk \in [Workers -> Work \cup {Null}]
      /\ Ordered(sq) /\ Ordered(cq) /\ Distinct(wk) /\ Apart(Entries(sq), Entries(cq))
      /\ Apart(Entries(sq), Running(wk)) /\ Apart(Entries(cq), Running(wk))
      /\ \A d \in Entries(cq) : d.res \notin {"pending", "running"}
  BY DEF QueuesOK
<1>2. z \in Seq(Work) /\ Ordered(z) /\ Entries(z) = Entries(sq) \cup {c}
  <2>1. \A d \in Entries(sq) : d.state # c.state
    BY DEF WorksOf, Unlike
  <2> QED BY <1>1, <2>1, AppendQ
<1>3. Apart(Entries(z), Entries(cq)) /\ Apart(Entries(z), Running(wk))
  BY <1>1, <1>2 DEF Apart, WorksOf, Unlike
<1>4. WorksOf(z, cq, wk) = Ws \cup {c}
  BY <1>2 DEF WorksOf
<1> QED BY <1>1, <1>2, <1>3, <1>4 DEF QueuesOK, Added

\* The works are these.
QueuesAre(sq, cq, wk, Ws) == QueuesOK(sq, cq, wk) /\ WorksOf(sq, cq, wk) = Ws

\* A worker thread takes a work.
LEMMA TakeQ ==
  ASSUME NEW sq, NEW cq, NEW wk, QueuesOK(sq, cq, wk), sq # <<>>, NEW w \in Workers, wk[w] = Null,
         NEW z, z = Tail(sq), NEW wz, NEW c, c = Head(sq), Handed(wz, wk, w, c)
  PROVE  QueuesAre(z, cq, wz, WorksOf(sq, cq, wk))
<1>1. /\ sq \in Seq(Work) /\ cq \in Seq(Work) /\ wk \in [Workers -> Work \cup {Null}]
      /\ Ordered(sq) /\ Ordered(cq) /\ Distinct(wk) /\ Apart(Entries(sq), Entries(cq))
      /\ Apart(Entries(sq), Running(wk)) /\ Apart(Entries(cq), Running(wk))
      /\ \A d \in Entries(cq) : d.res \notin {"pending", "running"}
  BY DEF QueuesOK
<1>3. /\ z \in Seq(Work) /\ Ordered(z) /\ c \in Entries(sq) /\ c \in Work
      /\ Entries(z) = Entries(sq) \ {c} /\ \A d \in Entries(z) : d.state # c.state
  BY <1>1, TailQ
<1>4. Fits(wk, w, c)
  BY <1>1, <1>3 DEF Apart, Fits
<1>6. /\ wz \in [Workers -> Work \cup {Null}] /\ Distinct(wz)
      /\ Running(wz) = (Running(wk) \ {wk[w]}) \cup ({c} \ {Null})
  <2>1. wk \in [Workers -> Work \cup {Null}] /\ Distinct(wk) /\ c \in Work \cup {Null}
    BY <1>1, <1>3
  <2>2. RunsNow(wz, wk, w, c)
    BY <1>4, <2>1, RunningIs
  <2> QED BY <2>2 DEF RunsNow
<1>7. Running(wz) = Running(wk) \cup {c}
  BY <1>3, <1>6, NullAssumption DEF Running
<1>8. Apart(Entries(z), Entries(cq)) /\ Apart(Entries(z), Running(wz)) /\ Apart(Entries(cq), Running(wz))
  BY <1>1, <1>3, <1>7 DEF Apart
<1>9. WorksOf(z, cq, wz) = WorksOf(sq, cq, wk)
  BY <1>3, <1>7 DEF WorksOf
<1> QED BY <1>1, <1>3, <1>6, <1>8, <1>9 DEF QueuesOK, QueuesAre

\* One of the works, c, goes on as e.
WentOn(sz, cz, wz, sq, cq, wk, c, e) ==
    /\ QueuesOK(sz, cz, wz) /\ c \in WorksOf(sq, cq, wk)
    /\ WorksOf(sz, cz, wz) = (WorksOf(sq, cq, wk) \ {c}) \cup {e}

\* It goes on with it: e is the work it has in hand, further on.
LEMMA GoOnQ ==
  ASSUME NEW sq, NEW cq, NEW wk, QueuesOK(sq, cq, wk), NEW w \in Workers, NEW c, c = wk[w], c # Null,
         NEW e \in Work, e.state = c.state, NEW wz, Handed(wz, wk, w, e)
  PROVE  WentOn(sq, cq, wz, sq, cq, wk, c, e)
<1>1. /\ sq \in Seq(Work) /\ cq \in Seq(Work) /\ wk \in [Workers -> Work \cup {Null}]
      /\ Ordered(sq) /\ Ordered(cq) /\ Distinct(wk) /\ Apart(Entries(sq), Entries(cq))
      /\ Apart(Entries(sq), Running(wk)) /\ Apart(Entries(cq), Running(wk))
      /\ \A d \in Entries(cq) : d.res \notin {"pending", "running"}
  BY DEF QueuesOK
<1>2. c \in Running(wk)
  BY DEF Running
<1>3. Fits(wk, w, e)
  BY <1>1 DEF Running, Distinct, Fits
<1>4. /\ wz \in [Workers -> Work \cup {Null}] /\ Distinct(wz)
      /\ Running(wz) = (Running(wk) \ {wk[w]}) \cup ({e} \ {Null})
  <2>1. wk \in [Workers -> Work \cup {Null}] /\ Distinct(wk) /\ e \in Work \cup {Null}
    BY <1>1, <1>3
  <2>2. RunsNow(wz, wk, w, e)
    BY <1>3, <2>1, RunningIs
  <2> QED BY <2>2 DEF RunsNow
<1>5. Running(wz) = (Running(wk) \ {c}) \cup {e}
  BY <1>4, NullAssumption
<1>6. Apart(Entries(sq), Running(wz)) /\ Apart(Entries(cq), Running(wz))
  BY <1>1, <1>2, <1>5 DEF Apart
<1>7. c \notin Entries(sq) /\ c \notin Entries(cq)
  BY <1>1, <1>2 DEF Apart
<1>8. WorksOf(sq, cq, wz) = (WorksOf(sq, cq, wk) \ {c}) \cup {e}
  BY <1>5, <1>7 DEF WorksOf
<1> QED BY <1>1, <1>2, <1>4, <1>6, <1>8 DEF QueuesOK, WentOn, WorksOf

\* It is done with it: e is the work with its result.
LEMMA DoneQ ==
  ASSUME NEW sq, NEW cq, NEW wk, QueuesOK(sq, cq, wk), NEW w \in Workers, NEW c, c = wk[w], c # Null,
         NEW e \in Work, e.state = c.state, e.res \notin {"pending", "running"},
         NEW z, z = Append(cq, e), NEW wz, Handed(wz, wk, w, Null)
  PROVE  WentOn(sq, z, wz, sq, cq, wk, c, e)
<1>1. /\ sq \in Seq(Work) /\ cq \in Seq(Work) /\ wk \in [Workers -> Work \cup {Null}]
      /\ Ordered(sq) /\ Ordered(cq) /\ Distinct(wk) /\ Apart(Entries(sq), Entries(cq))
      /\ Apart(Entries(sq), Running(wk)) /\ Apart(Entries(cq), Running(wk))
      /\ \A d \in Entries(cq) : d.res \notin {"pending", "running"}
  BY DEF QueuesOK
<1>2. c \in Running(wk)
  BY DEF Running
<1>3. PICK o : o = Null
  OBVIOUS
<1>4. Fits(wk, w, o) /\ Handed(wz, wk, w, o) /\ o \in Work \cup {Null}
  BY <1>3 DEF Fits, Handed
<1>5. /\ wz \in [Workers -> Work \cup {Null}] /\ Distinct(wz)
      /\ Running(wz) = (Running(wk) \ {wk[w]}) \cup ({o} \ {Null})
  <2>1. wk \in [Workers -> Work \cup {Null}] /\ Distinct(wk) /\ o \in Work \cup {Null}
    BY <1>1, <1>3
  <2>2. RunsNow(wz, wk, w, o)
    BY <1>4, <2>1, RunningIs
  <2> QED BY <2>2 DEF RunsNow
<1>6. Running(wz) = Running(wk) \ {c}
  BY <1>3, <1>5
<1>7. \A d \in Entries(cq) : d.state # e.state
  BY <1>1, <1>2 DEF Apart
<1>8. z \in Seq(Work) /\ Ordered(z) /\ Entries(z) = Entries(cq) \cup {e}
  BY <1>1, <1>7, AppendQ
<1>9. \A d \in Running(wk) : d # c => d.state # e.state
  BY <1>1 DEF Running, Distinct
<1>10. \A d \in Entries(sq) : d.state # e.state
  BY <1>1, <1>2 DEF Apart
<1>11. Apart(Entries(sq), Running(wz)) /\ Apart(Entries(z), Running(wz)) /\ Apart(Entries(sq), Entries(z))
  BY <1>1, <1>6, <1>8, <1>9, <1>10 DEF Apart
<1>12. c \notin Entries(sq) /\ c \notin Entries(cq)
  BY <1>1, <1>2 DEF Apart
<1>13. WorksOf(sq, z, wz) = (WorksOf(sq, cq, wk) \ {c}) \cup {e}
  BY <1>6, <1>8, <1>12 DEF WorksOf
<1>14. \A d \in Entries(z) : d.res \notin {"pending", "running"}
  BY <1>1, <1>8
<1> QED BY <1>1, <1>2, <1>5, <1>8, <1>11, <1>13, <1>14 DEF QueuesOK, WentOn, WorksOf

\* The main thread collects a work.
LEMMA CollectQ ==
  ASSUME NEW sq, NEW cq, NEW wk, QueuesOK(sq, cq, wk), cq # <<>>,
         NEW c, c = Head(cq), NEW z, z = Tail(cq)
  PROVE  /\ QueuesAre(sq, z, wk, WorksOf(sq, cq, wk) \ {c})
         /\ c \in WorksOf(sq, cq, wk) /\ c.res \notin {"pending", "running"}
<1>1. /\ sq \in Seq(Work) /\ cq \in Seq(Work) /\ wk \in [Workers -> Work \cup {Null}]
      /\ Ordered(sq) /\ Ordered(cq) /\ Distinct(wk) /\ Apart(Entries(sq), Entries(cq))
      /\ Apart(Entries(sq), Running(wk)) /\ Apart(Entries(cq), Running(wk))
      /\ \A d \in Entries(cq) : d.res \notin {"pending", "running"}
  BY DEF QueuesOK
<1>2. /\ z \in Seq(Work) /\ Ordered(z) /\ c \in Entries(cq) /\ c \in Work
      /\ Entries(z) = Entries(cq) \ {c}
  BY <1>1, TailQ
<1>3. Apart(Entries(sq), Entries(z)) /\ Apart(Entries(z), Running(wk))
  BY <1>1, <1>2 DEF Apart
<1>4. c \notin Entries(sq) /\ c \notin Running(wk)
  BY <1>1, <1>2 DEF Apart
<1>5. WorksOf(sq, z, wk) = WorksOf(sq, cq, wk) \ {c} /\ c \in WorksOf(sq, cq, wk)
  BY <1>2, <1>4 DEF WorksOf
<1>6. QueuesOK(sq, z, wk)
  BY <1>1, <1>2, <1>3 DEF QueuesOK
<1> QED BY <1>1, <1>2, <1>5, <1>6 DEF QueuesAre

-------------------------------------------------------------------------------
(***************************************************************************)
(* The open list                                                           *)
(***************************************************************************)
\* A list without repetitions has as many entries as it is long, ...
LEMMA EntriesCard ==
  ASSUME NEW q \in Seq(State), OneToOne(q)
  PROVE  /\ Len(q) \in Nat /\ Entries(q) \in SUBSET State /\ IsFiniteSet(Entries(q))
         /\ Cardinality(Entries(q)) = Len(q) /\ Len(q) <= MaxStates
<1>1. PICK n \in Nat : n = Len(q) /\ q \in [1 .. n -> State]
  BY LenProperties
<1>2. PICK D, E : D = 1 .. n /\ E = Entries(q)
  OBVIOUS
<1>3. E \in SUBSET State /\ q \in [D -> E]
  BY <1>1, <1>2 DEF Entries
<1>4. q \in Injection(D, E)
  <2>1. \A i, j \in D : q[i] = q[j] => i = j
    BY <1>1, <1>2 DEF OneToOne
  <2> QED BY <1>3, <2>1 DEF Injection, IsInjective
<1>5. q \in Surjection(D, E)
  <2>1. \A e \in E : \E i \in D : q[i] = e
    BY <1>1, <1>2 DEF Entries
  <2> QED BY <1>3, <2>1 DEF Surjection
<1>6. IsFiniteSet(E) /\ Cardinality(E) <= Cardinality(State) /\ Cardinality(E) \in Nat
  BY <1>3, StateFacts, FS_Subset, FS_CardinalityType
<1>7. Cardinality(D) = Cardinality(E)
  BY <1>4, <1>5, <1>6, FS_Injection
<1>8. Cardinality(D) = n
  <2>1. 1 \in Int /\ n \in Int
    OBVIOUS
  <2>2. Cardinality(D) = IF 1 > n THEN 0 ELSE n - 1 + 1
    BY <1>2, <2>1, FS_Interval
  <2> QED BY <2>2
<1> QED BY <1>1, <1>2, <1>3, <1>6, <1>7, <1>8, StateFacts

\* and a part of it has none either.
LEMMA PartIs ==
  ASSUME NEW q \in Seq(State), OneToOne(q), NEW a \in Nat, a # 0, NEW b \in Nat, b <= Len(q),
         NEW z, z = SubSeq(q, a, b)
  PROVE  z \in Seq(State) /\ OneToOne(z) /\ Entries(z) = {q[i] : i \in a .. b}
<1>1. PICK n \in Nat : n = Len(q) /\ \A i \in 1 .. n : q[i] \in State
  BY LenProperties
<1>2. \A i \in a .. b : i \in 1 .. n /\ q[i] \in State
  BY <1>1
<1>3. /\ z \in Seq(State) /\ Len(z) = (IF a <= b THEN b - a + 1 ELSE 0)
      /\ \A i \in 1 .. b - a + 1 : z[i] = q[a + i - 1]
  BY <1>2, SubSeqProperties
<1>4. \A i, j \in 1 .. n : q[i] = q[j] => i = j
  BY <1>1 DEF OneToOne
<1>5. 1 .. Len(z) = 1 .. b - a + 1
  BY <1>3
<1>6. ASSUME NEW i \in 1 .. Len(z) PROVE z[i] = q[a + i - 1] /\ a + i - 1 \in a .. b
  <2>1. i \in 1 .. b - a + 1
    BY <1>5
  <2>2. a + i - 1 \in a .. b
    BY <2>1
  <2> QED BY <1>3, <2>1, <2>2
<1>7. ASSUME NEW i \in 1 .. Len(z), NEW j \in 1 .. Len(z), z[i] = z[j] PROVE i = j
  <2>1. a + i - 1 = a + j - 1
    BY <1>2, <1>4, <1>6, <1>7
  <2>2. i \in Int /\ j \in Int
    BY <1>5
  <2> QED BY <2>1, <2>2
<1>8. ASSUME NEW k \in a .. b PROVE q[k] \in Entries(z)
  <2>1. k - a + 1 \in 1 .. b - a + 1 /\ a + (k - a + 1) - 1 = k
    OBVIOUS
  <2> QED BY <1>3, <1>5, <2>1 DEF Entries
<1>9. Entries(z) = {q[i] : i \in a .. b}
  <2>1. ASSUME NEW y \in Entries(z) PROVE y \in {q[i] : i \in a .. b}
    <3>1. PICK i \in 1 .. Len(z) : y = z[i]
      BY DEF Entries
    <3> QED BY <1>6, <3>1
  <2> QED BY <1>8, <2>1
<1> QED BY <1>3, <1>7, <1>9 DEF OneToOne

\* z is q with x behind its first i entries.
InsertedAt(z, q, i, x) == z = SubSeq(q, 1, i) \o <<x>> \o SubSeq(q, i + 1, Len(q))

\* Inserting a state that is not in the list.
LEMMA InsertIs ==
  ASSUME NEW q \in Seq(State), OneToOne(q), NEW i \in Nat, i <= Len(q), NEW x \in State,
         x \notin Entries(q),
         NEW z, InsertedAt(z, q, i, x)
  PROVE  /\ z \in Seq(State) /\ OneToOne(z) /\ Entries(z) = Entries(q) \cup {x}
         /\ Len(z) = Len(q) + 1 /\ Len(z) <= MaxStates
<1>1. PICK n \in Nat : n = Len(q)
  BY LenProperties
<1>2. PICK u, v, w, m : u = SubSeq(q, 1, i) /\ v = <<x>> /\ w = SubSeq(q, i + 1, n) /\ m = u \o v
  OBVIOUS
<1>3. u \in Seq(State) /\ OneToOne(u) /\ Entries(u) = {q[k] : k \in 1 .. i}
  <2>1. 1 \in Nat /\ 1 # 0
    OBVIOUS
  <2> QED BY <1>2, <2>1, PartIs
<1>4. w \in Seq(State) /\ OneToOne(w) /\ Entries(w) = {q[k] : k \in i + 1 .. n}
  <2>1. i + 1 \in Nat /\ i + 1 # 0 /\ n <= n
    OBVIOUS
  <2> QED BY <1>1, <1>2, <2>1, PartIs
<1>5. v \in Seq(State) /\ OneToOne(v) /\ Entries(v) = {x}
  BY <1>2 DEF OneToOne, Entries
<1>6. \A k \in 1 .. n : k \in 1 .. i \/ k \in i + 1 .. n
  OBVIOUS
<1>7. \A k \in 1 .. i : k \in 1 .. n /\ k \notin i + 1 .. n
  BY <1>1
<1>8. \A k \in i + 1 .. n : k \in 1 .. n
  OBVIOUS
<1>9. Entries(q) = {q[k] : k \in 1 .. n}
  BY <1>1 DEF Entries
<1>10. Entries(q) = Entries(u) \cup Entries(w)
  BY <1>3, <1>4, <1>6, <1>7, <1>8, <1>9
<1>11. Entries(u) \cap Entries(w) = {}
  <2>1. \A j, k \in 1 .. n : q[j] = q[k] => j = k
    BY <1>1 DEF OneToOne
  <2> QED BY <1>3, <1>4, <1>7, <1>8, <2>1
<1>12. Entries(u) \cap Entries(v) = {}
  BY <1>5, <1>10
<1>13. m \in Seq(State) /\ OneToOne(m) /\ Entries(m) = Entries(u) \cup {x}
  <2>1. m \in Seq(State) /\ OneToOne(m) /\ Entries(m) = Entries(u) \cup Entries(v)
    BY <1>2, <1>3, <1>5, <1>12, ConcatIs
  <2> QED BY <1>5, <2>1
<1>14. Entries(m) \cap Entries(w) = {}
  BY <1>10, <1>11, <1>13
<1>15. z = m \o w
  BY <1>1, <1>2 DEF InsertedAt
<1>16. z \in Seq(State) /\ OneToOne(z) /\ Entries(z) = Entries(m) \cup Entries(w)
  BY <1>4, <1>13, <1>14, <1>15, ConcatIs
<1>17. Entries(z) = Entries(q) \cup {x}
  BY <1>10, <1>13, <1>16
<1>18. /\ Cardinality(Entries(z)) = Len(z) /\ Len(z) <= MaxStates
       /\ Cardinality(Entries(q)) = Len(q) /\ IsFiniteSet(Entries(q))
  BY <1>16, EntriesCard
<1>19. Cardinality(Entries(z)) = Cardinality(Entries(q)) + 1
  BY <1>17, <1>18, CardAdd
<1> QED BY <1>16, <1>17, <1>18, <1>19

-------------------------------------------------------------------------------
(***************************************************************************)
(* The pool and its holders, step by step                                  *)
(***************************************************************************)
StatesOf(Ws) == {e.state : e \in Ws}

PendingOf(Ws) == {e.state : e \in {f \in Ws : f.res = "pending"}}

\* No two holders of different kinds hold the same state, and works start from
\* the state the main thread expands.
Shape(O, Ws, c, d) ==
    /\ O \subseteq State /\ Ws \subseteq Work /\ IsFiniteSet(Ws)
    /\ c \in State \cup {Null} /\ d \in State \cup {Null}
    /\ \A e \in Ws : e.src = c
    /\ \A e, f \in Ws : e.state = f.state => e = f
    /\ c \notin O /\ c \notin StatesOf(Ws) /\ O \cap StatesOf(Ws) = {}

World(p, O, Ws, c, d) ==
    /\ Shape(O, Ws, c, d)
    /\ Good(p, HoldOf(O, StatesOf(Ws), c, Cardinality(Ws), d))
    /\ Contents(p.st, PendingOf(Ws), StatesOf(Ws))

\* What a step keeps of the ancestors of the states in use.
Frame(p, r) ==
    \A x \in State :
        LET y == p.st[x].parent
        IN  y # Null /\ r.st[x].parent = y =>
               r.st[y].ref > 0 /\ r.st[y].enc = p.st[y].enc /\ r.st[y].depth = p.st[y].depth

\* It holds when only states without copies change.
Same(p, r, X) ==
    \A x \in State \ X : r.st[x].enc = p.st[x].enc /\ r.st[x].depth = p.st[x].depth

\* So AncestorsStay holds of such a step.
LEMMA SameFrame ==
  ASSUME NEW p, NEW r, NEW X, Same(p, r, X), \A x \in X : Kids(p.st, x) = {},
         Typed(p), NEW h \in [State -> Nat], Good(r, h)
  PROVE  Frame(p, r)
<1> SUFFICES ASSUME NEW x \in State, NEW y, y = p.st[x].parent, y # Null, r.st[x].parent = y
             PROVE  r.st[y].ref > 0 /\ r.st[y].enc = p.st[y].enc /\ r.st[y].depth = p.st[y].depth
  BY DEF Frame
<1>1. y \in State
  BY TypedFacts
<1>2. x \in Kids(p.st, y) /\ x \in Kids(r.st, y)
  BY DEF Kids
<1>3. r.st[y].enc = p.st[y].enc /\ r.st[y].depth = p.st[y].depth
  BY <1>1, <1>2 DEF Same
<1>4. r.st[y].ref # 0
  BY <1>1, <1>2, ParentHeld
<1>5. r.st[y].ref \in Nat
  BY <1>1, TypedFacts DEF Good
<1> QED BY <1>3, <1>4, <1>5

\* The facts the steps need.
LEMMA WorldFacts ==
  ASSUME NEW p, NEW O, NEW Ws, NEW c, NEW d, World(p, O, Ws, c, d),
         NEW W, W = StatesOf(Ws), NEW n, n = Cardinality(Ws), NEW h, h = HoldOf(O, W, c, n, d),
         NEW P, P = PendingOf(Ws)
  PROVE  /\ n \in Nat /\ W \in SUBSET State /\ Null \notin W /\ P \in SUBSET State /\ P \subseteq W
         /\ h \in [State -> Nat] /\ Good(p, h) /\ Typed(p) /\ Contents(p.st, P, W)
         /\ \A x \in State : x \in O \/ x \in W \/ x = c \/ x = d => h[x] # 0
         /\ \A x \in State : h[x] = 0 => x \notin O /\ x \notin W /\ x # c /\ x # d
         /\ (Ws = {} <=> n = 0)
<1>1. Shape(O, Ws, c, d) /\ Good(p, h) /\ Contents(p.st, P, W)
  BY DEF World
<1>2. n \in Nat /\ (Ws = {} <=> n = 0)
  <2>1. IsFiniteSet(Ws)
    BY <1>1 DEF Shape
  <2> QED BY <2>1, FS_EmptySet, FS_CardinalityType
<1>3. W \in SUBSET State
  <2>1. \A e \in Work : e.state \in State
    BY DEF Work
  <2>2. Ws \subseteq Work
    BY <1>1 DEF Shape
  <2> QED BY <2>1, <2>2 DEF StatesOf
<1>4. P \subseteq W
  BY DEF PendingOf, StatesOf
<1>5. /\ h \in [State -> Nat]
      /\ \A x \in State : x \in O \/ x \in W \/ x = c \/ x = d => h[x] # 0
      /\ \A x \in State : h[x] = 0 => x \notin O /\ x \notin W /\ x # c /\ x # d
  BY <1>2, HoldType
<1> QED BY <1>1, <1>2, <1>3, <1>4, <1>5, StateFacts DEF Good

\* put by one of the holders, whatever it is.
LEMMA WorldPut ==
  ASSUME NEW p, NEW O, NEW Ws, NEW c, NEW d, World(p, O, Ws, c, d),
         NEW h, h = HoldOf(O, StatesOf(Ws), c, Cardinality(Ws), d),
         NEW x \in State, h[x] # 0, NEW r, r = AfterPut(p, x),
         NEW OO, NEW Wz, NEW cc, NEW dd, Shape(OO, Wz, cc, dd),
         Less(h, x) = HoldOf(OO, StatesOf(Wz), cc, Cardinality(Wz), dd),
         PendingOf(Wz) = PendingOf(Ws), StatesOf(Wz) \subseteq StatesOf(Ws)
  PROVE  World(r, OO, Wz, cc, dd) /\ Kept(p, r)
<1>1. PICK P, W, n : P = PendingOf(Ws) /\ W = StatesOf(Ws) /\ n = Cardinality(Ws)
  OBVIOUS
<1>2. /\ Null \notin W /\ P \in SUBSET State /\ h \in [State -> Nat] /\ Good(p, h)
      /\ Contents(p.st, P, W)
  BY <1>1, WorldFacts
<1>3. Good(r, Less(h, x)) /\ Kept(p, r)
  BY <1>2, PutIs
<1>4. Contents(r.st, P, StatesOf(Wz))
  BY <1>1, <1>2, <1>3, KeptContents
<1> QED BY <1>1, <1>3, <1>4 DEF World

\* A state of the open list is dropped.
LEMMA DropOpen ==
  ASSUME NEW p, NEW O, NEW Ws, NEW c, NEW d, World(p, O, Ws, c, d), NEW x \in O, NEW r, r = AfterPut(p, x)
  PROVE  World(r, O \ {x}, Ws, c, d) /\ Kept(p, r)
<1>1. PICK h, W, n : /\ h = HoldOf(O, W, c, n, d) /\ W = StatesOf(Ws) /\ n = Cardinality(Ws)
  OBVIOUS
<1>2. Shape(O, Ws, c, d)
  BY DEF World
<1>3. x \in State /\ Shape(O \ {x}, Ws, c, d)
  BY <1>2 DEF Shape
<1>4. n \in Nat /\ h[x] # 0
  <2>1. PICK P : P = PendingOf(Ws)
    OBVIOUS
  <2> QED BY <1>1, <1>3, <2>1, WorldFacts
<1>5. Less(h, x) = HoldOf(O \ {x}, W, c, n, d)
  <2>1. PICK Q, g : Q = O \ {x} /\ g = HoldOf(Q, W, c, n, d)
    OBVIOUS
  <2>2. Less(h, x) = g
    BY <1>1, <1>3, <1>4, <2>1, HoldOpenLess
  <2> QED BY <2>1, <2>2
<1> QED BY <1>1, <1>3, <1>4, <1>5, WorldPut

\* The state found deepest is given up.
LEMMA DropDeepest ==
  ASSUME NEW p, NEW O, NEW Ws, NEW c, NEW d \in State, World(p, O, Ws, c, d), NEW r, r = AfterPut(p, d)
  PROVE  World(r, O, Ws, c, Null) /\ Kept(p, r)
<1>1. PICK h, W, n : /\ h = HoldOf(O, W, c, n, d) /\ W = StatesOf(Ws) /\ n = Cardinality(Ws)
  OBVIOUS
<1>2. Shape(O, Ws, c, d)
  BY DEF World
<1>3. Shape(O, Ws, c, Null)
  BY <1>2 DEF Shape
<1>4. n \in Nat /\ h[d] # 0
  <2>1. PICK P : P = PendingOf(Ws)
    OBVIOUS
  <2> QED BY <1>1, <2>1, WorldFacts
<1>5. Less(h, d) = HoldOf(O, W, c, n, Null)
  BY <1>1, <1>4, HoldDeepest
<1> QED BY <1>1, <1>3, <1>4, <1>5, WorldPut

\* Another state is held as the deepest.
LEMMA TakeDeepest ==
  ASSUME NEW p, NEW O, NEW Ws, NEW c, World(p, O, Ws, c, Null), NEW x \in O, NEW r, r = AddRef(p, x)
  PROVE  World(r, O, Ws, c, x) /\ Kept(p, r)
<1>1. PICK h, W, n, P : /\ h = HoldOf(O, W, c, n, Null) /\ W = StatesOf(Ws) /\ n = Cardinality(Ws)
                        /\ P = PendingOf(Ws)
  OBVIOUS
<1>2. Shape(O, Ws, c, Null)
  BY DEF World
<1>3. x \in State /\ Shape(O, Ws, c, x)
  BY <1>2 DEF Shape
<1>4. /\ n \in Nat /\ h[x] # 0 /\ h \in [State -> Nat] /\ Good(p, h) /\ Contents(p.st, P, W)
      /\ P \in SUBSET State /\ Null \notin W
  BY <1>1, <1>3, WorldFacts
<1>5. p.st[x].ref # 0
  BY <1>3, <1>4, Held
<1>6. Good(r, More(h, x)) /\ Kept(p, r)
  BY <1>3, <1>4, <1>5, AddRefIs
<1>7. More(h, x) = HoldOf(O, W, c, n, x)
  BY <1>1, <1>3, <1>4, HoldDeepest
<1>8. Contents(r.st, P, W)
  BY <1>4, <1>6, KeptContents
<1> QED BY <1>1, <1>3, <1>6, <1>7, <1>8 DEF World

\* The state about to be expanded goes from the open list to the main thread.
LEMMA Expand ==
  ASSUME NEW p, NEW O, NEW Ws, NEW d, World(p, O, Ws, Null, d), NEW x \in O
  PROVE  World(p, O \ {x}, Ws, x, d) /\ Ws = {}
<1>1. Shape(O, Ws, Null, d)
  BY DEF World
<1>2. Ws = {}
  <2>1. \A e \in Work : e.src \in State
    BY DEF Work
  <2>2. \A e \in Ws : e \in Work /\ e.src = Null
    BY <1>1 DEF Shape
  <2> QED BY <2>1, <2>2, StateFacts
<1>3. StatesOf(Ws) = {} /\ x \in State
  BY <1>1, <1>2 DEF StatesOf, Shape
<1>4. Shape(O \ {x}, Ws, x, d)
  BY <1>1, <1>2, <1>3 DEF Shape
<1>5. Cardinality(Ws) = 0
  BY <1>2, FS_EmptySet
<1>6. PICK n \in Nat : n = 0
  OBVIOUS
<1>7. HoldOf(O, StatesOf(Ws), Null, 0, d) = HoldOf(O \ {x}, StatesOf(Ws), x, 0, d)
  BY <1>3, HoldMainTake
<1>8. Good(p, HoldOf(O \ {x}, StatesOf(Ws), x, Cardinality(Ws), d))
  BY <1>5, <1>7 DEF World
<1> QED BY <1>2, <1>4, <1>8 DEF World

\* It is put when all its works are collected.
LEMMA DropExpanded ==
  ASSUME NEW p, NEW O, NEW Ws, NEW c \in State, NEW d, World(p, O, Ws, c, d), Ws = {},
         NEW r, r = AfterPut(p, c)
  PROVE  World(r, O, Ws, Null, d) /\ Kept(p, r)
<1>1. PICK h, W, n, P : /\ h = HoldOf(O, W, c, n, d) /\ W = StatesOf(Ws) /\ n = Cardinality(Ws)
                        /\ P = PendingOf(Ws)
  OBVIOUS
<1>2. Shape(O, Ws, c, d)
  BY DEF World
<1>3. Shape(O, Ws, Null, d)
  BY <1>2, StateFacts DEF Shape, StatesOf
<1>4. n \in Nat /\ h[c] # 0 /\ n = 0
  BY <1>1, WorldFacts
<1>5. Less(h, c) = HoldOf(O, W, Null, n, d)
  <2>1. PICK g : g = HoldOf(O, W, Null, n, d)
    OBVIOUS
  <2>2. Less(h, c) = g
    BY <1>1, <1>4, <2>1, HoldMainDrop
  <2> QED BY <2>1, <2>2
<1> QED BY <1>1, <1>3, <1>4, <1>5, WorldPut

\* No state but x changes, and none but x comes into use.
Only(p, r, x) ==
    \A y \in State \ {x} : /\ r.st[y].enc = p.st[y].enc /\ r.st[y].depth = p.st[y].depth
                           /\ r.st[y].ref # 0 => p.st[y].ref # 0

\* What a new work e adds.
SubmitFacts(p, r, O, Ws, c, d, e) ==
    /\ World(r, O, Ws \cup {e}, c, d) /\ Frame(p, r) /\ e \in Work /\ Unlike(Ws, e)
    /\ Cardinality(Ws \cup {e}) = Cardinality(Ws) + 1
    /\ Only(p, r, e.state) /\ e.state \notin O /\ e.state # c /\ e.state # d

\* A work is submitted: it holds the state it starts from and a new one.
LEMMA SubmitWork ==
  ASSUME NEW p, NEW O, NEW Ws, NEW c \in State, NEW d, World(p, O, Ws, c, d),
         NEW q, q = AddRef(p, c), NEW x \in State, x = GetState(q), NEW r, r = AfterGet(q),
         NEW op \in Operation, NEW e, e = [state |-> x, src |-> c, op |-> op, res |-> "pending"]
  PROVE  SubmitFacts(p, r, O, Ws, c, d, e)
<1>1. PICK h, W, n, P : /\ h = HoldOf(O, W, c, n, d) /\ W = StatesOf(Ws) /\ n = Cardinality(Ws)
                        /\ P = PendingOf(Ws)
  OBVIOUS
<1>2. Shape(O, Ws, c, d)
  BY DEF World
<1>3. /\ n \in Nat /\ h[c] # 0 /\ h \in [State -> Nat] /\ Good(p, h) /\ Contents(p.st, P, W)
      /\ P \in SUBSET State /\ Null \notin W /\ P \subseteq W /\ W \in SUBSET State /\ Typed(p)
  BY <1>1, WorldFacts
<1>4. p.st[c].ref # 0
  BY <1>3, Held
<1>5. /\ Good(q, More(h, c)) /\ More(h, c) \in [State -> Nat] /\ Kept(p, q)
      /\ \A y \in State : q.st[y].parent = p.st[y].parent /\ (q.st[y].ref = 0 <=> p.st[y].ref = 0)
  BY <1>3, <1>4, AddRefIs
<1>6. PICK g, m : g = HoldOf(O, W, c, m, d) /\ m = n + 1
  OBVIOUS
<1>7. m \in Nat /\ More(h, c) = g
  <2>1. m \in Nat
    BY <1>3, <1>6
  <2>2. More(h, c) = g
    BY <1>1, <1>3, <1>6, HoldMainMore
  <2> QED BY <2>1, <2>2
<1>8. Good(q, g) /\ g \in [State -> Nat]
  BY <1>5, <1>7
<1>9. /\ Good(r, More(g, x)) /\ More(g, x) \in [State -> Nat] /\ g[x] = 0 /\ Kids(q.st, x) = {}
      /\ Changed(r.st, q.st, x, FreshState) /\ FreshState \in StateInfo
  BY <1>8, GetIs
<1>10. x \notin O /\ x \notin W /\ x # c /\ x # d
  BY <1>6, <1>7, <1>9, HoldFree
<1>11. More(g, x) = HoldOf(O, W \cup {x}, c, m, d)
  <2>1. PICK Z, k : Z = W \cup {x} /\ k = HoldOf(O, Z, c, m, d)
    OBVIOUS
  <2>2. More(g, x) = k
    BY <1>6, <1>7, <1>10, <2>1, HoldWorkMore
  <2> QED BY <2>1, <2>2
<1>12. e \in Work /\ e.state = x /\ e.src = c /\ e.res = "pending"
  BY DEF Work
<1>13. \A f \in Ws : f.state # x
  BY <1>1, <1>10 DEF StatesOf
<1>14. e \notin Ws
  BY <1>12, <1>13
<1>15. PICK V : V = Ws \cup {e}
  OBVIOUS
<1>16. StatesOf(V) = W \cup {x}
  BY <1>1, <1>12, <1>15 DEF StatesOf
<1>17. PendingOf(V) = P \cup {x}
  BY <1>1, <1>12, <1>15 DEF PendingOf
<1>18. IsFiniteSet(V) /\ Cardinality(V) = m
  <2>1. IsFiniteSet(Ws)
    BY <1>2 DEF Shape
  <2>2. IsFiniteSet(V) /\ Cardinality(V) = Cardinality(Ws) + 1
    BY <1>14, <1>15, <2>1, CardAdd
  <2> QED BY <1>1, <1>6, <2>2
<1>19. Shape(O, V, c, d)
  <2>1. /\ O \subseteq State /\ Ws \subseteq Work /\ d \in State \cup {Null}
        /\ \A f \in Ws : f.src = c
        /\ \A f, k \in Ws : f.state = k.state => f = k
        /\ c \notin O /\ c \notin W /\ O \cap W = {}
    BY <1>1, <1>2 DEF Shape
  <2>2. V \subseteq Work /\ \A f \in V : f.src = c
    BY <1>12, <1>15, <2>1
  <2>3. \A f, k \in V : f.state = k.state => f = k
    BY <1>12, <1>13, <1>15, <2>1
  <2>4. c \notin StatesOf(V) /\ O \cap StatesOf(V) = {}
    BY <1>10, <1>16, <2>1
  <2> QED BY <1>18, <2>1, <2>2, <2>3, <2>4 DEF Shape
<1>20. q.st \in [State -> StateInfo]
  BY <1>8, TypedFacts DEF Good
<1>21. /\ r.st[x] = FreshState /\ \A y \in State : y # x => r.st[y] = q.st[y]
  BY <1>9, <1>20, ChangedIs
<1>22. Contents(q.st, P, W)
  <2>1. W \subseteq W
    OBVIOUS
  <2> QED BY <1>3, <1>5, <2>1, KeptContents
<1>23. FreshState.parent = Null
  BY DEF FreshState
<1>24. Contents(r.st, P \cup {x}, W \cup {x})
  <2>1. ASSUME NEW y \in State, r.st[y].ref # 0, y \notin P \cup {x} PROVE r.st[y].enc \in Encodings
    BY <1>21, <1>22, <2>1 DEF Contents
  <2>2. ASSUME NEW y \in State PROVE r.st[y].parent \notin W \cup {x}
    <3>1. CASE y = x
      BY <1>3, <1>21, <1>23, <3>1, StateFacts
    <3>2. CASE y # x
      <4>1. r.st[y].parent = q.st[y].parent /\ q.st[y].parent \notin W
        BY <1>21, <1>22, <3>2 DEF Contents
      <4>2. q.st[y].parent # x
        BY <1>9 DEF Kids
      <4> QED BY <4>1, <4>2
    <3> QED BY <3>1, <3>2
  <2>3. ASSUME NEW y \in P \cup {x} PROVE r.st[y].parent = Null
    BY <1>3, <1>21, <1>22, <1>23 DEF Contents
  <2> QED BY <2>1, <2>2, <2>3 DEF Contents
<1>25. World(r, O, V, c, d)
  BY <1>9, <1>11, <1>16, <1>17, <1>18, <1>19, <1>24 DEF World
<1>26. Frame(p, r)
  <2>1. Same(p, r, {x})
    BY <1>5, <1>21 DEF Same, Kept
  <2>2. \A y \in {x} : Kids(p.st, y) = {}
    BY <1>5, <1>9 DEF Kids
  <2> QED BY <1>3, <1>9, <2>1, <2>2, SameFrame
<1>27. Only(p, r, x)
  BY <1>5, <1>21 DEF Only, Kept
<1> QED BY <1>1, <1>6, <1>10, <1>12, <1>13, <1>15, <1>18, <1>25, <1>26, <1>27 DEF SubmitFacts, Unlike

\* What is left of the works and of their states when one is taken out.
TakenOut(O, Ws, c, d, e, V) ==
    /\ StatesOf(V) = StatesOf(Ws) \ {e.state} /\ PendingOf(V) = PendingOf(Ws)
    /\ Cardinality(V) = Cardinality(Ws) - 1 /\ IsFiniteSet(V)
    /\ Cardinality(Ws) \in Nat /\ Cardinality(Ws) # 0
    /\ Shape(O, V, c, d) /\ Shape(O \cup {e.state}, V, c, d)
    /\ e.state \in StatesOf(Ws) /\ e.state \notin O /\ e.state \in State

\* The others stay as they were.
LEMMA RemoveWork ==
  ASSUME NEW O, NEW Ws, NEW c, NEW d, Shape(O, Ws, c, d), NEW e \in Ws, e.res # "pending",
         NEW V, V = Ws \ {e}
  PROVE  TakenOut(O, Ws, c, d, e, V)
<1>1. /\ O \subseteq State /\ Ws \subseteq Work /\ d \in State \cup {Null} /\ c \in State \cup {Null}
      /\ \A f \in Ws : f.src = c
      /\ \A f, k \in Ws : f.state = k.state => f = k
      /\ c \notin O /\ c \notin StatesOf(Ws) /\ O \cap StatesOf(Ws) = {} /\ IsFiniteSet(Ws)
  BY DEF Shape
<1>2. StatesOf(V) = StatesOf(Ws) \ {e.state} /\ e.state \in StatesOf(Ws)
  BY <1>1 DEF StatesOf
<1>3. PendingOf(V) = PendingOf(Ws)
  BY DEF PendingOf
<1>4. Cardinality(V) = Cardinality(Ws) - 1 /\ IsFiniteSet(V)
  BY <1>1, CardRemove
<1>5. Cardinality(Ws) \in Nat /\ Cardinality(Ws) # 0
  BY <1>1, CardPos
<1>6. e.state \in State
  BY <1>1 DEF Work
<1>7. V \subseteq Work /\ (\A f \in V : f.src = c) /\ \A f, k \in V : f.state = k.state => f = k
  BY <1>1
<1>8. c \notin StatesOf(V) /\ O \cap StatesOf(V) = {}
  BY <1>1, <1>2
<1>9. Shape(O, V, c, d)
  BY <1>1, <1>4, <1>7, <1>8 DEF Shape
<1>10. Shape(O \cup {e.state}, V, c, d)
  <2>1. c # e.state /\ (O \cup {e.state}) \cap StatesOf(V) = {}
    BY <1>1, <1>2
  <2> QED BY <1>1, <1>4, <1>6, <1>7, <1>8, <2>1 DEF Shape
<1> QED BY <1>1, <1>2, <1>3, <1>4, <1>5, <1>6, <1>9, <1>10 DEF TakenOut

\* A work is collected, and its state goes to the open list.
LEMMA CollectKeep ==
  ASSUME NEW p, NEW O, NEW Ws, NEW c \in State, NEW d, World(p, O, Ws, c, d), NEW e \in Ws,
         e.res # "pending", NEW r, r = AfterPut(p, c)
  PROVE  World(r, O \cup {e.state}, Ws \ {e}, c, d) /\ Kept(p, r)
<1>1. PICK h, W, n, P : /\ h = HoldOf(O, W, c, n, d) /\ W = StatesOf(Ws) /\ n = Cardinality(Ws)
                        /\ P = PendingOf(Ws)
  OBVIOUS
<1>2. PICK V, x : V = Ws \ {e} /\ x = e.state
  OBVIOUS
<1>3. Shape(O, Ws, c, d)
  BY DEF World
<1>4. /\ StatesOf(V) = W \ {x} /\ PendingOf(V) = P /\ Cardinality(V) = n - 1 /\ n \in Nat /\ n # 0
      /\ Shape(O \cup {x}, V, c, d) /\ x \in W /\ x \notin O /\ x \in State
  <2>1. TakenOut(O, Ws, c, d, e, V)
    BY <1>2, <1>3, RemoveWork
  <2> QED BY <1>1, <1>2, <2>1 DEF TakenOut
<1>5. h[c] # 0
  BY <1>1, WorldFacts
<1>6. PICK Q, Z, m, g : /\ Q = O \cup {x} /\ Z = W \ {x} /\ m = n - 1 /\ g = HoldOf(Q, Z, c, m, d)
  OBVIOUS
<1>7. h = HoldOf(Q, Z, c, n, d)
  BY <1>1, <1>4, <1>6, HoldWorkMove
<1>8. Less(h, c) = HoldOf(O \cup {x}, StatesOf(V), c, Cardinality(V), d)
  <2>1. Less(h, c) = g
    BY <1>4, <1>6, <1>7, HoldMainLess
  <2>2. StatesOf(V) = Z /\ Cardinality(V) = m
    BY <1>4, <1>6
  <2> QED BY <1>6, <2>1, <2>2
<1>9. StatesOf(V) \subseteq StatesOf(Ws) /\ PendingOf(V) = PendingOf(Ws)
  BY <1>1, <1>4
<1>10. World(r, O \cup {x}, V, c, d) /\ Kept(p, r)
  BY <1>1, <1>4, <1>5, <1>8, <1>9, WorldPut
<1> QED BY <1>2, <1>10

\* A work is collected, and its state is put.
LEMMA CollectDrop ==
  ASSUME NEW p, NEW O, NEW Ws, NEW c \in State, NEW d, World(p, O, Ws, c, d), NEW e \in Ws,
         e.res # "pending", NEW q, q = AfterPut(p, e.state), NEW r, r = AfterPut(q, c)
  PROVE  World(r, O, Ws \ {e}, c, d) /\ Kept(p, r)
<1>1. PICK h, W, n, P : /\ h = HoldOf(O, W, c, n, d) /\ W = StatesOf(Ws) /\ n = Cardinality(Ws)
                        /\ P = PendingOf(Ws)
  OBVIOUS
<1>2. PICK V, x : V = Ws \ {e} /\ x = e.state
  OBVIOUS
<1>3. Shape(O, Ws, c, d)
  BY DEF World
<1>4. /\ StatesOf(V) = W \ {x} /\ PendingOf(V) = P /\ Cardinality(V) = n - 1 /\ n \in Nat /\ n # 0
      /\ Shape(O, V, c, d) /\ x \in W /\ x \in State
  <2>1. TakenOut(O, Ws, c, d, e, V)
    BY <1>2, <1>3, RemoveWork
  <2> QED BY <1>1, <1>2, <2>1 DEF TakenOut
<1>5. /\ h[x] # 0 /\ h \in [State -> Nat] /\ Good(p, h) /\ Contents(p.st, P, W)
      /\ P \in SUBSET State /\ Null \notin W
  BY <1>1, <1>4, WorldFacts
<1>6. PICK Z, m, g, k : /\ Z = W \ {x} /\ m = n - 1 /\ g = HoldOf(O, Z, c, n, d)
                        /\ k = HoldOf(O, Z, c, m, d)
  OBVIOUS
<1>7. Less(h, x) = g
  BY <1>1, <1>4, <1>6, HoldWorkLess
<1>8. Good(q, g) /\ g \in [State -> Nat] /\ Kept(p, q)
  <2>1. Good(q, Less(h, x)) /\ Less(h, x) \in [State -> Nat] /\ Kept(p, q)
    BY <1>2, <1>4, <1>5, PutIs
  <2> QED BY <1>7, <2>1
<1>9. g[c] # 0
  BY <1>4, <1>6, HoldHeld
<1>10. Good(r, Less(g, c)) /\ Kept(q, r)
  BY <1>8, <1>9, PutIs
<1>11. Less(g, c) = HoldOf(O, StatesOf(V), c, Cardinality(V), d)
  <2>1. Less(g, c) = k
    BY <1>4, <1>6, HoldMainLess
  <2>2. StatesOf(V) = Z /\ Cardinality(V) = m
    BY <1>4, <1>6
  <2> QED BY <1>6, <2>1, <2>2
<1>12. Kept(p, r)
  BY <1>8, <1>10, KeptTrans
<1>13. Contents(r.st, P, W \ {x})
  <2>1. W \ {x} \subseteq W
    OBVIOUS
  <2> QED BY <1>5, <1>12, <2>1, KeptContents
<1>14. World(r, O, V, c, d)
  BY <1>4, <1>10, <1>11, <1>13 DEF World
<1> QED BY <1>2, <1>12, <1>14

\* What a copy changes.
Copied(q, b, x, c, h) ==
    /\ Good(q, h) /\ q.st[x].parent = c /\ q.st[x].enc = b.st[c].enc
    /\ \A z \in State : q.st[z].ref = 0 <=> b.st[z].ref = 0
    /\ \A z \in State \ {x} : /\ q.st[z].enc = b.st[z].enc /\ q.st[z].depth = b.st[z].depth
                              /\ q.st[z].parent = b.st[z].parent

\* DuplicateFrom does no more.
LEMMA CopiedIs ==
  ASSUME NEW p, NEW h \in [State -> Nat], Good(p, h), NEW x \in State, NEW y \in State, x # y,
         p.st[x].ref # 0, p.st[x].parent = Null, Kids(p.st, x) = {}, p.st[y].ref # 0,
         NEW r, r = Duplicated(p, x, y)
  PROVE  Copied(r, p, x, y, h)
BY DuplicatedIs DEF Copied

\* A work goes on: another work for the same state takes its place.
Swapped(O, Ws, c, d, e, V) ==
    /\ StatesOf(V) = StatesOf(Ws) /\ PendingOf(V) = PendingOf(Ws) \ {e.state}
    /\ Cardinality(V) = Cardinality(Ws) /\ Shape(O, V, c, d)
    /\ e.state \in StatesOf(Ws) /\ e.state \in State /\ e.state # c /\ c = e.src
    /\ e.res = "pending" <=> e.state \in PendingOf(Ws)

\* The others stay as they were.
LEMMA SwapWork ==
  ASSUME NEW O, NEW Ws, NEW c, NEW d, Shape(O, Ws, c, d), NEW e \in Ws, NEW f \in Work,
         f.state = e.state, f.src = e.src, f.res # "pending", NEW V, V = (Ws \ {e}) \cup {f}
  PROVE  Swapped(O, Ws, c, d, e, V)
<1>1. /\ O \subseteq State /\ Ws \subseteq Work /\ d \in State \cup {Null} /\ c \in State \cup {Null}
      /\ \A g \in Ws : g.src = c
      /\ \A g, k \in Ws : g.state = k.state => g = k
      /\ c \notin O /\ c \notin StatesOf(Ws) /\ O \cap StatesOf(Ws) = {} /\ IsFiniteSet(Ws)
  BY DEF Shape
<1>2. StatesOf(V) = StatesOf(Ws) /\ e.state \in StatesOf(Ws)
  BY DEF StatesOf
<1>3. e.res = "pending" <=> e.state \in PendingOf(Ws)
  BY <1>1 DEF PendingOf
<1>4. PendingOf(V) = PendingOf(Ws) \ {e.state}
  <2>1. ASSUME NEW y \in PendingOf(V) PROVE y \in PendingOf(Ws) \ {e.state}
    <3>1. PICK g \in V : g.res = "pending" /\ y = g.state
      BY DEF PendingOf
    <3>2. g \in Ws /\ g # e
      BY <3>1
    <3>3. g.state # e.state
      BY <1>1, <3>2
    <3> QED BY <3>1, <3>2, <3>3 DEF PendingOf
  <2>2. ASSUME NEW y \in PendingOf(Ws) \ {e.state} PROVE y \in PendingOf(V)
    <3>1. PICK g \in Ws : g.res = "pending" /\ y = g.state
      BY DEF PendingOf
    <3>2. g \in V
      BY <3>1
    <3> QED BY <3>1, <3>2 DEF PendingOf
  <2> QED BY <2>1, <2>2
<1>5. f \notin Ws \ {e}
  BY <1>1
<1>6. IsFiniteSet(V) /\ Cardinality(V) = Cardinality(Ws)
  <2>1. PICK U : U = Ws \ {e}
    OBVIOUS
  <2>2. IsFiniteSet(U) /\ Cardinality(U) = Cardinality(Ws) - 1
    BY <1>1, <2>1, CardRemove
  <2>3. Cardinality(Ws) \in Nat
    BY <1>1, FS_CardinalityType
  <2>4. IsFiniteSet(V) /\ Cardinality(V) = Cardinality(U) + 1
    <3>1. V = U \cup {f} /\ f \notin U
      BY <1>5, <2>1
    <3> QED BY <2>2, <3>1, CardAdd
  <2> QED BY <2>2, <2>3, <2>4
<1>7. e.state \in State
  BY <1>1 DEF Work
<1>8. V \subseteq Work /\ \A g \in V : g.src = c
  BY <1>1
<1>9. \A g, k \in V : g.state = k.state => g = k
  BY <1>1
<1>10. Shape(O, V, c, d)
  BY <1>1, <1>2, <1>6, <1>8, <1>9 DEF Shape
<1>11. e.state # c /\ c = e.src
  BY <1>1, <1>2
<1> QED BY <1>2, <1>3, <1>4, <1>6, <1>7, <1>10, <1>11 DEF Swapped

\* put and AddRef leave the ancestors of the states in use alone.
LEMMA KeptFrame ==
  ASSUME NEW p, NEW r, Kept(p, r), Typed(p), NEW h \in [State -> Nat], Good(r, h)
  PROVE  Frame(p, r)
<1>1. Same(p, r, {})
  BY DEF Same, Kept
<1>2. \A x \in {} : Kids(p.st, x) = {}
  OBVIOUS
<1> QED BY <1>1, <1>2, SameFrame

\* What a worker changes when it copies the state its work starts from.
DuplicateFacts(p, r, O, V, c, d, x) ==
    /\ World(r, O, V, c, d) /\ Frame(p, r) /\ Only(p, r, x)
    /\ r.st[x].enc = p.st[c].enc /\ r.st[x].depth = p.st[c].depth + 1

\* It does no more.
LEMMA DuplicateWork ==
  ASSUME NEW p, NEW O, NEW Ws, NEW c \in State, NEW d, World(p, O, Ws, c, d), NEW e \in Ws,
         e.res = "pending", NEW f \in Work, f.state = e.state, f.src = e.src, f.res # "pending",
         NEW r, r = Duplicated(p, e.state, e.src), NEW V, V = (Ws \ {e}) \cup {f}
  PROVE  DuplicateFacts(p, r, O, V, c, d, e.state)
<1>1. PICK h, W, n, P : /\ h = HoldOf(O, W, c, n, d) /\ W = StatesOf(Ws) /\ n = Cardinality(Ws)
                        /\ P = PendingOf(Ws)
  OBVIOUS
<1>2. PICK x : x = e.state
  OBVIOUS
<1>3. Shape(O, Ws, c, d)
  BY DEF World
<1>4. /\ StatesOf(V) = W /\ PendingOf(V) = P \ {x} /\ Cardinality(V) = n
      /\ Shape(O, V, c, d) /\ x \in W /\ x \in P /\ x \in State /\ x # c /\ c = e.src
  <2>1. Swapped(O, Ws, c, d, e, V)
    BY <1>2, <1>3, SwapWork
  <2> QED BY <1>1, <1>2, <2>1 DEF Swapped
<1>5. /\ h \in [State -> Nat] /\ Good(p, h) /\ Contents(p.st, P, W) /\ Typed(p)
      /\ P \in SUBSET State /\ Null \notin W /\ P \subseteq W /\ n \in Nat
  BY <1>1, WorldFacts
<1>6. c \notin W
  BY <1>1, <1>3 DEF Shape
<1>7. h[x] # 0 /\ h[c] # 0
  BY <1>1, <1>4, <1>5, HoldHeld
<1>8. p.st[x].ref # 0 /\ p.st[c].ref # 0
  BY <1>4, <1>5, <1>7, Held
<1>9. p.st[x].parent = Null /\ Kids(p.st, x) = {}
  BY <1>4, <1>5 DEF Contents, Kids
<1>10. /\ Good(r, h)
       /\ r.st[x].parent = c /\ r.st[x].enc = p.st[c].enc /\ r.st[x].depth = p.st[c].depth + 1
       /\ \A z \in State : r.st[z].ref = 0 <=> p.st[z].ref = 0
       /\ \A z \in State \ {x} : /\ r.st[z].enc = p.st[z].enc /\ r.st[z].depth = p.st[z].depth
                                 /\ r.st[z].parent = p.st[z].parent
  <2>1. r = Duplicated(p, x, c)
    BY <1>2, <1>4
  <2> QED BY <1>4, <1>5, <1>8, <1>9, <2>1, DuplicatedIs
<1>11. Contents(r.st, P \ {x}, W)
  <2>1. ASSUME NEW y \in State, r.st[y].ref # 0, y \notin P \ {x} PROVE r.st[y].enc \in Encodings
    <3>1. CASE y = x
      <4>1. c \notin P
        BY <1>5, <1>6
      <4> QED BY <1>5, <1>8, <1>10, <3>1, <4>1 DEF Contents
    <3>2. CASE y # x
      BY <1>5, <1>10, <2>1, <3>2 DEF Contents
    <3> QED BY <3>1, <3>2
  <2>2. ASSUME NEW y \in State PROVE r.st[y].parent \notin W
    <3>1. CASE y = x
      BY <1>6, <1>10, <3>1
    <3>2. CASE y # x
      BY <1>5, <1>10, <3>2 DEF Contents
    <3> QED BY <3>1, <3>2
  <2>3. ASSUME NEW y \in P \ {x} PROVE r.st[y].parent = Null
    BY <1>5, <1>10 DEF Contents
  <2> QED BY <2>1, <2>2, <2>3 DEF Contents
<1>12. World(r, O, V, c, d)
  BY <1>1, <1>4, <1>10, <1>11 DEF World
<1>13. Frame(p, r)
  <2>1. Same(p, r, {x})
    BY <1>10 DEF Same
  <2>2. \A y \in {x} : Kids(p.st, y) = {}
    BY <1>9
  <2> QED BY <1>5, <1>10, <2>1, <2>2, SameFrame
<1>14. Only(p, r, x)
  BY <1>10 DEF Only
<1> QED BY <1>2, <1>10, <1>12, <1>13, <1>14 DEF DuplicateFacts

\* What a worker changes when it carries out the operation on its copy.
OperateFacts(p, r, O, V, c, d, x, enc) ==
    /\ World(r, O, V, c, d) /\ Frame(p, r) /\ Only(p, r, x)
    /\ r.st[x].enc = enc /\ r.st[x].depth = p.st[x].depth

\* It does no more.
LEMMA OperateWork ==
  ASSUME NEW p, NEW O, NEW Ws, NEW c \in State, NEW d, World(p, O, Ws, c, d), NEW e \in Ws,
         e.res # "pending", NEW f \in Work, f.state = e.state, f.src = e.src, f.res # "pending",
         NEW x, x = e.state, NEW op \in Operation, NEW enc \in EncAfter(p.st, x, op),
         NEW r, r = Encoded(p, x, enc), NEW V, V = (Ws \ {e}) \cup {f}
  PROVE  OperateFacts(p, r, O, V, c, d, x, enc)
<1>1. PICK h, W, n, P : /\ h = HoldOf(O, W, c, n, d) /\ W = StatesOf(Ws) /\ n = Cardinality(Ws)
                        /\ P = PendingOf(Ws)
  OBVIOUS
<1>2. Shape(O, Ws, c, d)
  BY DEF World
<1>3. /\ StatesOf(V) = W /\ PendingOf(V) = P /\ Cardinality(V) = n
      /\ Shape(O, V, c, d) /\ x \in W /\ x \notin P /\ x \in State
  <2>1. Swapped(O, Ws, c, d, e, V)
    BY <1>2, SwapWork
  <2> QED BY <1>1, <2>1 DEF Swapped
<1>4. /\ h \in [State -> Nat] /\ Good(p, h) /\ Contents(p.st, P, W) /\ Typed(p)
      /\ P \in SUBSET State /\ Null \notin W /\ P \subseteq W /\ n \in Nat
  BY <1>1, WorldFacts
<1>5. h[x] # 0
  BY <1>1, <1>3, <1>4, HoldHeld
<1>6. p.st[x].ref # 0
  BY <1>3, <1>4, <1>5, Held
<1>7. enc \in Encodings
  BY <1>3, <1>4, <1>6, EncAfterIs
<1>8. /\ Good(r, h) /\ r.st[x].enc = enc
      /\ \A z \in State : /\ r.st[z].ref = p.st[z].ref /\ r.st[z].depth = p.st[z].depth
                          /\ r.st[z].parent = p.st[z].parent
      /\ \A z \in State \ {x} : r.st[z].enc = p.st[z].enc
  BY <1>3, <1>4, <1>7, EncIs
<1>9. Contents(r.st, P, W)
  BY <1>4, <1>7, <1>8 DEF Contents
<1>10. World(r, O, V, c, d)
  BY <1>1, <1>3, <1>8, <1>9 DEF World
<1>11. Frame(p, r)
  <2>1. Same(p, r, {x})
    BY <1>8 DEF Same
  <2>2. \A y \in {x} : Kids(p.st, y) = {}
    BY <1>3, <1>4 DEF Kids, Contents
  <2> QED BY <1>4, <1>8, <2>1, <2>2, SameFrame
<1>12. Only(p, r, x)
  BY <1>8 DEF Only
<1> QED BY <1>3, <1>8, <1>10, <1>11, <1>12 DEF OperateFacts

\* What a state copied and changed by the main thread adds.
InlineFacts(p, r, O, Ws, c, d, x, enc) ==
    /\ World(r, O \cup {x}, Ws, c, d) /\ Frame(p, r) /\ x \notin O /\ enc \in Encodings
    /\ Same(p, r, {x}) /\ Kids(p.st, x) = {}

\* The search in one thread copies the state it expands and carries out the operation.
LEMMA InlineWork ==
  ASSUME NEW p, NEW O, NEW Ws, NEW c \in State, NEW d, World(p, O, Ws, c, d),
         NEW x \in State, x = GetState(p), NEW b, b = AfterGet(p), NEW q, q = Duplicated(b, x, c),
         NEW op \in Operation, NEW enc \in EncAfter(q.st, x, op), NEW r, r = Encoded(q, x, enc)
  PROVE  InlineFacts(p, r, O, Ws, c, d, x, enc)
<1>1. PICK h, W, n, P : /\ h = HoldOf(O, W, c, n, d) /\ W = StatesOf(Ws) /\ n = Cardinality(Ws)
                        /\ P = PendingOf(Ws)
  OBVIOUS
<1>2. Shape(O, Ws, c, d)
  BY DEF World
<1>3. /\ h \in [State -> Nat] /\ Good(p, h) /\ Contents(p.st, P, W) /\ Typed(p)
      /\ P \in SUBSET State /\ Null \notin W /\ P \subseteq W /\ n \in Nat
  BY <1>1, WorldFacts
<1>4. h[c] # 0
  BY <1>1, <1>3, HoldHeld
<1>5. p.st[c].ref # 0
  BY <1>3, <1>4, Held
<1>6. /\ Good(b, More(h, x)) /\ More(h, x) \in [State -> Nat] /\ h[x] = 0 /\ Kids(p.st, x) = {}
      /\ Changed(b.st, p.st, x, FreshState) /\ FreshState \in StateInfo
  BY <1>3, GetIs
<1>7. x \notin O /\ x \notin W /\ x # c /\ x # d
  BY <1>1, <1>3, <1>6, HoldFree
<1>8. PICK Q, g : Q = O \cup {x} /\ g = HoldOf(Q, W, c, n, d)
  OBVIOUS
<1>9. More(h, x) = g
  BY <1>1, <1>3, <1>7, <1>8, HoldOpenMore
<1>10. Good(b, g) /\ g \in [State -> Nat]
  BY <1>6, <1>9
<1>11. p.st \in [State -> StateInfo]
  BY <1>3, TypedFacts
<1>12. /\ b.st[x] = FreshState /\ \A y \in State : y # x => b.st[y] = p.st[y]
  BY <1>6, <1>11, ChangedIs
<1>13. FreshState.parent = Null /\ FreshState.ref = 1
  BY DEF FreshState
<1>14. b.st[x].ref # 0 /\ b.st[x].parent = Null /\ b.st[c].ref # 0
  BY <1>5, <1>7, <1>12, <1>13
<1>15. Kids(b.st, x) = {}
  <2>1. ASSUME NEW y \in State PROVE b.st[y].parent # x
    <3>1. CASE y = x
      BY <1>12, <1>13, <3>1, StateFacts
    <3>2. CASE y # x
      BY <1>6, <1>12, <3>2 DEF Kids
    <3> QED BY <3>1, <3>2
  <2> QED BY <2>1 DEF Kids
<1>16. /\ Good(q, g) /\ q.st[x].parent = c /\ q.st[x].enc = b.st[c].enc
       /\ \A z \in State : q.st[z].ref = 0 <=> b.st[z].ref = 0
       /\ \A z \in State \ {x} : /\ q.st[z].enc = b.st[z].enc /\ q.st[z].depth = b.st[z].depth
                                 /\ q.st[z].parent = b.st[z].parent
  <2>1. x # c
    BY <1>7
  <2>2. Copied(q, b, x, c, g)
    BY <1>10, <1>14, <1>15, <2>1, CopiedIs
  <2> QED BY <2>2 DEF Copied
<1>17. c \notin W
  BY <1>1, <1>2 DEF Shape
<1>18. Contents(q.st, P, W)
  <2>1. ASSUME NEW y \in State, q.st[y].ref # 0, y \notin P PROVE q.st[y].enc \in Encodings
    <3>1. CASE y = x
      <4>1. c \notin P
        BY <1>3, <1>17
      <4>2. p.st[c].enc \in Encodings
        BY <1>3, <1>5, <4>1 DEF Contents
      <4> QED BY <1>7, <1>12, <1>16, <3>1, <4>2
    <3>2. CASE y # x
      BY <1>3, <1>12, <1>16, <2>1, <3>2 DEF Contents
    <3> QED BY <3>1, <3>2
  <2>2. ASSUME NEW y \in State PROVE q.st[y].parent \notin W
    <3>1. CASE y = x
      BY <1>16, <1>17, <3>1
    <3>2. CASE y # x
      BY <1>3, <1>12, <1>16, <3>2 DEF Contents
    <3> QED BY <3>1, <3>2
  <2>3. ASSUME NEW y \in P PROVE q.st[y].parent = Null
    <3>1. y # x /\ y \in State
      BY <1>3, <1>7
    <3> QED BY <1>3, <1>12, <1>16, <3>1 DEF Contents
  <2> QED BY <2>1, <2>2, <2>3 DEF Contents
<1>19. enc \in Encodings
  <2>1. x \notin P /\ q.st[x].ref # 0
    BY <1>3, <1>7, <1>14, <1>16
  <2> QED BY <1>3, <1>10, <1>16, <1>18, <2>1, EncAfterIs
<1>20. /\ Good(r, g) /\ r.st[x].enc = enc
       /\ \A z \in State : /\ r.st[z].ref = q.st[z].ref /\ r.st[z].depth = q.st[z].depth
                           /\ r.st[z].parent = q.st[z].parent
       /\ \A z \in State \ {x} : r.st[z].enc = q.st[z].enc
  BY <1>16, <1>19, EncIs, SMTT(30)
<1>21. Contents(r.st, P, W)
  BY <1>3, <1>18, <1>19, <1>20 DEF Contents
<1>22. Shape(O \cup {x}, Ws, c, d)
  BY <1>1, <1>2, <1>7 DEF Shape
<1>23. World(r, O \cup {x}, Ws, c, d)
  BY <1>1, <1>8, <1>20, <1>21, <1>22 DEF World
<1>24. Same(p, r, {x})
  BY <1>12, <1>16, <1>20 DEF Same
<1>25. Frame(p, r)
  <2>1. \A y \in {x} : Kids(p.st, y) = {}
    BY <1>6
  <2> QED BY <1>3, <1>10, <1>20, <1>24, <2>1, SameFrame
<1> QED BY <1>6, <1>7, <1>19, <1>23, <1>24, <1>25 DEF InlineFacts

-------------------------------------------------------------------------------
(***************************************************************************)
(* The inductive invariant.                                                *)
(***************************************************************************)
OpenOK(o) == o \in Seq(State) /\ OneToOne(o)

DeepestOK(e) == e \in [state : State \cup {Null}, depth : Int]

\* The main thread expands a state between the loops that submit and collect, and
\* inserts its successors at the head of the open list.
Control ==
    /\ pc \in {"pick", "submit", "collect", "finish", "finished"}
    /\ cur # Null <=> pc \in {"submit", "collect"}
    /\ inserted \in 0 .. MaxStates /\ (cur # Null => inserted <= Len(open))
    /\ ops \subseteq Operation
    /\ DOMAIN closed \subseteq Encodings
    /\ pc = "finished" => open = <<>> /\ deepest.state = Null

IInv ==
    /\ QueuesOK(subq, cmpq, work) /\ OpenOK(open) /\ DeepestOK(deepest)
    /\ left = Cardinality(WorksOf(subq, cmpq, work))
    /\ Control
    /\ World(Pair, Entries(open), WorksOf(subq, cmpq, work), cur, deepest.state)

\* A step that keeps the ancestors.
Step == IInv' /\ Frame(Pair, Pair')

\* A pair is its parts.
LEMMA PairIs ==
  ASSUME NEW r, Typed(r), Becomes(r)
  PROVE  Pair' = r
<1>1. r = [st |-> r.st, pool |-> r.pool]
  BY DEF Typed
<1> QED BY <1>1 DEF Pair, Becomes

\* Initially the open list holds the first state, and nobody holds another.
LEMMA InvInit == Init => IInv
<1> SUFFICES ASSUME Init PROVE IInv
  OBVIOUS
<1>1. PICK d \in FirstDepths :
         st = [s \in State |-> IF s = 1 THEN [FreshState EXCEPT !.enc = First, !.depth = d]
                               ELSE [FreshState EXCEPT !.ref = 0]]
  BY DEF Init
<1>2. PICK a, b : /\ a = [ref |-> 1, enc |-> First, depth |-> d, parent |-> Null]
                  /\ b = [ref |-> 0, enc |-> Null, depth |-> 0, parent |-> Null]
  OBVIOUS
<1>3. a \in StateInfo /\ b \in StateInfo
  BY <1>1, <1>2, ConstAssumption DEF StateInfo
<1>4. st = [s \in State |-> IF s = 1 THEN a ELSE b]
  <2>1. PICK n \in Nat, k \in Nat : n = 0 /\ k = 1
    OBVIOUS
  <2>2. [FreshState EXCEPT !.enc = First, !.depth = d] = a
    <3>1. PICK u : u = [ref |-> k, enc |-> Null, depth |-> n, parent |-> Null]
      OBVIOUS
    <3>0. d \in Int
      BY <1>1, ConstAssumption
    <3>2. [u EXCEPT !.enc = First, !.depth = d] = [ref |-> k, enc |-> First, depth |-> d, parent |-> Null]
      <4>1. PICK v : v = [u EXCEPT !.enc = First, !.depth = d]
        OBVIOUS
      <4>2. u \in [ref : {k}, enc : {Null}, depth : {n}, parent : {Null}]
        BY <3>1
      <4>3. v \in [ref : {k}, enc : {First}, depth : {d}, parent : {Null}]
        BY <4>1, <4>2
      <4> QED BY <4>1, <4>3
    <3>3. FreshState = u
      BY <2>1, <3>1 DEF FreshState
    <3> QED BY <1>2, <2>1, <3>2, <3>3
  <2>3. [FreshState EXCEPT !.ref = n] = b
    BY <1>2, <2>1 DEF FreshState
  <2>4. [FreshState EXCEPT !.ref = 0] = b
    BY <2>1, <2>3
  <2> QED BY <1>1, <2>2, <2>4
<1>5. /\ pool = [free |-> <<>>, allocated |-> 1] /\ open = <<1>> /\ closed = [e \in {} |-> 0]
      /\ cur = Null /\ inserted = 0 /\ ops = {} /\ subq = <<>> /\ cmpq = <<>> /\ left = 0
      /\ work = [w \in Workers |-> Null] /\ deepest = [state |-> Null, depth |-> 0] /\ pc = "pick"
  BY DEF Init
<1>6. 1 \in State /\ 1 \in 1 .. MaxStates
  BY StateFacts DEF State
<1>7. QueuesOK(subq, cmpq, work) /\ WorksOf(subq, cmpq, work) = {}
  <2>1. Entries(subq) = {} /\ Entries(cmpq) = {} /\ Running(work) = {}
    BY <1>5 DEF Entries, Running
  <2>2. subq \in Seq(Work) /\ cmpq \in Seq(Work) /\ Ordered(subq) /\ Ordered(cmpq)
    BY <1>5 DEF Ordered
  <2>3. work \in [Workers -> Work \cup {Null}] /\ Distinct(work)
    BY <1>5 DEF Distinct
  <2> QED BY <2>1, <2>2, <2>3 DEF QueuesOK, WorksOf, Apart
<1>8. open \in Seq(State) /\ OneToOne(open) /\ Entries(open) = {1}
  <2>1. Len(open) = 1 /\ open[1] = 1 /\ open \in Seq(State)
    BY <1>5, <1>6
  <2>2. 1 .. Len(open) = {1}
    BY <2>1
  <2> QED BY <2>1, <2>2 DEF OneToOne, Entries
<1>9. DeepestOK(deepest)
  BY <1>5 DEF DeepestOK
<1>10. Cardinality({}) = 0 /\ IsFiniteSet({})
  BY FS_EmptySet
<1>11. Control
  BY <1>5, <1>9, StateFacts DEF Control
<1>12. Shape({1}, {}, Null, Null)
  BY <1>6, <1>10, StateFacts DEF Shape, StatesOf
<1>13. st \in [State -> StateInfo] /\ st[1] = a /\ \A s \in State : s # 1 => st[s] = b
  BY <1>3, <1>4, <1>6
<1>14. a.ref = 1 /\ b.ref = 0 /\ a.parent = Null /\ b.parent = Null /\ a.enc \in Encodings
  BY <1>2, ConstAssumption
<1>15. \A s \in State : st[s].parent = Null
  BY <1>13, <1>14
<1>16. PICK p : p = Pair
  OBVIOUS
<1>17. p.st = st /\ p.pool = pool /\ p.pool.free = <<>> /\ p.pool.allocated = 1 /\ Typed(p)
  <2>1. <<>> \in Seq(State)
    OBVIOUS
  <2> QED BY <1>5, <1>6, <1>13, <1>16, <2>1 DEF Pair, Typed
<1>18. PICK h, n : h = HoldOf({1}, {}, Null, n, Null) /\ n \in Nat /\ n = 0
  OBVIOUS
<1>19. h[1] = 1 /\ \A s \in State : s # 1 => h[s] = 0
  BY <1>6, <1>18, StateFacts DEF HoldOf, In
<1>20. Counted(st, h)
  <2>1. \A s \in State : Kids(st, s) = {}
    BY <1>15, StateFacts DEF Kids
  <2>2. \A s \in State : st[s].ref = h[s]
    BY <1>13, <1>14, <1>19
  <2>3. \A s \in State : h[s] \in Nat
    BY <1>19
  <2>4. \A s \in State : st[s].ref = h[s] + Cardinality(Kids(st, s))
    BY <1>10, <2>1, <2>2, <2>3
  <2> QED BY <2>4 DEF Counted
<1>21. Rooted(st)
  BY <1>15 DEF Rooted
<1>22. Pooled(p)
  <2>1. OneToOne(<<>>) /\ Entries(<<>>) = {}
    BY DEF OneToOne, Entries
  <2>2. \A s \in State : s <= 1 /\ st[s].ref = 0 => FALSE
    BY <1>13, <1>14, StateFacts
  <2>3. \A s \in State : s > 1 => st[s].ref = 0
    BY <1>13, <1>14, StateFacts
  <2> QED BY <1>17, <2>1, <2>2, <2>3 DEF Pooled
<1>23. Good(p, h)
  BY <1>17, <1>20, <1>21, <1>22 DEF Good
<1>24. StatesOf({}) = {} /\ PendingOf({}) = {}
  BY DEF StatesOf, PendingOf
<1>25. Contents(p.st, {}, {})
  BY <1>13, <1>14, <1>17 DEF Contents
<1>26. World(p, {1}, {}, Null, Null)
  BY <1>10, <1>12, <1>18, <1>23, <1>24, <1>25 DEF World
<1>27. deepest.state = Null
  BY <1>5
<1> QED BY <1>5, <1>7, <1>8, <1>9, <1>10, <1>11, <1>16, <1>26, <1>27 DEF IInv, OpenOK

\* What is known before a step.
LEMMA InvFacts ==
  ASSUME IInv
  PROVE  /\ Typed(Pair) /\ Pair.st = st /\ Pair.pool = pool
         /\ open \in Seq(State) /\ OneToOne(open)
<1>1. Good(Pair, HoldOf(Entries(open), StatesOf(WorksOf(subq, cmpq, work)), cur,
                        Cardinality(WorksOf(subq, cmpq, work)), deepest.state))
  BY DEF IInv, World
<1> QED BY <1>1 DEF IInv, OpenOK, Good, Pair

\* What must be shown of a step.
LEMMA NextIs ==
  ASSUME NEW r, NEW O, NEW Ws, NEW c, NEW d, World(r, O, Ws, c, d), Becomes(r), Frame(Pair, r),
         Entries(open') = O, WorksOf(subq', cmpq', work') = Ws, cur' = c, deepest'.state = d,
         QueuesOK(subq', cmpq', work'), OpenOK(open'), DeepestOK(deepest'),
         left' = Cardinality(Ws), Control'
  PROVE  Step
<1>1. Typed(r)
  BY DEF World, Good
<1>2. Pair' = r
  BY <1>1, PairIs
<1> QED BY <1>2 DEF Step, IInv

\* put and AddRef leave the ancestors of the states in use alone.
LEMMA WorldKept ==
  ASSUME NEW p, NEW r, NEW O, NEW Ws, NEW c, NEW d, World(r, O, Ws, c, d), Kept(p, r), Typed(p)
  PROVE  Frame(p, r)
<1>1. PICK h, W, n, P : /\ h = HoldOf(O, W, c, n, d) /\ W = StatesOf(Ws) /\ n = Cardinality(Ws)
                        /\ P = PendingOf(Ws)
  OBVIOUS
<1>2. h \in [State -> Nat] /\ Good(r, h)
  BY <1>1, WorldFacts
<1> QED BY <1>2, KeptFrame

\* A step that does not touch the states.
LEMMA StillFrame ==
  ASSUME IInv, UNCHANGED <<st, pool>>
  PROVE  Pair' = Pair /\ Frame(Pair, Pair)
<1>1. PICK p, O, Ws, c, d : p = Pair /\ World(p, O, Ws, c, d) /\ Typed(p)
  BY InvFacts DEF IInv
<1>2. Kept(p, p)
  BY DEF Kept
<1>3. Frame(p, p)
  BY <1>1, <1>2, WorldKept
<1> QED BY <1>1, <1>3 DEF Pair

\* The step from the state found deepest to a deeper one.
LEMMA DepthIs ==
  ASSUME IInv, NEW x, x \in Entries(open), DepthCheck(x), NEW r, r = AfterDepthCheck(x),
         NEW O, O = Entries(open), NEW Ws, Ws = WorksOf(subq, cmpq, work)
  PROVE  World(r, O, Ws, cur, deepest'.state) /\ DeepestOK(deepest') /\ Kept(Pair, r)
<1>1. PICK p, d, c : p = Pair /\ d = deepest.state /\ c = cur
  OBVIOUS
<1>2. World(p, O, Ws, c, d) /\ DeepestOK(deepest) /\ p.st = st
  BY <1>1, InvFacts DEF IInv
<1>3. d \in State \cup {Null}
  BY <1>1, <1>2 DEF DeepestOK
<1>4. CASE ~Deeper(x)
  <2>1. deepest' = deepest /\ r = p
    BY <1>1, <1>4 DEF DepthCheck, AfterDepthCheck
  <2>2. Kept(p, p)
    BY DEF Kept
  <2> QED BY <1>1, <1>2, <2>1, <2>2
<1>5. CASE Deeper(x)
  <2>1. PICK q : q = AfterPutOrNone(p, d)
    OBVIOUS
  <2>2. deepest' = [state |-> x, depth |-> st[x].depth] /\ r = AddRef(q, x)
    BY <1>1, <1>5, <2>1 DEF DepthCheck, AfterDepthCheck
  <2>3. World(q, O, Ws, c, Null) /\ Kept(p, q)
    <3>1. CASE d = Null
      <4>1. q = p
        BY <2>1, <3>1 DEF AfterPutOrNone
      <4>2. Kept(p, p)
        BY DEF Kept
      <4> QED BY <1>2, <3>1, <4>1, <4>2
    <3>2. CASE d # Null
      <4>1. d \in State /\ q = AfterPut(p, d)
        BY <1>3, <2>1, <3>2 DEF AfterPutOrNone
      <4> QED BY <1>2, <4>1, DropDeepest
    <3> QED BY <3>1, <3>2
  <2>4. World(r, O, Ws, c, x) /\ Kept(q, r)
    BY <2>2, <2>3, TakeDeepest
  <2>5. Kept(p, r)
    BY <2>3, <2>4, KeptTrans
  <2>6. x \in State
    BY <1>2 DEF World, Shape
  <2>7. st[x].depth \in Int
    BY <1>1, <1>2, <2>6, InvFacts, TypedFacts
  <2>8. deepest'.state = x /\ DeepestOK(deepest')
    BY <2>2, <2>6, <2>7 DEF DeepestOK
  <2> QED BY <1>1, <2>4, <2>5, <2>8
<1> QED BY <1>4, <1>5

-------------------------------------------------------------------------------
(***************************************************************************)
(* The actions.                                                            *)
(***************************************************************************)
\* The first state of the open list is checked and put.
LEMMA DropHead ==
  ASSUME IInv, open # <<>>, cur = Null, open' = Tail(open), DepthCheck(Head(open)),
         Becomes(AfterPut(AfterDepthCheck(Head(open)), Head(open))),
         UNCHANGED <<closed, cur, inserted, ops, subq, work, cmpq, left>>, pc' \in {"pick", "finish"}
  PROVE  Step
<1>1. PICK p, x, o, b, r, O, Ws, e :
         /\ p = Pair /\ x = Head(open) /\ o = Tail(open) /\ b = AfterDepthCheck(x) /\ r = AfterPut(b, x)
         /\ O = Entries(open) /\ Ws = WorksOf(subq, cmpq, work) /\ e = deepest'
  OBVIOUS
<1>2. /\ o \in Seq(State) /\ OneToOne(o) /\ Entries(o) = O \ {x} /\ x \in O
  BY <1>1, InvFacts, TailIs
<1>3. World(b, O, Ws, Null, e.state) /\ DeepestOK(e) /\ Kept(p, b)
  BY <1>1, <1>2, DepthIs
<1>4. World(r, O \ {x}, Ws, Null, e.state) /\ Kept(b, r)
  BY <1>1, <1>2, <1>3, DropOpen
<1>5. Kept(p, r)
  BY <1>3, <1>4, KeptTrans
<1>6. Frame(p, r)
  BY <1>1, <1>4, <1>5, InvFacts, WorldKept
<1>7. Control'
  BY DEF IInv, Control
<1>8. OpenOK(open') /\ Entries(open') = O \ {x}
  BY <1>1, <1>2 DEF OpenOK
<1>9. /\ QueuesOK(subq', cmpq', work') /\ WorksOf(subq', cmpq', work') = Ws
      /\ left' = Cardinality(Ws)
  BY <1>1 DEF IInv
<1>10. Becomes(r) /\ cur' = Null /\ deepest'.state = e.state /\ DeepestOK(deepest')
  BY <1>1, <1>3
<1> QED BY <1>1, <1>4, <1>6, <1>7, <1>8, <1>9, <1>10, NextIs

\* RunTest when the test is stopped: the state taken is put.
LEMMA StepPickStopped == ASSUME IInv, PickStopped PROVE Step
<1>1. cur = Null
  BY DEF PickStopped, IInv, Control
<1> QED BY <1>1, DropHead DEF PickStopped

\* RunTest at the maximal depth: the state taken is put.
LEMMA StepPickLeaf == ASSUME IInv, PickLeaf PROVE Step
<1>1. cur = Null
  BY DEF PickLeaf, IInv, Control
<1> QED BY <1>1, DropHead DEF PickLeaf

\* GenerateOps makes operations.
LEMMA OpsTyped ==
  ASSUME NEW enc \in Encodings
  PROVE  Ops(enc) \subseteq Operation
<1>1. /\ Succ[enc] \subseteq Encodings /\ Refused[enc] \subseteq Encodings
  BY ConstAssumption
<1>2. Failing \cap {enc} \subseteq Encodings /\ PowerLoss \cap {enc} \subseteq Encodings
  OBVIOUS
<1>3. ASSUME NEW o \in Ops(enc) PROVE o \in Operation
  <2>1. CASE \E f \in Succ[enc] : o = [kind |-> "apply", to |-> f]
    BY <1>1, <2>1 DEF Operation
  <2>2. CASE \E f \in Refused[enc] : o = [kind |-> "no operation", to |-> f]
    <3>1. PICK f \in Refused[enc] : o = [kind |-> "no operation", to |-> f]
      BY <2>2
    <3>2. f \in Encodings
      BY <1>1
    <3> QED BY <3>1, <3>2 DEF Operation
  <2>3. CASE \E f \in Failing \cap {enc} : o = [kind |-> "failed", to |-> f]
    BY <1>2, <2>3 DEF Operation
  <2>4. CASE \E f \in PowerLoss \cap {enc} : o = [kind |-> "power", to |-> f]
    BY <1>2, <2>4 DEF Operation
  <2> QED BY <2>1, <2>2, <2>3, <2>4 DEF Ops
<1> QED BY <1>3

\* The encoding of a state that is held by other than a work is known.
LEMMA EncKnown ==
  ASSUME NEW p, NEW O, NEW Ws, NEW c, NEW d, World(p, O, Ws, c, d), NEW x \in O
  PROVE  p.st[x].enc \in Encodings /\ p.st[x].ref # 0 /\ x \in State
<1>1. PICK h, W, n, P : /\ h = HoldOf(O, W, c, n, d) /\ W = StatesOf(Ws) /\ n = Cardinality(Ws)
                        /\ P = PendingOf(Ws)
  OBVIOUS
<1>2. Shape(O, Ws, c, d)
  BY DEF World
<1>3. /\ h \in [State -> Nat] /\ Good(p, h) /\ Contents(p.st, P, W) /\ P \subseteq W /\ n \in Nat
  BY <1>1, WorldFacts
<1>4. x \in State /\ x \notin P
  BY <1>1, <1>2, <1>3 DEF Shape
<1>5. h[x] # 0
  BY <1>1, <1>3, <1>4, HoldHeld
<1>6. p.st[x].ref # 0
  BY <1>3, <1>4, <1>5, Held
<1> QED BY <1>3, <1>4, <1>6 DEF Contents

\* RunTest below it: the state taken goes to the main thread.
LEMMA StepPickExpand == ASSUME IInv, PickExpand PROVE Step
<1>0. cur = Null
  BY DEF PickExpand, IInv, Control
<1>1. PICK p, x, o, b, O, Ws, e :
         /\ p = Pair /\ x = Head(open) /\ o = Tail(open) /\ b = AfterDepthCheck(x)
         /\ O = Entries(open) /\ Ws = WorksOf(subq, cmpq, work) /\ e = deepest'
  OBVIOUS
<1>2. /\ o \in Seq(State) /\ OneToOne(o) /\ Entries(o) = O \ {x} /\ x \in O /\ x \in State
      /\ Len(o) = Len(open) - 1
  BY <1>1, InvFacts, TailIs DEF PickExpand
<1>3. World(b, O, Ws, Null, e.state) /\ DeepestOK(e) /\ Kept(p, b)
  BY <1>0, <1>1, <1>2, DepthIs DEF PickExpand
<1>4. World(b, O \ {x}, Ws, x, e.state)
  BY <1>2, <1>3, Expand
<1>5. Frame(p, b)
  BY <1>1, <1>3, InvFacts, WorldKept
<1>6. World(p, O, Ws, cur, deepest.state) /\ p.st = st
  BY <1>1, InvFacts DEF IInv
<1>7. st[x].enc \in Encodings
  BY <1>2, <1>6, EncKnown
<1>8. ops' \subseteq Operation
  BY <1>1, <1>7, OpsTyped DEF PickExpand
<1>9. Control'
  <2>1. Len(open') \in Nat
    BY <1>1, <1>2, LenProperties DEF PickExpand
  <2>2. x # Null
    BY <1>2, StateFacts
  <2> QED BY <1>1, <1>8, <2>1, <2>2, StateFacts DEF IInv, Control, PickExpand
<1>10. OpenOK(open') /\ Entries(open') = O \ {x}
  BY <1>1, <1>2 DEF OpenOK, PickExpand
<1>11. /\ QueuesOK(subq', cmpq', work') /\ WorksOf(subq', cmpq', work') = Ws
       /\ left' = Cardinality(Ws)
  BY <1>1 DEF IInv, PickExpand
<1>12. Becomes(b) /\ cur' = x /\ deepest'.state = e.state /\ DeepestOK(deepest')
  BY <1>1, <1>3 DEF PickExpand
<1> QED BY <1>1, <1>4, <1>5, <1>9, <1>10, <1>11, <1>12, NextIs

\* DoFsOperator_Queue holds the source once more and takes a new state.
LEMMA StepSubmit == ASSUME IInv, NEW op \in ops, Submit(op) PROVE Step
<1>1. PICK p, q, x, r, c, O, Ws, d, e :
         /\ p = Pair /\ c = cur /\ q = AddRef(p, c) /\ x = GetState(q) /\ r = AfterGet(q)
         /\ O = Entries(open) /\ Ws = WorksOf(subq, cmpq, work) /\ d = deepest.state
         /\ e = [state |-> x, src |-> c, op |-> op, res |-> "pending"]
  OBVIOUS
<1>2. /\ x \in State /\ subq' = Append(subq, e) /\ Becomes(r) /\ ops' = ops \ {op} /\ left' = left + 1
      /\ UNCHANGED <<open, closed, cur, inserted, work, cmpq, deepest, pc>> /\ pc = "submit"
  BY <1>1 DEF Submit
<1>3. World(p, O, Ws, c, d) /\ op \in Operation /\ c # Null
  BY <1>1, <1>2 DEF IInv, Control
<1>4. c \in State
  BY <1>3 DEF World, Shape
<1>5. /\ World(r, O, Ws \cup {e}, c, d) /\ Frame(p, r) /\ e \in Work /\ Unlike(Ws, e)
      /\ Cardinality(Ws \cup {e}) = Cardinality(Ws) + 1
  <2>1. SubmitFacts(p, r, O, Ws, c, d, e)
    BY <1>1, <1>2, <1>3, <1>4, SubmitWork
  <2> QED BY <2>1 DEF SubmitFacts
<1>6. QueuesOK(subq, cmpq, work) /\ left = Cardinality(Ws) /\ OpenOK(open) /\ DeepestOK(deepest)
  BY <1>1 DEF IInv
<1>7. PICK z : z = Append(subq, e)
  OBVIOUS
<1>8. QueuesOK(z, cmpq, work) /\ WorksOf(z, cmpq, work) = Ws \cup {e}
  <2>1. Ws = WorksOf(subq, cmpq, work)
    BY <1>1
  <2>2. e \in Work /\ Unlike(Ws, e) /\ QueuesOK(subq, cmpq, work)
    BY <1>5, <1>6
  <2>3. Added(z, cmpq, work, Ws, e)
    BY <1>7, <2>1, <2>2, SubmitQ
  <2> QED BY <2>3 DEF Added
<1>9. QueuesOK(subq', cmpq', work') /\ WorksOf(subq', cmpq', work') = Ws \cup {e}
  BY <1>2, <1>7, <1>8
<1>10. Control'
  BY <1>2 DEF IInv, Control
<1>11. left' = Cardinality(Ws \cup {e})
  BY <1>2, <1>5, <1>6
<1> QED BY <1>1, <1>2, <1>5, <1>6, <1>9, <1>10, <1>11, NextIs

\* A step of the control alone.
LEMMA StepControl ==
  ASSUME IInv, UNCHANGED <<st, pool, open, cur, subq, work, cmpq, left, deepest>>, Control'
  PROVE  Step
<1>1. Pair' = Pair /\ Frame(Pair, Pair)
  BY StillFrame
<1> QED BY <1>1 DEF Step, IInv

\* The loop that submits ends.
LEMMA StepSubmitted == ASSUME IInv, Submitted PROVE Step
<1>1. Control'
  BY DEF Submitted, IInv, Control
<1> QED BY <1>1, StepControl DEF Submitted

\* The open list is empty: the test ends.
LEMMA StepAllExplored == ASSUME IInv, AllExplored PROVE Step
<1>1. Control'
  BY DEF AllExplored, IInv, Control
<1> QED BY <1>1, StepControl DEF AllExplored

\* FinishTest ends with nothing held.
LEMMA StepFinished == ASSUME IInv, Finished PROVE Step
<1>1. Control'
  BY DEF Finished, IInv, Control
<1> QED BY <1>1, StepControl DEF Finished

\* StopTest sets its flag only.
LEMMA StepStopTest == ASSUME IInv, StopTest PROVE Step
<1>1. Control'
  BY DEF StopTest, IInv, Control, mainVars
<1> QED BY <1>1, StepControl DEF StopTest, mainVars

\* All works are collected: the main thread alone holds the state expanded.
LEMMA StepExpanded == ASSUME IInv, Expanded PROVE Step
<1>1. PICK p, r, c, O, Ws, d :
         /\ p = Pair /\ c = cur /\ r = AfterPut(p, c)
         /\ O = Entries(open) /\ Ws = WorksOf(subq, cmpq, work) /\ d = deepest.state
  OBVIOUS
<1>2. /\ Becomes(r) /\ left = 0 /\ cur' = Null /\ pc' \in {"finish", "pick"} /\ pc = "collect"
      /\ UNCHANGED <<open, closed, inserted, ops, subq, work, cmpq, left, deepest>>
  BY <1>1 DEF Expanded
<1>3. /\ World(p, O, Ws, c, d) /\ c # Null /\ left = Cardinality(Ws)
      /\ QueuesOK(subq, cmpq, work) /\ OpenOK(open) /\ DeepestOK(deepest)
  BY <1>1, <1>2 DEF IInv, Control
<1>4. c \in State /\ IsFiniteSet(Ws)
  BY <1>3 DEF World, Shape
<1>5. Ws = {}
  BY <1>2, <1>3, <1>4, CardPos
<1>6. World(r, O, Ws, Null, d) /\ Kept(p, r)
  BY <1>1, <1>3, <1>4, <1>5, DropExpanded
<1>7. Frame(p, r)
  BY <1>1, <1>6, InvFacts, WorldKept
<1>8. Control'
  BY <1>2 DEF IInv, Control
<1> QED BY <1>1, <1>2, <1>3, <1>6, <1>7, <1>8, NextIs

\* The end of RunTest puts the state found deepest.
LEMMA StepPutDeepest == ASSUME IInv, PutDeepest PROVE Step
<1>1. PICK p, r, c, O, Ws, d, e :
         /\ p = Pair /\ c = cur /\ r = AfterPut(p, d) /\ e = [deepest EXCEPT !.state = Null]
         /\ O = Entries(open) /\ Ws = WorksOf(subq, cmpq, work) /\ d = deepest.state
  OBVIOUS
<1>2. /\ Becomes(r) /\ d # Null /\ deepest' = e /\ pc = "finish"
      /\ UNCHANGED <<open, closed, cur, inserted, ops, subq, work, cmpq, left, pc>>
  BY <1>1 DEF PutDeepest
<1>3. /\ World(p, O, Ws, c, d) /\ left = Cardinality(Ws)
      /\ QueuesOK(subq, cmpq, work) /\ OpenOK(open) /\ DeepestOK(deepest)
  BY <1>1 DEF IInv
<1>4. d \in State
  BY <1>2, <1>3 DEF World, Shape
<1>5. World(r, O, Ws, c, Null) /\ Kept(p, r)
  BY <1>1, <1>3, <1>4, DropDeepest
<1>6. Frame(p, r)
  BY <1>1, <1>5, InvFacts, WorldKept
<1>7. e.state = Null /\ DeepestOK(e)
  BY <1>1, <1>3 DEF DeepestOK
<1>8. Control'
  BY <1>2 DEF IInv, Control
<1> QED BY <1>1, <1>2, <1>3, <1>5, <1>6, <1>7, <1>8, NextIs

\* FinishTest puts a state of the open list.
LEMMA StepPutOpen == ASSUME IInv, PutOpen PROVE Step
<1>1. PICK p, x, o, r, c, O, Ws, d :
         /\ p = Pair /\ c = cur /\ x = Head(open) /\ o = Tail(open) /\ r = AfterPut(p, x)
         /\ O = Entries(open) /\ Ws = WorksOf(subq, cmpq, work) /\ d = deepest.state
  OBVIOUS
<1>2. /\ Becomes(r) /\ open # <<>> /\ open' = o /\ pc = "finish"
      /\ UNCHANGED <<closed, cur, inserted, ops, subq, work, cmpq, left, deepest, pc>>
  BY <1>1 DEF PutOpen
<1>3. /\ World(p, O, Ws, c, d) /\ left = Cardinality(Ws)
      /\ QueuesOK(subq, cmpq, work) /\ DeepestOK(deepest)
  BY <1>1 DEF IInv
<1>4. /\ o \in Seq(State) /\ OneToOne(o) /\ Entries(o) = O \ {x} /\ x \in O
  BY <1>1, <1>2, InvFacts, TailIs
<1>5. World(r, O \ {x}, Ws, c, d) /\ Kept(p, r)
  BY <1>1, <1>3, <1>4, DropOpen
<1>6. Frame(p, r)
  BY <1>1, <1>5, InvFacts, WorldKept
<1>7. OpenOK(open') /\ Entries(open') = O \ {x}
  BY <1>2, <1>4 DEF OpenOK
<1>8. Control'
  BY <1>2 DEF IInv, Control
<1> QED BY <1>1, <1>2, <1>3, <1>5, <1>6, <1>7, <1>8, NextIs

\* The encoding a work leaves is known.
LEMMA WorkEnc ==
  ASSUME NEW p, NEW O, NEW Ws, NEW c, NEW d, World(p, O, Ws, c, d), NEW e \in Ws, e.res # "pending"
  PROVE  /\ p.st[e.state].enc \in Encodings /\ e.state \in State /\ e.state \notin O /\ e.src = c
         /\ IsFiniteSet(Ws)
<1>1. PICK h, W, n, P, x : /\ h = HoldOf(O, W, c, n, d) /\ W = StatesOf(Ws) /\ n = Cardinality(Ws)
                           /\ P = PendingOf(Ws) /\ x = e.state
  OBVIOUS
<1>2. /\ Ws \subseteq Work /\ (\A f \in Ws : f.src = c) /\ O \cap StatesOf(Ws) = {}
      /\ (\A f, g \in Ws : f.state = g.state => f = g) /\ IsFiniteSet(Ws)
  BY DEF World, Shape
<1>3. /\ h \in [State -> Nat] /\ Good(p, h) /\ Contents(p.st, P, W) /\ W \in SUBSET State /\ n \in Nat
  BY <1>1, WorldFacts
<1>4. x \in W /\ x \in State
  BY <1>1, <1>3 DEF StatesOf
<1>5. x \notin P
  BY <1>1, <1>2 DEF PendingOf
<1>6. h[x] # 0
  BY <1>1, <1>3, <1>4, HoldHeld
<1>7. p.st[x].ref # 0
  BY <1>3, <1>4, <1>6, Held
<1>8. p.st[x].enc \in Encodings
  BY <1>3, <1>4, <1>5, <1>7 DEF Contents
<1> QED BY <1>1, <1>2, <1>4, <1>8

\* CheckAndInsert records encodings.
LEMMA RecordedIs ==
  ASSUME DOMAIN closed \subseteq Encodings, NEW enc \in Encodings, NEW depth
  PROVE  DOMAIN Recorded(enc, depth) \subseteq Encodings
<1>1. CASE Exists(enc, depth)
  BY <1>1 DEF Recorded
<1>2. CASE ~Exists(enc, depth)
  <2>1. DOMAIN Recorded(enc, depth) = DOMAIN closed \cup {enc}
    BY <1>2 DEF Recorded
  <2> QED BY <2>1
<1> QED BY <1>1, <1>2

\* A state goes to the open list, behind the successors before it.
LEMMA InsertOpenIs ==
  ASSUME IInv, cur # Null, NEW x \in State, x \notin Entries(open), NEW z, z = InsertOpen(x)
  PROVE  /\ OpenOK(z) /\ Entries(z) = Entries(open) \cup {x}
         /\ inserted + 1 \in 0 .. MaxStates /\ inserted + 1 <= Len(z)
<1>1. open \in Seq(State) /\ OneToOne(open) /\ inserted \in Nat /\ inserted <= Len(open)
  BY InvFacts, StateFacts DEF IInv, Control
<1>2. PICK q, i : q = open /\ i = inserted
  OBVIOUS
<1>3. InsertedAt(z, q, i, x)
  BY <1>2 DEF InsertOpen, InsertedAt
<1>4. /\ z \in Seq(State) /\ OneToOne(z) /\ Entries(z) = Entries(q) \cup {x}
      /\ Len(z) = Len(q) + 1 /\ Len(z) <= MaxStates
  BY <1>1, <1>2, <1>3, InsertIs
<1>5. Len(q) \in Nat
  BY <1>1, <1>2, LenProperties
<1>6. inserted + 1 \in 0 .. MaxStates /\ inserted + 1 <= Len(z)
  BY <1>1, <1>2, <1>4, <1>5, StateFacts
<1> QED BY <1>2, <1>4, <1>6 DEF OpenOK

\* The state of a work that is done goes to the open list.
Keep(e) == e.res = "ok" /\ ~Exists(st[e.state].enc, st[e.state].depth)

\* EnumerateOp_Thread_V2 collects a work: its state goes to the open list or is put, its
\* source is put.
LEMMA StepCollect == ASSUME IInv, Collect PROVE Step
<1>1. PICK p, c, e, x, z, O, Ws, d, V :
         /\ p = Pair /\ c = cur /\ e = Head(cmpq) /\ x = e.state /\ z = Tail(cmpq)
         /\ O = Entries(open) /\ Ws = WorksOf(subq, cmpq, work) /\ d = deepest.state /\ V = Ws \ {e}
  OBVIOUS
<1>2. /\ pc = "collect" /\ cmpq # <<>> /\ cmpq' = z /\ left' = left - 1
      /\ UNCHANGED <<cur, ops, subq, work, deepest, pc>>
      /\ closed' = IF e.res = "ok" THEN Recorded(st[x].enc, st[x].depth) ELSE closed
  BY <1>1 DEF Collect
<1>3. /\ World(p, O, Ws, c, d) /\ c # Null /\ left = Cardinality(Ws) /\ QueuesOK(subq, cmpq, work)
      /\ OpenOK(open) /\ DeepestOK(deepest) /\ DOMAIN closed \subseteq Encodings
  BY <1>1, <1>2 DEF IInv, Control
<1>4. c \in State
  BY <1>3 DEF World, Shape
<1>5. /\ QueuesOK(subq, z, work) /\ WorksOf(subq, z, work) = V
      /\ e \in Ws /\ e.res \notin {"pending", "running"}
  <2>1. e = Head(cmpq) /\ z = Tail(cmpq) /\ QueuesOK(subq, cmpq, work) /\ cmpq # <<>>
    BY <1>1, <1>2, <1>3
  <2>2. /\ QueuesAre(subq, z, work, WorksOf(subq, cmpq, work) \ {e})
        /\ e \in WorksOf(subq, cmpq, work) /\ e.res \notin {"pending", "running"}
    BY <2>1, CollectQ
  <2> QED BY <1>1, <2>2 DEF QueuesAre
<1>6. st[x].enc \in Encodings /\ x \in State /\ x \notin O /\ e.src = c /\ IsFiniteSet(Ws)
  <2>1. e.res # "pending" /\ p.st = st
    BY <1>1, <1>5, InvFacts
  <2> QED BY <1>1, <1>3, <1>5, <2>1, WorkEnc
<1>7. DOMAIN closed' \subseteq Encodings
  <2>1. DOMAIN Recorded(st[x].enc, st[x].depth) \subseteq Encodings
    BY <1>3, <1>6, RecordedIs
  <2> QED BY <1>2, <1>3, <2>1
<1>8. left' = Cardinality(V)
  <2>1. Cardinality(V) = Cardinality(Ws) - 1
    BY <1>1, <1>5, <1>6, CardRemove
  <2> QED BY <1>2, <1>3, <2>1
<1>9. QueuesOK(subq', cmpq', work') /\ WorksOf(subq', cmpq', work') = V
  BY <1>2, <1>5
<1>10. CASE Keep(e)
  <2>1. PICK r, o : r = AfterPut(p, c) /\ o = InsertOpen(x)
    OBVIOUS
  <2>2. Becomes(r) /\ open' = o /\ inserted' = inserted + 1
    BY <1>1, <1>6, <1>10, <2>1 DEF Collect, Keep
  <2>3. World(r, O \cup {x}, V, c, d) /\ Kept(p, r)
    <3>1. e.res # "pending"
      BY <1>5
    <3>2. World(r, O \cup {e.state}, Ws \ {e}, c, d) /\ Kept(p, r)
      BY <1>3, <1>4, <1>5, <2>1, <3>1, CollectKeep
    <3> QED BY <1>1, <3>2
  <2>4. /\ OpenOK(o) /\ Entries(o) = O \cup {x}
        /\ inserted + 1 \in 0 .. MaxStates /\ inserted + 1 <= Len(o)
    BY <1>1, <1>3, <1>6, <2>1, InsertOpenIs
  <2>5. Control'
    BY <1>2, <1>7, <2>2, <2>4 DEF IInv, Control
  <2>6. Frame(p, r)
    BY <1>1, <2>3, InvFacts, WorldKept
  <2> QED BY <1>1, <1>2, <1>3, <1>8, <1>9, <2>2, <2>3, <2>4, <2>5, <2>6, NextIs
<1>11. CASE ~Keep(e)
  <2>1. PICK q, r : q = AfterPut(p, x) /\ r = AfterPut(q, c)
    OBVIOUS
  <2>2. Becomes(r) /\ open' = open /\ inserted' = inserted
    BY <1>1, <1>6, <1>11, <2>1 DEF Collect, Keep
  <2>3. World(r, O, V, c, d) /\ Kept(p, r)
    <3>1. e.res # "pending"
      BY <1>5
    <3>2. q = AfterPut(p, e.state) /\ World(p, O, Ws, c, d) /\ e \in Ws
      BY <1>1, <1>3, <1>5, <2>1
    <3>3. World(r, O, Ws \ {e}, c, d) /\ Kept(p, r)
      BY <1>4, <2>1, <3>1, <3>2, CollectDrop
    <3> QED BY <1>1, <3>3
  <2>4. Control'
    BY <1>2, <1>7, <2>2 DEF IInv, Control
  <2>5. Frame(p, r)
    BY <1>1, <2>3, InvFacts, WorldKept
  <2> QED BY <1>1, <1>2, <1>3, <1>8, <1>9, <2>2, <2>3, <2>4, <2>5, NextIs
<1> QED BY <1>10, <1>11

\* A worker thread takes a work from m_sub_q.
LEMMA StepTake == ASSUME IInv, NEW w \in Workers, Take(w) PROVE Step
<1>1. PICK z, e, Ws, wz : /\ z = Tail(subq) /\ e = Head(subq) /\ Ws = WorksOf(subq, cmpq, work)
                          /\ wz = [work EXCEPT ![w] = e]
  OBVIOUS
<1>2. /\ work[w] = Null /\ subq # <<>> /\ subq' = z /\ work' = wz
      /\ UNCHANGED <<st, pool, open, closed, cur, inserted, ops, left, deepest, pc, cmpq>>
  BY <1>1 DEF Take, mainVars
<1>3. Handed(wz, work, w, e) /\ QueuesOK(subq, cmpq, work)
  BY <1>1 DEF Handed, IInv
<1>4. QueuesOK(z, cmpq, wz) /\ WorksOf(z, cmpq, wz) = Ws
  <2>1. z = Tail(subq) /\ e = Head(subq) /\ work[w] = Null /\ subq # <<>>
    BY <1>1, <1>2
  <2>2. QueuesAre(z, cmpq, wz, WorksOf(subq, cmpq, work))
    BY <1>3, <2>1, TakeQ
  <2> QED BY <1>1, <2>2 DEF QueuesAre
<1>5. QueuesOK(subq', cmpq', work') /\ WorksOf(subq', cmpq', work') = Ws
  BY <1>2, <1>4
<1>6. Pair' = Pair /\ Frame(Pair, Pair)
  BY <1>2, StillFrame
<1>7. Control'
  BY <1>2 DEF IInv, Control
<1> QED BY <1>1, <1>2, <1>5, <1>6, <1>7 DEF Step, IInv

\* f is e with a result.
Resulting(f, e, res) == f = [e EXCEPT !.res = res]

Further(f, e, res) ==
    f \in Work /\ f.state = e.state /\ f.src = e.src /\ f.op = e.op /\ f.res = res

\* A work further on is a work.
LEMMA FurtherOn ==
  ASSUME NEW e \in Work, NEW res \in {"pending", "running", "ok", "no operation", "failed"},
         NEW f, Resulting(f, e, res)
  PROVE  Further(f, e, res)
BY DEF Work, Resulting, Further

\* What the steps of a worker thread have in common.
LEMMA InHand ==
  ASSUME IInv, NEW w \in Workers, work[w] # Null
  PROVE  /\ work[w] \in WorksOf(subq, cmpq, work) /\ work[w] \in Work /\ work[w].op \in Operation
         /\ cur \in State
<1>1. work[w] \in WorksOf(subq, cmpq, work)
  BY DEF WorksOf, Running
<1>2. work \in [Workers -> Work \cup {Null}]
  BY DEF IInv, QueuesOK
<1>3. work[w] \in Work
  BY <1>2
<1>4. work[w].op \in Operation /\ work[w].src \in State
  BY <1>3 DEF Work
<1>5. Shape(Entries(open), WorksOf(subq, cmpq, work), cur, deepest.state)
  BY DEF IInv, World
<1>6. cur = work[w].src
  BY <1>1, <1>5 DEF Shape
<1> QED BY <1>1, <1>3, <1>4, <1>6

\* A worker thread copies the source, which its work holds.
LEMMA StepDuplicate == ASSUME IInv, NEW w \in Workers, Duplicate(w) PROVE Step
<1>1. PICK p, c, e, f, r, O, Ws, d, V, wz :
         /\ p = Pair /\ c = cur /\ e = work[w] /\ f = [e EXCEPT !.res = "running"]
         /\ r = Duplicated(p, e.state, e.src) /\ wz = [work EXCEPT ![w] = f]
         /\ O = Entries(open) /\ Ws = WorksOf(subq, cmpq, work) /\ d = deepest.state
         /\ V = (Ws \ {e}) \cup {f}
  OBVIOUS
<1>2. /\ e # Null /\ e.res = "pending" /\ Becomes(r)
      /\ UNCHANGED <<open, closed, cur, inserted, ops, left, deepest, pc, subq, cmpq>>
  BY <1>1 DEF Duplicate, mainVars
<1>3. work' = wz
  BY <1>1 DEF Duplicate
<1>4. /\ World(p, O, Ws, c, d) /\ left = Cardinality(Ws) /\ QueuesOK(subq, cmpq, work)
      /\ OpenOK(open) /\ DeepestOK(deepest)
  BY <1>1 DEF IInv
<1>5. e \in Ws /\ e \in Work /\ c \in State
  BY <1>1, <1>2, InHand
<1>6. f \in Work /\ f.state = e.state /\ f.src = e.src /\ f.res # "pending"
  <2>1. Resulting(f, e, "running")
    BY <1>1 DEF Resulting
  <2>2. Further(f, e, "running")
    BY <1>5, <2>1, FurtherOn
  <2> QED BY <2>2 DEF Further
<1>7. World(r, O, V, c, d) /\ Frame(p, r)
  <2>1. DuplicateFacts(p, r, O, V, c, d, e.state)
    BY <1>1, <1>2, <1>4, <1>5, <1>6, DuplicateWork
  <2> QED BY <2>1 DEF DuplicateFacts
<1>8. QueuesOK(subq, cmpq, wz) /\ WorksOf(subq, cmpq, wz) = V
  <2>1. Handed(wz, work, w, f)
    BY <1>1 DEF Handed
  <2>2. WentOn(subq, cmpq, wz, subq, cmpq, work, e, f)
    BY <1>1, <1>2, <1>4, <1>6, <2>1, GoOnQ
  <2> QED BY <1>1, <2>2 DEF WentOn
<1>9. Cardinality(V) = Cardinality(Ws)
  <2>1. Shape(O, Ws, c, d)
    BY <1>4 DEF World
  <2>2. Swapped(O, Ws, c, d, e, V)
    BY <1>1, <1>5, <1>6, <2>1, SwapWork
  <2> QED BY <2>2 DEF Swapped
<1>10. Control'
  BY <1>2 DEF IInv, Control
<1>11. QueuesOK(subq', cmpq', work') /\ WorksOf(subq', cmpq', work') = V
  BY <1>2, <1>3, <1>8
<1> QED BY <1>1, <1>2, <1>4, <1>7, <1>9, <1>10, <1>11, NextIs

\* A worker thread changes its own state and hands the work to m_cmp_q.
LEMMA StepOperate == ASSUME IInv, NEW w \in Workers, Operate(w) PROVE Step
<1>1. PICK p, c, e, x, f, z, O, Ws, d, V, wz :
         /\ p = Pair /\ c = cur /\ e = work[w] /\ x = e.state /\ f = [e EXCEPT !.res = ResultOf(e.op)]
         /\ z = Append(cmpq, f) /\ wz = [work EXCEPT ![w] = Null]
         /\ O = Entries(open) /\ Ws = WorksOf(subq, cmpq, work) /\ d = deepest.state
         /\ V = (Ws \ {e}) \cup {f}
  OBVIOUS
<1>2. /\ e # Null /\ e.res = "running" /\ pool' = pool
      /\ UNCHANGED <<open, closed, cur, inserted, ops, left, deepest, pc, subq>>
  BY <1>1 DEF Operate, mainVars
<1>3. work' = wz /\ cmpq' = z
  BY <1>1 DEF Operate, Completed
<1>4. PICK enc : enc \in EncAfter(st, x, e.op) /\ st' = [st EXCEPT ![x].enc = enc]
  BY <1>1 DEF Operate
<1>5. PICK r : r = Encoded(p, x, enc)
  OBVIOUS
<1>6. p.st = st /\ p.pool = pool /\ Typed(p)
  BY <1>1, InvFacts
<1>7. Becomes(r)
  BY <1>1, <1>2, <1>4, <1>5 DEF Becomes, Encoded, Pair
<1>8. /\ World(p, O, Ws, c, d) /\ left = Cardinality(Ws) /\ QueuesOK(subq, cmpq, work)
      /\ OpenOK(open) /\ DeepestOK(deepest)
  BY <1>1 DEF IInv
<1>9. e \in Ws /\ e \in Work /\ c \in State /\ e.op \in Operation
  BY <1>1, <1>2, InHand
<1>10. ResultOf(e.op) \in {"ok", "no operation", "failed"}
  BY <1>9 DEF ResultOf, Operation
<1>11. /\ f \in Work /\ f.state = e.state /\ f.src = e.src /\ f.res \notin {"pending", "running"}
       /\ f.res # "pending"
  <2>1. PICK y \in {"ok", "no operation", "failed"} : y = ResultOf(e.op)
    BY <1>10
  <2>2. f \in Work /\ f.state = e.state /\ f.src = e.src /\ f.res = y
    <3>1. Resulting(f, e, y)
      BY <1>1, <2>1 DEF Resulting
    <3>2. e \in Work /\ y \in {"pending", "running", "ok", "no operation", "failed"}
      BY <1>9, <2>1
    <3>3. Further(f, e, y)
      BY <3>1, <3>2, FurtherOn
    <3> QED BY <3>3 DEF Further
  <2> QED BY <2>1, <2>2
<1>12. World(r, O, V, c, d) /\ Frame(p, r)
  <2>1. PICK op \in Operation : op = e.op
    BY <1>9
  <2>2. enc \in EncAfter(p.st, x, op) /\ e.res # "pending"
    BY <1>2, <1>4, <1>6, <2>1
  <2>3. /\ World(p, O, Ws, c, d) /\ c \in State /\ e \in Ws /\ e.res # "pending"
        /\ f \in Work /\ f.state = e.state /\ f.src = e.src /\ f.res # "pending" /\ x = e.state
        /\ op \in Operation /\ enc \in EncAfter(p.st, x, op) /\ r = Encoded(p, x, enc)
        /\ V = (Ws \ {e}) \cup {f}
    BY <1>1, <1>5, <1>8, <1>9, <1>11, <2>1, <2>2
  <2>4. OperateFacts(p, r, O, V, c, d, x, enc)
    BY ONLY <2>3, OperateWork
  <2> QED BY <2>4 DEF OperateFacts
<1>13. QueuesOK(subq, z, wz) /\ WorksOf(subq, z, wz) = V
  <2>1. Handed(wz, work, w, Null)
    BY <1>1 DEF Handed
  <2>2. WentOn(subq, z, wz, subq, cmpq, work, e, f)
    BY <1>1, <1>2, <1>8, <1>11, <2>1, DoneQ
  <2> QED BY <1>1, <2>2 DEF WentOn
<1>14. Cardinality(V) = Cardinality(Ws)
  <2>1. Shape(O, Ws, c, d)
    BY <1>8 DEF World
  <2>2. Swapped(O, Ws, c, d, e, V)
    BY <1>1, <1>9, <1>11, <2>1, SwapWork
  <2> QED BY <2>2 DEF Swapped
<1>15. Control'
  BY <1>2 DEF IInv, Control
<1>16. QueuesOK(subq', cmpq', work') /\ WorksOf(subq', cmpq', work') = V
  BY <1>2, <1>3, <1>13
<1> QED BY <1>1, <1>2, <1>7, <1>8, <1>12, <1>14, <1>15, <1>16, NextIs

\* The state an operation of the search in one thread leads to goes to the open list.
KeepInline(op, enc, depth) ==
    ResultOf(op) = "ok" /\ ~(~(ResultOf(op) = "failed") /\ Exists(enc, depth))

\* What OperateInline does to the states and to the open list.
Inlined(r, x, op, enc, depth) ==
    /\ KeepInline(op, enc, depth) =>
          Becomes(r) /\ open' = InsertOpen(x) /\ inserted' = inserted + 1
    /\ ~KeepInline(op, enc, depth) =>
          Becomes(AfterPut(r, x)) /\ open' = open /\ inserted' = inserted
    /\ closed' = closed \/ closed' = Recorded(enc, depth)
    /\ ops' \subseteq ops

\* DoFsOperator in one thread: the state is kept or put in the same step.
LEMMA StepOperateInline == ASSUME IInv, NEW op \in ops, OperateInline(op) PROVE Step
<1>1. PICK p, c, x, b, q, depth, O, Ws, d :
         /\ p = Pair /\ c = cur /\ x = GetState(p) /\ b = AfterGet(p) /\ q = Duplicated(b, x, c)
         /\ depth = q.st[x].depth
         /\ O = Entries(open) /\ Ws = WorksOf(subq, cmpq, work) /\ d = deepest.state
  OBVIOUS
<1>2. /\ pc = "submit" /\ x \in State
      /\ UNCHANGED <<cur, subq, work, cmpq, left, deepest, pc>>
  BY <1>1 DEF OperateInline
<1>3. PICK enc \in EncAfter(q.st, x, op) : Inlined(Encoded(q, x, enc), x, op, enc, depth)
  BY <1>1 DEF OperateInline, Inlined, KeepInline, Encoded
<1>4. PICK r : r = Encoded(q, x, enc)
  OBVIOUS
<1>5. /\ World(p, O, Ws, c, d) /\ c # Null /\ op \in Operation /\ left = Cardinality(Ws)
      /\ QueuesOK(subq, cmpq, work) /\ OpenOK(open) /\ DeepestOK(deepest)
      /\ DOMAIN closed \subseteq Encodings /\ ops \subseteq Operation
  BY <1>1, <1>2 DEF IInv, Control
<1>6. c \in State
  BY <1>5 DEF World, Shape
<1>7. /\ World(r, O \cup {x}, Ws, c, d) /\ Frame(p, r) /\ x \notin O /\ enc \in Encodings
      /\ Same(p, r, {x}) /\ Kids(p.st, x) = {}
  <2>1. x = GetState(p) /\ b = AfterGet(p) /\ q = Duplicated(b, x, c) /\ x \in State
    BY <1>1, <1>2
  <2>2. World(p, O, Ws, c, d) /\ op \in Operation /\ enc \in EncAfter(q.st, x, op)
    BY <1>3, <1>5
  <2>3. InlineFacts(p, r, O, Ws, c, d, x, enc)
    BY <1>4, <1>6, <2>1, <2>2, InlineWork
  <2> QED BY <2>3 DEF InlineFacts
<1>8. DOMAIN closed' \subseteq Encodings /\ ops' \subseteq Operation
  <2>1. DOMAIN Recorded(enc, depth) \subseteq Encodings
    BY <1>5, <1>7, RecordedIs
  <2>2. (closed' = closed \/ closed' = Recorded(enc, depth)) /\ ops' \subseteq ops
    BY <1>3 DEF Inlined
  <2> QED BY <1>5, <2>1, <2>2
<1>9. /\ QueuesOK(subq', cmpq', work') /\ WorksOf(subq', cmpq', work') = Ws
      /\ left' = Cardinality(Ws)
  BY <1>1, <1>2, <1>5
<1>10. CASE KeepInline(op, enc, depth)
  <2>1. PICK o : o = InsertOpen(x)
    OBVIOUS
  <2>2. Becomes(r) /\ open' = o /\ inserted' = inserted + 1
    BY <1>3, <1>4, <1>10, <2>1 DEF Inlined
  <2>3. /\ OpenOK(o) /\ Entries(o) = O \cup {x}
        /\ inserted + 1 \in 0 .. MaxStates /\ inserted + 1 <= Len(o)
    BY <1>1, <1>2, <1>5, <1>7, <2>1, InsertOpenIs
  <2>4. Control'
    BY <1>2, <1>8, <2>2, <2>3 DEF IInv, Control
  <2> QED BY <1>1, <1>2, <1>5, <1>7, <1>9, <2>2, <2>3, <2>4, NextIs
<1>11. CASE ~KeepInline(op, enc, depth)
  <2>1. PICK z : z = AfterPut(r, x)
    OBVIOUS
  <2>2. Becomes(z) /\ open' = open /\ inserted' = inserted
    BY <1>3, <1>4, <1>11, <2>1 DEF Inlined
  <2>3. World(z, O, Ws, c, d) /\ Kept(r, z)
    <3>1. x \in O \cup {x} /\ (O \cup {x}) \ {x} = O
      BY <1>7
    <3>2. World(z, (O \cup {x}) \ {x}, Ws, c, d) /\ Kept(r, z)
      BY <1>7, <2>1, <3>1, DropOpen
    <3> QED BY <3>1, <3>2
  <2>4. Frame(p, z)
    <3>1. Same(p, z, {x})
      BY <1>7, <2>3 DEF Same, Kept
    <3>2. \A y \in {x} : Kids(p.st, y) = {}
      BY <1>7
    <3>3. Typed(p)
      BY <1>1, InvFacts
    <3>4. PICK h, W, n, P : /\ h = HoldOf(O, W, c, n, d) /\ W = StatesOf(Ws) /\ n = Cardinality(Ws)
                            /\ P = PendingOf(Ws)
      OBVIOUS
    <3>5. h \in [State -> Nat] /\ Good(z, h)
      BY <2>3, <3>4, WorldFacts
    <3> QED BY <3>1, <3>2, <3>3, <3>5, SameFrame
  <2>5. Control'
    BY <1>2, <1>8, <2>2 DEF IInv, Control
  <2>6. OpenOK(open') /\ Entries(open') = O
    BY <1>1, <1>5, <2>2
  <2> QED BY <1>1, <1>2, <1>5, <1>9, <2>2, <2>3, <2>4, <2>5, <2>6, NextIs
<1> QED BY <1>10, <1>11

\* Every step keeps the invariant and the ancestors.
LEMMA InvNext == IInv /\ [Next]_vars => Step
<1> SUFFICES ASSUME IInv, [Next]_vars PROVE Step
  OBVIOUS
<1>1. CASE Main
  BY <1>1, StepPickStopped, StepPickLeaf, StepPickExpand, StepSubmit, StepOperateInline,
     StepSubmitted, StepCollect, StepExpanded, StepAllExplored, StepPutDeepest, StepPutOpen,
     StepFinished DEF Main
<1>2. ASSUME NEW w \in Workers, Worker(w) PROVE Step
  BY <1>2, StepTake, StepDuplicate, StepOperate DEF Worker
<1>3. CASE StopTest
  BY <1>3, StepStopTest
<1>4. CASE UNCHANGED vars
  <2>1. Control'
    BY <1>4 DEF IInv, Control, vars
  <2> QED BY <1>4, <2>1, StepControl DEF vars
<1> QED BY <1>1, <1>2, <1>3, <1>4 DEF Next

-------------------------------------------------------------------------------
(***************************************************************************)
(* What follows of the invariant.                                          *)
(***************************************************************************)
\* The types.
LEMMA InvTypes == IInv => TypeOK
<1> SUFFICES ASSUME IInv PROVE TypeOK
  OBVIOUS
<1>1. PICK p : p = Pair
  OBVIOUS
<1>2. Typed(p) /\ p.st = st /\ p.pool = pool /\ open \in Seq(State)
  BY <1>1, InvFacts
<1>3. st \in [State -> StateInfo] /\ pool.free \in Seq(State) /\ pool.allocated \in 1 .. MaxStates
  BY <1>2, TypedFacts
<1>4. Works = WorksOf(subq, cmpq, work)
  BY DEF Works, WorksOf, Entries, Running
<1>5. Works \subseteq Work
  BY <1>4, WorksTyped DEF IInv
<1>6. cur \in State \cup {Null}
  BY DEF IInv, World, Shape
<1>7. deepest.state \in State \cup {Null}
  BY DEF IInv, DeepestOK
<1>8. /\ DOMAIN closed \subseteq Encodings /\ inserted \in 0 .. MaxStates
      /\ pc \in {"pick", "submit", "collect", "finish", "finished"} /\ left = Cardinality(Works)
  BY <1>4 DEF IInv, Control
<1> QED BY <1>2, <1>3, <1>5, <1>6, <1>7, <1>8 DEF TypeOK, StateInfo

\* The open list holds each of its states once.
LEMMA OpenCount ==
  ASSUME NEW q, OneToOne(q), NEW x, NEW S, S = {i \in 1 .. Len(q) : q[i] = x}
  PROVE  Cardinality(S) = In(x, Entries(q))
<1>1. CASE x \in Entries(q)
  <2>1. PICK i \in 1 .. Len(q) : q[i] = x
    BY <1>1 DEF Entries
  <2>2. S = {i}
    BY <2>1 DEF OneToOne
  <2> QED BY <1>1, <2>2, FS_Singleton DEF In
<1>2. CASE x \notin Entries(q)
  <2>1. S = {}
    BY <1>2 DEF Entries
  <2> QED BY <1>2, <2>1, FS_EmptySet DEF In
<1> QED BY <1>1, <1>2

\* A state has at most one work.
LEMMA WorkCount ==
  ASSUME NEW O, NEW Ws, NEW c, NEW d, Shape(O, Ws, c, d), NEW x, NEW S, S = {e \in Ws : e.state = x}
  PROVE  Cardinality(S) = In(x, StatesOf(Ws))
<1>1. \A e, f \in Ws : e.state = f.state => e = f
  BY DEF Shape
<1>2. CASE x \in StatesOf(Ws)
  <2>1. PICK e \in Ws : e.state = x
    BY <1>2 DEF StatesOf
  <2>2. S = {e}
    BY <1>1, <2>1
  <2> QED BY <1>2, <2>2, FS_Singleton DEF In
<1>3. CASE x \notin StatesOf(Ws)
  <2>1. S = {}
    BY <1>3 DEF StatesOf
  <2> QED BY <1>3, <2>1, FS_EmptySet DEF In
<1> QED BY <1>2, <1>3

\* The counts.
LEMMA InvCounts == IInv => RefCountsExact
<1> SUFFICES ASSUME IInv, NEW s \in 1 .. pool.allocated
             PROVE  /\ st[s].ref = Cardinality({i \in 1 .. Len(open) : open[i] = s})
                                   + Cardinality({c \in Works : c.state = s})
                                   + Cardinality({c \in Works : c.src = s})
                                   + Cardinality({x \in State : st[x].parent = s})
                                   + (IF cur = s THEN 1 ELSE 0)
                                   + (IF deepest.state = s THEN 1 ELSE 0)
                    /\ st[s].ref = 0 <=> s \in Free
  BY DEF RefCountsExact
<1>1. PICK p, O, Ws, c, d, h, W, n, P, k :
         /\ p = Pair /\ O = Entries(open) /\ Ws = WorksOf(subq, cmpq, work) /\ c = cur
         /\ d = deepest.state /\ h = HoldOf(O, W, c, n, d) /\ W = StatesOf(Ws) /\ n = Cardinality(Ws)
         /\ P = PendingOf(Ws) /\ k = Cardinality(Kids(st, s))
  OBVIOUS
<1>2. World(p, O, Ws, c, d) /\ p.st = st /\ p.pool = pool /\ OneToOne(open)
  BY <1>1, InvFacts DEF IInv
<1>3. Works = Ws
  BY <1>1 DEF Works, WorksOf, Entries, Running
<1>4. n \in Nat /\ h \in [State -> Nat] /\ Good(p, h) /\ Typed(p)
  BY <1>1, <1>2, WorldFacts
<1>5. s \in State
  <2>1. pool.allocated \in 1 .. MaxStates
    BY <1>2, <1>4, TypedFacts
  <2> QED BY <2>1, StateFacts DEF State
<1>6. Shape(O, Ws, c, d)
  BY <1>2 DEF World
<1>7. Cardinality({i \in 1 .. Len(open) : open[i] = s}) = In(s, O)
  BY <1>1, <1>2, OpenCount
<1>8. Cardinality({e \in Works : e.state = s}) = In(s, W)
  BY <1>1, <1>3, <1>6, WorkCount
<1>9. Cardinality({e \in Works : e.src = s}) = IF s = c THEN n ELSE 0
  <2>1. PICK S : S = {e \in Ws : e.src = s}
    OBVIOUS
  <2>2. (s = c => S = Ws) /\ (s # c => S = {})
    <3>1. \A e \in Ws : e.src = c
      BY <1>6 DEF Shape
    <3>2. ASSUME s = c PROVE S = Ws
      BY <2>1, <3>1, <3>2
    <3>3. ASSUME s # c PROVE S = {}
      BY <2>1, <3>1, <3>3
    <3> QED BY <3>2, <3>3
  <2>3. Cardinality({}) = 0
    BY FS_EmptySet
  <2> QED BY <1>1, <1>3, <2>1, <2>2, <2>3
<1>10. Cardinality({x \in State : st[x].parent = s}) = k
  BY <1>1 DEF Kids
<1>11. st[s].ref = h[s] + k
  BY <1>1, <1>2, <1>4, <1>5 DEF Good, Counted
<1>12. k \in Nat
  <2>1. Kids(st, s) \in SUBSET State
    BY DEF Kids
  <2> QED BY <1>1, <2>1, KidsCard
<1>13. h[s] = In(s, O) + In(s, W) + (IF s = c THEN n + 1 ELSE 0) + In(s, {d})
  BY <1>1, <1>5 DEF HoldOf
<1>14. st[s].ref = Cardinality({i \in 1 .. Len(open) : open[i] = s})
                   + Cardinality({e \in Works : e.state = s})
                   + Cardinality({e \in Works : e.src = s})
                   + Cardinality({x \in State : st[x].parent = s})
                   + (IF cur = s THEN 1 ELSE 0)
                   + (IF deepest.state = s THEN 1 ELSE 0)
  <2>1. PICK a \in Nat, b \in Nat, f \in Nat, g \in Nat :
           /\ a = In(s, O) /\ b = In(s, W) /\ f = In(s, {d}) /\ g = IF s = c THEN 1 ELSE 0
    BY DEF In
  <2>2. f = IF deepest.state = s THEN 1 ELSE 0
    BY <1>1, <2>1 DEF In
  <2>3. g = IF cur = s THEN 1 ELSE 0
    BY <1>1, <2>1
  <2>4. PICK m \in Nat : m = IF s = c THEN n ELSE 0
    BY <1>4
  <2>5. (IF s = c THEN n + 1 ELSE 0) = m + g
    BY <1>4, <2>1, <2>4
  <2>6. st[s].ref = a + b + m + k + g + f
    BY <1>11, <1>12, <1>13, <2>1, <2>4, <2>5
  <2> QED BY <1>7, <1>8, <1>9, <1>10, <2>1, <2>2, <2>3, <2>4, <2>6
<1>15. st[s].ref = 0 <=> s \in Free
  <2>1. Free = Entries(pool.free)
    BY DEF Free, Entries
  <2>2. pool.allocated \in 1 .. MaxStates
    BY <1>2, <1>4, TypedFacts
  <2>3. s <= pool.allocated
    BY <2>2
  <2>4. s \in Entries(pool.free) <=> s <= pool.allocated /\ st[s].ref = 0
    BY <1>2, <1>4, <1>5 DEF Good, Pooled
  <2> QED BY <2>1, <2>3, <2>4
<1> QED BY <1>14, <1>15

\* When only states hold states, none is held: a state copied is deeper than its
\* source, and there are not enough states for a chain that never ends.
LEMMA NoneHeld ==
  ASSUME NEW p, NEW h \in [State -> Nat], Good(p, h), \A x \in State : h[x] = 0
  PROVE  \A x \in State : p.st[x].ref = 0
<1> SUFFICES ASSUME NEW x \in State, p.st[x].ref # 0 PROVE FALSE
  OBVIOUS
<1>1. PICK s : s = p.st
  OBVIOUS
<1>2. /\ \A y \in State : s[y].ref \in Nat /\ s[y].depth \in Int /\ s[y].parent \in State \cup {Null}
      /\ Counted(s, h) /\ Rooted(s)
  BY <1>1, TypedFacts DEF Good
<1>3. ASSUME NEW y \in State, s[y].ref # 0
      PROVE  \E z \in State : s[z].ref # 0 /\ s[z].depth = s[y].depth + 1
  <2>1. PICK K, m : K = Kids(s, y) /\ m = Cardinality(K)
    OBVIOUS
  <2>2. K \in SUBSET State
    BY <2>1 DEF Kids
  <2>3. m \in Nat /\ s[y].ref = h[y] + m /\ h[y] = 0
    BY <1>2, <2>1, <2>2, KidsCard DEF Counted
  <2>4. m # 0
    BY <1>2, <1>3, <2>3
  <2>5. K # {}
    BY <2>1, <2>4, FS_EmptySet
  <2>6. PICK z \in State : s[z].parent = y
    BY <2>1, <2>5 DEF Kids
  <2>7. s[z].parent # Null
    BY <2>6, StateFacts
  <2>8. s[z].ref # 0 /\ s[z].depth = s[y].depth + 1
    BY <1>2, <2>6, <2>7 DEF Rooted
  <2> QED BY <2>8
<1> DEFINE T == {k \in Nat : \E y \in State : s[y].ref # 0 /\ s[y].depth = s[x].depth + k}
<1>4. 0 \in T
  BY <1>1, <1>2
<1>5. ASSUME NEW k \in Nat, k \in T PROVE k + 1 \in T
  <2>1. PICK y \in State : s[y].ref # 0 /\ s[y].depth = s[x].depth + k
    BY <1>5
  <2>2. PICK z \in State : s[z].ref # 0 /\ s[z].depth = s[y].depth + 1
    BY <1>3, <2>1
  <2>3. s[z].depth = s[x].depth + (k + 1)
    BY <1>2, <2>1, <2>2
  <2> QED BY <2>2, <2>3
<1>6. \A k \in Nat : \E y \in State : s[y].depth = s[x].depth + k
  <2>1. Nat \subseteq T
    <3> HIDE DEF T
    <3> QED BY <1>4, <1>5, Induct
  <2> QED BY <2>1
<1>7. PICK D : D = 0 .. MaxStates
  OBVIOUS
<1>8. PICK f : f = [k \in D |-> CHOOSE y \in State : s[y].depth = s[x].depth + k]
  OBVIOUS
<1>9. ASSUME NEW k \in D PROVE f[k] \in State /\ s[f[k]].depth = s[x].depth + k
  <2>1. k \in Nat
    BY <1>7, StateFacts
  <2>2. \E y \in State : s[y].depth = s[x].depth + k
    BY <1>6, <2>1
  <2>3. f[k] = CHOOSE y \in State : s[y].depth = s[x].depth + k
    BY <1>8
  <2> QED BY <2>2, <2>3
<1>10. f \in [D -> State]
  BY <1>8, <1>9
<1>11. IsFiniteSet(D) /\ Cardinality(D) = MaxStates + 1
  <2>1. 0 \in Int /\ MaxStates \in Int /\ MaxStates \in Nat
    BY StateFacts
  <2>2. IsFiniteSet(D) /\ Cardinality(D) = IF 0 > MaxStates THEN 0 ELSE MaxStates - 0 + 1
    BY <1>7, <2>1, FS_Interval
  <2> QED BY <2>1, <2>2
<1>12. Cardinality(State) < Cardinality(D)
  BY <1>11, StateFacts
<1>13. \E i, j \in D : i # j /\ f[i] = f[j]
  BY <1>10, <1>11, <1>12, StateFacts, FS_PigeonHole
<1>14. PICK i \in D, j \in D : i # j /\ f[i] = f[j]
  BY <1>13
<1>15. s[x].depth + i = s[x].depth + j
  BY <1>9, <1>14
<1>16. i \in Int /\ j \in Int /\ s[x].depth \in Int
  BY <1>2, <1>7, StateFacts
<1> QED BY <1>14, <1>15, <1>16

\* At the end all states are in the pool.
LEMMA InvLeaks == IInv => NoStateLeaks
<1> SUFFICES ASSUME IInv, pc = "finished" PROVE Len(pool.free) = pool.allocated
  BY DEF NoStateLeaks
<1>1. PICK p, O, Ws, c, d, h, W, n, P :
         /\ p = Pair /\ O = Entries(open) /\ Ws = WorksOf(subq, cmpq, work) /\ c = cur
         /\ d = deepest.state /\ h = HoldOf(O, W, c, n, d) /\ W = StatesOf(Ws) /\ n = Cardinality(Ws)
         /\ P = PendingOf(Ws)
  OBVIOUS
<1>2. World(p, O, Ws, c, d) /\ p.st = st /\ p.pool = pool
  BY <1>1, InvFacts DEF IInv
<1>3. open = <<>> /\ d = Null /\ c = Null
  BY <1>1 DEF IInv, Control
<1>4. O = {}
  BY <1>1, <1>3 DEF Entries
<1>5. Ws = {}
  <2>1. \A e \in Work : e.src \in State
    BY DEF Work
  <2>2. \A e \in Ws : e \in Work /\ e.src = Null
    BY <1>2, <1>3 DEF World, Shape
  <2> QED BY <2>1, <2>2, StateFacts
<1>6. W = {}
  BY <1>1, <1>5 DEF StatesOf
<1>7. h \in [State -> Nat] /\ Good(p, h) /\ Typed(p)
  BY <1>1, <1>2, WorldFacts
<1>8. \A x \in State : h[x] = 0
  BY <1>1, <1>3, <1>4, <1>6, StateFacts DEF HoldOf, In
<1>9. \A x \in State : st[x].ref = 0
  BY <1>2, <1>7, <1>8, NoneHeld
<1>10. PICK f, a : f = pool.free /\ a = pool.allocated
  OBVIOUS
<1>11. f \in Seq(State) /\ a \in 1 .. MaxStates
  BY <1>2, <1>7, <1>10, TypedFacts
<1>12. OneToOne(f) /\ \A x \in State : x \in Entries(f) <=> x <= a /\ st[x].ref = 0
  BY <1>2, <1>7, <1>10 DEF Good, Pooled
<1>13. Entries(f) \in SUBSET State /\ Cardinality(Entries(f)) = Len(f)
  BY <1>11, <1>12, EntriesCard
<1>14. Entries(f) = 1 .. a
  <2>1. \A x \in State : x \in Entries(f) <=> x <= a
    BY <1>9, <1>12
  <2>2. \A x : x \in State <=> x \in Nat /\ x # 0 /\ x <= MaxStates
    BY StateFacts DEF State
  <2>3. \A x : x \in 1 .. a => x \in State /\ x <= a
    BY <1>11, <2>2, StateFacts
  <2>4. \A x \in State : x <= a => x \in 1 .. a
    BY <1>11, StateFacts
  <2> QED BY <1>13, <2>1, <2>3, <2>4
<1>15. Cardinality(1 .. a) = a
  <2>1. 1 \in Int /\ a \in Int /\ a >= 1
    BY <1>11, StateFacts
  <2>2. Cardinality(1 .. a) = IF 1 > a THEN 0 ELSE a - 1 + 1
    BY <2>1, FS_Interval
  <2> QED BY <2>1, <2>2
<1> QED BY <1>10, <1>13, <1>14, <1>15

\* The ancestors.
LEMMA FrameIs ==
  ASSUME Frame(Pair, Pair')
  PROVE  \A s \in State :
          LET p == st[s].parent
          IN  p # Null /\ st'[s].parent = p =>
                 st'[p].ref > 0 /\ st'[p].enc = st[p].enc /\ st'[p].depth = st[p].depth
<1>1. Pair.st = st /\ Pair'.st = st'
  BY DEF Pair
<1> QED BY <1>1 DEF Frame

-------------------------------------------------------------------------------
(***************************************************************************)
(* The search leaves nothing out.  What was found is at the end of a path  *)
(* of the length its depth says; and the successors of what was found      *)
(* below the maximal depth are in the closed set, or the state is still    *)
(* open, or it is the one being expanded and the works of the missing ones *)
(* are not yet collected.  When the open list is empty nothing is owed.    *)
(***************************************************************************)
\* e is the first encoding, or at the end of a path of at most d operations.
Within(e, d) == e = First \/ \E k \in 1 .. d : e \in Reach[k]

\* States whose encoding is not that of a path: not yet copied, or refused.
LooseOf(Ws) == {e.state : e \in {f \in Ws : f.res \in {"pending", "no operation"}}}

\* The operations of the state that is expanded, submitted or not.
OpsOf(os, Ws) == os \cup {e.op : e \in Ws}

\* What is found is at the end of a path.
Sound(s, L, C) ==
    /\ \A x \in State : s[x].ref # 0 /\ x \notin L => s[x].depth \in Nat /\ Within(s[x].enc, s[x].depth)
    /\ \A e \in DOMAIN C : C[e] \in Nat /\ Within(e, C[e])

\* The works are operations on the state that is expanded; the deepest state is not one of theirs.
Leads(s, c, d, os, Ws) ==
    /\ d \notin StatesOf(Ws)
    /\ \A o \in OpsOf(os, Ws) : o.kind = "apply" => o.to \in Succ[s[c].enc]
    /\ \A e \in Ws :
          /\ e.res # "pending" => s[e.state].depth = s[c].depth + 1
          /\ e.res \notin {"pending", "running"} => e.res = ResultOf(e.op)
          /\ e.res = "ok" /\ e.op.kind = "apply" => s[e.state].enc = e.op.to

\* What is known of all that was found.
Found(p, c, d, os, Ws, C) ==
    Sound(p.st, LooseOf(Ws), C) /\ (c # Null => Leads(p.st, c, d, os, Ws))

\* The closed set holds e, with no more than n operations.
Covers(C, e, n) == e \in DOMAIN C /\ C[e] <= n

\* It holds the successors of e, found with d operations.
Spread(C, e, d) == \A f \in Succ[e] : Covers(C, f, d + 1)

\* The state x is e, found with d operations.
FoundAt(s, x, e, d) == s[x].enc = e /\ s[x].depth = d

\* One of the operations leads to f.
Coming(Q, f) == \E o \in Q : o.kind = "apply" /\ o.to = f

\* The successors of e, found with d operations, are found or will be: the closed set holds
\* them, a state of the open list is e, or the state that is expanded is and those left are to come.
Owed(s, O, c, Q, C, e, d) ==
    \/ Spread(C, e, d)
    \/ \E x \in O : FoundAt(s, x, e, d)
    \/ c # Null /\ FoundAt(s, c, e, d) /\ \A f \in Succ[e] : Covers(C, f, d + 1) \/ Coming(Q, f)

\* So it is for the first state and for all that was found below the maximal depth.
Complete(s, O, c, Q, C) ==
    /\ 0 < TestDepth => Owed(s, O, c, Q, C, First, 0)
    /\ \A e \in DOMAIN C : C[e] < TestDepth => Owed(s, O, c, Q, C, e, C[e])

\* Nothing is to be done.
Done(C) ==
    /\ 0 < TestDepth => Spread(C, First, 0)
    /\ \A e \in DOMAIN C : C[e] < TestDepth => Spread(C, e, C[e])

\* The search has lost nothing, until it is stopped.
Search ==
    /\ Found(Pair, cur, deepest.state, ops, WorksOf(subq, cmpq, work), closed)
    /\ pc = "collect" => ops = {}
    /\ pc \in {"pick", "submit", "collect"} =>
          Complete(st, Entries(open), cur, OpsOf(ops, WorksOf(subq, cmpq, work)), closed)
    /\ pc = "finish" => stop \/ (StopOnError /\ error) \/ Done(closed)

\* The search by worker threads.
SInv == threaded => Search

\* What goes on from c with f, without end.
LEMMA RecOnNat ==
  ASSUME NEW A, NEW c \in A, NEW f, \A a \in A : f[a] \in A
  PROVE  \E g : g \in [Nat -> A] /\ g[0] = c /\ \A n \in Nat : g[n + 1] = f[g[n]]
<1> DEFINE P(n, g) == g \in [0 .. n -> A] /\ IsRec(g, c, f, n)
<1>1. \A n \in Nat : \E g : P(n, g)
  BY RecExists
<1>2. PICK h : h = [n \in Nat |-> CHOOSE g : P(n, g)]
  OBVIOUS
<1>3. \A n \in Nat : P(n, h[n])
  <2>1. ASSUME NEW n \in Nat PROVE P(n, h[n])
    <3>1. P(n, CHOOSE g : P(n, g))
      BY <1>1, Zenon
    <3>2. h[n] = CHOOSE g : P(n, g)
      BY <1>2
    <3> QED BY <3>1, <3>2
  <2> QED BY <2>1
<1>4. ASSUME NEW n \in Nat
      PROVE  h[n] \in [0 .. n -> A] /\ h[n][0] = c /\ \A i \in 1 .. n : h[n][i] = f[h[n][i - 1]]
  <2>1. P(n, h[n])
    BY <1>3
  <2> QED BY <2>1 DEF IsRec
<1> HIDE DEF P
<1>5. ASSUME NEW n \in Nat PROVE h[n + 1][n] = h[n][n]
  <2>1. PICK u, v : u = h[n] /\ v = h[n + 1]
    OBVIOUS
  <2>2. u[0] = c /\ \A i \in 1 .. n : u[i] = f[u[i - 1]]
    BY <1>4, <2>1
  <2>3. v[0] = c /\ \A i \in 1 .. n + 1 : v[i] = f[v[i - 1]]
    <3>1. n + 1 \in Nat
      OBVIOUS
    <3> QED BY <1>4, <2>1, <3>1
  <2> DEFINE S == {i \in Nat : i <= n => v[i] = u[i]}
  <2>4. 0 \in S
    BY <2>2, <2>3
  <2>5. ASSUME NEW i \in Nat, i \in S PROVE i + 1 \in S
    <3> SUFFICES ASSUME i + 1 <= n PROVE v[i + 1] = u[i + 1]
      OBVIOUS
    <3>1. i + 1 \in 1 .. n /\ i + 1 \in 1 .. n + 1 /\ (i + 1) - 1 = i /\ i <= n
      OBVIOUS
    <3> QED BY <2>2, <2>3, <2>5, <3>1
  <2>6. Nat \subseteq S
    <3> HIDE DEF S
    <3> QED BY <2>4, <2>5, Induct
  <2> QED BY <2>1, <2>6
<1>6. PICK g : g = [n \in Nat |-> h[n][n]]
  OBVIOUS
<1>7. ASSUME NEW n \in Nat PROVE g[n] \in A /\ g[n + 1] = f[g[n]]
  <2>1. n + 1 \in Nat /\ n + 1 \in 1 .. n + 1 /\ (n + 1) - 1 = n /\ n \in 0 .. n
    OBVIOUS
  <2>2. g[n] = h[n][n] /\ g[n + 1] = h[n + 1][n + 1]
    BY <1>6, <2>1
  <2>3. h[n + 1][n + 1] = f[h[n + 1][n]]
    BY <1>4, <2>1
  <2> QED BY <1>4, <1>5, <2>1, <2>2, <2>3
<1>8. g[0] = c
  <2>1. PICK k \in Nat : k = 0
    OBVIOUS
  <2>2. g[k] = h[k][k]
    BY <1>6
  <2>3. h[k][0] = c
    BY <1>4
  <2> QED BY <2>1, <2>2, <2>3
<1>9. g \in [Nat -> A]
  BY <1>6, <1>7
<1>10. \A n \in Nat : g[n + 1] = f[g[n]]
  BY <1>7
<1> QED BY <1>8, <1>9, <1>10, Zenon

\* What one operation leads to from the encodings S.
Onward(S) == UNION {Succ[e] : e \in S}

\* Reach goes on by one operation.
LEMMA ReachIs ==
  Reach[0] = {First} /\ \A n \in Nat : Reach[n + 1] = Onward(Reach[n])
<1> DEFINE P(g) == g = [n \in Nat |-> IF n = 0 THEN {First} ELSE UNION {Succ[e] : e \in g[n - 1]}]
<1>1. PICK A, f : A = SUBSET Encodings /\ f = [S \in A |-> Onward(S)]
  OBVIOUS
<1>2. {First} \in A /\ \A S \in A : f[S] \in A /\ f[S] = Onward(S)
  BY <1>1, ConstAssumption DEF Onward
<1>3. PICK g : g \in [Nat -> A] /\ g[0] = {First} /\ \A n \in Nat : g[n + 1] = f[g[n]]
  <2>1. PICK c \in A : c = {First}
    BY <1>2
  <2>2. \E g : g \in [Nat -> A] /\ g[0] = c /\ \A n \in Nat : g[n + 1] = f[g[n]]
    <3>1. \A S \in A : f[S] \in A
      BY <1>2
    <3> QED BY ONLY <2>1, <3>1, RecOnNat
  <2> QED BY <2>1, <2>2
<1>4. P(g)
  <2>1. ASSUME NEW n \in Nat PROVE g[n] = IF n = 0 THEN {First} ELSE UNION {Succ[e] : e \in g[n - 1]}
    <3>1. CASE n = 0
      BY <1>3, <3>1
    <3>2. CASE n # 0
      <4>1. PICK m \in Nat : n = m + 1
        <5>1. n - 1 \in Nat /\ n = (n - 1) + 1
          BY <3>2
        <5> QED BY <5>1
      <4>2. g[m + 1] = Onward(g[m]) /\ n - 1 = m
        BY <1>2, <1>3, <4>1
      <4> QED BY <3>2, <4>1, <4>2 DEF Onward
    <3> QED BY <3>1, <3>2
  <2> QED BY <1>3, <2>1
<1>5. P(CHOOSE r : P(r))
  BY <1>4, Zenon
<1>6. Reach = CHOOSE r : P(r)
  BY DEF Reach
<1>7. P(Reach)
  BY <1>5, <1>6
<1>8. \A n \in Nat : Reach[n] = IF n = 0 THEN {First} ELSE UNION {Succ[e] : e \in Reach[n - 1]}
  BY <1>7
<1>9. ASSUME NEW n \in Nat PROVE Reach[n + 1] = Onward(Reach[n])
  <2>1. n + 1 \in Nat /\ n + 1 # 0 /\ (n + 1) - 1 = n
    OBVIOUS
  <2> QED BY <1>8, <2>1 DEF Onward
<1> QED BY <1>8, <1>9

\* One operation further is one deeper.
LEMMA WithinSucc ==
  ASSUME NEW e, NEW d \in Nat, Within(e, d), NEW f \in Succ[e]
  PROVE  Within(f, d + 1)
<1>1. PICK k \in 0 .. d : e \in Reach[k]
  <2>1. CASE e = First
    BY <2>1, ReachIs
  <2>2. CASE e # First
    BY <2>2 DEF Within
  <2> QED BY <2>1, <2>2
<1>2. k \in Nat /\ k + 1 \in 1 .. d + 1
  OBVIOUS
<1>3. f \in Reach[k + 1]
  BY <1>1, <1>2, ReachIs DEF Onward
<1> QED BY <1>2, <1>3 DEF Within

\* What is within a depth is within a greater one.
LEMMA WithinMore ==
  ASSUME NEW e, NEW d \in Nat, NEW m \in Nat, d <= m, Within(e, d)
  PROVE  Within(e, m)
BY DEF Within

\* A search that left nothing owed found all at the least depth.
LEMMA DoneAll ==
  ASSUME Done(closed), \A e \in DOMAIN closed : closed[e] \in Nat /\ Within(e, closed[e])
  PROVE  \A e \in (UNION {Reach[n] : n \in 1 .. TestDepth}) \ {First} :
            e \in DOMAIN closed /\ closed[e] = Distance(e)
<1>0. TestDepth \in Nat
  BY ConstAssumption
<1>1. PICK C : C = closed
  OBVIOUS
<1> DEFINE S == {n \in Nat : n + 1 <= TestDepth => \A e \in Reach[n + 1] : Covers(C, e, n + 1)}
<1>2. 0 \in S
  <2> SUFFICES ASSUME 0 + 1 <= TestDepth, NEW e \in Reach[0 + 1] PROVE Covers(C, e, 0 + 1)
    OBVIOUS
  <2>1. e \in Succ[First]
    BY ReachIs DEF Onward
  <2>2. Spread(C, First, 0)
    BY <1>0, <1>1 DEF Done
  <2> QED BY <2>1, <2>2 DEF Spread
<1>3. ASSUME NEW n \in Nat, n \in S PROVE n + 1 \in S
  <2> SUFFICES ASSUME (n + 1) + 1 <= TestDepth, NEW e \in Reach[(n + 1) + 1]
               PROVE  Covers(C, e, (n + 1) + 1)
    OBVIOUS
  <2>1. PICK f \in Reach[n + 1] : e \in Succ[f]
    <3>1. n + 1 \in Nat
      OBVIOUS
    <3>2. e \in Onward(Reach[n + 1])
      BY <3>1, ReachIs
    <3> QED BY <3>2 DEF Onward
  <2>2. Covers(C, f, n + 1)
    BY <1>0, <1>3, <2>1
  <2>3. f \in DOMAIN C /\ C[f] <= n + 1 /\ C[f] \in Nat /\ C[f] < TestDepth
    BY <1>0, <1>1, <2>2 DEF Covers
  <2>4. Spread(C, f, C[f])
    BY <1>1, <2>3 DEF Done
  <2>5. e \in DOMAIN C /\ C[e] <= C[f] + 1 /\ C[e] \in Nat
    BY <1>1, <2>1, <2>4 DEF Spread, Covers
  <2> QED BY <2>3, <2>5 DEF Covers
<1>4. Nat \subseteq S
  <2> HIDE DEF S
  <2> QED BY <1>2, <1>3, Induct
<1>5. ASSUME NEW n \in 1 .. TestDepth, NEW e \in Reach[n] PROVE Covers(C, e, n)
  <2>1. PICK m \in Nat : n = m + 1
    <3>1. n - 1 \in Nat /\ n = (n - 1) + 1
      BY <1>0
    <3> QED BY <3>1
  <2> QED BY <1>0, <1>4, <2>1
<1> HIDE DEF S
<1> SUFFICES ASSUME NEW n \in 1 .. TestDepth, NEW e \in Reach[n], e # First
             PROVE  e \in DOMAIN C /\ C[e] = Distance(e)
  BY <1>1
<1>6. e \in DOMAIN C /\ C[e] \in Nat /\ Within(e, C[e])
  BY <1>1, <1>5 DEF Covers
<1> DEFINE T == {k \in 1 .. TestDepth : e \in Reach[k]}
           L(k) == e \in Reach[k] /\ \A j \in 1 .. k - 1 : e \notin Reach[j]
<1>7. PICK k \in T : \A j \in T : k <= j
  <2>1. T \in SUBSET Nat /\ T # {}
    BY <1>0
  <2> HIDE DEF T
  <2> QED BY <2>1, Least
<1>8. L(k)
  <2>1. ASSUME NEW j \in 1 .. k - 1 PROVE e \notin Reach[j]
    <3>1. j \in 1 .. TestDepth /\ ~(k <= j)
      BY <1>0, <1>7
    <3> QED BY <1>7, <3>1
  <2> QED BY <1>7, <2>1
<1>9. PICK m : m = CHOOSE i \in 1 .. TestDepth : L(i)
  OBVIOUS
<1>10. m \in 1 .. TestDepth /\ L(m)
  <2>1. k \in 1 .. TestDepth
    BY <1>7
  <2> HIDE DEF L
  <2> QED BY <1>8, <1>9, <2>1, Zenon
<1>11. Distance(e) = m
  BY <1>9 DEF Distance
<1>12. C[e] <= m
  BY <1>5, <1>10 DEF Covers
<1>13. PICK j \in 1 .. C[e] : e \in Reach[j]
  BY <1>6 DEF Within
<1>14. ~(j <= m - 1)
  BY <1>0, <1>6, <1>10, <1>13
<1> QED BY <1>0, <1>6, <1>10, <1>11, <1>12, <1>13, <1>14

\* The closed set only gets more encodings and smaller depths.
Grown(C, CC) == \A e \in DOMAIN C : e \in DOMAIN CC /\ CC[e] <= C[e]

\* Depths are numbers of operations.
Depths(C) == \A e \in DOMAIN C : C[e] \in Nat

\* The states X are as before.
Likewise(s, t, X) == \A x \in X : t[x].enc = s[x].enc /\ t[x].depth = s[x].depth

\* What was covered stays so.
LEMMA CoversMore ==
  ASSUME NEW C, NEW CC, Grown(C, CC), Depths(C), Depths(CC), NEW e, NEW n \in Nat, Covers(C, e, n)
  PROVE  Covers(CC, e, n)
<1>1. e \in DOMAIN C /\ C[e] <= n /\ C[e] \in Nat
  BY DEF Covers, Depths
<1>2. e \in DOMAIN CC /\ CC[e] <= C[e] /\ CC[e] \in Nat
  BY <1>1 DEF Grown, Depths
<1> QED BY <1>1, <1>2 DEF Covers

\* The operations of the state that is expanded remain, or have led to an encoding found.
Answered(s, c, Q, QQ, CC) ==
    c # Null => \A o \in Q : o.kind = "apply" => o \in QQ \/ Covers(CC, o.to, s[c].depth + 1)

\* What is owed stays so when the open list grows and operations are answered.
LEMMA OwedLater ==
  ASSUME NEW s, NEW t, NEW O, NEW OO, NEW c, NEW Q, NEW QQ, NEW C, NEW CC,
         Likewise(s, t, O), c # Null => Likewise(s, t, {c}), O \subseteq OO,
         Grown(C, CC), Depths(C), Depths(CC), Answered(s, c, Q, QQ, CC),
         NEW e, NEW d \in Nat, Owed(s, O, c, Q, C, e, d)
  PROVE  Owed(t, OO, c, QQ, CC, e, d)
<1>1. d + 1 \in Nat
  OBVIOUS
<1>2. CASE Spread(C, e, d)
  <2>1. Spread(CC, e, d)
    BY <1>1, <1>2, CoversMore DEF Spread
  <2> QED BY <2>1 DEF Owed
<1>3. CASE \E x \in O : FoundAt(s, x, e, d)
  <2>1. \E x \in OO : FoundAt(t, x, e, d)
    BY <1>3 DEF FoundAt, Likewise
  <2> QED BY <2>1 DEF Owed
<1>4. CASE c # Null /\ FoundAt(s, c, e, d) /\ \A f \in Succ[e] : Covers(C, f, d + 1) \/ Coming(Q, f)
  <2>1. FoundAt(t, c, e, d) /\ s[c].depth = d
    BY <1>4 DEF FoundAt, Likewise
  <2>2. ASSUME NEW f \in Succ[e] PROVE Covers(CC, f, d + 1) \/ Coming(QQ, f)
    <3>1. CASE Covers(C, f, d + 1)
      BY <1>1, <3>1, CoversMore
    <3>2. CASE Coming(Q, f)
      <4>1. PICK o \in Q : o.kind = "apply" /\ o.to = f
        BY <3>2 DEF Coming
      <4>2. o \in QQ \/ Covers(CC, f, d + 1)
        BY <1>4, <2>1, <4>1 DEF Answered
      <4> QED BY <4>1, <4>2 DEF Coming
    <3> QED BY <1>4, <3>1, <3>2
  <2> QED BY <1>4, <2>1, <2>2 DEF Owed
<1> QED BY <1>2, <1>3, <1>4 DEF Owed

\* A depth in the closed set that is new belongs to a state of the open list.
NewIn(t, OO, C, CC) ==
    \A e \in DOMAIN CC : (e \in DOMAIN C /\ CC[e] = C[e]) \/ \E x \in OO : FoundAt(t, x, e, CC[e])

\* So the search stays complete.
LEMMA CompleteLater ==
  ASSUME NEW s, NEW t, NEW O, NEW OO, NEW c, NEW Q, NEW QQ, NEW C, NEW CC,
         Complete(s, O, c, Q, C),
         Likewise(s, t, O), c # Null => Likewise(s, t, {c}), O \subseteq OO,
         Grown(C, CC), Depths(C), Depths(CC), Answered(s, c, Q, QQ, CC), NewIn(t, OO, C, CC)
  PROVE  Complete(t, OO, c, QQ, CC)
<1>1. ASSUME NEW e, NEW d \in Nat, Owed(s, O, c, Q, C, e, d)
      PROVE  Owed(t, OO, c, QQ, CC, e, d)
  BY <1>1, OwedLater
<1>2. ASSUME 0 < TestDepth PROVE Owed(t, OO, c, QQ, CC, First, 0)
  <2>1. Owed(s, O, c, Q, C, First, 0)
    BY <1>2 DEF Complete
  <2>2. 0 \in Nat
    OBVIOUS
  <2> QED BY <1>1, <2>1, <2>2
<1>3. ASSUME NEW e \in DOMAIN CC, CC[e] < TestDepth PROVE Owed(t, OO, c, QQ, CC, e, CC[e])
  <2>1. CASE e \in DOMAIN C /\ CC[e] = C[e]
    <3>1. Owed(s, O, c, Q, C, e, CC[e])
      BY <1>3, <2>1 DEF Complete
    <3>2. CC[e] \in Nat
      BY DEF Depths
    <3> QED BY <1>1, <3>1, <3>2
  <2>2. CASE \E x \in OO : FoundAt(t, x, e, CC[e])
    BY <2>2 DEF Owed
  <2> QED BY <2>1, <2>2 DEF NewIn
<1> QED BY <1>2, <1>3 DEF Complete

\* A state at the maximal depth is owed nothing.
LEMMA CompleteLeaf ==
  ASSUME NEW s, NEW t, NEW O, NEW Q, NEW C, NEW x, Complete(s, O, Null, Q, C), Depths(C),
         Likewise(s, t, O), ~(s[x].depth < TestDepth)
  PROVE  Complete(t, O \ {x}, Null, Q, C)
<1>1. ASSUME NEW e, NEW d, d < TestDepth, Owed(s, O, Null, Q, C, e, d)
      PROVE  Owed(t, O \ {x}, Null, Q, C, e, d)
  <2>1. CASE \E y \in O : FoundAt(s, y, e, d)
    <3>1. PICK y \in O : FoundAt(s, y, e, d)
      BY <2>1
    <3>2. y # x /\ FoundAt(t, y, e, d)
      BY <1>1, <3>1 DEF FoundAt, Likewise
    <3> QED BY <3>2 DEF Owed
  <2> QED BY <1>1, <2>1 DEF Owed
<1> QED BY <1>1 DEF Complete

\* A state goes from the open list to the main thread, with all its operations.
LEMMA CompleteExpand ==
  ASSUME NEW s, NEW t, NEW O, NEW Q, NEW QQ, NEW C, NEW x \in O, x # Null, Complete(s, O, Null, Q, C),
         Likewise(s, t, O), \A f \in Succ[s[x].enc] : Coming(QQ, f)
  PROVE  Complete(t, O \ {x}, x, QQ, C)
<1>1. ASSUME NEW e, NEW d, Owed(s, O, Null, Q, C, e, d)
      PROVE  Owed(t, O \ {x}, x, QQ, C, e, d)
  <2>1. CASE Spread(C, e, d)
    BY <2>1 DEF Owed
  <2>2. CASE \E y \in O : FoundAt(s, y, e, d)
    <3>1. PICK y \in O : FoundAt(s, y, e, d)
      BY <2>2
    <3>2. FoundAt(t, y, e, d)
      BY <3>1 DEF FoundAt, Likewise
    <3>3. CASE y # x
      BY <3>2, <3>3 DEF Owed
    <3>4. CASE y = x
      <4>1. \A f \in Succ[e] : Coming(QQ, f)
        BY <3>1, <3>4 DEF FoundAt
      <4> QED BY <3>2, <3>4, <4>1 DEF Owed
    <3> QED BY <3>3, <3>4
  <2> QED BY <1>1, <2>1, <2>2 DEF Owed
<1> QED BY <1>1 DEF Complete

\* When its operations are all answered the main thread may drop it.
LEMMA CompleteExpanded ==
  ASSUME NEW s, NEW t, NEW O, NEW c, NEW Q, NEW C, Complete(s, O, c, Q, C), Likewise(s, t, O), Q = {}
  PROVE  Complete(t, O, Null, Q, C)
<1>1. ASSUME NEW e, NEW d, Owed(s, O, c, Q, C, e, d)
      PROVE  Owed(t, O, Null, Q, C, e, d)
  <2>1. CASE \E y \in O : FoundAt(s, y, e, d)
    BY <2>1 DEF Owed, FoundAt, Likewise
  <2>2. CASE \A f \in Succ[e] : Covers(C, f, d + 1) \/ Coming(Q, f)
    <3>1. Spread(C, e, d)
      BY <2>2 DEF Spread, Coming
    <3> QED BY <3>1 DEF Owed
  <2> QED BY <1>1, <2>1, <2>2 DEF Owed, Spread
<1> QED BY <1>1 DEF Complete

\* Nothing is left to do when there is no state to expand.
LEMMA CompleteDone ==
  ASSUME NEW s, NEW Q, NEW C, Complete(s, {}, Null, Q, C)
  PROVE  Done(C)
BY DEF Complete, Owed, Done

\* put and references taken change nothing found.
LEMMA FoundKept ==
  ASSUME NEW p, NEW r, Kept(p, r), NEW O, NEW Ws, NEW c, NEW d, NEW dd, Shape(O, Ws, c, d),
         NEW os, NEW C, Found(p, c, d, os, Ws, C), dd \notin StatesOf(Ws)
  PROVE  Found(r, c, dd, os, Ws, C)
<1>1. PICK s, t : s = p.st /\ t = r.st
  OBVIOUS
<1>2. \A x \in State : t[x].enc = s[x].enc /\ t[x].depth = s[x].depth /\ (t[x].ref # 0 => s[x].ref # 0)
  BY <1>1 DEF Kept
<1>3. Sound(t, LooseOf(Ws), C)
  BY <1>1, <1>2 DEF Found, Sound
<1>4. ASSUME c # Null PROVE Leads(t, c, dd, os, Ws)
  <2>1. c \in State /\ \A e \in Ws : e.state \in State
    BY <1>4 DEF Shape, Work
  <2>2. Leads(s, c, d, os, Ws)
    BY <1>1, <1>4 DEF Found
  <2>3. t[c].enc = s[c].enc /\ t[c].depth = s[c].depth
        /\ \A e \in Ws : t[e.state].enc = s[e.state].enc /\ t[e.state].depth = s[e.state].depth
    BY <1>2, <2>1
  <2> QED BY <2>2, <2>3 DEF Leads
<1> QED BY <1>1, <1>3, <1>4 DEF Found

\* Who is held by nobody is not in use.
LEMMA Unheld ==
  ASSUME NEW p, NEW O, NEW Ws, NEW c, NEW d, World(p, O, Ws, c, d),
         NEW x \in State, x \notin O, x \notin StatesOf(Ws), x # c, x # d, Kids(p.st, x) = {}
  PROVE  p.st[x].ref = 0
<1>1. PICK h, W, n : h = HoldOf(O, W, c, n, d) /\ W = StatesOf(Ws) /\ n = Cardinality(Ws)
  OBVIOUS
<1>2. n \in Nat /\ Good(p, h)
  <2>1. PICK P : P = PendingOf(Ws)
    OBVIOUS
  <2> QED BY <1>1, <2>1, WorldFacts
<1>3. h[x] = 0
  BY <1>1, <1>2 DEF HoldOf, In
<1>4. p.st[x].ref = h[x] + Cardinality({})
  BY <1>2 DEF Good, Counted
<1> QED BY <1>3, <1>4, FS_EmptySet

\* The state that is expanded is in use.
LEMMA CurHeld ==
  ASSUME NEW p, NEW O, NEW Ws, NEW c \in State, NEW d, World(p, O, Ws, c, d)
  PROVE  p.st[c].ref # 0 /\ c \notin StatesOf(Ws) /\ Ws \subseteq Work /\ O \subseteq State
<1>1. PICK h, W, n, P : /\ h = HoldOf(O, W, c, n, d) /\ W = StatesOf(Ws) /\ n = Cardinality(Ws)
                        /\ P = PendingOf(Ws)
  OBVIOUS
<1>2. h \in [State -> Nat] /\ Good(p, h) /\ h[c] # 0
  BY <1>1, WorldFacts
<1>3. p.st[c].ref # 0
  BY <1>2, Held
<1> QED BY <1>3 DEF World, Shape

\* Loose states are states of works.
LEMMA LooseIn ==
  ASSUME NEW Ws
  PROVE  LooseOf(Ws) \subseteq StatesOf(Ws)
BY DEF LooseOf, StatesOf

\* So it is at the end of a path.
LEMMA CurFound ==
  ASSUME NEW p, NEW O, NEW Ws, NEW c \in State, NEW d, World(p, O, Ws, c, d), NEW C,
         Sound(p.st, LooseOf(Ws), C)
  PROVE  p.st[c].depth \in Nat /\ Within(p.st[c].enc, p.st[c].depth)
<1>1. p.st[c].ref # 0 /\ c \notin LooseOf(Ws)
  BY CurHeld, LooseIn
<1> QED BY <1>1 DEF Sound

\* What CheckAndInsert does to the closed set.
Records(C, CC, enc, depth, known) ==
    /\ Grown(C, CC) /\ Depths(CC) /\ Covers(CC, enc, depth)
    /\ known => CC = C
    /\ \A e \in DOMAIN CC : (e \in DOMAIN C /\ CC[e] = C[e]) \/ (~known /\ e = enc /\ CC[e] = depth)

\* It records the encoding unless it is known at this depth.
LEMMA RecordsIs ==
  ASSUME Depths(closed), NEW enc, NEW depth \in Nat, NEW CC, CC = Recorded(enc, depth)
  PROVE  Records(closed, CC, enc, depth, Exists(enc, depth))
<1>1. PICK C : C = closed
  OBVIOUS
<1>2. CASE Exists(enc, depth)
  <2>1. CC = C /\ Covers(C, enc, depth)
    BY <1>1, <1>2 DEF Recorded, Exists, Covers
  <2>2. Grown(C, C)
    BY <1>1 DEF Grown, Depths
  <2> QED BY <1>1, <1>2, <2>1, <2>2 DEF Records
<1>3. CASE ~Exists(enc, depth)
  <2>1. CC = [e \in DOMAIN C \cup {enc} |-> IF e = enc THEN depth ELSE C[e]]
    BY <1>1, <1>3 DEF Recorded
  <2>2. /\ DOMAIN CC = DOMAIN C \cup {enc} /\ CC[enc] = depth
        /\ \A e \in DOMAIN C : e # enc => CC[e] = C[e]
    BY <2>1
  <2>3. enc \in DOMAIN C => C[enc] > depth
    BY <1>1, <1>3 DEF Exists, Depths
  <2>4. Grown(C, CC)
    BY <1>1, <2>2, <2>3 DEF Grown, Depths
  <2>5. Depths(CC) /\ Covers(CC, enc, depth)
    BY <1>1, <2>2 DEF Depths, Covers
  <2>6. \A e \in DOMAIN CC : (e \in DOMAIN C /\ CC[e] = C[e]) \/ (e = enc /\ CC[e] = depth)
    BY <2>2
  <2> QED BY <1>1, <1>3, <2>4, <2>5, <2>6 DEF Records
<1> QED BY <1>2, <1>3

\* Without a state to expand there are no works.
LEMMA NoWorks ==
  ASSUME NEW p, NEW O, NEW Ws, NEW c, NEW d, World(p, O, Ws, c, d), c = Null
  PROVE  Ws = {} /\ StatesOf(Ws) = {}
<1>1. \A e \in Ws : e \in Work /\ e.src = Null
  BY DEF World, Shape
<1>2. \A e \in Work : e.src # Null
  BY StateFacts DEF Work
<1> QED BY <1>1, <1>2 DEF StatesOf

\* What must be shown of a step.
LEMMA SearchIs ==
  ASSUME NEW r, NEW O, NEW Ws, NEW c, NEW d, NEW os, NEW C, Typed(r), Becomes(r),
         Entries(open') = O, WorksOf(subq', cmpq', work') = Ws, cur' = c, deepest'.state = d,
         ops' = os, closed' = C, Found(r, c, d, os, Ws, C), pc' = "collect" => os = {},
         pc' \in {"pick", "submit", "collect"} => Complete(r.st, O, c, OpsOf(os, Ws), C),
         pc' = "finish" => stop' \/ (StopOnError /\ error') \/ Done(C)
  PROVE  Search'
<1>1. Pair' = r /\ st' = r.st
  BY PairIs DEF Becomes
<1> QED BY <1>1 DEF Search

\* What is known before a step.
LEMMA SearchFacts ==
  ASSUME IInv, Search, NEW p, p = Pair, NEW O, O = Entries(open), NEW Ws, Ws = WorksOf(subq, cmpq, work),
         NEW c, c = cur, NEW d, d = deepest.state
  PROVE  /\ World(p, O, Ws, c, d) /\ p.st = st /\ Typed(p) /\ Found(p, c, d, ops, Ws, closed)
         /\ Shape(O, Ws, c, d) /\ Sound(p.st, LooseOf(Ws), closed) /\ Depths(closed)
         /\ O \subseteq State /\ c \in State \cup {Null} /\ Ws \subseteq Work
<1>1. World(p, O, Ws, c, d) /\ p.st = st /\ Typed(p)
  BY InvFacts DEF IInv
<1>2. Found(p, c, d, ops, Ws, closed)
  BY DEF Search
<1>3. Shape(O, Ws, c, d) /\ Sound(p.st, LooseOf(Ws), closed)
  BY <1>1, <1>2 DEF World, Found
<1>4. Depths(closed)
  BY <1>3 DEF Sound, Depths
<1>5. O \subseteq State /\ c \in State \cup {Null} /\ Ws \subseteq Work
  BY <1>3 DEF Shape
<1> QED BY <1>1, <1>2, <1>3, <1>4, <1>5

\* put and references taken leave the states as they are.
LEMMA KeptLikewise ==
  ASSUME NEW p, NEW r, Kept(p, r), NEW X, X \subseteq State
  PROVE  Likewise(p.st, r.st, X)
BY DEF Kept, Likewise

\* A pair in order is typed.
LEMMA WorldTyped ==
  ASSUME NEW p, NEW O, NEW Ws, NEW c, NEW d, World(p, O, Ws, c, d)
  PROVE  Typed(p)
BY DEF World, Good

\* The state taken is dropped at the maximal depth, or because the test is stopped.
LEMMA SearchDrop ==
  ASSUME IInv, Search, open # <<>>, cur = Null, open' = Tail(open), DepthCheck(Head(open)),
         Becomes(AfterPut(AfterDepthCheck(Head(open)), Head(open))),
         UNCHANGED <<closed, cur, inserted, ops, subq, work, cmpq, left>>,
         \/ pc' = "finish" /\ stop'
         \/ pc = "pick" /\ pc' = "pick" /\ ~(st[Head(open)].depth < TestDepth)
  PROVE  Search'
<1>1. PICK p, x, o, b, r, O, Ws, e, os, C, Q :
         /\ p = Pair /\ x = Head(open) /\ o = Tail(open) /\ b = AfterDepthCheck(x) /\ r = AfterPut(b, x)
         /\ O = Entries(open) /\ Ws = WorksOf(subq, cmpq, work) /\ e = deepest' /\ os = ops /\ C = closed
         /\ Q = OpsOf(os, Ws)
  OBVIOUS
<1>2. /\ o \in Seq(State) /\ OneToOne(o) /\ Entries(o) = O \ {x} /\ x \in O
  BY <1>1, InvFacts, TailIs
<1>3. World(b, O, Ws, Null, e.state) /\ Kept(p, b)
  BY <1>1, <1>2, DepthIs
<1>4. World(r, O \ {x}, Ws, Null, e.state) /\ Kept(b, r)
  BY <1>1, <1>2, <1>3, DropOpen
<1>5. Kept(p, r) /\ Typed(r)
  BY <1>3, <1>4, KeptTrans, WorldTyped
<1>6. PICK d : d = deepest.state
  OBVIOUS
<1>7. /\ World(p, O, Ws, Null, d) /\ p.st = st /\ Found(p, Null, d, os, Ws, C)
      /\ Shape(O, Ws, Null, d) /\ Depths(C) /\ O \subseteq State
  BY <1>1, <1>6, SearchFacts
<1>8. Ws = {} /\ e.state \notin StatesOf(Ws)
  BY <1>7, NoWorks
<1>9. Found(r, Null, e.state, os, Ws, C)
  BY <1>5, <1>7, <1>8, FoundKept
<1>10. pc' = "pick" => Complete(r.st, O \ {x}, Null, Q, C)
  <2> SUFFICES ASSUME pc' = "pick" PROVE Complete(r.st, O \ {x}, Null, Q, C)
    OBVIOUS
  <2>1. pc = "pick" /\ ~(p.st[x].depth < TestDepth)
    BY <1>1, <1>7
  <2>2. Complete(p.st, O, Null, Q, C)
    BY <1>1, <1>7, <2>1 DEF Search
  <2>3. Likewise(p.st, r.st, O)
    BY <1>5, <1>7, KeptLikewise
  <2> QED BY <1>7, <2>1, <2>2, <2>3, CompleteLeaf
<1>11. pc' \in {"pick", "finish"} /\ (pc' = "finish" => stop')
  OBVIOUS
<1>12. /\ Entries(open') = O \ {x} /\ WorksOf(subq', cmpq', work') = Ws /\ cur' = Null
       /\ deepest'.state = e.state /\ ops' = os /\ closed' = C /\ Becomes(r)
  BY <1>1, <1>2
<1> QED BY <1>1, <1>5, <1>9, <1>10, <1>11, <1>12, SearchIs

\* RunTest when the test is stopped.
LEMMA SearchPickStopped == ASSUME IInv, Search, PickStopped PROVE Search'
<1>1. cur = Null
  BY DEF PickStopped, IInv, Control
<1> QED BY <1>1, SearchDrop DEF PickStopped

\* RunTest at the maximal depth: nothing is owed to the state dropped.
LEMMA SearchPickLeaf == ASSUME IInv, Search, PickLeaf PROVE Search'
<1>1. cur = Null /\ TestDepth \in Nat
  BY ConstAssumption DEF PickLeaf, IInv, Control
<1>2. open # <<>> /\ st[Head(open)].depth >= TestDepth
  BY DEF PickLeaf
<1>3. st[Head(open)].depth \in Int
  <2>1. PICK x : x = Head(open)
    OBVIOUS
  <2>2. x \in State
    BY <1>2, <2>1, InvFacts
  <2> QED BY <2>1, <2>2, InvFacts, TypedFacts
<1>4. ~(st[Head(open)].depth < TestDepth)
  BY <1>1, <1>2, <1>3
<1> QED BY <1>1, <1>4, SearchDrop DEF PickLeaf

\* GenerateOps leaves no successor out.
LEMMA OpsAll ==
  ASSUME NEW e
  PROVE  /\ \A f \in Succ[e] : Coming(Ops(e), f)
         /\ \A o \in Ops(e) : o.kind = "apply" => o.to \in Succ[e]
<1>1. ASSUME NEW f \in Succ[e] PROVE Coming(Ops(e), f)
  <2>1. PICK o : o = [kind |-> "apply", to |-> f]
    OBVIOUS
  <2>2. o \in Ops(e) /\ o.kind = "apply" /\ o.to = f
    BY <2>1 DEF Ops
  <2> QED BY <2>2 DEF Coming
<1>2. ASSUME NEW o \in Ops(e), o.kind = "apply" PROVE o.to \in Succ[e]
  <2>1. CASE \E f \in Succ[e] : o = [kind |-> "apply", to |-> f]
    BY <2>1
  <2>2. CASE \E k \in {"no operation", "failed", "power"} : \E f : o = [kind |-> k, to |-> f]
    BY <1>2, <2>2
  <2> QED BY <2>1, <2>2 DEF Ops
<1> QED BY <1>1, <1>2

\* RunTest below the maximal depth: the state taken owes its successors.
LEMMA SearchPickExpand == ASSUME IInv, Search, PickExpand PROVE Search'
<1>0. cur = Null /\ pc = "pick" /\ open # <<>>
  BY DEF PickExpand, IInv, Control
<1>1. PICK p, x, o, b, O, Ws, e, os, C, d :
         /\ p = Pair /\ x = Head(open) /\ o = Tail(open) /\ b = AfterDepthCheck(x)
         /\ O = Entries(open) /\ Ws = WorksOf(subq, cmpq, work) /\ e = deepest'
         /\ os = Ops(st[x].enc) /\ C = closed /\ d = deepest.state
  OBVIOUS
<1>2. Entries(o) = O \ {x} /\ x \in O /\ x \in State
  BY <1>0, <1>1, InvFacts, TailIs
<1>3. World(b, O, Ws, Null, e.state) /\ Kept(p, b) /\ Typed(b)
  BY <1>0, <1>1, <1>2, DepthIs, WorldTyped DEF PickExpand
<1>4. /\ World(p, O, Ws, Null, d) /\ p.st = st /\ Found(p, Null, d, ops, Ws, C)
      /\ Shape(O, Ws, Null, d) /\ Depths(C) /\ O \subseteq State
  BY <1>0, <1>1, SearchFacts
<1>5. Ws = {} /\ e.state \notin StatesOf(Ws)
  BY <1>4, NoWorks
<1>6. Found(b, Null, e.state, ops, Ws, C)
  BY <1>3, <1>4, <1>5, FoundKept
<1>7. b.st[x].enc = st[x].enc
  BY <1>2, <1>3, <1>4 DEF Kept
<1>8. OpsOf(os, Ws) = os
  BY <1>5 DEF OpsOf
<1>9. Leads(b.st, x, e.state, os, Ws)
  <2>1. \A q \in os : q.kind = "apply" => q.to \in Succ[b.st[x].enc]
    BY <1>1, <1>7, OpsAll
  <2> QED BY <1>5, <1>8, <2>1 DEF Leads
<1>10. Found(b, x, e.state, os, Ws, C)
  BY <1>6, <1>9 DEF Found
<1>11. Complete(b.st, O \ {x}, x, os, C)
  <2>1. PICK Q : Q = OpsOf(ops, Ws)
    OBVIOUS
  <2>2. Complete(p.st, O, Null, Q, C)
    BY <1>0, <1>1, <1>4, <2>1 DEF Search
  <2>3. Likewise(p.st, b.st, O) /\ x # Null
    BY <1>2, <1>3, <1>4, KeptLikewise, StateFacts
  <2>4. \A f \in Succ[p.st[x].enc] : Coming(os, f)
    BY <1>1, <1>4, OpsAll
  <2> QED BY <1>2, <2>2, <2>3, <2>4, CompleteExpand
<1>12. /\ Entries(open') = O \ {x} /\ WorksOf(subq', cmpq', work') = Ws /\ cur' = x
       /\ deepest'.state = e.state /\ ops' = os /\ closed' = C /\ Becomes(b) /\ pc' = "submit"
  BY <1>1, <1>2 DEF PickExpand
<1> QED BY <1>3, <1>8, <1>10, <1>11, <1>12, SearchIs

\* A step that touches neither the states nor what is to be done.
LEMMA SearchStill ==
  ASSUME IInv, Search, UNCHANGED <<st, pool, open, closed, cur, ops, deepest>>,
         WorksOf(subq', cmpq', work') = WorksOf(subq, cmpq, work),
         pc' = "collect" => ops = {},
         pc' \in {"pick", "submit", "collect"} => pc \in {"pick", "submit", "collect"},
         pc' = "finish" => stop' \/ (StopOnError /\ error') \/ Done(closed)
  PROVE  Search'
<1>1. Pair' = Pair
  BY DEF Pair
<1> QED BY <1>1 DEF Search

\* The loop that submits ends when there is no operation left.
LEMMA SearchSubmitted == ASSUME IInv, Search, Submitted PROVE Search'
BY SearchStill DEF Submitted

\* The open list is empty: nothing is owed any more.
LEMMA SearchAllExplored == ASSUME IInv, Search, AllExplored PROVE Search'
<1>1. pc = "pick" /\ open = <<>> /\ cur = Null
  BY DEF AllExplored, IInv, Control
<1>2. Entries(open) = {}
  BY <1>1 DEF Entries
<1>3. PICK Q, s, C : Q = OpsOf(ops, WorksOf(subq, cmpq, work)) /\ s = st /\ C = closed
  OBVIOUS
<1>4. Complete(s, {}, Null, Q, C)
  BY <1>1, <1>2, <1>3 DEF Search
<1>5. Done(closed)
  BY <1>3, <1>4, CompleteDone
<1> QED BY <1>5, SearchStill DEF AllExplored

\* FinishTest has ended.
LEMMA SearchFinished == ASSUME IInv, Search, Finished PROVE Search'
BY SearchStill DEF Finished

\* StopTest only takes obligations away.
LEMMA SearchStopTest == ASSUME IInv, Search, StopTest PROVE Search'
<1>1. /\ UNCHANGED <<st, pool, open, closed, cur, ops, deepest, pc, error>> /\ stop'
      /\ UNCHANGED <<subq, work, cmpq>>
  BY DEF StopTest, mainVars
<1>2. pc' = "collect" => ops = {}
  BY <1>1 DEF Search
<1> QED BY <1>1, <1>2, SearchStill

\* A worker thread takes a work.
LEMMA SearchTake == ASSUME IInv, Search, NEW w \in Workers, Take(w) PROVE Search'
<1>1. PICK z, e, Ws, wz : /\ z = Tail(subq) /\ e = Head(subq) /\ Ws = WorksOf(subq, cmpq, work)
                          /\ wz = [work EXCEPT ![w] = e]
  OBVIOUS
<1>2. /\ work[w] = Null /\ subq # <<>> /\ subq' = z /\ work' = wz
      /\ UNCHANGED <<st, pool, open, closed, cur, ops, deepest, pc, cmpq, error, stop>>
  BY <1>1 DEF Take, mainVars
<1>3. Handed(wz, work, w, e) /\ QueuesOK(subq, cmpq, work)
  BY <1>1 DEF Handed, IInv
<1>4. WorksOf(z, cmpq, wz) = Ws
  <2>1. z = Tail(subq) /\ e = Head(subq) /\ work[w] = Null /\ subq # <<>>
    BY <1>1, <1>2
  <2>2. QueuesAre(z, cmpq, wz, WorksOf(subq, cmpq, work))
    BY <1>3, <2>1, TakeQ
  <2> QED BY <1>1, <2>2 DEF QueuesAre
<1>5. WorksOf(subq', cmpq', work') = WorksOf(subq, cmpq, work)
  BY <1>1, <1>2, <1>4
<1>6. /\ pc' = "collect" => ops = {}
      /\ pc' = "finish" => stop' \/ (StopOnError /\ error') \/ Done(closed)
  BY <1>2 DEF Search
<1> QED BY <1>2, <1>5, <1>6, SearchStill

\* All works are collected: the successors of the state expanded are found.
LEMMA SearchExpanded == ASSUME IInv, Search, Expanded PROVE Search'
<1>1. PICK p, r, c, O, Ws, d, os, C, Q :
         /\ p = Pair /\ c = cur /\ r = AfterPut(p, c) /\ os = ops /\ C = closed /\ Q = OpsOf(os, Ws)
         /\ O = Entries(open) /\ Ws = WorksOf(subq, cmpq, work) /\ d = deepest.state
  OBVIOUS
<1>2. /\ Becomes(r) /\ left = 0 /\ cur' = Null /\ pc = "collect"
      /\ pc' = (IF StopOnError /\ error THEN "finish" ELSE "pick")
      /\ UNCHANGED <<open, closed, ops, subq, work, cmpq, deepest, error>>
  BY <1>1 DEF Expanded
<1>3. /\ World(p, O, Ws, c, d) /\ p.st = st /\ Found(p, c, d, os, Ws, C)
      /\ Shape(O, Ws, c, d) /\ O \subseteq State /\ c \in State \cup {Null}
  BY <1>1, SearchFacts
<1>4. c \in State /\ left = Cardinality(Ws) /\ IsFiniteSet(Ws)
  BY <1>1, <1>2, <1>3 DEF IInv, Control, Shape
<1>5. Ws = {}
  BY <1>2, <1>4, CardPos
<1>6. World(r, O, Ws, Null, d) /\ Kept(p, r)
  BY <1>1, <1>3, <1>4, <1>5, DropExpanded
<1>7. Typed(r) /\ Likewise(p.st, r.st, O)
  BY <1>3, <1>6, WorldTyped, KeptLikewise
<1>8. os = {} /\ Q = {}
  <2>1. os = {}
    BY <1>1, <1>2 DEF Search
  <2> QED BY <1>1, <1>5, <2>1 DEF OpsOf
<1>9. Found(r, Null, d, os, Ws, C)
  <2>1. d \notin StatesOf(Ws)
    BY <1>5 DEF StatesOf
  <2>2. Found(r, c, d, os, Ws, C)
    BY <1>3, <1>6, <2>1, FoundKept
  <2> QED BY <2>2 DEF Found
<1>10. Complete(r.st, O, Null, Q, C)
  <2>1. Complete(p.st, O, c, Q, C)
    BY <1>1, <1>2, <1>3 DEF Search
  <2> QED BY <1>7, <1>8, <2>1, CompleteExpanded
<1>11. pc' = "finish" => StopOnError /\ error'
  BY <1>2
<1>12. /\ Entries(open') = O /\ WorksOf(subq', cmpq', work') = Ws /\ cur' = Null
       /\ deepest'.state = d /\ ops' = os /\ closed' = C
  BY <1>1, <1>2
<1> QED BY <1>1, <1>2, <1>7, <1>8, <1>9, <1>10, <1>11, <1>12, SearchIs

\* The end of RunTest puts the state found deepest.
LEMMA SearchPutDeepest == ASSUME IInv, Search, PutDeepest PROVE Search'
<1>1. PICK p, r, O, Ws, d, os, C :
         /\ p = Pair /\ r = AfterPut(p, d) /\ os = ops /\ C = closed
         /\ O = Entries(open) /\ Ws = WorksOf(subq, cmpq, work) /\ d = deepest.state
  OBVIOUS
<1>2. /\ Becomes(r) /\ d # Null /\ deepest' = [deepest EXCEPT !.state = Null] /\ pc = "finish"
      /\ UNCHANGED <<open, closed, cur, ops, subq, work, cmpq, pc, error, stop>>
  BY <1>1 DEF PutDeepest
<1>3. cur = Null /\ DeepestOK(deepest)
  BY <1>2 DEF IInv, Control
<1>4. World(p, O, Ws, Null, d) /\ Found(p, Null, d, os, Ws, C) /\ Shape(O, Ws, Null, d)
  BY <1>1, <1>3, SearchFacts
<1>5. d \in State /\ deepest'.state = Null
  BY <1>1, <1>2, <1>3 DEF DeepestOK
<1>6. World(r, O, Ws, Null, Null) /\ Kept(p, r) /\ Typed(r)
  BY <1>1, <1>4, <1>5, DropDeepest, WorldTyped
<1>7. Null \notin StatesOf(Ws)
  BY <1>4, NoWorks
<1>8. Found(r, Null, Null, os, Ws, C)
  BY <1>4, <1>6, <1>7, FoundKept
<1>9. stop' \/ (StopOnError /\ error') \/ Done(C)
  BY <1>1, <1>2 DEF Search
<1>10. /\ Entries(open') = O /\ WorksOf(subq', cmpq', work') = Ws /\ cur' = Null
       /\ ops' = os /\ closed' = C /\ pc' = "finish"
  BY <1>1, <1>2, <1>3
<1> QED BY <1>2, <1>5, <1>6, <1>8, <1>9, <1>10, SearchIs

\* FinishTest puts a state of the open list.
LEMMA SearchPutOpen == ASSUME IInv, Search, PutOpen PROVE Search'
<1>1. PICK p, x, o, r, O, Ws, d, os, C :
         /\ p = Pair /\ x = Head(open) /\ o = Tail(open) /\ r = AfterPut(p, x) /\ os = ops /\ C = closed
         /\ O = Entries(open) /\ Ws = WorksOf(subq, cmpq, work) /\ d = deepest.state
  OBVIOUS
<1>2. /\ Becomes(r) /\ open # <<>> /\ open' = o /\ pc = "finish"
      /\ UNCHANGED <<closed, cur, ops, subq, work, cmpq, deepest, pc, error, stop>>
  BY <1>1 DEF PutOpen
<1>3. cur = Null
  BY <1>2 DEF IInv, Control
<1>4. World(p, O, Ws, Null, d) /\ Found(p, Null, d, os, Ws, C) /\ Shape(O, Ws, Null, d)
  BY <1>1, <1>3, SearchFacts
<1>5. Entries(o) = O \ {x} /\ x \in O
  BY <1>1, <1>2, InvFacts, TailIs
<1>6. World(r, O \ {x}, Ws, Null, d) /\ Kept(p, r) /\ Typed(r)
  BY <1>1, <1>4, <1>5, DropOpen, WorldTyped
<1>7. d \notin StatesOf(Ws)
  BY <1>4, NoWorks
<1>8. Found(r, Null, d, os, Ws, C)
  BY <1>4, <1>6, <1>7, FoundKept
<1>9. stop' \/ (StopOnError /\ error') \/ Done(C)
  BY <1>1, <1>2 DEF Search
<1>10. /\ Entries(open') = O \ {x} /\ WorksOf(subq', cmpq', work') = Ws /\ cur' = Null
       /\ deepest'.state = d /\ ops' = os /\ closed' = C /\ pc' = "finish"
  BY <1>1, <1>2, <1>3, <1>5
<1> QED BY <1>2, <1>6, <1>8, <1>9, <1>10, SearchIs

\* What is owed depends on the states of the open list and the one that is expanded.
LEMMA CompleteSame ==
  ASSUME NEW s, NEW t, NEW O, NEW c, NEW Q, NEW C, Complete(s, O, c, Q, C), Depths(C),
         Likewise(s, t, O), Likewise(s, t, {c})
  PROVE  Complete(t, O, c, Q, C)
<1>1. Grown(C, C) /\ NewIn(t, O, C, C) /\ Answered(s, c, Q, Q, C) /\ O \subseteq O
  BY DEF Grown, Depths, NewIn, Answered
<1> QED BY <1>1, CompleteLater

\* The states but x are as before.
LEMMA OnlyIs ==
  ASSUME NEW p, NEW r, NEW x, Only(p, r, x), NEW s, s = p.st, NEW t, t = r.st
  PROVE  \A y \in State \ {x} : t[y].enc = s[y].enc /\ t[y].depth = s[y].depth /\ (t[y].ref # 0 => s[y].ref # 0)
BY DEF Only

\* What a step leaves that changes the state of a work alone.
StillFound(s, t, O, V, c, C) ==
    /\ Sound(t, LooseOf(V), C) /\ t[c].enc = s[c].enc /\ t[c].depth = s[c].depth
    /\ \A Q : Complete(s, O, c, Q, C) => Complete(t, O, c, Q, C)

\* A step that changes the state x of a work alone.
LEMMA OnlyKeeps ==
  ASSUME NEW p, NEW r, NEW x, Only(p, r, x), NEW O, NEW Ws, NEW V, NEW c \in State, NEW C,
         O \subseteq State, x \notin O, x # c, Sound(p.st, LooseOf(Ws), C), Depths(C),
         LooseOf(Ws) \ {x} \subseteq LooseOf(V),
         x \in LooseOf(V) \/ (r.st[x].depth \in Nat /\ Within(r.st[x].enc, r.st[x].depth))
  PROVE  StillFound(p.st, r.st, O, V, c, C)
<1>0. PICK s, t : s = p.st /\ t = r.st
  OBVIOUS
<1>1. \A y \in State \ {x} : /\ t[y].enc = s[y].enc /\ t[y].depth = s[y].depth
                             /\ t[y].ref # 0 => s[y].ref # 0
  BY <1>0, OnlyIs
<1>2. ASSUME NEW y \in State, t[y].ref # 0, y \notin LooseOf(V)
      PROVE  t[y].depth \in Nat /\ Within(t[y].enc, t[y].depth)
  <2>1. CASE y = x
    BY <1>0, <1>2, <2>1
  <2>2. CASE y # x
    BY <1>0, <1>1, <1>2, <2>2 DEF Sound
  <2> QED BY <2>1, <2>2
<1>3. Sound(t, LooseOf(V), C)
  BY <1>2 DEF Sound
<1>4. Likewise(s, t, O) /\ Likewise(s, t, {c})
  BY <1>1 DEF Likewise
<1>5. \A Q : Complete(s, O, c, Q, C) => Complete(t, O, c, Q, C)
  BY <1>4, CompleteSame
<1> QED BY <1>0, <1>1, <1>3, <1>5 DEF StillFound

\* DoFsOperator_Queue makes a work of an operation.
LEMMA SearchSubmit == ASSUME IInv, Search, NEW op \in ops, Submit(op) PROVE Search'
<1>1. PICK p, q, x, r, c, O, Ws, d, e, V, os, oz, C :
         /\ p = Pair /\ c = cur /\ q = AddRef(p, c) /\ x = GetState(q) /\ r = AfterGet(q)
         /\ O = Entries(open) /\ Ws = WorksOf(subq, cmpq, work) /\ d = deepest.state
         /\ e = [state |-> x, src |-> c, op |-> op, res |-> "pending"]
         /\ V = Ws \cup {e} /\ os = ops /\ oz = ops \ {op} /\ C = closed
  OBVIOUS
<1>2. /\ x \in State /\ subq' = Append(subq, e) /\ Becomes(r) /\ ops' = oz
      /\ UNCHANGED <<open, closed, cur, work, cmpq, deepest, pc>> /\ pc = "submit"
  BY <1>1 DEF Submit
<1>3. /\ World(p, O, Ws, c, d) /\ p.st = st /\ Found(p, c, d, os, Ws, C) /\ Sound(p.st, LooseOf(Ws), C)
      /\ Depths(C) /\ O \subseteq State /\ c \in State \cup {Null} /\ Ws \subseteq Work
  BY <1>1, SearchFacts
<1>4. c \in State /\ c # Null /\ op \in Operation
  BY <1>1, <1>2, <1>3 DEF IInv, Control
<1>5. /\ World(r, O, V, c, d) /\ e \in Work /\ Unlike(Ws, e) /\ Only(p, r, x)
      /\ x \notin O /\ x # c /\ x # d
  <2>1. SubmitFacts(p, r, O, Ws, c, d, e)
    BY <1>1, <1>2, <1>3, <1>4, SubmitWork
  <2> QED BY <1>1, <2>1 DEF SubmitFacts
<1>6. WorksOf(subq', cmpq', work') = V
  <2>1. PICK z : z = Append(subq, e)
    OBVIOUS
  <2>2. QueuesOK(subq, cmpq, work)
    BY DEF IInv
  <2>3. Added(z, cmpq, work, Ws, e)
    BY <1>1, <1>5, <2>1, <2>2, SubmitQ
  <2> QED BY <1>1, <1>2, <2>1, <2>3 DEF Added
<1>7. e.state = x /\ e.op = op /\ e.res = "pending"
  BY <1>1
<1>8. OpsOf(oz, V) = OpsOf(os, Ws)
  BY <1>1, <1>7 DEF OpsOf
<1>9. LooseOf(V) = LooseOf(Ws) \cup {x} /\ StatesOf(V) = StatesOf(Ws) \cup {x}
  BY <1>1, <1>7 DEF LooseOf, StatesOf
<1>10. PICK Q : Q = OpsOf(os, Ws)
  OBVIOUS
<1>11. /\ Sound(r.st, LooseOf(V), C)
       /\ Complete(p.st, O, c, Q, C) => Complete(r.st, O, c, Q, C)
       /\ r.st[c].enc = p.st[c].enc /\ r.st[c].depth = p.st[c].depth
  <2>1. LooseOf(Ws) \ {x} \subseteq LooseOf(V) /\ x \in LooseOf(V)
    BY <1>9
  <2>2. StillFound(p.st, r.st, O, V, c, C)
    BY <1>3, <1>4, <1>5, <2>1, OnlyKeeps
  <2> QED BY <2>2 DEF StillFound
<1>12. Complete(r.st, O, c, Q, C)
  BY <1>1, <1>2, <1>3, <1>10, <1>11 DEF Search
<1>13. Leads(r.st, c, d, oz, V)
  <2>1. Leads(p.st, c, d, os, Ws)
    BY <1>3, <1>4 DEF Found
  <2>2. d \notin StatesOf(V)
    BY <1>5, <1>9, <2>1 DEF Leads
  <2>3. \A o \in OpsOf(oz, V) : o.kind = "apply" => o.to \in Succ[r.st[c].enc]
    BY <1>8, <1>11, <2>1 DEF Leads
  <2>4. ASSUME NEW g \in V
        PROVE  /\ g.res # "pending" => r.st[g.state].depth = r.st[c].depth + 1
               /\ g.res \notin {"pending", "running"} => g.res = ResultOf(g.op)
               /\ g.res = "ok" /\ g.op.kind = "apply" => r.st[g.state].enc = g.op.to
    <3>1. CASE g = e
      BY <1>7, <3>1
    <3>2. CASE g \in Ws
      <4>1. g.state \in State /\ g.state # x
        BY <1>3, <1>5, <1>7, <3>2 DEF Work, Unlike
      <4>2. r.st[g.state].enc = p.st[g.state].enc /\ r.st[g.state].depth = p.st[g.state].depth
        BY <1>5, <4>1 DEF Only
      <4> QED BY <1>11, <2>1, <3>2, <4>2 DEF Leads
    <3> QED BY <1>1, <3>1, <3>2
  <2> QED BY <2>2, <2>3, <2>4 DEF Leads
<1>14. Found(r, c, d, oz, V, C) /\ Typed(r)
  BY <1>5, <1>11, <1>13, WorldTyped DEF Found
<1>15. /\ Entries(open') = O /\ cur' = c /\ deepest'.state = d /\ closed' = C /\ pc' = "submit"
  BY <1>1, <1>2
<1> QED BY <1>2, <1>6, <1>8, <1>10, <1>12, <1>14, <1>15, SearchIs

\* What is known of a work of the state c.
WorkFound(t, c, f) ==
    /\ f.res # "pending" => t[f.state].depth = t[c].depth + 1
    /\ f.res \notin {"pending", "running"} => f.res = ResultOf(f.op)
    /\ f.res = "ok" /\ f.op.kind = "apply" => t[f.state].enc = f.op.to

\* What remains known when the work e goes on as f.
LedOn(t, c, d, os, Ws, V, e, f) ==
    /\ Leads(t, c, d, os, V) /\ OpsOf(os, V) = OpsOf(os, Ws) /\ StatesOf(V) = StatesOf(Ws)
    /\ LooseOf(Ws) \ {e.state} \subseteq LooseOf(V)
    /\ e.state \in LooseOf(V) <=> f.res \in {"pending", "no operation"}

\* What a work that goes on leaves of the facts about the others.
LEMMA LeadsOn ==
  ASSUME NEW s, NEW t, NEW O, NEW Ws, NEW c \in State, NEW d, NEW dd, Shape(O, Ws, c, dd), NEW os,
         Leads(s, c, d, os, Ws), NEW e \in Ws, NEW f, f.state = e.state, f.op = e.op,
         NEW V, V = (Ws \ {e}) \cup {f}, Likewise(s, t, State \ {e.state}), WorkFound(t, c, f)
  PROVE  LedOn(t, c, d, os, Ws, V, e, f)
<1>0. /\ t[c].enc = s[c].enc /\ t[c].depth = s[c].depth
      /\ \A y \in State \ {e.state} : t[y].enc = s[y].enc /\ t[y].depth = s[y].depth
  <2>1. c # e.state
    BY DEF Shape, StatesOf
  <2> QED BY <2>1 DEF Likewise
<1>1. /\ Ws \subseteq Work /\ \A g, k \in Ws : g.state = k.state => g = k
  BY DEF Shape
<1>2. StatesOf(V) = StatesOf(Ws) /\ OpsOf(os, V) = OpsOf(os, Ws)
  BY DEF StatesOf, OpsOf
<1>3. \A g \in Ws \ {e} : g.state \in State \ {e.state}
  BY <1>1 DEF Work
<1>4. LooseOf(Ws) \ {e.state} \subseteq LooseOf(V)
  BY DEF LooseOf
<1>5. e.state \in LooseOf(V) <=> f.res \in {"pending", "no operation"}
  BY <1>1 DEF LooseOf
<1>6. ASSUME NEW g \in V
      PROVE  /\ g.res # "pending" => t[g.state].depth = t[c].depth + 1
             /\ g.res \notin {"pending", "running"} => g.res = ResultOf(g.op)
             /\ g.res = "ok" /\ g.op.kind = "apply" => t[g.state].enc = g.op.to
  <2>1. CASE g = f
    BY <2>1 DEF WorkFound
  <2>2. CASE g \in Ws \ {e}
    <3>1. t[g.state].enc = s[g.state].enc /\ t[g.state].depth = s[g.state].depth
      BY <1>0, <1>3, <2>2
    <3> QED BY <1>0, <2>2, <3>1 DEF Leads
  <2> QED BY <2>1, <2>2
<1>7. d \notin StatesOf(V) /\ \A o \in OpsOf(os, V) : o.kind = "apply" => o.to \in Succ[t[c].enc]
  BY <1>0, <1>2 DEF Leads
<1>8. Leads(t, c, d, os, V)
  BY <1>6, <1>7 DEF Leads
<1> QED BY <1>2, <1>4, <1>5, <1>8 DEF LedOn

\* A worker thread copies the source: the copy is one deeper.
LEMMA SearchDuplicate == ASSUME IInv, Search, NEW w \in Workers, Duplicate(w) PROVE Search'
<1>1. PICK p, c, e, f, r, O, Ws, d, V, wz, os, C, x :
         /\ p = Pair /\ c = cur /\ e = work[w] /\ f = [e EXCEPT !.res = "running"]
         /\ r = Duplicated(p, e.state, e.src) /\ wz = [work EXCEPT ![w] = f]
         /\ O = Entries(open) /\ Ws = WorksOf(subq, cmpq, work) /\ d = deepest.state
         /\ V = (Ws \ {e}) \cup {f} /\ os = ops /\ C = closed /\ x = e.state
  OBVIOUS
<1>2. /\ e # Null /\ e.res = "pending" /\ Becomes(r)
      /\ UNCHANGED <<open, closed, cur, ops, deepest, pc, subq, cmpq, stop, error>>
  BY <1>1 DEF Duplicate, mainVars
<1>3. work' = wz
  BY <1>1 DEF Duplicate
<1>4. /\ World(p, O, Ws, c, d) /\ p.st = st /\ Found(p, c, d, os, Ws, C) /\ Sound(p.st, LooseOf(Ws), C)
      /\ Shape(O, Ws, c, d) /\ Depths(C) /\ O \subseteq State /\ Ws \subseteq Work
  BY <1>1, SearchFacts
<1>5. e \in Ws /\ e \in Work /\ c \in State /\ c # Null
  BY <1>1, <1>2, InHand, StateFacts
<1>6. f \in Work /\ f.state = e.state /\ f.src = e.src /\ f.op = e.op /\ f.res = "running"
  <2>1. Resulting(f, e, "running")
    BY <1>1 DEF Resulting
  <2>2. Further(f, e, "running")
    BY <1>5, <2>1, FurtherOn
  <2> QED BY <2>2 DEF Further
<1>7. /\ World(r, O, V, c, d) /\ Only(p, r, x)
      /\ r.st[x].enc = p.st[c].enc /\ r.st[x].depth = p.st[c].depth + 1
  <2>1. f.res # "pending"
    BY <1>6
  <2>2. DuplicateFacts(p, r, O, V, c, d, e.state)
    BY <1>1, <1>2, <1>4, <1>5, <1>6, <2>1, DuplicateWork
  <2> QED BY <1>1, <2>2 DEF DuplicateFacts
<1>8. WorksOf(subq, cmpq, wz) = V
  <2>1. Handed(wz, work, w, f) /\ QueuesOK(subq, cmpq, work) /\ f.res # "pending"
    BY <1>1, <1>6 DEF Handed, IInv
  <2>2. WentOn(subq, cmpq, wz, subq, cmpq, work, e, f)
    BY <1>1, <1>2, <1>6, <2>1, GoOnQ
  <2> QED BY <1>1, <2>2 DEF WentOn
<1>9. x \in StatesOf(Ws) /\ x \notin O /\ x # c
  BY <1>1, <1>4, <1>5 DEF Shape, StatesOf
<1>10. r.st[c].enc = p.st[c].enc /\ r.st[c].depth = p.st[c].depth
  BY <1>5, <1>7, <1>9 DEF Only
<1>11. /\ Leads(r.st, c, d, os, V) /\ OpsOf(os, V) = OpsOf(os, Ws)
       /\ LooseOf(Ws) \ {x} \subseteq LooseOf(V)
  <2>1. Leads(p.st, c, d, os, Ws)
    BY <1>4, <1>5 DEF Found
  <2>2. PICK s, t : s = p.st /\ t = r.st
    OBVIOUS
  <2>3. Likewise(s, t, State \ {e.state})
    BY <1>1, <1>7, <2>2, OnlyIs DEF Likewise
  <2>4. t[f.state].depth = t[c].depth + 1
    BY <1>1, <1>6, <1>7, <1>10, <2>2
  <2>5. WorkFound(t, c, f)
    BY <1>6, <2>4 DEF WorkFound
  <2>6. Leads(s, c, d, os, Ws) /\ V = (Ws \ {e}) \cup {f}
    BY <1>1, <2>1, <2>2
  <2>7. LedOn(t, c, d, os, Ws, V, e, f)
    BY <1>4, <1>5, <1>6, <2>3, <2>5, <2>6, LeadsOn
  <2> QED BY <1>1, <2>2, <2>7 DEF LedOn
<1>12. r.st[x].depth \in Nat /\ Within(r.st[x].enc, r.st[x].depth)
  <2>1. p.st[c].depth \in Nat /\ Within(p.st[c].enc, p.st[c].depth)
    BY <1>4, <1>5, CurFound
  <2>2. PICK m \in Nat : m = p.st[c].depth + 1 /\ p.st[c].depth <= m
    BY <2>1
  <2> QED BY <1>7, <2>1, <2>2, WithinMore
<1>13. PICK Q : Q = OpsOf(os, Ws)
  OBVIOUS
<1>14. /\ Sound(r.st, LooseOf(V), C)
       /\ Complete(p.st, O, c, Q, C) => Complete(r.st, O, c, Q, C)
  <2>1. StillFound(p.st, r.st, O, V, c, C)
    BY <1>4, <1>5, <1>7, <1>9, <1>11, <1>12, OnlyKeeps
  <2> QED BY <2>1 DEF StillFound
<1>15. Found(r, c, d, os, V, C) /\ Typed(r)
  BY <1>7, <1>11, <1>14, WorldTyped DEF Found
<1>16. /\ pc' \in {"pick", "submit", "collect"} => Complete(r.st, O, c, OpsOf(os, V), C)
       /\ pc' = "collect" => os = {}
       /\ pc' = "finish" => stop' \/ (StopOnError /\ error') \/ Done(C)
  BY <1>1, <1>2, <1>4, <1>11, <1>13, <1>14 DEF Search
<1>17. /\ Entries(open') = O /\ cur' = c /\ deepest'.state = d /\ closed' = C /\ ops' = os
       /\ WorksOf(subq', cmpq', work') = V
  BY <1>1, <1>2, <1>3, <1>8
<1> QED BY <1>2, <1>15, <1>16, <1>17, SearchIs

\* The ancestors of a state that is at the end of a path are too.
LEMMA AncestorFound ==
  ASSUME NEW p, NEW O, NEW Ws, NEW c, NEW d, World(p, O, Ws, c, d), NEW C,
         Sound(p.st, LooseOf(Ws), C), NEW x \in State, p.st[x].ref # 0, x \notin LooseOf(Ws),
         NEW up, up = Ancestor(p.st, x), NEW i \in 0 .. MaxStates, up[i] # Null
  PROVE  p.st[x].depth \in Nat /\ Within(p.st[up[i]].enc, p.st[x].depth)
<1>1. PICK s, h, W, n, P : /\ h = HoldOf(O, W, c, n, d) /\ W = StatesOf(Ws) /\ n = Cardinality(Ws)
                           /\ P = PendingOf(Ws) /\ s = p.st
  OBVIOUS
<1>2. h \in [State -> Nat] /\ Good(p, h) /\ Contents(s, P, W)
  BY <1>1, WorldFacts
<1>3. s \in [State -> StateInfo] /\ Rooted(s)
  BY <1>1, <1>2, TypedFacts DEF Good
<1>4. /\ up \in [0 .. MaxStates -> State \cup {Null}] /\ up[0] = x
      /\ \A j \in 1 .. MaxStates : up[j] = Parent(s, up[j - 1])
  BY <1>1, <1>3, AncestorIs
<1>5. s[up[i]].depth = s[x].depth - i /\ \A j \in 0 .. i : up[j] \in State
  BY <1>1, <1>3, AncestorDepth
<1>6. \A y \in State : s[y].ref # 0 /\ y \notin LooseOf(Ws) => s[y].depth \in Nat /\ Within(s[y].enc, s[y].depth)
  BY <1>1 DEF Sound
<1>7. s[x].depth \in Nat
  BY <1>1, <1>6
<1>8. CASE i = 0
  BY <1>1, <1>4, <1>6, <1>8
<1>9. CASE i # 0
  <2>1. i \in 1 .. MaxStates /\ i - 1 \in 0 .. i /\ i \in 0 .. i /\ MaxStates \in Nat
    BY <1>9, StateFacts
  <2>2. up[i] \in State /\ up[i - 1] \in State /\ up[i] = Parent(s, up[i - 1])
    BY <1>4, <1>5, <2>1
  <2>3. up[i] = s[up[i - 1]].parent
    BY <2>2, StateFacts DEF Parent
  <2>4. up[i - 1] \in Kids(p.st, up[i])
    BY <1>1, <2>2, <2>3 DEF Kids
  <2>5. s[up[i]].ref # 0
    BY <1>1, <1>2, <2>2, <2>4, ParentHeld
  <2>6. up[i] \notin LooseOf(Ws)
    BY <1>1, <1>2, <2>2, <2>3, LooseIn DEF Contents
  <2>7. s[up[i]].depth \in Nat /\ Within(s[up[i]].enc, s[up[i]].depth)
    BY <1>6, <2>2, <2>5, <2>6
  <2>8. s[up[i]].depth <= s[x].depth
    BY <1>5, <1>7, <2>1
  <2>9. PICK y : y = up[i]
    OBVIOUS
  <2>10. Within(s[y].enc, s[x].depth)
    <3>1. PICK g, a, b : g = s[y].enc /\ a = s[y].depth /\ b = s[x].depth
      OBVIOUS
    <3>2. a \in Nat /\ b \in Nat /\ a <= b /\ Within(g, a)
      BY <1>7, <2>7, <2>8, <2>9, <3>1
    <3>3. Within(g, b)
      BY <3>2, WithinMore
    <3> QED BY <3>1, <3>3
  <2> QED BY <1>1, <1>7, <2>9, <2>10
<1> QED BY <1>8, <1>9

\* The state of a work that was copied is at the end of a path.
LEMMA WorkHeld ==
  ASSUME NEW p, NEW O, NEW Ws, NEW c, NEW d, World(p, O, Ws, c, d), NEW e \in Ws,
         e.res \notin {"pending", "no operation"}, NEW x, x = e.state
  PROVE  p.st[x].ref # 0 /\ x \notin LooseOf(Ws) /\ x \in State
<1>1. PICK h, W, n, P : /\ h = HoldOf(O, W, c, n, d) /\ W = StatesOf(Ws) /\ n = Cardinality(Ws)
                        /\ P = PendingOf(Ws)
  OBVIOUS
<1>2. Ws \subseteq Work /\ \A f, g \in Ws : f.state = g.state => f = g
  BY DEF World, Shape
<1>3. h \in [State -> Nat] /\ Good(p, h) /\ W \in SUBSET State /\ n \in Nat
  <2>1. /\ World(p, O, Ws, c, d) /\ W = StatesOf(Ws) /\ n = Cardinality(Ws)
        /\ h = HoldOf(O, W, c, n, d) /\ P = PendingOf(Ws)
    BY <1>1
  <2> QED BY ONLY <2>1, WorldFacts
<1>4. x \in W /\ x \in State
  BY <1>1, <1>3 DEF StatesOf
<1>5. p.st[x].ref # 0
  <2>1. h[x] # 0
    <3>1. h = HoldOf(O, W, c, n, d)
      BY <1>1
    <3> QED BY ONLY <1>3, <1>4, <3>1, HoldHeld
  <2> QED BY <1>3, <1>4, <2>1, Held
<1>6. x \notin LooseOf(Ws)
  BY <1>2 DEF LooseOf
<1> QED BY <1>4, <1>5, <1>6

\* The operation leads along a path, unless it is refused.
LEMMA EncFound ==
  ASSUME NEW p, NEW O, NEW Ws, NEW c \in State, NEW d, World(p, O, Ws, c, d), NEW C, NEW os,
         Sound(p.st, LooseOf(Ws), C), Leads(p.st, c, d, os, Ws), NEW e \in Ws, e.res = "running",
         NEW x, x = e.state, NEW op \in Operation, op = e.op, op.kind # "no operation",
         NEW enc \in EncAfter(p.st, x, op)
  PROVE  p.st[x].depth \in Nat /\ Within(enc, p.st[x].depth)
<1>0. PICK s : s = p.st
  OBVIOUS
<1>1. s[x].ref # 0 /\ x \notin LooseOf(Ws) /\ x \in State
  BY <1>0, WorkHeld
<1>2. s[x].depth \in Nat /\ Within(s[x].enc, s[x].depth)
  BY <1>0, <1>1 DEF Sound
<1>3. op.kind \in {"apply", "failed", "power"}
  BY DEF Operation
<1>4. CASE op.kind = "apply"
  <2>1. op \in OpsOf(os, Ws)
    BY DEF OpsOf
  <2>2. op.to \in Succ[s[c].enc] /\ s[x].depth = s[c].depth + 1
    BY <1>0, <1>4, <2>1 DEF Leads
  <2>3. s[c].depth \in Nat /\ Within(s[c].enc, s[c].depth)
    BY <1>0, CurFound
  <2>4. enc = op.to
    BY <1>4 DEF EncAfter
  <2>5. PICK g, n : g = s[c].enc /\ n = s[c].depth
    OBVIOUS
  <2>6. n \in Nat /\ Within(g, n) /\ enc \in Succ[g]
    BY <2>2, <2>3, <2>4, <2>5
  <2>7. Within(enc, n + 1)
    BY <2>6, WithinSucc
  <2> QED BY <1>0, <1>2, <2>2, <2>5, <2>7
<1>5. CASE op.kind = "failed"
  <2>1. enc = s[x].enc
    BY <1>0, <1>5 DEF EncAfter
  <2> QED BY <1>0, <1>2, <2>1
<1>6. CASE op.kind = "power"
  <2>1. enc \in {s[a].enc : a \in {Ancestor(s, x)[i] : i \in 0 .. MaxStates} \ {Null}}
    BY <1>0, <1>6 DEF EncAfter
  <2>2. PICK up : up = Ancestor(s, x)
    OBVIOUS
  <2>3. PICK i \in 0 .. MaxStates : up[i] # Null /\ enc = s[up[i]].enc
    BY <2>1, <2>2
  <2>4. Within(s[up[i]].enc, s[x].depth)
    BY <1>0, <1>1, <2>2, <2>3, AncestorFound
  <2> QED BY <1>0, <1>2, <2>3, <2>4
<1> QED BY <1>3, <1>4, <1>5, <1>6

\* A worker thread runs the operation and answers the work.
LEMMA SearchOperate == ASSUME IInv, Search, NEW w \in Workers, Operate(w) PROVE Search'
<1>1. PICK p, c, e, x, f, z, O, Ws, d, V, wz, os, C :
         /\ p = Pair /\ c = cur /\ e = work[w] /\ x = e.state /\ f = [e EXCEPT !.res = ResultOf(e.op)]
         /\ z = Append(cmpq, f) /\ wz = [work EXCEPT ![w] = Null]
         /\ O = Entries(open) /\ Ws = WorksOf(subq, cmpq, work) /\ d = deepest.state
         /\ V = (Ws \ {e}) \cup {f} /\ os = ops /\ C = closed
  OBVIOUS
<1>2. /\ e # Null /\ e.res = "running" /\ pool' = pool
      /\ UNCHANGED <<open, closed, cur, ops, deepest, pc, subq, stop, error>>
  BY <1>1 DEF Operate, mainVars
<1>3. work' = wz /\ cmpq' = z
  BY <1>1 DEF Operate, Completed
<1>4. PICK enc : enc \in EncAfter(st, x, e.op) /\ st' = [st EXCEPT ![x].enc = enc]
  BY <1>1 DEF Operate
<1>5. PICK r : r = Encoded(p, x, enc)
  OBVIOUS
<1>6. /\ World(p, O, Ws, c, d) /\ p.st = st /\ Found(p, c, d, os, Ws, C) /\ Sound(p.st, LooseOf(Ws), C)
      /\ Shape(O, Ws, c, d) /\ Depths(C) /\ O \subseteq State /\ Ws \subseteq Work
  BY <1>1, SearchFacts
<1>7. Becomes(r)
  BY <1>1, <1>2, <1>4, <1>5 DEF Becomes, Encoded, Pair
<1>8. e \in Ws /\ e \in Work /\ c \in State /\ c # Null /\ e.op \in Operation
  BY <1>1, <1>2, InHand, StateFacts
<1>9. PICK op \in Operation : op = e.op
  BY <1>8
<1>10. PICK y \in {"ok", "no operation", "failed"} : y = ResultOf(op)
  BY DEF ResultOf, Operation
<1>11. f \in Work /\ f.state = e.state /\ f.src = e.src /\ f.op = e.op /\ f.res = y /\ f.res # "pending"
  <2>1. Resulting(f, e, y)
    BY <1>1, <1>9, <1>10 DEF Resulting
  <2>2. e \in Work /\ y \in {"pending", "running", "ok", "no operation", "failed"}
    BY <1>8, <1>10
  <2>3. Further(f, e, y)
    BY <2>1, <2>2, FurtherOn
  <2> QED BY <1>10, <2>3 DEF Further
<1>12. /\ World(r, O, V, c, d) /\ Only(p, r, x) /\ r.st[x].enc = enc /\ r.st[x].depth = p.st[x].depth
  <2>1. /\ World(p, O, Ws, c, d) /\ c \in State /\ e \in Ws /\ e.res # "pending"
        /\ f \in Work /\ f.state = e.state /\ f.src = e.src /\ f.res # "pending" /\ x = e.state
        /\ op \in Operation /\ enc \in EncAfter(p.st, x, op) /\ r = Encoded(p, x, enc)
        /\ V = (Ws \ {e}) \cup {f}
    BY <1>1, <1>2, <1>4, <1>5, <1>6, <1>8, <1>9, <1>11
  <2>2. OperateFacts(p, r, O, V, c, d, x, enc)
    BY ONLY <2>1, OperateWork
  <2> QED BY <2>2 DEF OperateFacts
<1>13. WorksOf(subq, z, wz) = V
  <2>1. Handed(wz, work, w, Null) /\ QueuesOK(subq, cmpq, work)
    BY <1>1 DEF Handed, IInv
  <2>2. f.res \notin {"pending", "running"}
    BY <1>10, <1>11
  <2>3. WentOn(subq, z, wz, subq, cmpq, work, e, f)
    BY <1>1, <1>2, <1>11, <2>1, <2>2, DoneQ
  <2> QED BY <1>1, <2>3 DEF WentOn
<1>14. x \notin O /\ x # c /\ x \in State
  <2>1. x \in StatesOf(Ws)
    BY <1>1, <1>8 DEF StatesOf
  <2> QED BY <1>1, <1>6, <1>8, <2>1 DEF Shape, Work
<1>15. PICK s, t : s = p.st /\ t = r.st
  OBVIOUS
<1>16. Likewise(s, t, State \ {e.state}) /\ t[c].depth = s[c].depth
  <2>1. \A v \in State \ {x} : t[v].enc = s[v].enc /\ t[v].depth = s[v].depth
    <3>1. Only(p, r, x) /\ s = p.st /\ t = r.st
      BY <1>12, <1>15
    <3> QED BY <3>1 DEF Only
  <2> QED BY <1>1, <1>8, <1>14, <2>1 DEF Likewise
<1>17. Leads(s, c, d, os, Ws)
  BY <1>6, <1>8, <1>15 DEF Found
<1>18. WorkFound(t, c, f)
  <2>1. s[x].depth = s[c].depth + 1
    BY <1>1, <1>2, <1>8, <1>17 DEF Leads
  <2>2. t[f.state].depth = t[c].depth + 1
    BY <1>1, <1>11, <1>12, <1>15, <1>16, <2>1
  <2>3. f.res = ResultOf(f.op)
    BY <1>9, <1>10, <1>11
  <2>4. ASSUME f.op.kind = "apply" PROVE t[f.state].enc = f.op.to
    <3>1. op.kind = "apply" /\ enc \in EncAfter(st, x, op)
      BY <1>4, <1>9, <1>11, <2>4
    <3>2. enc = op.to
      BY <3>1 DEF EncAfter
    <3> QED BY <1>1, <1>9, <1>11, <1>12, <1>15, <3>2
  <2> QED BY <2>2, <2>3, <2>4 DEF WorkFound
<1>19. LedOn(t, c, d, os, Ws, V, e, f)
  BY <1>1, <1>6, <1>8, <1>11, <1>16, <1>17, <1>18, LeadsOn
<1>20. /\ Leads(t, c, d, os, V) /\ OpsOf(os, V) = OpsOf(os, Ws)
       /\ LooseOf(Ws) \ {x} \subseteq LooseOf(V)
       /\ (x \in LooseOf(V) <=> y \in {"pending", "no operation"})
  BY <1>1, <1>11, <1>19 DEF LedOn
<1>21. x \in LooseOf(V) \/ (t[x].depth \in Nat /\ Within(t[x].enc, t[x].depth))
  <2>1. CASE op.kind = "no operation"
    BY <1>10, <1>20, <2>1 DEF ResultOf
  <2>2. CASE op.kind # "no operation"
    <3>1. enc \in EncAfter(p.st, x, op) /\ Leads(p.st, c, d, os, Ws)
      BY <1>4, <1>6, <1>9, <1>15, <1>17
    <3>2. p.st[x].depth \in Nat /\ Within(enc, p.st[x].depth)
      BY <1>1, <1>2, <1>6, <1>8, <1>9, <2>2, <3>1, EncFound
    <3> QED BY <1>12, <1>15, <3>2
  <2> QED BY <2>1, <2>2
<1>22. StillFound(p.st, r.st, O, V, c, C)
  BY <1>6, <1>8, <1>12, <1>14, <1>15, <1>20, <1>21, OnlyKeeps
<1>23. Found(r, c, d, os, V, C) /\ Typed(r)
  BY <1>12, <1>15, <1>20, <1>22, WorldTyped DEF Found, StillFound
<1>24. /\ pc' \in {"pick", "submit", "collect"} => Complete(r.st, O, c, OpsOf(os, V), C)
       /\ pc' = "collect" => os = {}
       /\ pc' = "finish" => stop' \/ (StopOnError /\ error') \/ Done(C)
  <2>1. PICK Q : Q = OpsOf(os, Ws)
    OBVIOUS
  <2>2. Complete(p.st, O, c, Q, C) => Complete(r.st, O, c, Q, C)
    BY <1>22 DEF StillFound
  <2> QED BY <1>1, <1>2, <1>6, <1>20, <2>1, <2>2 DEF Search
<1>25. /\ Entries(open') = O /\ cur' = c /\ deepest'.state = d /\ closed' = C /\ ops' = os
       /\ WorksOf(subq', cmpq', work') = V
  BY <1>1, <1>2, <1>3, <1>13
<1> QED BY <1>7, <1>23, <1>24, <1>25, SearchIs

\* The state of a work that is put has no copies: it is not in use any more.
LEMMA CollectUnused ==
  ASSUME NEW p, NEW r, NEW O, NEW OO, NEW Ws, NEW c \in State, NEW d, World(p, O, Ws, c, d),
         d \notin StatesOf(Ws), NEW e \in Ws, NEW V, V = Ws \ {e}, World(r, OO, V, c, d),
         Kept(p, r), NEW x, x = e.state, x \notin OO
  PROVE  r.st[x].ref = 0
<1>1. PICK W, P, s, t : W = StatesOf(Ws) /\ P = PendingOf(Ws) /\ s = p.st /\ t = r.st
  OBVIOUS
<1>2. /\ Ws \subseteq Work /\ (\A f, g \in Ws : f.state = g.state => f = g) /\ c \notin W
  BY <1>1 DEF World, Shape
<1>3. x \in W /\ x \in State /\ x # c /\ x # d
  BY <1>1, <1>2 DEF StatesOf, Work
<1>4. x \notin StatesOf(V)
  BY <1>2 DEF StatesOf
<1>5. \A y \in State : s[y].parent \notin W
  BY <1>1 DEF World, Contents
<1>6. \A y \in State : t[y].parent # Null => t[y].parent = s[y].parent
  BY <1>1 DEF Kept
<1>7. Kids(r.st, x) = {}
  <2>1. x # Null
    BY <1>3, StateFacts
  <2> QED BY <1>1, <1>3, <1>5, <1>6, <2>1 DEF Kids
<1> QED BY <1>3, <1>4, <1>7, Unheld

\* CheckAndInsert is called for the works that went well.
Collected(s, e, C, CC, known) ==
    IF e.res = "ok" THEN Records(C, CC, s[e.state].enc, s[e.state].depth, known) ELSE CC = C

\* What is collected is at the end of a path.
LEMMA CollectSound ==
  ASSUME NEW p, NEW r, NEW O, NEW OO, NEW Ws, NEW c \in State, NEW d, World(p, O, Ws, c, d),
         d \notin StatesOf(Ws), NEW e \in Ws, e.res \notin {"pending", "running"},
         NEW V, V = Ws \ {e}, World(r, OO, V, c, d), Kept(p, r),
         NEW C, Sound(p.st, LooseOf(Ws), C), NEW CC, NEW known, Collected(p.st, e, C, CC, known),
         e.res = "ok" \/ e.state \notin OO
  PROVE  Sound(r.st, LooseOf(V), CC) /\ Depths(CC) /\ Grown(C, CC)
<1>1. PICK s, t, x : s = p.st /\ t = r.st /\ x = e.state
  OBVIOUS
<1>2. \A y \in State : t[y].enc = s[y].enc /\ t[y].depth = s[y].depth /\ (t[y].ref # 0 => s[y].ref # 0)
  BY <1>1 DEF Kept
<1>3. \A g \in Ws : g # e => g \in V
  OBVIOUS
<1>4. ASSUME NEW y \in State, t[y].ref # 0, y \notin LooseOf(V) PROVE y \notin LooseOf(Ws)
  <2> SUFFICES ASSUME NEW g \in Ws, g.res \in {"pending", "no operation"}, g.state = y PROVE FALSE
    BY DEF LooseOf
  <2>1. g = e
    BY <1>3, <1>4 DEF LooseOf
  <2>2. x \notin OO /\ y = x
    BY <1>1, <2>1
  <2>3. t[x].ref = 0
    <3>1. /\ World(p, O, Ws, c, d) /\ c \in State /\ d \notin StatesOf(Ws) /\ e \in Ws
          /\ V = Ws \ {e} /\ World(r, OO, V, c, d) /\ Kept(p, r) /\ x = e.state /\ x \notin OO
      BY <1>1, <2>2
    <3>2. r.st[x].ref = 0
      BY ONLY <3>1, CollectUnused
    <3> QED BY <1>1, <3>2
  <2> QED BY <1>4, <2>2, <2>3
<1>5. /\ \A y \in State : s[y].ref # 0 /\ y \notin LooseOf(Ws) => s[y].depth \in Nat /\ Within(s[y].enc, s[y].depth)
      /\ \A g \in DOMAIN C : C[g] \in Nat /\ Within(g, C[g])
  BY <1>1 DEF Sound
<1>6. \A y \in State : t[y].ref # 0 /\ y \notin LooseOf(V) => t[y].depth \in Nat /\ Within(t[y].enc, t[y].depth)
  BY <1>2, <1>4, <1>5
<1>7. Grown(C, C) /\ Depths(C)
  BY <1>5 DEF Grown, Depths
<1>8. CASE e.res = "ok"
  <2>1. s[x].ref # 0 /\ x \notin LooseOf(Ws) /\ x \in State
    BY <1>1, <1>8, WorkHeld
  <2>2. s[x].depth \in Nat /\ Within(s[x].enc, s[x].depth)
    BY <1>5, <2>1
  <2>3. /\ Grown(C, CC) /\ Depths(CC)
        /\ \A g \in DOMAIN CC : (g \in DOMAIN C /\ CC[g] = C[g]) \/ (g = s[x].enc /\ CC[g] = s[x].depth)
    BY <1>1, <1>8 DEF Collected, Records
  <2>4. \A g \in DOMAIN CC : CC[g] \in Nat /\ Within(g, CC[g])
    BY <1>5, <2>2, <2>3
  <2> QED BY <1>1, <1>6, <2>3, <2>4 DEF Sound
<1>9. CASE e.res # "ok"
  <2>1. CC = C
    BY <1>9 DEF Collected
  <2> QED BY <1>1, <1>5, <1>6, <1>7, <2>1 DEF Sound
<1> QED BY <1>8, <1>9

\* The search stays complete: what the work found is recorded, and its state is open if it is new.
LEMMA CollectComplete ==
  ASSUME NEW p, NEW r, NEW O, NEW OO, O \subseteq OO, O \subseteq State, NEW Ws, Ws \subseteq Work,
         NEW c \in State, NEW d, NEW os,
         Leads(p.st, c, d, os, Ws), NEW e \in Ws, e.res \notin {"pending", "running"},
         NEW V, V = Ws \ {e}, Kept(p, r), NEW C, NEW CC, Grown(C, CC), Depths(C), Depths(CC),
         NEW known, Collected(p.st, e, C, CC, known), e.res # "ok" \/ known \/ e.state \in OO,
         NEW Q, Q = OpsOf(os, Ws), NEW QQ, QQ = OpsOf(os, V), Complete(p.st, O, c, Q, C)
  PROVE  Complete(r.st, OO, c, QQ, CC)
<1>1. PICK s, t, x : s = p.st /\ t = r.st /\ x = e.state
  OBVIOUS
<1>2. x \in State /\ \A y \in State : t[y].enc = s[y].enc /\ t[y].depth = s[y].depth
  BY <1>1 DEF Kept, Work
<1>3. Likewise(s, t, O) /\ Likewise(s, t, {c})
  BY <1>2 DEF Likewise
<1>4. /\ s[x].depth = s[c].depth + 1 /\ e.res = ResultOf(e.op)
      /\ e.res = "ok" /\ e.op.kind = "apply" => s[x].enc = e.op.to
  BY <1>1 DEF Leads
<1>5. Answered(s, c, Q, QQ, CC)
  <2> SUFFICES ASSUME NEW o \in Q, o.kind = "apply" PROVE o \in QQ \/ Covers(CC, o.to, s[c].depth + 1)
    BY DEF Answered
  <2>1. CASE o \in os
    BY <2>1 DEF OpsOf
  <2>2. ASSUME NEW g \in V, o = g.op PROVE o \in QQ
    BY <2>2 DEF OpsOf
  <2>3. CASE o = e.op
    <3>1. e.res = "ok"
      BY <1>4, <2>3 DEF ResultOf
    <3>2. Covers(CC, s[x].enc, s[x].depth)
      BY <1>1, <3>1 DEF Collected, Records
    <3> QED BY <1>4, <2>3, <3>1, <3>2
  <2> QED BY <2>1, <2>2, <2>3 DEF OpsOf
<1>6. NewIn(t, OO, C, CC)
  <2>1. CASE e.res = "ok"
    <3>1. \A g \in DOMAIN CC : \/ g \in DOMAIN C /\ CC[g] = C[g]
                               \/ ~known /\ g = s[x].enc /\ CC[g] = s[x].depth
      BY <1>1, <2>1 DEF Collected, Records
    <3>2. known \/ x \in OO
      BY <1>1, <2>1
    <3>3. FoundAt(t, x, s[x].enc, s[x].depth)
      BY <1>2 DEF FoundAt
    <3>4. \A g \in DOMAIN CC : (g \in DOMAIN C /\ CC[g] = C[g]) \/ \E y \in OO : FoundAt(t, y, g, CC[g])
      BY <3>1, <3>2, <3>3
    <3> QED BY <3>4 DEF NewIn
  <2>2. CASE e.res # "ok"
    BY <2>2 DEF Collected, NewIn
  <2> QED BY <2>1, <2>2
<1>7. Complete(s, O, c, Q, C)
  BY <1>1
<1>8. Complete(t, OO, c, QQ, CC)
  BY <1>3, <1>5, <1>6, <1>7, CompleteLater
<1> QED BY <1>1, <1>8

\* EnumerateOp_Thread_V2 collects a work.
LEMMA SearchCollect == ASSUME IInv, Search, Collect PROVE Search'
<1>1. PICK p, c, e, x, z, O, Ws, d, V, os, C, CC, known :
         /\ p = Pair /\ c = cur /\ e = Head(cmpq) /\ x = e.state /\ z = Tail(cmpq)
         /\ O = Entries(open) /\ Ws = WorksOf(subq, cmpq, work) /\ d = deepest.state /\ V = Ws \ {e}
         /\ os = ops /\ C = closed /\ CC = closed' /\ known = Exists(st[x].enc, st[x].depth)
  OBVIOUS
<1>2. /\ pc = "collect" /\ cmpq # <<>> /\ cmpq' = z
      /\ UNCHANGED <<cur, ops, subq, work, deepest, pc>>
      /\ closed' = IF e.res = "ok" THEN Recorded(st[x].enc, st[x].depth) ELSE closed
  BY <1>1 DEF Collect
<1>3. /\ World(p, O, Ws, c, d) /\ p.st = st /\ Found(p, c, d, os, Ws, C) /\ Sound(p.st, LooseOf(Ws), C)
      /\ Shape(O, Ws, c, d) /\ Depths(C) /\ O \subseteq State /\ Ws \subseteq Work
  BY <1>1, SearchFacts
<1>4. c \in State /\ c # Null
  BY <1>1, <1>2, <1>3 DEF IInv, Control, Shape
<1>5. Leads(p.st, c, d, os, Ws) /\ d \notin StatesOf(Ws)
  BY <1>3, <1>4 DEF Found, Leads
<1>6. WorksOf(subq, z, work) = V /\ e \in Ws /\ e.res \notin {"pending", "running"}
  <2>1. e = Head(cmpq) /\ z = Tail(cmpq) /\ QueuesOK(subq, cmpq, work) /\ cmpq # <<>>
    BY <1>1, <1>2 DEF IInv
  <2>2. /\ QueuesAre(subq, z, work, WorksOf(subq, cmpq, work) \ {e})
        /\ e \in WorksOf(subq, cmpq, work) /\ e.res \notin {"pending", "running"}
    BY <2>1, CollectQ
  <2> QED BY <1>1, <2>2 DEF QueuesAre
<1>7. x \in State /\ x \notin O /\ e.src = c
  <2>1. e.res # "pending"
    BY <1>6
  <2> QED BY <1>1, <1>3, <1>6, <2>1, WorkEnc
<1>8. Collected(p.st, e, C, CC, known)
  <2>1. CASE e.res = "ok"
    <3>1. p.st[x].ref # 0 /\ x \notin LooseOf(Ws) /\ x \in State
      BY <1>1, <1>3, <1>6, <2>1, WorkHeld
    <3>2. PICK g, n : g = st[x].enc /\ n = st[x].depth /\ n \in Nat
      BY <1>3, <3>1 DEF Sound
    <3>3. Depths(closed) /\ CC = Recorded(g, n)
      BY <1>1, <1>2, <1>3, <2>1, <3>2
    <3>4. Records(closed, CC, g, n, Exists(g, n))
      BY <3>2, <3>3, RecordsIs
    <3> QED BY <1>1, <1>3, <2>1, <3>2, <3>4 DEF Collected
  <2>2. CASE e.res # "ok"
    BY <1>1, <1>2, <2>2 DEF Collected
  <2> QED BY <2>1, <2>2
<1>9. PICK Q, QQ : Q = OpsOf(os, Ws) /\ QQ = OpsOf(os, V)
  OBVIOUS
<1>10. os = {} /\ Complete(p.st, O, c, Q, C)
  BY <1>1, <1>2, <1>3, <1>9 DEF Search
<1>11. /\ WorksOf(subq', cmpq', work') = V /\ cur' = c /\ deepest'.state = d /\ ops' = os
       /\ closed' = CC /\ pc' = "collect"
  BY <1>1, <1>2, <1>6
<1>12. ASSUME NEW r, NEW OO, Becomes(r), Entries(open') = OO, World(r, OO, V, c, d), Kept(p, r),
              O \subseteq OO, e.res = "ok" \/ x \notin OO, e.res # "ok" \/ known \/ x \in OO
       PROVE  Search'
  <2>1. Sound(r.st, LooseOf(V), CC) /\ Depths(CC) /\ Grown(C, CC)
    <3>1. /\ World(p, O, Ws, c, d) /\ c \in State /\ d \notin StatesOf(Ws) /\ e \in Ws
          /\ e.res \notin {"pending", "running"} /\ V = Ws \ {e} /\ World(r, OO, V, c, d) /\ Kept(p, r)
          /\ Sound(p.st, LooseOf(Ws), C) /\ Collected(p.st, e, C, CC, known)
          /\ e.res = "ok" \/ e.state \notin OO
      BY <1>1, <1>3, <1>4, <1>5, <1>6, <1>8, <1>12
    <3> QED BY ONLY <3>1, CollectSound
  <2>2. Complete(r.st, OO, c, QQ, CC)
    <3>1. /\ O \subseteq OO /\ O \subseteq State /\ Ws \subseteq Work /\ c \in State
          /\ Leads(p.st, c, d, os, Ws) /\ e \in Ws /\ e.res \notin {"pending", "running"}
          /\ V = Ws \ {e} /\ Kept(p, r) /\ Grown(C, CC) /\ Depths(C) /\ Depths(CC)
          /\ Collected(p.st, e, C, CC, known)
          /\ e.res # "ok" \/ known \/ e.state \in OO
          /\ Q = OpsOf(os, Ws) /\ QQ = OpsOf(os, V) /\ Complete(p.st, O, c, Q, C)
      BY <1>1, <1>3, <1>4, <1>5, <1>6, <1>8, <1>9, <1>10, <1>12, <2>1
    <3> QED BY ONLY <3>1, CollectComplete
  <2>3. Leads(r.st, c, d, os, V)
    <3>1. Found(r, c, d, os, Ws, C)
      BY <1>3, <1>5, <1>12, FoundKept
    <3>2. Leads(r.st, c, d, os, Ws)
      BY <1>4, <3>1 DEF Found
    <3>3. V \subseteq Ws /\ StatesOf(V) \subseteq StatesOf(Ws) /\ OpsOf(os, V) \subseteq OpsOf(os, Ws)
      BY <1>1 DEF StatesOf, OpsOf
    <3> QED BY <3>2, <3>3 DEF Leads
  <2>4. Found(r, c, d, os, V, CC) /\ Typed(r)
    BY <1>12, <2>1, <2>3, WorldTyped DEF Found
  <2> QED BY <1>9, <1>10, <1>11, <1>12, <2>2, <2>4, SearchIs
<1>13. CASE Keep(e)
  <2>1. PICK r, o : r = AfterPut(p, c) /\ o = InsertOpen(x)
    OBVIOUS
  <2>2. Becomes(r) /\ open' = o
    BY <1>1, <1>7, <1>13, <2>1 DEF Collect, Keep
  <2>3. World(r, O \cup {x}, V, c, d) /\ Kept(p, r)
    <3>1. e.res # "pending"
      BY <1>6
    <3>2. World(r, O \cup {e.state}, Ws \ {e}, c, d) /\ Kept(p, r)
      BY <1>3, <1>4, <1>6, <2>1, <3>1, CollectKeep
    <3> QED BY <1>1, <3>2
  <2>4. Entries(open') = O \cup {x}
    BY <1>1, <1>4, <1>7, <2>1, <2>2, InsertOpenIs
  <2>5. e.res = "ok"
    BY <1>13 DEF Keep
  <2> QED BY <1>12, <2>2, <2>3, <2>4, <2>5
<1>14. CASE ~Keep(e)
  <2>1. PICK q, r : q = AfterPut(p, x) /\ r = AfterPut(q, c)
    OBVIOUS
  <2>2. Becomes(r) /\ open' = open
    BY <1>1, <1>7, <1>14, <2>1 DEF Collect, Keep
  <2>3. World(r, O, V, c, d) /\ Kept(p, r)
    <3>1. e.res # "pending"
      BY <1>6
    <3>2. q = AfterPut(p, e.state) /\ World(p, O, Ws, c, d) /\ e \in Ws
      BY <1>1, <1>3, <1>6, <2>1
    <3>3. World(r, O, Ws \ {e}, c, d) /\ Kept(p, r)
      BY <1>4, <2>1, <3>1, <3>2, CollectDrop
    <3> QED BY <1>1, <3>3
  <2>4. e.res # "ok" \/ known
    BY <1>1, <1>14 DEF Keep
  <2> QED BY <1>1, <1>7, <1>12, <2>2, <2>3, <2>4
<1> QED BY <1>13, <1>14

\* Initially the first state is open, at depth 0, and nothing was found.
LEMMA SearchInit == ASSUME Init, FirstDepths \subseteq {0} PROVE Search
<1>1. PICK a : /\ a \in FirstDepths
               /\ st = [s \in State |-> IF s = 1 THEN [FreshState EXCEPT !.enc = First, !.depth = a]
                                        ELSE [FreshState EXCEPT !.ref = 0]]
  BY DEF Init
<1>2. a = 0 /\ 1 \in State
  BY <1>1, StateFacts DEF State
<1>3. /\ open = <<1>> /\ closed = [e \in {} |-> 0] /\ cur = Null /\ ops = {} /\ subq = <<>>
      /\ cmpq = <<>> /\ work = [w \in Workers |-> Null] /\ pc = "pick"
  BY DEF Init
<1>4. st[1].enc = First /\ st[1].depth = 0
  <2>1. PICK u : u = [FreshState EXCEPT !.enc = First, !.depth = a]
    OBVIOUS
  <2>2. st[1] = u
    BY <1>1, <1>2, <2>1
  <2>3. u.enc = First /\ u.depth = a
    BY <2>1 DEF FreshState
  <2> QED BY <1>2, <2>2, <2>3
<1>5. \A s \in State : s # 1 => st[s].ref = 0
  <2>1. [FreshState EXCEPT !.ref = 0].ref = 0
    BY DEF FreshState
  <2> QED BY <1>1, <2>1
<1>6. WorksOf(subq, cmpq, work) = {}
  BY <1>3 DEF WorksOf, Entries, Running
<1>7. Entries(open) = {1}
  <2>1. Len(open) = 1 /\ open[1] = 1
    BY <1>3
  <2> QED BY <2>1 DEF Entries
<1>8. DOMAIN closed = {}
  BY <1>3
<1>9. Pair.st = st
  BY DEF Pair
<1>10. Sound(st, LooseOf({}), closed)
  BY <1>4, <1>5, <1>8 DEF Sound, Within
<1>11. Complete(st, {1}, Null, OpsOf({}, {}), closed)
  <2>1. \E x \in {1} : FoundAt(st, x, First, 0)
    BY <1>4 DEF FoundAt
  <2>2. Owed(st, {1}, Null, OpsOf({}, {}), closed, First, 0)
    BY <2>1 DEF Owed
  <2> QED BY <1>8, <2>2 DEF Complete
<1>12. Found(Pair, cur, deepest.state, ops, {}, closed)
  BY <1>3, <1>9, <1>10 DEF Found
<1> QED BY <1>3, <1>6, <1>7, <1>11, <1>12 DEF Search

\* Every step of the search by worker threads keeps this.
LEMMA SearchNext == IInv /\ SInv /\ [Next]_vars => SInv'
<1> SUFFICES ASSUME IInv, SInv, [Next]_vars, threaded' PROVE Search'
  BY DEF SInv
<1>1. threaded
  BY DEF Next, Main, Worker, vars, mainVars, PickStopped, PickLeaf, PickExpand, Submit, OperateInline,
         Submitted, Collect, Expanded, AllExplored, PutDeepest, PutOpen, Finished, Take, Duplicate,
         Operate, StopTest
<1>2. Search
  BY <1>1 DEF SInv
<1>3. CASE Main
  <2>1. ~\E op \in ops : OperateInline(op)
    BY <1>1 DEF OperateInline
  <2> QED BY <1>2, <1>3, <2>1, SearchPickStopped, SearchPickLeaf, SearchPickExpand, SearchSubmit,
             SearchSubmitted, SearchCollect, SearchExpanded, SearchAllExplored, SearchPutDeepest,
             SearchPutOpen, SearchFinished DEF Main
<1>4. ASSUME NEW w \in Workers, Worker(w) PROVE Search'
  BY <1>2, <1>4, SearchTake, SearchDuplicate, SearchOperate DEF Worker
<1>5. CASE StopTest
  BY <1>2, <1>5, SearchStopTest
<1>6. CASE UNCHANGED vars
  <2>1. UNCHANGED <<st, pool, open, closed, cur, ops, subq, cmpq, work, deepest, pc, stop, error>>
    BY <1>6 DEF vars
  <2>2. Pair' = Pair
    BY <2>1 DEF Pair
  <2> QED BY <1>2, <2>1, <2>2 DEF Search
<1> QED BY <1>3, <1>4, <1>5, <1>6 DEF Next

\* A search that is over and was not stopped found all.
LEMMA SearchAll == SInv => ExhaustiveThreaded
<1> SUFFICES ASSUME SInv, threaded, pc = "finish", ~stop, ~(StopOnError /\ error)
             PROVE  \A e \in (UNION {Reach[n] : n \in 1 .. TestDepth}) \ {First} :
                       e \in DOMAIN closed /\ closed[e] = Distance(e)
  BY DEF ExhaustiveThreaded, Exhaustive
<1>1. Search
  BY DEF SInv
<1>2. Done(closed)
  BY <1>1 DEF Search
<1>3. \A e \in DOMAIN closed : closed[e] \in Nat /\ Within(e, closed[e])
  BY <1>1 DEF Search, Found, Sound
<1> QED BY <1>2, <1>3, DoneAll

-------------------------------------------------------------------------------
\* In every behaviour of the search, for any graph of operations, any number of worker
\* threads and any depth, the works that m_sub_q, the threads and m_cmp_q hold are
\* exactly those the main thread counts, and the state, queues and lists have their types.
THEOREM ExplorerTyped == Spec => []TypeOK
<1>1. Init => IInv
  BY InvInit
<1>2. IInv /\ [Next]_vars => IInv'
  BY InvNext DEF Step
<1>3. IInv => TypeOK
  BY InvTypes
<1> QED BY <1>1, <1>2, <1>3, PTL DEF Spec

\* However the threads interleave, a reference count is the number of holders of the
\* state, and the free list is the list of the states nobody holds: put never returns
\* a state in use and never forgets one.
THEOREM ExplorerRefCounts == Spec => []RefCountsExact
<1>1. Init => IInv
  BY InvInit
<1>2. IInv /\ [Next]_vars => IInv'
  BY InvNext DEF Step
<1>3. IInv => RefCountsExact
  BY InvCounts
<1> QED BY <1>1, <1>2, <1>3, PTL DEF Spec

\* When the test is over, whether it ended, was stopped or met an error, every state
\* allocated is back in the pool.
THEOREM ExplorerNoLeaks == Spec => []NoStateLeaks
<1>1. Init => IInv
  BY InvInit
<1>2. IInv /\ [Next]_vars => IInv'
  BY InvNext DEF Step
<1>3. IInv => NoStateLeaks
  BY InvLeaks
<1> QED BY <1>1, <1>2, <1>3, PTL DEF Spec

\* No step of any thread returns, reuses or changes the ancestor of a state in use,
\* which the verification after a power loss reads without a lock.
THEOREM ExplorerAncestorsStay == Spec => AncestorsStay
<1>1. Init => IInv
  BY InvInit
<1>2. IInv /\ [Next]_vars => IInv'
  BY InvNext DEF Step
<1>3. IInv /\ [Next]_vars =>
        [\A s \in State :
          LET p == st[s].parent
          IN  p # Null /\ st'[s].parent = p =>
                 st'[p].ref > 0 /\ st'[p].enc = st[p].enc /\ st'[p].depth = st[p].depth]_vars
  BY InvNext, FrameIs DEF Step
<1> QED BY <1>1, <1>2, <1>3, PTL DEF Spec, AncestorsStay

\* For any graph of operations, any number of worker threads and whatever order they finish
\* in, a search by threads that is neither stopped nor ended by an error has found, when
\* the open list is empty, every encoding that 1 to m_test_depth operations lead to, each with
\* the least number of operations as its depth; provided m_depth of the first state is 0.
THEOREM ExplorerExhaustive == ASSUME FirstDepths \subseteq {0} PROVE Spec => []ExhaustiveThreaded
<1>1. Init => IInv /\ SInv
  BY InvInit, SearchInit DEF SInv
<1>2. IInv /\ SInv /\ [Next]_vars => IInv' /\ SInv'
  BY InvNext, SearchNext DEF Step
<1>3. SInv => ExhaustiveThreaded
  BY SearchAll
<1> QED BY <1>1, <1>2, <1>3, PTL DEF Spec
===============================================================================
