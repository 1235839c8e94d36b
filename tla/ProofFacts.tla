------------------------------- MODULE ProofFacts ------------------------------
(***************************************************************************)
(* Facts the other proof modules share.                                    *)
(*                                                                         *)
(*  - Induction over the natural numbers, stated for sets instead of       *)
(*    predicates: for the recursive functions of the models.               *)
(*  - Counting one element more or less: for the reference counts.         *)
(*  - Functions on 1 .. n as sequences: for the logs and the lists.        *)
(***************************************************************************)
EXTENDS Integers, FiniteSets, Sequences, FiniteSetTheorems, SequenceTheorems,
        WellFoundedInduction, TLAPS

LessThan == {p \in Nat \X Nat : p[1] < p[2]}

\* The order of the natural numbers is well founded.
LEMMA LessThanWF == IsWellFoundedOn(LessThan, Nat)
  BY NatLessThanWellFounded DEF OpToRel, LessThan

\* A set of natural numbers that is not empty has a least element.
LEMMA Least ==
  ASSUME NEW T \in SUBSET Nat, T # {}
  PROVE  \E n \in T : \A m \in T : n <= m
<1>1. \E n \in T : \A m \in T : ~(<<m, n>> \in LessThan)
  BY LessThanWF, WFMin, Zenon
<1>2. \A m, n \in Nat : m < n => <<m, n>> \in LessThan
  BY DEF LessThan
<1>3. PICK n \in T : \A m \in T : ~(<<m, n>> \in LessThan)
  BY <1>1
<1>4. ASSUME NEW m \in T PROVE n <= m
  <2>1. n \in Nat /\ m \in Nat
    OBVIOUS
  <2>2. ~(m < n)
    BY <2>1, <1>2, <1>3, Zenon
  <2> QED BY <2>1, <2>2
<1> QED BY <1>4

\* A set that holds zero, and the successor of every natural number it holds,
\* holds them all.
LEMMA Induct ==
  ASSUME NEW S, 0 \in S, \A n \in Nat : n \in S => n + 1 \in S
  PROVE  Nat \subseteq S
<1> DEFINE T == Nat \ S
<1>1. SUFFICES ASSUME T # {} PROVE FALSE
  OBVIOUS
<1>2. PICK n \in T : \A m \in T : n <= m
  BY <1>1, Least
<1>3. n # 0 /\ n - 1 \in Nat
  BY <1>2
<1>4. n - 1 \notin T
  BY <1>2
<1> QED BY <1>3, <1>4

\* A bounded set of natural numbers that is not empty has a greatest element.
LEMMA Greatest ==
  ASSUME NEW n \in Nat, NEW T \in SUBSET (0 .. n), T # {}
  PROVE  \E k \in T : \A j \in T : j <= k
<1> DEFINE U == {n - k : k \in T}
<1>1. U \in SUBSET Nat /\ U # {}
  <2>1. \A k \in T : k \in 0 .. n /\ n - k \in Nat
    OBVIOUS
  <2>2. U # {}
    OBVIOUS
  <2> QED BY <2>1, <2>2, Zenon
<1>2. PICK u \in U : \A w \in U : u <= w
  <2> HIDE DEF U
  <2> QED BY <1>1, Least
<1>3. PICK k \in T : u = n - k
  BY <1>2
<1>4. ASSUME NEW j \in T PROVE j <= k
  <2>1. n - j \in U
    OBVIOUS
  <2>2. n - k <= n - j
    BY <2>1, <1>2, <1>3
  <2> QED BY <2>2
<1> QED BY <1>4

\* One element more counts one more.
LEMMA CardAdd ==
  ASSUME NEW S, NEW T, NEW x, IsFiniteSet(S), x \notin S, T = S \cup {x}
  PROVE  IsFiniteSet(T) /\ Cardinality(T) = Cardinality(S) + 1
BY FS_AddElement

\* One element less counts one less.
LEMMA CardRemove ==
  ASSUME NEW S, NEW T, NEW x, IsFiniteSet(S), x \in S, T = S \ {x}
  PROVE  IsFiniteSet(T) /\ Cardinality(T) = Cardinality(S) - 1
BY FS_RemoveElement

\* What has an element counts at least one.
LEMMA CardPos ==
  ASSUME NEW S, IsFiniteSet(S)
  PROVE  Cardinality(S) \in Nat /\ (S # {} <=> Cardinality(S) > 0)
BY FS_EmptySet, FS_CardinalityType

\* A function on 1 .. n is a sequence of length n.
LEMMA FunSeq ==
  ASSUME NEW S, NEW n \in Nat, NEW w \in [1 .. n -> S]
  PROVE  w \in Seq(S) /\ Len(w) = n
<1>1. w \in Seq(S)
  OBVIOUS
<1>2. Len(w) \in Nat /\ DOMAIN w = 1 .. Len(w)
  BY <1>1, LenProperties
<1>3. DOMAIN w = 1 .. n
  OBVIOUS
<1> QED BY <1>2, <1>3

\* One element more at the end is Append.
LEMMA FunAppend ==
  ASSUME NEW S, NEW n \in Nat, NEW w \in [1 .. n -> S], NEW x \in S,
         NEW u \in [1 .. n + 1 -> S], u[n + 1] = x, \A i \in 1 .. n : u[i] = w[i]
  PROVE  u = Append(w, x)
<1>1. w \in Seq(S) /\ Len(w) = n /\ u \in Seq(S) /\ Len(u) = n + 1
  BY FunSeq
<1>2. /\ Append(w, x) \in Seq(S) /\ Len(Append(w, x)) = n + 1 
      /\ Append(w,x)[n+1] = x /\ \A i \in 1..n : Append(w,x)[i] = w[i]
  BY <1>1, AppendProperties
<1>3. \A i \in 1 .. Len(u) : u[i] = Append(w,x)[i]
  BY <1>1, <1>2
<1> QED BY <1>1, <1>2, <1>3, SeqEqual

\* One element less at the end is the sequence without its last.
LEMMA FunFront ==
  ASSUME NEW S, NEW n \in Nat, NEW w \in [1 .. n + 1 -> S],
         NEW u \in [1 .. n -> S], \A i \in 1 .. n : u[i] = w[i]
  PROVE  u = SubSeq(w, 1, Len(w) - 1) /\ w # <<>>
<1>1. w \in Seq(S) /\ Len(w) = n + 1 /\ u \in Seq(S) /\ Len(u) = n
  BY FunSeq
<1>2. \A i \in 1 .. n : w[i] \in S
  OBVIOUS
<1>3. /\ SubSeq(w, 1, n) \in Seq(S)
      /\ Len(SubSeq(w,1,n)) = IF 1 <= n THEN n - 1 + 1 ELSE 0
      /\ \A i \in 1 .. n-1+1 : SubSeq(w,1,n)[i] = w[1+i-1]
  BY <1>2, SubSeqProperties
<1>4. \A i \in 1 .. Len(u) : u[i] = SubSeq(w,1,n)[i]
  BY <1>1, <1>3
<1>5. u = SubSeq(w, 1, n)
  BY <1>1, <1>3, <1>4, SeqEqual
<1> QED BY <1>1, <1>5, EmptySeq

\* g starts with c and goes on with f, whose step i may depend on i.
IsRecAt(g, c, f, m) == g[0] = c /\ \A i \in 1 .. m : g[i] = f[i][g[i - 1]]

\* A function of the numbers up to m may be defined by recursion.
LEMMA RecAtExists ==
  ASSUME NEW A, NEW c \in A, NEW m \in Nat, NEW f,
         \A i \in 1 .. m : \A x \in A : f[i][x] \in A
  PROVE  \E g : g \in [0 .. m -> A] /\ IsRecAt(g, c, f, m)
<1> DEFINE Q(n, g) == IsRecAt(g, c, f, n)
           S == {n \in Nat : n <= m => \E g \in [0 .. n -> A] : Q(n, g)}
<1> USE DEF IsRecAt
<1>1. 0 \in S
  <2>1. [i \in 0 .. 0 |-> c] \in [0 .. 0 -> A] /\ Q(0, [i \in 0 .. 0 |-> c])
    OBVIOUS
  <2> QED BY <2>1
<1>2. ASSUME NEW n \in Nat, n \in S PROVE n + 1 \in S
  <2> SUFFICES ASSUME n + 1 <= m PROVE \E g \in [0 .. n + 1 -> A] : Q(n + 1, g)
    OBVIOUS
  <2>1. PICK g \in [0 .. n -> A] : Q(n, g)
    BY <1>2
  <2>2. PICK h : h = [i \in 0 .. n + 1 |-> IF i = n + 1 THEN f[n + 1][g[n]] ELSE g[i]]
    OBVIOUS
  <2>3. n \in 0 .. n /\ n + 1 \in 1 .. m /\ h \in [0 .. n + 1 -> A]
    BY <2>2
  <2>4. h[n + 1] = f[n + 1][g[n]] /\ \A i \in 0 .. n : h[i] = g[i]
    BY <2>2
  <2>5. ASSUME NEW i \in 1 .. n + 1 PROVE h[i] = f[i][h[i - 1]]
    <3>1. CASE i = n + 1
      <4>1. i - 1 = n
        BY <3>1
      <4> QED BY <3>1, <4>1, <2>3, <2>4
    <3>2. CASE i # n + 1
      <4>1. i \in 1 .. n /\ i \in 0 .. n /\ i - 1 \in 0 .. n
        BY <3>2
      <4> QED BY <4>1, <2>1, <2>4
    <3> QED BY <3>1, <3>2
  <2>6. h[0] = c
    BY <2>1, <2>4
  <2>7. Q(n + 1, h)
    BY <2>5, <2>6
  <2> QED BY <2>3, <2>7
<1>3. Nat \subseteq S
  <2> HIDE DEF S
  <2> QED BY <1>1, <1>2, Induct
<1> QED BY <1>3

\* The same with one step f for every number.
IsRec(g, c, f, m) == g[0] = c /\ \A i \in 1 .. m : g[i] = f[g[i - 1]]

\* It exists as well.
LEMMA RecExists ==
  ASSUME NEW A, NEW c \in A, NEW f, \A x \in A : f[x] \in A, NEW m \in Nat
  PROVE  \E g : g \in [0 .. m -> A] /\ IsRec(g, c, f, m)
<1>1. PICK h : h = [i \in 1 .. m |-> f]
  OBVIOUS
<1>2. \A i \in 1 .. m : h[i] = f
  BY <1>1
<1>3. \A i \in 1 .. m : \A x \in A : h[i][x] \in A
  BY <1>2
<1>4. PICK g : g \in [0 .. m -> A] /\ IsRecAt(g, c, h, m)
  BY <1>3, RecAtExists
<1> QED BY <1>2, <1>4 DEF IsRec, IsRecAt

\* One element more, twice the subsets.
LEMMA SubsetsDouble ==
  ASSUME NEW S, NEW e, IsFiniteSet(S), e \notin S, NEW T, T = S \cup {e}
  PROVE  Cardinality(SUBSET T) = 2 * Cardinality(SUBSET S) /\ Cardinality(SUBSET S) \in Nat
<1>1. PICK A, B : A = SUBSET S /\ B = {X \cup {e} : X \in SUBSET S}
  OBVIOUS
<1>2. PICK f : f = [X \in A |-> X \cup {e}]
  OBVIOUS
<1>3. IsFiniteSet(A) /\ Cardinality(A) \in Nat
  BY <1>1, FS_SUBSET, FS_CardinalityType
<1>4. f \in Surjection(A, B)
  BY <1>1, <1>2 DEF Surjection
<1>5. f \in Injection(A, B)
  <2>1. \A X \in A : f[X] = X \cup {e} /\ e \notin X /\ f[X] \in B
    BY <1>1, <1>2
  <2>2. ASSUME NEW X \in A, NEW Y \in A, f[X] = f[Y] PROVE X = Y
    <3>1. X \cup {e} = Y \cup {e} /\ e \notin X /\ e \notin Y
      BY <2>1, <2>2
    <3>2. \A z \in X : z \in Y
      BY <3>1
    <3>3. \A z \in Y : z \in X
      BY <3>1
    <3> QED BY <3>2, <3>3
  <2>3. f \in [A -> B]
    BY <1>2, <2>1
  <2> QED BY <2>2, <2>3 DEF Injection, IsInjective
<1>6. IsFiniteSet(B) /\ Cardinality(B) = Cardinality(A)
  BY <1>3, <1>4, <1>5, FS_Surjection
<1>7. A \cap B = {}
  BY <1>1
<1>8. SUBSET T = A \cup B
  <2>1. ASSUME NEW X \in SUBSET T PROVE X \in A \cup B
    <3>1. CASE e \notin X
      BY <1>1, <3>1
    <3>2. CASE e \in X
      <4>1. X \ {e} \in SUBSET S /\ X = (X \ {e}) \cup {e}
        BY <3>2
      <4> QED BY <1>1, <4>1
    <3> QED BY <3>1, <3>2
  <2>2. ASSUME NEW X \in A \cup B PROVE X \in SUBSET T
    BY <1>1
  <2> QED BY <2>1, <2>2
<1>9. Cardinality(A \cup B) = Cardinality(A) + Cardinality(B) - Cardinality(A \cap B)
  BY <1>3, <1>6, FS_Union
<1>10. Cardinality(A \cap B) = 0
  BY <1>7, FS_EmptySet
<1>11. PICK c \in Nat : c = Cardinality(A)
  BY <1>3
<1>12. Cardinality(SUBSET T) = c + c - 0
  BY <1>6, <1>8, <1>9, <1>10, <1>11
<1> QED BY <1>1, <1>11, <1>12

\* The powers of two, which the provers do not know: a set of n elements has
\* 2 ^ n subsets.
LEMMA PowerIs == 2 ^ 0 = 1 /\ \A n \in Nat : 2 ^ n \in Nat /\ 2 ^ (n + 1) = 2 * 2 ^ n
<1>1. 2 ^ 0 = 1
  <2>1. IsFiniteSet({}) /\ Cardinality({}) = 0
    BY FS_EmptySet
  <2>2. Cardinality(SUBSET {}) = 2 ^ Cardinality({})
    BY <2>1, FS_SUBSET
  <2>3. SUBSET {} = {{}}
    OBVIOUS
  <2>4. Cardinality({{}}) = 1
    BY FS_Singleton
  <2> QED BY <2>1, <2>2, <2>3, <2>4
<1>2. ASSUME NEW n \in Nat PROVE 2 ^ n \in Nat /\ 2 ^ (n + 1) = 2 * 2 ^ n
  <2>1. PICK S, T : S = 1 .. n /\ T = 1 .. n + 1
    OBVIOUS
  <2>2. IsFiniteSet(S) /\ Cardinality(S) = n /\ IsFiniteSet(T) /\ Cardinality(T) = n + 1
    <3>1. /\ IsFiniteSet(1 .. n) /\ Cardinality(1 .. n) = IF 1 > n THEN 0 ELSE n - 1 + 1
          /\ IsFiniteSet(1 .. n + 1)
          /\ Cardinality(1 .. n + 1) = IF 1 > n + 1 THEN 0 ELSE (n + 1) - 1 + 1
      BY FS_Interval
    <3> QED BY <2>1, <3>1
  <2>3. T = S \cup {n + 1} /\ n + 1 \notin S
    BY <2>1
  <2>4. Cardinality(SUBSET T) = 2 * Cardinality(SUBSET S) /\ Cardinality(SUBSET S) \in Nat
    BY <2>2, <2>3, SubsetsDouble
  <2>5. Cardinality(SUBSET S) = 2 ^ Cardinality(S) /\ Cardinality(SUBSET T) = 2 ^ Cardinality(T)
    BY <2>2, FS_SUBSET
  <2>6. Cardinality(SUBSET S) = 2 ^ n /\ Cardinality(SUBSET T) = 2 ^ (n + 1)
    BY <2>2, <2>5
  <2> QED BY <2>4, <2>6
<1> QED BY <1>1, <1>2

-------------------------------------------------------------------------------
(***************************************************************************)
(* Sets and sequences of one or two elements                               *)
(***************************************************************************)
\* A set that counts one has one element.
LEMMA CardOne ==
  ASSUME NEW T, IsFiniteSet(T), Cardinality(T) = 1, NEW o \in T
  PROVE  T = {o}
<1>1. PICK U : U = T \ {o}  OBVIOUS
<1>2. IsFiniteSet(U) /\ Cardinality(U) = 0  BY <1>1, CardRemove
<1>3. U = {}  BY <1>2, CardPos
<1> QED BY <1>1, <1>3

\* The length of a longer sequence.
LEMMA AppendGrows ==
  ASSUME NEW S, NEW s \in Seq(S), NEW x \in S
  PROVE  Len(Append(s, x)) = Len(s) + 1
OBVIOUS

\* Sequences of one and of two.
LEMMA SeqOne ==
  ASSUME NEW S, NEW s \in Seq(S), Len(s) = 1, NEW a \in S, s[1] = a
  PROVE  s = <<a>>
OBVIOUS

\* A sequence of two.
LEMMA SeqTwo ==
  ASSUME NEW S, NEW s \in Seq(S), Len(s) = 2, NEW a \in S, s[1] = a, NEW b \in S, s[2] = b
  PROVE  s = <<a, b>>
<1>1. DOMAIN s = 1 .. 2 /\ s = [i \in 1 .. 2 |-> s[i]]  OBVIOUS
<1>2. \A i \in 1 .. 2 : s[i] = <<a, b>>[i]
  <2>1. \A i \in 1 .. 2 : i = 1 \/ i = 2  OBVIOUS
  <2> QED BY <2>1
<1> QED BY <1>1, <1>2
===============================================================================
