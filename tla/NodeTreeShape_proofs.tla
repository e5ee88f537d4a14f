------------------------ MODULE NodeTreeShape_proofs ------------------------
(***************************************************************************)
(* The tree of NodeTree between renames: induction on the turns of a loop, *)
(* walks from the root, trees that grow, what is below a file of the       *)
(* drive, and the order in which the recursion of removeNodes goes.        *)
(***************************************************************************)
EXTENDS NodeTree, FiniteSetTheorems, TLAPS

-----------------------------------------------------------------------------
(* Induction on the turns of a loop.  A function that is defined by        *)
(* recursion on its turns exists, and what holds before the first turn and *)
(* is kept by each turn holds after the last.                              *)

\* A set of numbers that has 0 and is closed under successors has them all: an
\* initial segment without a number above some n of it would be as large as
\* a proper subset of itself.
LEMMA Induction ==
  ASSUME NEW A \in SUBSET Nat, 0 \in A, \A n \in A : n + 1 \in A
  PROVE  A = Nat
<1>. SUFFICES ASSUME NEW n \in Nat, n \notin A
              PROVE  FALSE
  OBVIOUS
<1>. DEFINE B == A \cap 0..n
            C == B \ {0}
            f == [x \in B |-> x + 1]
            D == {f[x] : x \in B}
<1>1. IsFiniteSet(B)
  <2>1. IsFiniteSet(0..n)
    BY FS_Interval
  <2>. QED
    BY <2>1, FS_Subset
<1>2. f \in [B -> D] /\ \A x, y \in B : f[x] = f[y] => x = y
  OBVIOUS
<1>3. f \in Bijection(B, D)
  BY <1>2 DEF Bijection, Injection, Surjection, IsInjective
<1>4. IsFiniteSet(D) /\ Cardinality(D) = Cardinality(B)
  BY <1>1, <1>3, FS_Bijection DEF ExistsBijection
<1>5. D \subseteq C
  OBVIOUS
<1>6. IsFiniteSet(C) /\ Cardinality(C) = Cardinality(B) - 1
  <2>1. 0 \in B
    OBVIOUS
  <2>. QED
    BY <1>1, <2>1, FS_RemoveElement
<1>7. Cardinality(D) <= Cardinality(C)
  BY <1>5, <1>6, FS_Subset
<1>8. Cardinality(B) \in Nat
  BY <1>1, FS_CardinalityType
<1>. QED
  BY <1>4, <1>6, <1>7, <1>8

\* What holds at first, and after each turn if it held before, always holds:
\* S[k] are the states that are meant after k turns.
LEMMA LoopStays ==
  ASSUME NEW L \in Nat, NEW S, NEW f, f[0] \in S[0],
         \A k \in 1..L : f[k-1] \in S[k-1] => f[k] \in S[k]
  PROVE  \A k \in 0..L : f[k] \in S[k]
<1>. DEFINE A == {n \in Nat : n <= L => f[n] \in S[n]}
<1>1. 0 \in A
  OBVIOUS
<1>2. ASSUME NEW n \in A
      PROVE  n + 1 \in A
  <2>1. CASE n + 1 <= L
    <3>1. n + 1 \in 1..L /\ (n + 1) - 1 = n /\ f[n] \in S[n]
      BY <2>1
    <3>. QED
      BY <3>1
  <2>. QED
    BY <2>1
<1>3. A = Nat
  <2>. HIDE DEF A
  <2>. QED
    BY <1>1, <1>2, Induction DEF A
<1>. QED
  BY <1>3

\* The states that a loop of L turns goes through from b, when turn k makes
\* F[<<x, k>>] of x.
Runs(L, S, b, F) ==
  {g \in [0..L -> UNION {S[k] : k \in 0..L}] :
     /\ g[0] = b /\ \A k \in 1..L : g[k] = F[<<g[k-1], k>>]
     /\ \A k \in 0..L : g[k] \in S[k]}

\* The states of a loop are the one it starts from and those after its turns.
LEMMA ZeroFirst ==
  ASSUME NEW L \in Nat
  PROVE  0 \notin 1..L /\ 0..L = {0} \cup (1..L)
OBVIOUS

\* A loop exists if each turn takes the states before it to states after it.
LEMMA LoopRuns ==
  ASSUME NEW L \in Nat, NEW S, NEW b \in S[0], NEW F,
         \A k \in 1..L : \A x \in S[k-1] : F[<<x, k>>] \in S[k]
  PROVE  Runs(L, S, b, F) # {}
<1>. DEFINE Good(n, g) == /\ DOMAIN g = 0..n /\ g[0] = b
                          /\ \A k \in 1..n : g[k] = F[<<g[k-1], k>>]
                          /\ \A k \in 0..n : g[k] \in S[k]
            A == {n \in Nat : n <= L => \E g : g = [k \in 0..n |-> g[k]] /\ Good(n, g)}
<1>1. 0 \in A
  <2>1. PICK g : g = [x \in 0..0 |-> b]
    OBVIOUS
  <2>2. g = [k \in 0..0 |-> g[k]] /\ Good(0, g)
    BY <2>1
  <2>. QED
    BY <2>2
<1>2. ASSUME NEW n \in A
      PROVE  n + 1 \in A
  <2>. SUFFICES ASSUME n + 1 <= L
                PROVE  \E g : g = [k \in 0..n+1 |-> g[k]] /\ Good(n+1, g)
    OBVIOUS
  <2>1. PICK h : Good(n, h)
    OBVIOUS
  <2>2. PICK v : v = F[<<h[n], n+1>>]
    OBVIOUS
  <2>3. v \in S[n+1]
    <3>1. n + 1 \in 1..L /\ (n + 1) - 1 = n /\ h[n] \in S[n]
      BY <2>1
    <3>. QED
      BY <2>2, <3>1
  <2>4. PICK g : g = [k \in 0..n+1 |-> IF k <= n THEN h[k] ELSE v]
    OBVIOUS
  <2>5. ASSUME NEW k \in 1..n+1
        PROVE  g[k] = F[<<g[k-1], k>>]
    <3>1. CASE k = n + 1
      <4>1. k - 1 = n /\ g[n] = h[n] /\ g[k] = v
        BY <2>4, <3>1
      <4>. QED
        BY <2>2, <3>1, <4>1
    <3>2. CASE k \in 1..n
      <4>1. k - 1 \in 0..n /\ g[k-1] = h[k-1] /\ g[k] = h[k]
        BY <2>4, <3>2
      <4>. QED
        BY <2>1, <3>2, <4>1
    <3>. QED
      BY <3>1, <3>2
  <2>6. g[0] = b /\ DOMAIN g = 0..n+1
    BY <2>1, <2>4
  <2>7. ASSUME NEW k \in 0..n+1
        PROVE  g[k] \in S[k]
    <3>1. CASE k = n + 1
      BY <2>3, <2>4, <3>1
    <3>2. CASE k \in 0..n
      BY <2>1, <2>4, <3>2
    <3>. QED
      BY <3>1, <3>2
  <2>8. g = [k \in 0..n+1 |-> g[k]]
    BY <2>4
  <2>. QED
    BY <2>5, <2>6, <2>7, <2>8
<1>3. A = Nat
  <2>. HIDE DEF A
  <2>. QED
    BY <1>1, <1>2, Induction DEF A
<1>4. PICK g : g = [k \in 0..L |-> g[k]] /\ Good(L, g)
  BY <1>3
<1>5. g \in [0..L -> UNION {S[k] : k \in 0..L}]
  BY <1>4
<1>. QED
  BY <1>4, <1>5 DEF Runs

-----------------------------------------------------------------------------
(* What the variables hold. *)

NodeRecords == [kind : Kinds \cup {"free"}, id : Ids, name : Names \cup {NoName},
                parent : Nodes \cup {NoNode}, filled : BOOLEAN, next : Seq(Nodes)]
Heaps == [Nodes -> NodeRecords]
Clouds == [Ids -> Entry]

-----------------------------------------------------------------------------
(* Lists and walks. *)

\* A set of numbers that is not empty has a least one.
LEMMA Least ==
  ASSUME NEW S \in SUBSET Nat, S # {}
  PROVE  \E k \in S : \A j \in S : k <= j
<1>. SUFFICES ASSUME \A k \in S : \E j \in S : ~(k <= j)
              PROVE  FALSE
  OBVIOUS
<1>. DEFINE A == {n \in Nat : \A j \in S : n <= j}
<1>1. 0 \in A
  OBVIOUS
<1>2. \A n \in A : n + 1 \in A
  OBVIOUS
<1>3. A = Nat
  <2>. HIDE DEF A
  <2>. QED
    BY <1>1, <1>2, Induction DEF A
<1>4. PICK k \in S : k + 1 \in A
  BY <1>3
<1>. QED
  BY <1>4

\* m is the first entry of the list of n that has the name x.
IsFirst(h, n, x, m) ==
  \E k \in 1..Len(h[n].next) :
    /\ h[n].next[k] = m /\ h[m].name = x
    /\ \A j \in 1..k-1 : h[h[n].next[j]].name # x

\* The search of a list finds the first entry of the name, when there is one.
LEMMA ChildFacts ==
  ASSUME NEW h \in Heaps, NEW n \in Nodes, NEW x
  PROVE  /\ ChildNamed(h, n, x) \in Nodes \cup {NoNode}
         /\ ChildNamed(h, n, x) = NoNode <=>
              \A k \in 1..Len(h[n].next) : h[h[n].next[k]].name # x
         /\ \A m \in Nodes : ChildNamed(h, n, x) = m <=> IsFirst(h, n, x, m)
<1>. DEFINE S == Named(h, n, x)
            l == h[n].next
<1>1. l \in Seq(Nodes) /\ DOMAIN l = 1..Len(l) /\ S \in SUBSET Nat /\ Len(l) \in Nat
  BY DEF Heaps, NodeRecords, Named
<1>2. S = {k \in 1..Len(l) : h[l[k]].name = x}
  BY <1>1 DEF Named
<1>3. CASE S = {}
  <2>1. ChildNamed(h, n, x) = NoNode
    BY <1>3 DEF ChildNamed
  <2>2. \A m \in Nodes : m # NoNode /\ ~IsFirst(h, n, x, m)
    BY <1>1, <1>2, <1>3, NodesAssumption DEF IsFirst
  <2>. QED
    BY <1>2, <1>3, <2>1, <2>2
<1>4. CASE S # {}
  <2>1. PICK k \in S : \A j \in S : k <= j
    BY <1>1, <1>4, Least
  <2>. DEFINE k0 == CHOOSE i \in S : \A j \in S : i <= j
  <2>2. k0 \in S /\ \A j \in S : k0 <= j
    BY <2>1
  <2>3. ChildNamed(h, n, x) = l[k0]
    BY <1>4 DEF ChildNamed
  <2>. HIDE DEF k0
  <2>4. k0 \in 1..Len(l) /\ l[k0] \in Nodes /\ h[l[k0]].name = x
    BY <1>1, <1>2, <2>2
  <2>5. IsFirst(h, n, x, l[k0])
    <3>1. ASSUME NEW j \in 1..k0-1
          PROVE  h[l[j]].name # x
      <4>1. j \in 1..Len(l) /\ ~(k0 <= j)
        BY <1>1, <2>4
      <4>2. j \notin S
        BY <2>2, <4>1
      <4>. QED
        BY <1>2, <4>1, <4>2
    <3>2. PICK y : y = l[k0]
      OBVIOUS
    <3>3. /\ k0 \in 1..Len(h[n].next) /\ h[n].next[k0] = y /\ y \in Nodes /\ h[y].name = x
          /\ \A j \in 1..k0-1 : h[h[n].next[j]].name # x
      BY <1>1, <2>4, <3>1, <3>2
    <3>4. IsFirst(h, n, x, y)
      BY <3>3, Zenon DEF IsFirst
    <3>. QED
      BY <3>2, <3>4
  <2>6. ASSUME NEW m \in Nodes, IsFirst(h, n, x, m)
        PROVE  m = l[k0]
    <3>1. PICK i \in 1..Len(l) : l[i] = m /\ h[m].name = x /\ \A j \in 1..i-1 : h[l[j]].name # x
      BY <2>6 DEF IsFirst
    <3>2. i \in S
      BY <1>2, <3>1
    <3>3. ~(k0 \in 1..i-1)
      BY <3>1, <2>4
    <3>4. k0 = i
      BY <1>1, <2>2, <2>4, <3>2, <3>3
    <3>. QED
      BY <3>1, <3>4
  <2>. QED
    BY <2>3, <2>4, <2>5, <2>6, NodesAssumption
<1>. QED
  BY <1>3, <1>4

\* Walk is what find() visits, name by name.
LEMMA WalkRun ==
  ASSUME NEW h \in Heaps, NEW n \in Nodes \cup {NoNode}, NEW p \in Seq(Names)
  PROVE  /\ Walk(h, n, p) \in [0..Len(p) -> Nodes \cup {NoNode}]
         /\ Walk(h, n, p)[0] = n
         /\ \A d \in 1..Len(p) :
              Walk(h, n, p)[d] = IF Walk(h, n, p)[d-1] = NoNode THEN NoNode
                                 ELSE ChildNamed(h, Walk(h, n, p)[d-1], p[d])
<1>. DEFINE T == Nodes \cup {NoNode}
            L == Len(p)
            S == [k \in 0..L |-> T]
            Turn(m, d) == IF m = NoNode THEN NoNode ELSE ChildNamed(h, m, p[d])
            F == [x \in T \X (1..L) |-> Turn(x[1], x[2])]
            Eq(g) == g = [d \in 0..L |-> IF d = 0 THEN n ELSE Turn(g[d-1], d)]
<1>1. L \in Nat
  OBVIOUS
<1>2. \A k \in 1..L : \A x \in T : Turn(x, k) \in T
  BY ChildFacts
<1>3. PICK g \in [0..L -> T] : g[0] = n /\ \A d \in 1..L : g[d] = F[<<g[d-1], d>>]
  <2>1. n \in S[0] /\ \A k \in 1..L : k - 1 \in 0..L
    BY <1>1
  <2>2. \A k \in 1..L : \A x \in S[k-1] : F[<<x, k>>] \in S[k]
    BY <1>2, <2>1
  <2>. HIDE DEF F
  <2>3. Runs(L, S, n, F) # {}
    <3>. HIDE DEF S, L
    <3>. QED
      BY <1>1, <2>1, <2>2, LoopRuns
  <2>. QED
    BY <2>3 DEF Runs
<1>4. \A d \in 1..L : g[d] = Turn(g[d-1], d)
  <2>. TAKE d \in 1..L
  <2>1. g[d-1] \in T
    BY <1>1
  <2>2. F[<<g[d-1], d>>] = Turn(g[d-1], d)
    BY <2>1
  <2>. QED
    BY <1>3, <2>2
<1>5. Eq(g)
  BY <1>1, <1>3, <1>4
<1>6. Walk(h, n, p) = CHOOSE f : Eq(f)
  BY DEF Walk, Turns
<1>7. Eq(Walk(h, n, p))
  BY <1>5, <1>6
<1>. DEFINE w == Walk(h, n, p)
<1>8. w = [d \in 0..L |-> w[d]] /\ w[0] = n /\ \A d \in 1..L : w[d] = Turn(w[d-1], d)
  <2>. HIDE DEF w
  <2>. QED
    BY <1>1, <1>7 DEF w
<1>. HIDE DEF w
<1>9. \A d \in 0..L : w[d] \in S[d]
  <2>1. w[0] \in S[0] /\ \A k \in 1..L : k - 1 \in 0..L
    BY <1>1, <1>8
  <2>2. ASSUME NEW k \in 1..L, w[k-1] \in S[k-1]
        PROVE  w[k] \in S[k]
    <3>1. w[k-1] \in T /\ S[k] = T
      BY <2>1, <2>2
    <3>2. Turn(w[k-1], k) \in T
      BY <1>2, <3>1
    <3>3. w[k] = Turn(w[k-1], k)
      BY <1>8
    <3>. QED
      BY <3>1, <3>2, <3>3
  <2>. HIDE DEF S, L
  <2>. QED
    BY <1>1, <2>1, <2>2, LoopStays
<1>10. w \in [0..L -> T]
  BY <1>8, <1>9
<1>. QED
  BY <1>8, <1>10 DEF w

\* Paths are the sequences of names that are not too long.
LEMMA PathFacts ==
  /\ Paths \subseteq Seq(Names)
  /\ \A p \in Seq(Names) : p \in Paths <=> Len(p) <= MaxDepth
  /\ <<>> \in Paths
<1>1. ASSUME NEW p \in Paths
      PROVE  p \in Seq(Names) /\ Len(p) <= MaxDepth
  <2>1. PICK d \in 0..MaxDepth : p \in [1..d -> Names]
    BY DEF Paths
  <2>2. d \in Nat /\ d <= MaxDepth
    BY DepthAssumption
  <2>3. p \in Seq(Names) /\ Len(p) = d
    BY <2>1, <2>2
  <2>. QED
    BY <2>2, <2>3
<1>2. ASSUME NEW p \in Seq(Names), Len(p) <= MaxDepth
      PROVE  p \in Paths
  <2>1. p \in [1..Len(p) -> Names] /\ Len(p) \in 0..MaxDepth
    BY <1>2, DepthAssumption
  <2>. QED
    BY <2>1 DEF Paths
<1>3. <<>> \in Seq(Names) /\ Len(<<>>) = 0 /\ 0 <= MaxDepth
  BY DepthAssumption
<1>. QED
  BY <1>1, <1>2, <1>3

\* A walk that has lost its way stays lost.
LEMMA WalkLost ==
  ASSUME NEW h \in Heaps, NEW n \in Nodes \cup {NoNode}, NEW p \in Seq(Names),
         NEW d \in 0..Len(p), Walk(h, n, p)[d] # NoNode
  PROVE  \A e \in 0..d : Walk(h, n, p)[e] \in Nodes
<1>. DEFINE w == Walk(h, n, p)
            A == {k \in Nat : k <= d => w[d-k] # NoNode}
<1>1. /\ w \in [0..Len(p) -> Nodes \cup {NoNode}] /\ w[0] = n
      /\ \A e \in 1..Len(p) : w[e] = IF w[e-1] = NoNode THEN NoNode
                                     ELSE ChildNamed(h, w[e-1], p[e])
  BY WalkRun
<1>. HIDE DEF w
<1>0. Len(p) \in Nat
  OBVIOUS
<1>2. 0 \in A
  BY <1>0 DEF w
<1>3. ASSUME NEW k \in A
      PROVE  k + 1 \in A
  <2>1. CASE k + 1 <= d
    <3>1. d - k \in 1..Len(p) /\ (d - k) - 1 = d - (k + 1) /\ w[d-k] # NoNode
      BY <1>0, <2>1
    <3>. QED
      BY <1>1, <3>1
  <2>. QED
    BY <2>1
<1>4. A = Nat
  <2>. HIDE DEF A
  <2>. QED
    BY <1>2, <1>3, Induction DEF A
<1>5. ASSUME NEW e \in 0..d
      PROVE  w[e] \in Nodes
  <2>1. d - e \in Nat /\ d - e <= d /\ d - (d - e) = e /\ e \in 0..Len(p)
    BY <1>0
  <2>2. w[d - (d - e)] # NoNode
    BY <1>4, <2>1
  <2>. QED
    BY <1>1, <2>1, <2>2
<1>. QED
  BY <1>5 DEF w

\* Two walks along the same names agree as long as their steps do.
LEMMA WalkSame ==
  ASSUME NEW h \in Heaps, NEW g \in Heaps, NEW n \in Nodes \cup {NoNode},
         NEW p \in Seq(Names), NEW q \in Seq(Names), NEW D \in Nat, D <= Len(p), D <= Len(q),
         \A d \in 1..D : q[d] = p[d],
         \A d \in 1..D : Walk(h, n, p)[d-1] \in Nodes =>
            ChildNamed(g, Walk(h, n, p)[d-1], p[d]) = ChildNamed(h, Walk(h, n, p)[d-1], p[d])
  PROVE  \A d \in 0..D : Walk(g, n, q)[d] = Walk(h, n, p)[d]
<1>. DEFINE w == Walk(h, n, p)
            v == Walk(g, n, q)
            A == {k \in Nat : k <= D => v[k] = w[k]}
<1>1. /\ w \in [0..Len(p) -> Nodes \cup {NoNode}] /\ w[0] = n
      /\ \A e \in 1..Len(p) : w[e] = IF w[e-1] = NoNode THEN NoNode
                                     ELSE ChildNamed(h, w[e-1], p[e])
  BY WalkRun
<1>2. /\ v[0] = n
      /\ \A e \in 1..Len(q) : v[e] = IF v[e-1] = NoNode THEN NoNode
                                     ELSE ChildNamed(g, v[e-1], q[e])
  BY WalkRun
<1>0. Len(p) \in Nat /\ Len(q) \in Nat
  OBVIOUS
<1>3. \A d \in 1..D : w[d-1] \in Nodes => ChildNamed(g, w[d-1], p[d]) = ChildNamed(h, w[d-1], p[d])
  OBVIOUS
<1>. HIDE DEF w, v
<1>4. 0 \in A
  BY <1>1, <1>2
<1>5. ASSUME NEW k \in A
      PROVE  k + 1 \in A
  <2>1. CASE k + 1 <= D
    <3>1. /\ k + 1 \in 1..D /\ (k + 1) - 1 = k /\ v[k] = w[k] /\ k \in 0..Len(p)
          /\ k + 1 \in 1..Len(p) /\ k + 1 \in 1..Len(q)
      BY <1>0, <2>1
    <3>2. /\ v[k+1] = IF v[k] = NoNode THEN NoNode ELSE ChildNamed(g, v[k], q[k+1])
          /\ w[k+1] = IF w[k] = NoNode THEN NoNode ELSE ChildNamed(h, w[k], p[k+1])
      BY <1>1, <1>2, <3>1
    <3>3. w[k] # NoNode => ChildNamed(g, w[k], p[k+1]) = ChildNamed(h, w[k], p[k+1])
      BY <1>1, <1>3, <3>1
    <3>4. q[k+1] = p[k+1]
      BY <3>1
    <3>. QED
      BY <3>1, <3>2, <3>3, <3>4
  <2>. QED
    BY <2>1
<1>6. A = Nat
  <2>. HIDE DEF A
  <2>. QED
    BY <1>4, <1>5, Induction DEF A
<1>. QED
  BY <1>6 DEF w, v

\* find() stops somewhere.
LEMMA DepthFacts ==
  ASSUME NEW h \in Heaps, NEW n \in Nodes, NEW p \in Seq(Names)
  PROVE  /\ Depth(h, n, p) \in 0..Len(p)
         /\ Walk(h, n, p)[Depth(h, n, p)] \in Nodes
         /\ Depth(h, n, p) < Len(p) => Walk(h, n, p)[Depth(h, n, p) + 1] = NoNode
         /\ Walk(h, n, p)[Len(p)] # NoNode => Depth(h, n, p) = Len(p)
<1>. DEFINE w == Walk(h, n, p)
            Stop(d) == w[d] # NoNode /\ (d < Len(p) => w[d + 1] = NoNode)
            A == {k \in Nat : k <= Len(p) => w[k] # NoNode}
<1>0. w \in [0..Len(p) -> Nodes \cup {NoNode}] /\ w[0] = n /\ Len(p) \in Nat
  BY WalkRun
<1>1. \E d \in 0..Len(p) : Stop(d)
  <2>. SUFFICES ASSUME \A d \in 0..Len(p) : ~Stop(d)
                PROVE  FALSE
    OBVIOUS
  <2>. HIDE DEF w
  <2>1. 0 \in A
    BY <1>0, NodesAssumption
  <2>2. ASSUME NEW k \in A
        PROVE  k + 1 \in A
    BY <1>0
  <2>3. A = Nat
    <3>. HIDE DEF A
    <3>. QED
      BY <2>1, <2>2, Induction DEF A
  <2>4. Len(p) \in A
    BY <1>0, <2>3
  <2>. QED
    BY <1>0, <2>4
<1>2. Depth(h, n, p) = CHOOSE d \in 0..Len(p) : Stop(d)
  BY DEF Depth
<1>3. Depth(h, n, p) \in 0..Len(p) /\ Stop(Depth(h, n, p))
  BY <1>1, <1>2
<1>4. ASSUME w[Len(p)] # NoNode, Depth(h, n, p) < Len(p)
      PROVE  FALSE
  <2>1. Depth(h, n, p) + 1 \in 0..Len(p) /\ Len(p) \in 0..Len(p)
    BY <1>0, <1>3, <1>4
  <2>2. w[Depth(h, n, p) + 1] \in Nodes
    BY <1>4, <2>1, WalkLost
  <2>. QED
    BY <1>3, <1>4, <2>2, NodesAssumption
<1>. HIDE DEF w
<1>5. w[Depth(h, n, p)] \in Nodes
  BY <1>0, <1>3
<1>. QED
  BY <1>0, <1>3, <1>4, <1>5 DEF w
-----------------------------------------------------------------------------
(* The invariant.  born[i] is the path of the file i and of every node made of *)
(* it: the path at which it came into being, as long as it is not renamed.     *)

\* A file is where its parent is, which exists, under its own name.
CloudOK(c, born) ==
  /\ born[RootId] = <<>> /\ Exists(c, RootId)
  /\ \A i \in Ids \ {RootId} :
       Exists(c, i) => /\ Exists(c, c[i].parent)
                       /\ born[i] = Append(born[c[i].parent], c[i].name)

\* The file of the node n, if it is still there, is where the node is.
Filed(h, rt, c, n) ==
  h[n].kind # "free" /\ n # rt /\ Exists(c, h[n].id) => c[h[n].id].parent = h[h[n].parent].id

\* What is at an address: nothing, or a node of a file that the drive has had.
NodesOK(h, rt, c) ==
  /\ \A n \in Nodes : /\ h[n].kind = "free" => h[n] = Free
                      /\ h[n].kind # "free" => rt # NoNode
                      /\ c[h[n].id].kind # "unborn" /\ Filed(h, rt, c, n)
  /\ rt # NoNode => h[rt].kind # "free" /\ h[rt].id = RootId

\* m is a node of the directory n, in its list and a level below.
Entered(h, rt, born, n, m) ==
  /\ h[m].kind # "free" /\ m # rt /\ h[m].parent = n
  /\ born[h[m].id] = Append(born[h[n].id], h[m].name)

\* The list of n: its own nodes, each once.
ListOK(h, rt, born, n) ==
  \A k \in 1..Len(h[n].next) :
    /\ Entered(h, rt, born, n, h[n].next[k])
    /\ \A j \in 1..Len(h[n].next) : h[n].next[j] = h[n].next[k] => j = k

\* Every node but the root is in its parent's list.
ListedOK(h, rt) ==
  \A m \in Nodes : h[m].kind # "free" /\ m # rt =>
    /\ h[m].parent \in Nodes
    /\ \E k \in 1..Len(h[h[m].parent].next) : h[h[m].parent].next[k] = m

TreeOK(h, rt, born) ==
  ListedOK(h, rt) /\ \A n \in Nodes : ListOK(h, rt, born, n)

\* A cached path leads to its node in the tree, and the node knows the path.
CacheOK(h, rt, bp, po) ==
  \A p \in DOMAIN bp : /\ rt # NoNode /\ Walk(h, rt, p)[Len(p)] = bp[p]
                       /\ bp[p] \in DOMAIN po /\ po[bp[p]] = p

PathMaps == UNION {[P -> Nodes] : P \in SUBSET Paths}
NodeMaps == UNION {[N -> Paths] : N \in SUBSET Nodes}

\* All that a handler works on.
Handlers ==
  [cloud : Clouds, heap : Heaps, root : Nodes \cup {NoNode}, byPath : PathMaps,
   pathOf : NodeMaps, fuel : Int, late : BOOLEAN, ok : BOOLEAN, res : Nodes \cup {NoNode}]

Sound(c, h, rt, bp, po, born) ==
  /\ born \in [Ids -> Paths] /\ CloudOK(c, born)
  /\ NodesOK(h, rt, c) /\ TreeOK(h, rt, born) /\ CacheOK(h, rt, bp, po)

Sane(r, born) ==
  /\ r \in Handlers /\ Sound(r.cloud, r.heap, r.root, r.byPath, r.pathOf, born)
  /\ r.ok \/ r.res = NoNode

\* A walk from the root follows the paths of the files.
LEMMA WalkPaths ==
  ASSUME NEW h \in Heaps, NEW rt \in Nodes, NEW c, NEW born \in [Ids -> Paths],
         born[RootId] = <<>>, NodesOK(h, rt, c), TreeOK(h, rt, born),
         NEW p \in Seq(Names), NEW d \in 0..Len(p), Walk(h, rt, p)[d] # NoNode
  PROVE  /\ h[Walk(h, rt, p)[d]].kind # "free"
         /\ born[h[Walk(h, rt, p)[d]].id] = SubSeq(p, 1, d)
<1>. DEFINE w == Walk(h, rt, p)
            Good(e) == h[w[e]].kind # "free" /\ born[h[w[e]].id] = SubSeq(p, 1, e)
            A == {k \in Nat : k <= d => Good(k)}
<1>0. Len(p) \in Nat
  OBVIOUS
<1>1. /\ w[0] = rt /\ \A e \in 0..d : w[e] \in Nodes
      /\ \A e \in 1..Len(p) : w[e] = IF w[e-1] = NoNode THEN NoNode
                                     ELSE ChildNamed(h, w[e-1], p[e])
  BY WalkRun, WalkLost
<1>. HIDE DEF w
<1>2. 0 \in A
  <2>1. SubSeq(p, 1, 0) = <<>>
    OBVIOUS
  <2>2. rt # NoNode
    BY NodesAssumption
  <2>. QED
    BY <1>1, <2>1, <2>2 DEF NodesOK
<1>3. ASSUME NEW k \in A
      PROVE  k + 1 \in A
  <2>. SUFFICES ASSUME k + 1 <= d
                PROVE  Good(k + 1)
    OBVIOUS
  <2>1. /\ k \in 0..d /\ k + 1 \in 0..d /\ k + 1 \in 1..Len(p) /\ (k + 1) - 1 = k /\ Good(k)
    BY <1>0
  <2>2. w[k] \in Nodes /\ w[k+1] \in Nodes /\ w[k+1] = ChildNamed(h, w[k], p[k+1])
    BY <1>1, <2>1, NodesAssumption
  <2>3. IsFirst(h, w[k], p[k+1], w[k+1])
    BY <2>2, ChildFacts
  <2>4. Entered(h, rt, born, w[k], w[k+1]) /\ h[w[k+1]].name = p[k+1]
    BY <2>2, <2>3 DEF IsFirst, TreeOK, ListOK
  <2>5. Append(SubSeq(p, 1, k), p[k+1]) = SubSeq(p, 1, k + 1)
    BY <2>1
  <2>. QED
    BY <2>1, <2>4, <2>5 DEF Entered
<1>4. A = Nat
  <2>. HIDE DEF A
  <2>. QED
    BY <1>2, <1>3, Induction DEF A
<1>5. Good(d)
  BY <1>0, <1>4
<1>. QED
  BY <1>5 DEF w

\* The whole of a walk names the file it leads to.
LEMMA WalkEnds ==
  ASSUME NEW h \in Heaps, NEW rt \in Nodes, NEW c, NEW born \in [Ids -> Paths],
         born[RootId] = <<>>, NodesOK(h, rt, c), TreeOK(h, rt, born),
         NEW p \in Seq(Names), Walk(h, rt, p)[Len(p)] # NoNode
  PROVE  /\ Walk(h, rt, p)[Len(p)] \in Nodes
         /\ h[Walk(h, rt, p)[Len(p)]].kind # "free"
         /\ born[h[Walk(h, rt, p)[Len(p)]].id] = p
<1>1. Len(p) \in 0..Len(p) /\ SubSeq(p, 1, Len(p)) = p
  OBVIOUS
<1>. QED
  BY <1>1, WalkPaths, WalkLost
-----------------------------------------------------------------------------
(* A tree that grows. *)

\* g has the nodes of h as they are, but for new ones at the end of their lists.
KeptNode(h, g, m) ==
  /\ g[m].kind = h[m].kind /\ g[m].id = h[m].id /\ g[m].name = h[m].name
  /\ g[m].parent = h[m].parent /\ Len(h[m].next) <= Len(g[m].next)
  /\ \A k \in 1..Len(h[m].next) : g[m].next[k] = h[m].next[k]

Kept(h, g) == \A m \in Nodes : h[m].kind # "free" => KeptNode(h, g, m)

\* A tree that keeps what another keeps, keeps it.
LEMMA KeptTrans ==
  ASSUME NEW f \in Heaps, NEW g \in Heaps, NEW h \in Heaps, Kept(f, g), Kept(g, h)
  PROVE  Kept(f, h)
<1>. SUFFICES ASSUME NEW m \in Nodes, f[m].kind # "free"
              PROVE  KeptNode(f, h, m)
  BY DEF Kept
<1>1. KeptNode(f, g, m) /\ KeptNode(g, h, m)
  BY DEF Kept, KeptNode
<1>2. Len(f[m].next) \in Nat /\ Len(g[m].next) \in Nat /\ Len(h[m].next) \in Nat
  BY DEF Heaps, NodeRecords
<1>. QED
  BY <1>1, <1>2 DEF KeptNode

\* In a tree that has grown the walks lead where they led.
LEMMA KeptWalk ==
  ASSUME NEW h \in Heaps, NEW g \in Heaps, NEW rt \in Nodes, NEW c,
         NEW born \in [Ids -> Paths], born[RootId] = <<>>,
         NodesOK(h, rt, c), TreeOK(h, rt, born), Kept(h, g),
         NEW p \in Seq(Names), NEW d \in 0..Len(p), Walk(h, rt, p)[d] # NoNode
  PROVE  Walk(g, rt, p)[d] = Walk(h, rt, p)[d]
<1>. DEFINE w == Walk(h, rt, p)
<1>0. d \in Nat /\ d <= Len(p) /\ Len(p) \in Nat
  OBVIOUS
<1>1. \A e \in 0..d : w[e] \in Nodes
  BY WalkLost
<1>2. \A e \in 0..d : h[w[e]].kind # "free"
  <2>. TAKE e \in 0..d
  <2>1. e \in 0..Len(p) /\ w[e] # NoNode
    BY <1>0, <1>1, NodesAssumption
  <2>. QED
    BY <2>1, WalkPaths
<1>3. ASSUME NEW e \in 1..d
      PROVE  ChildNamed(g, w[e-1], p[e]) = ChildNamed(h, w[e-1], p[e])
  <2>1. /\ e \in 1..Len(p) /\ e - 1 \in 0..d /\ e \in 0..d
        /\ w[e] = IF w[e-1] = NoNode THEN NoNode ELSE ChildNamed(h, w[e-1], p[e])
    <3>1. e \in 1..Len(p) /\ e - 1 \in 0..d /\ e \in 0..d
      BY <1>0
    <3>. QED
      BY <3>1, WalkRun
  <2>. HIDE DEF w
  <2>2. PICK n \in Nodes, m \in Nodes : n = w[e-1] /\ m = w[e]
    BY <1>1, <2>1
  <2>3. n # NoNode /\ ChildNamed(h, n, p[e]) = m
    BY <2>1, <2>2, NodesAssumption
  <2>4. IsFirst(h, n, p[e], m)
    BY <2>3, ChildFacts
  <2>5. KeptNode(h, g, n)
    BY <1>2, <2>1, <2>2 DEF Kept
  <2>6. ListOK(h, rt, born, n) /\ Len(h[n].next) \in Nat /\ Len(g[n].next) \in Nat
    BY DEF TreeOK, Heaps, NodeRecords
  <2>7. \A k \in 1..Len(h[n].next) : /\ h[n].next[k] \in Nodes
                                     /\ g[h[n].next[k]].name = h[h[n].next[k]].name
    <3>. TAKE k \in 1..Len(h[n].next)
    <3>1. h[n].next[k] \in Nodes
      BY DEF Heaps, NodeRecords
    <3>2. h[h[n].next[k]].kind # "free"
      BY <2>6 DEF ListOK, Entered
    <3>. QED
      BY <3>1, <3>2 DEF Kept, KeptNode
  <2>8. PICK k \in 1..Len(h[n].next) :
          /\ h[n].next[k] = m /\ h[m].name = p[e]
          /\ \A j \in 1..k-1 : h[h[n].next[j]].name # p[e]
    BY <2>4 DEF IsFirst
  <2>9. /\ k \in 1..Len(g[n].next) /\ g[n].next[k] = m /\ g[m].name = p[e]
        /\ \A j \in 1..k-1 : g[g[n].next[j]].name # p[e]
    <3>1. \A j \in 1..k-1 : j \in 1..Len(h[n].next)
      BY <2>6
    <3>2. \A j \in 1..Len(h[n].next) : j \in 1..Len(g[n].next) /\ g[n].next[j] = h[n].next[j]
      BY <2>5, <2>6 DEF KeptNode
    <3>3. k \in 1..Len(g[n].next) /\ g[n].next[k] = m /\ g[m].name = p[e]
      BY <2>7, <2>8, <3>2
    <3>4. ASSUME NEW j \in 1..k-1
          PROVE  g[g[n].next[j]].name # p[e]
      BY <2>7, <2>8, <3>1, <3>2
    <3>. QED
      BY <3>3, <3>4
  <2>10. IsFirst(g, n, p[e], m)
    BY <2>9 DEF IsFirst
  <2>11. ChildNamed(g, n, p[e]) = m
    BY <2>10, ChildFacts
  <2>. QED
    BY <2>2, <2>3, <2>11
<1>4. d \in 0..d /\ \A e \in 0..d : Walk(g, rt, p)[e] = w[e]
  <2>1. \A e \in 1..d : p[e] = p[e] /\ ChildNamed(g, w[e-1], p[e]) = ChildNamed(h, w[e-1], p[e])
    BY <1>3
  <2>2. \A e \in 0..d : Walk(g, rt, p)[e] = w[e]
    BY <1>0, <2>1, WalkSame
  <2>. QED
    BY <1>0, <2>2
<1>. QED
  BY <1>4

\* In a tree that has grown the cache is still right.
LEMMA KeptCache ==
  ASSUME NEW h \in Heaps, NEW g \in Heaps, NEW rt \in Nodes \cup {NoNode}, NEW c,
         NEW born \in [Ids -> Paths], born[RootId] = <<>>,
         NodesOK(h, rt, c), TreeOK(h, rt, born), Kept(h, g),
         NEW bp \in PathMaps, NEW po, CacheOK(h, rt, bp, po)
  PROVE  CacheOK(g, rt, bp, po)
<1>. SUFFICES ASSUME NEW p \in DOMAIN bp
              PROVE  Walk(g, rt, p)[Len(p)] = bp[p]
  BY DEF CacheOK
<1>1. p \in Seq(Names) /\ bp[p] \in Nodes
  BY PathFacts DEF PathMaps
<1>2. rt \in Nodes /\ Walk(h, rt, p)[Len(p)] = bp[p] /\ bp[p] # NoNode
  BY <1>1, NodesAssumption DEF CacheOK
<1>3. Len(p) \in 0..Len(p)
  BY <1>1
<1>. QED
  BY <1>1, <1>2, <1>3, KeptWalk

\* The heap after addNext, node by node.
LEMMA LinkedIs ==
  ASSUME NEW h \in Heaps, NEW n \in Nodes, NEW m \in Nodes, m # n, NEW node
  PROVE  Linked(h, n, m, node) =
           [x \in Nodes |-> IF x = m THEN node
                            ELSE IF x = n THEN [h[n] EXCEPT !.next = Append(h[n].next, m)]
                            ELSE h[x]]
  BY DEF Linked, Heaps, NodeRecords

\* g is h with the node m, which is node, at the end of the list of n.
Grown(h, rt, c, born, n, m, node, g) ==
  /\ g \in Heaps /\ NodesOK(g, rt, c) /\ TreeOK(g, rt, born) /\ Kept(h, g)
  /\ g[m] = node /\ g[n].next = Append(h[n].next, m)
  /\ \A y \in Nodes : g[y].filled => h[y].filled

\* A node made for the file i of name x in the directory n.
NewChild(node, i, x, n) ==
  /\ node \in NodeRecords /\ node.kind # "free" /\ node.id = i /\ node.name = x
  /\ node.parent = n /\ ~node.filled /\ node.next = <<>>

\* addNext of a node made for a file of this directory.
LEMMA LinkedKeeps ==
  ASSUME NEW h \in Heaps, NEW rt \in Nodes, NEW c, NEW born \in [Ids -> Paths],
         NodesOK(h, rt, c), TreeOK(h, rt, born),
         NEW n \in Nodes, h[n].kind # "free", NEW m \in Nodes, h[m] = Free,
         NEW i \in Ids, NEW x, c[i].kind # "unborn", Exists(c, i) => c[i].parent = h[n].id,
         born[i] = Append(born[h[n].id], x),
         NEW node, NewChild(node, i, x, n), NEW g, g = Linked(h, n, m, node)
  PROVE  Grown(h, rt, c, born, n, m, node, g)
<1>1. m # n /\ m # rt
  BY NodesAssumption DEF NodesOK, Free
<1>2. h \in [Nodes -> [kind : Kinds \cup {"free"}, id : Ids, name : Names \cup {NoName},
                      parent : Nodes \cup {NoNode}, filled : BOOLEAN, next : Seq(Nodes)]]
  BY DEF Heaps, NodeRecords
<1>3. g = [y \in Nodes |-> IF y = m THEN node
                           ELSE IF y = n THEN [h[n] EXCEPT !.next = Append(h[n].next, m)]
                           ELSE h[y]]
  BY <1>1, LinkedIs
<1>4. g[m] = node /\ \A y \in Nodes \ {m, n} : g[y] = h[y]
  BY <1>3
<1>5. /\ g[n].kind = h[n].kind /\ g[n].id = h[n].id /\ g[n].name = h[n].name
      /\ g[n].parent = h[n].parent /\ g[n].filled = h[n].filled
      /\ g[n].next = Append(h[n].next, m)
  BY <1>1, <1>2, <1>3
<1>6. g \in Heaps
  <2>1. node \in [kind : Kinds \cup {"free"}, id : Ids, name : Names \cup {NoName},
                  parent : Nodes \cup {NoNode}, filled : BOOLEAN, next : Seq(Nodes)]
    BY DEF NewChild, NodeRecords
  <2>2. [h[n] EXCEPT !.next = Append(h[n].next, m)]
          \in [kind : Kinds \cup {"free"}, id : Ids, name : Names \cup {NoName},
               parent : Nodes \cup {NoNode}, filled : BOOLEAN, next : Seq(Nodes)]
    <3>1. Append(h[n].next, m) \in Seq(Nodes)
      BY <1>2
    <3>. QED
      BY <1>2, <3>1
  <2>. QED
    BY <1>2, <1>3, <2>1, <2>2 DEF Heaps, NodeRecords
<1>7. /\ Len(h[n].next) \in Nat /\ Len(g[n].next) = Len(h[n].next) + 1
      /\ g[n].next[Len(h[n].next) + 1] = m
      /\ \A k \in 1..Len(h[n].next) : g[n].next[k] = h[n].next[k]
  BY <1>2, <1>5
<1>8. /\ node.kind # "free" /\ node.id = i /\ node.name = x /\ node.parent = n
      /\ node.filled = FALSE /\ node.next = <<>>
  BY DEF NewChild
<1>9. \A y \in Nodes : h[y].kind # "free" => y # m
  BY DEF Free
<1>10. Kept(h, g)
  <2>. SUFFICES ASSUME NEW y \in Nodes, h[y].kind # "free"
                PROVE  KeptNode(h, g, y)
    BY DEF Kept
  <2>1. CASE y = n
    <3>1. Len(h[n].next) <= Len(g[n].next)
      BY <1>7
    <3>. QED
      BY <1>5, <1>7, <2>1, <3>1 DEF KeptNode
  <2>2. CASE y # n
    <3>1. g[y] = h[y] /\ Len(h[y].next) \in Nat
      BY <1>2, <1>4, <1>9, <2>2
    <3>. QED
      BY <3>1 DEF KeptNode
  <2>. QED
    BY <2>1, <2>2
<1>11. NodesOK(g, rt, c)
  <2>1. ASSUME NEW y \in Nodes
        PROVE  /\ g[y].kind = "free" => g[y] = Free
               /\ c[g[y].id].kind # "unborn" /\ (g[y].kind # "free" => rt # NoNode)
    <3>0. rt # NoNode
      BY NodesAssumption
    <3>1. CASE y = m
      BY <1>4, <1>8, <3>0, <3>1
    <3>2. CASE y = n
      BY <1>5, <3>0, <3>2 DEF NodesOK
    <3>3. CASE y \notin {m, n}
      BY <1>4, <3>0, <3>3 DEF NodesOK
    <3>. QED
      BY <3>0, <3>1, <3>2, <3>3
  <2>2. g[rt].kind # "free" /\ g[rt].id = RootId
    BY <1>10, NodesAssumption DEF NodesOK, Kept, KeptNode
  <2>3. ASSUME NEW y \in Nodes
        PROVE  Filed(g, rt, c, y)
    <3>1. CASE y = m
      BY <1>4, <1>5, <1>8, <3>1 DEF Filed
    <3>2. CASE y # m /\ g[y].kind # "free" /\ y # rt
      <4>1. /\ h[y].kind # "free" /\ h[y].id = g[y].id /\ h[y].parent = g[y].parent
            /\ Filed(h, rt, c, y)
        BY <1>4, <1>5, <3>2 DEF NodesOK
      <4>2. PICK a \in Nodes : a = h[y].parent /\ \E k \in 1..Len(h[a].next) : h[a].next[k] = y
        BY <3>2, <4>1 DEF TreeOK, ListedOK
      <4>3. h[a].kind # "free"
        BY <1>2, <4>2 DEF NodesOK, Free
      <4>4. g[a].id = h[a].id
        BY <1>10, <4>3 DEF Kept, KeptNode
      <4>. QED
        BY <3>2, <4>1, <4>2, <4>4 DEF Filed
    <3>. QED
      BY <3>1, <3>2 DEF Filed
  <2>. QED
    BY <2>1, <2>2, <2>3 DEF NodesOK
<1>12. ASSUME NEW a \in Nodes, NEW b \in Nodes, b # m, Entered(h, rt, born, a, b),
              h[a].kind # "free"
       PROVE  Entered(g, rt, born, a, b)
  BY <1>10, <1>12 DEF Entered, Kept, KeptNode
<1>13. Entered(g, rt, born, n, m)
  BY <1>1, <1>4, <1>5, <1>8 DEF Entered
<1>14. ASSUME NEW a \in Nodes
       PROVE  ListOK(g, rt, born, a)
  <2>0. h[a].kind = "free" => h[a] = Free
    BY DEF NodesOK
  <2>1. CASE a = m
    <3>1. Len(g[a].next) = 0
      BY <1>4, <1>8, <2>1
    <3>. QED
      BY <3>1 DEF ListOK
  <2>2. CASE a = n
    <3>1. ASSUME NEW k \in 1..Len(h[n].next)
          PROVE  /\ h[n].next[k] \in Nodes \ {m} /\ Entered(h, rt, born, n, h[n].next[k])
                 /\ \A j \in 1..Len(h[n].next) : h[n].next[j] = h[n].next[k] => j = k
      <4>1. ListOK(h, rt, born, n) /\ h[n].next[k] \in Nodes
        BY <1>2 DEF TreeOK
      <4>. QED
        BY <1>9, <4>1 DEF ListOK, Entered
    <3>2. ASSUME NEW k \in 1..Len(g[n].next)
          PROVE  /\ Entered(g, rt, born, n, g[n].next[k])
                 /\ \A j \in 1..Len(g[n].next) : g[n].next[j] = g[n].next[k] => j = k
      <4>1. k \in 1..Len(h[n].next) \/ k = Len(h[n].next) + 1
        BY <1>7
      <4>2. Entered(g, rt, born, n, g[n].next[k])
        BY <1>7, <1>12, <1>13, <3>1, <4>1
      <4>3. ASSUME NEW j \in 1..Len(g[n].next), g[n].next[j] = g[n].next[k]
            PROVE  j = k
        <5>1. j \in 1..Len(h[n].next) \/ j = Len(h[n].next) + 1
          BY <1>7
        <5>. QED
          BY <1>7, <3>1, <4>1, <4>3, <5>1
      <4>. QED
        BY <4>2, <4>3
    <3>. QED
      BY <2>2, <3>2 DEF ListOK
  <2>3. CASE a \notin {m, n}
    <3>1. g[a] = h[a]
      BY <1>4, <2>3
    <3>2. h[a].kind = "free" => Len(h[a].next) = 0
      BY <2>0 DEF Free
    <3>3. ASSUME NEW k \in 1..Len(h[a].next)
          PROVE  /\ Entered(g, rt, born, a, h[a].next[k])
                 /\ \A j \in 1..Len(h[a].next) : h[a].next[j] = h[a].next[k] => j = k
      <4>1. ListOK(h, rt, born, a) /\ h[a].next[k] \in Nodes
        <5>1. ListOK(h, rt, born, a)
          BY DEF TreeOK
        <5>2. h[a].next \in Seq(Nodes)
          BY <1>2
        <5>. QED
          BY <5>1, <5>2
      <4>2. Entered(h, rt, born, a, h[a].next[k]) /\ h[a].next[k] # m
        BY <1>9, <4>1 DEF ListOK, Entered
      <4>. QED
        BY <1>12, <3>2, <4>1, <4>2 DEF ListOK
    <3>. QED
      BY <3>1, <3>3 DEF ListOK
  <2>. QED
    BY <2>1, <2>2, <2>3
<1>15. ASSUME NEW y \in Nodes, g[y].kind # "free", y # rt
       PROVE  /\ g[y].parent \in Nodes
               /\ \E k \in 1..Len(g[g[y].parent].next) : g[g[y].parent].next[k] = y
  <2>1. CASE y = m
    <3>1. g[y].parent = n
      BY <1>4, <1>8, <2>1
    <3>2. Len(h[n].next) + 1 \in 1..Len(g[n].next)
      BY <1>7
    <3>. QED
      BY <1>7, <2>1, <3>1, <3>2
  <2>2. CASE y # m
    <3>1. h[y].kind # "free"
      BY <1>4, <1>5, <1>15, <2>2
    <3>2. PICK a \in Nodes : h[y].parent = a /\ \E k \in 1..Len(h[a].next) : h[a].next[k] = y
      BY <1>15, <3>1 DEF TreeOK, ListedOK
    <3>3. PICK k \in 1..Len(h[a].next) : h[a].next[k] = y
      BY <3>2
    <3>4. h[a].kind # "free"
      <4>1. h[a].kind = "free" => h[a].next = <<>>
        BY DEF NodesOK, Free
      <4>. QED
        BY <3>3, <4>1
    <3>5. KeptNode(h, g, y) /\ KeptNode(h, g, a)
      BY <1>10, <3>1, <3>4 DEF Kept
    <3>7. Len(h[a].next) \in Nat /\ Len(g[a].next) \in Nat
      BY <1>6 DEF Heaps, NodeRecords
    <3>6. g[y].parent = a /\ k \in 1..Len(g[a].next) /\ g[a].next[k] = y
      <4>1. /\ g[y].parent = h[y].parent /\ Len(g[a].next) >= Len(h[a].next)
            /\ g[a].next[k] = h[a].next[k]
        BY <3>5 DEF KeptNode
      <4>2. k \in 1..Len(g[a].next)
        BY <3>7, <4>1
      <4>. QED
        BY <3>2, <3>3, <4>1, <4>2
    <3>. QED
      BY <3>6
  <2>. QED
    BY <2>1, <2>2
<1>16. \A y \in Nodes : g[y].filled => h[y].filled
  BY <1>4, <1>5, <1>8
<1>17. TreeOK(g, rt, born)
  BY <1>14, <1>15 DEF TreeOK, ListedOK
<1>. QED
  BY <1>4, <1>5, <1>6, <1>10, <1>11, <1>16, <1>17 DEF Grown

\* Directories are marked as read, and are whole.
LEMMA FilledKeeps ==
  ASSUME NEW h \in Heaps, NEW rt \in Nodes, NEW c, NEW born \in [Ids -> Paths],
         NodesOK(h, rt, c), TreeOK(h, rt, born), NEW n \in Nodes, h[n].kind # "free"
  PROVE  LET g == Filled(h, n)
         IN /\ g \in Heaps /\ NodesOK(g, rt, c) /\ TreeOK(g, rt, born) /\ Kept(h, g)
            /\ \A x \in Nodes : /\ g[x].next = h[x].next /\ g[x].id = h[x].id
                                /\ g[x].kind = h[x].kind
                                /\ g[x].filled => x = n \/ h[x].filled
<1>1. PICK g : g = Filled(h, n)
  OBVIOUS
<1>2. /\ g \in [Nodes -> [kind : Kinds \cup {"free"}, id : Ids, name : Names \cup {NoName},
                          parent : Nodes \cup {NoNode}, filled : BOOLEAN, next : Seq(Nodes)]]
      /\ \A x \in Nodes : /\ x # n => g[x] = h[x]
                          /\ g[x].next = h[x].next /\ g[x].id = h[x].id /\ g[x].kind = h[x].kind
                          /\ g[x].name = h[x].name /\ g[x].parent = h[x].parent
  BY <1>1 DEF Filled, Heaps, NodeRecords
<1>3. g \in Heaps /\ \A x \in Nodes : g[x].filled => x = n \/ h[x].filled
  BY <1>2 DEF Heaps, NodeRecords
<1>4. Kept(h, g)
  <2>1. \A x \in Nodes : Len(h[x].next) \in Nat
    BY DEF Heaps, NodeRecords
  <2>. QED
    BY <1>2, <2>1 DEF Kept, KeptNode
<1>5. NodesOK(g, rt, c)
  <2>1. rt # NoNode
    BY NodesAssumption
  <2>2. ASSUME NEW y \in Nodes
        PROVE  g[y].kind = "free" => g[y] = Free
    <3>1. CASE y = n
      BY <1>2, <3>1
    <3>2. CASE y # n
      BY <1>2, <3>2 DEF NodesOK
    <3>. QED
      BY <3>1, <3>2
  <2>3. \A y \in Nodes : c[g[y].id].kind # "unborn"
    BY <1>2 DEF NodesOK
  <2>4. ASSUME NEW y \in Nodes, g[y].kind # "free", y # rt
        PROVE  Filed(g, rt, c, y)
    <3>1. Filed(h, rt, c, y) /\ h[y].kind # "free" /\ h[y].parent \in Nodes
      BY <1>2, <2>4 DEF NodesOK, TreeOK, ListedOK
    <3>. QED
      BY <1>2, <2>4, <3>1 DEF Filed
  <2>5. \A y \in Nodes : Filed(g, rt, c, y)
    BY <2>4 DEF Filed
  <2>. QED
    BY <1>2, <2>1, <2>2, <2>3, <2>5 DEF NodesOK
<1>6. ASSUME NEW a \in Nodes
      PROVE  ListOK(g, rt, born, a)
  <2>1. ListOK(h, rt, born, a) /\ \A k \in 1..Len(h[a].next) : h[a].next[k] \in Nodes
    BY DEF TreeOK, Heaps, NodeRecords
  <2>2. \A m \in Nodes : Entered(h, rt, born, a, m) => Entered(g, rt, born, a, m)
    BY <1>2 DEF Entered
  <2>3. g[a].next = h[a].next
    BY <1>2
  <2>. QED
    BY <2>1, <2>2, <2>3 DEF ListOK
<1>7. ASSUME NEW m \in Nodes, g[m].kind # "free", m # rt
      PROVE  /\ g[m].parent \in Nodes
              /\ \E k \in 1..Len(g[g[m].parent].next) : g[g[m].parent].next[k] = m
  <2>1. h[m].kind # "free" /\ g[m].parent = h[m].parent
    BY <1>2, <1>7
  <2>2. PICK a \in Nodes : a = h[m].parent /\ \E k \in 1..Len(h[a].next) : h[a].next[k] = m
    BY <1>7, <2>1 DEF TreeOK, ListedOK
  <2>3. g[a].next = h[a].next
    BY <1>2
  <2>. QED
    BY <2>1, <2>2, <2>3
<1>. QED
  BY <1>1, <1>2, <1>3, <1>4, <1>5, <1>6, <1>7 DEF TreeOK, ListedOK

-----------------------------------------------------------------------------
(* What is below a file of the drive. *)

\* w has what is below the file i, level by level.
Within(c, i, w) ==
  /\ w[0] = {i} /\ Under(c, i) = w[MaxDepth] /\ \A d \in 0..MaxDepth : w[d] \in SUBSET Ids
  /\ \A d \in 1..MaxDepth : w[d] = w[d-1] \cup UNION {Children(c, j) : j \in w[d-1]}

LEMMA UnderRun ==
  ASSUME NEW c, NEW i \in Ids
  PROVE  \E w : Within(c, i, w)
<1>. DEFINE L == MaxDepth
            More(x) == x \cup UNION {Children(c, j) : j \in x}
            S == [k \in 0..L |-> SUBSET Ids]
            F == [x \in (SUBSET Ids) \X (1..L) |-> More(x[1])]
            Eq(g) == g = [d \in 0..L |-> IF d = 0 THEN {i} ELSE More(g[d-1])]
<1>1. L \in Nat
  BY DepthAssumption
<1>2. \A x \in SUBSET Ids : More(x) \in SUBSET Ids
  BY DEF Children
<1>3. PICK g : Eq(g)
  <2>0. \A k \in 0..L : S[k] = SUBSET Ids
    OBVIOUS
  <2>1. {i} \in S[0]
    BY <1>1
  <2>2. ASSUME NEW k \in 1..L, NEW x \in S[k-1]
        PROVE  F[<<x, k>>] \in S[k]
    <3>1. k - 1 \in 0..L /\ k \in 0..L
      BY <1>1
    <3>2. x \in SUBSET Ids
      BY <2>2, <3>1
    <3>. HIDE DEF More
    <3>. QED
      BY <1>2, <3>1, <3>2
  <2>3. Runs(L, S, {i}, F) # {}
    <3>. HIDE DEF F, S, L
    <3>. QED
      BY <1>1, <2>1, <2>2, LoopRuns
  <2>4. PICK g \in [0..L -> UNION {S[k] : k \in 0..L}] :
           /\ g[0] = {i} /\ \A k \in 1..L : g[k] = F[<<g[k-1], k>>]
           /\ \A k \in 0..L : g[k] \in S[k]
    BY <2>3 DEF Runs
  <2>. HIDE DEF S, More
  <2>5. ASSUME NEW k \in 1..L
        PROVE  g[k] = More(g[k-1])
    <3>1. k - 1 \in 0..L
      <4>. HIDE DEF L
      <4>. QED
        BY <1>1
    <3>2. g[k-1] \in SUBSET Ids
      <4>. HIDE DEF L, F
      <4>. QED
        BY <2>0, <2>4, <3>1
    <3>. QED
      BY <2>4, <3>2
  <2>6. 0 \notin 1..L /\ 0..L = {0} \cup (1..L)
    BY <1>1, ZeroFirst
  <2>. HIDE DEF L
  <2>7. Eq(g)
    BY <2>4, <2>5, <2>6
  <2>. QED
    BY <2>7
<1>. DEFINE at == CHOOSE f : Eq(f)
<1>4. Eq(at)
  BY <1>3
<1>5. Under(c, i) = at[L]
  BY DEF Under
<1>6. at[0] = {i} /\ \A d \in 1..L : at[d] = More(at[d-1])
  <2>. HIDE DEF at, More
  <2>1. 0 \in 0..L /\ \A k \in 1..L : k \in 0..L /\ k # 0
    BY <1>1
  <2>2. at = [d \in 0..L |-> IF d = 0 THEN {i} ELSE More(at[d-1])]
    BY <1>4
  <2>. HIDE DEF L
  <2>. QED
    BY <2>1, <2>2
<1>7. \A d \in 0..L : at[d] \in S[d]
  <2>. HIDE DEF at, More
  <2>1. at[0] \in S[0]
    BY <1>1, <1>6
  <2>2. ASSUME NEW k \in 1..L, at[k-1] \in S[k-1]
        PROVE  at[k] \in S[k]
    <3>1. k - 1 \in 0..L /\ k \in 0..L
      BY <1>1
    <3>. QED
      BY <1>2, <1>6, <2>2, <3>1
  <2>. HIDE DEF S, L
  <2>. QED
    BY <1>1, <2>1, <2>2, LoopStays
<1>8. \A d \in 0..L : at[d] \in SUBSET Ids
  <2>. HIDE DEF at, L
  <2>. QED
    BY <1>7
<1>. HIDE DEF at
<1>. QED
  BY <1>5, <1>6, <1>8 DEF Within

\* The level of a file: how long its path is.
LEMMA FileLevel ==
  ASSUME NEW c \in Clouds, NEW born \in [Ids -> Paths], CloudOK(c, born)
  PROVE  /\ \A i \in Ids : Len(born[i]) \in Nat /\ Len(born[i]) <= MaxDepth
         /\ \A i \in Ids : \A j \in Children(c, i) :
              j \in Ids \ {RootId} /\ Exists(c, j) /\ Len(born[j]) = Len(born[i]) + 1
<1>1. ASSUME NEW i \in Ids
      PROVE  born[i] \in Seq(Names) /\ Len(born[i]) \in Nat /\ Len(born[i]) <= MaxDepth
  <2>1. born[i] \in Seq(Names) /\ Len(born[i]) <= MaxDepth
    BY PathFacts
  <2>. QED
    BY <2>1
<1>2. ASSUME NEW i \in Ids, NEW j \in Children(c, i)
      PROVE  j \in Ids \ {RootId} /\ Exists(c, j) /\ Len(born[j]) = Len(born[i]) + 1
  <2>1. j \in Ids \ {RootId} /\ Exists(c, j) /\ c[j].parent = i
    BY DEF Children
  <2>2. born[j] = Append(born[i], c[j].name) /\ c[j].name \in Names \cup {NoName}
    BY <2>1 DEF CloudOK, Clouds, Entry
  <2>3. PICK p \in Seq(Names \cup {NoName}), x \in Names \cup {NoName} :
          p = born[i] /\ x = c[j].name
    <3>1. born[i] \in Seq(Names \cup {NoName})
      BY <1>1
    <3>. QED
      BY <2>2, <3>1
  <2>4. Len(Append(p, x)) = Len(p) + 1
    OBVIOUS
  <2>. QED
    BY <2>1, <2>2, <2>3, <2>4
<1>. QED
  BY <1>1, <1>2

\* What is below a file is in a folder below it, and all of a folder is.
LEMMA UnderFacts ==
  ASSUME NEW c \in Clouds, NEW born \in [Ids -> Paths], CloudOK(c, born), NEW i \in Ids
  PROVE  /\ i \in Under(c, i) /\ Under(c, i) \in SUBSET Ids
         /\ \A x \in Under(c, i) :
              x = i \/ (x # RootId /\ Exists(c, x) /\ c[x].parent \in Under(c, i))
         /\ \A x \in Under(c, i) : Children(c, x) \subseteq Under(c, i)
<1>0. PICK w : Within(c, i, w)
  BY UnderRun
<1>1. /\ w[0] = {i} /\ Under(c, i) = w[MaxDepth] /\ \A d \in 0..MaxDepth : w[d] \in SUBSET Ids
      /\ \A d \in 1..MaxDepth : w[d] = w[d-1] \cup UNION {Children(c, j) : j \in w[d-1]}
  BY <1>0 DEF Within
<1>2. MaxDepth \in Nat
  BY DepthAssumption
<1>3. ASSUME NEW e \in 0..MaxDepth
      PROVE  \A d \in e..MaxDepth : w[e] \subseteq w[d]
  <2>. DEFINE A == {k \in Nat : e + k <= MaxDepth => w[e] \subseteq w[e+k]}
  <2>1. 0 \in A
    BY <1>2
  <2>2. ASSUME NEW k \in A
        PROVE  k + 1 \in A
    <3>. SUFFICES ASSUME e + (k + 1) <= MaxDepth
                  PROVE  w[e] \subseteq w[e + (k + 1)]
      OBVIOUS
    <3>1. e + (k + 1) \in 1..MaxDepth /\ (e + (k + 1)) - 1 = e + k /\ e + k <= MaxDepth
      BY <1>2
    <3>2. w[e + k] \subseteq w[e + (k + 1)]
      BY <1>1, <3>1
    <3>. QED
      BY <3>1, <3>2
  <2>3. A = Nat
    <3>. HIDE DEF A
    <3>. QED
      BY <2>1, <2>2, Induction DEF A
  <2>. TAKE d \in e..MaxDepth
  <2>4. d - e \in Nat /\ e + (d - e) = d /\ d <= MaxDepth
    BY <1>2
  <2>. QED
    BY <2>3, <2>4
<1>4. i \in Under(c, i)
  <2>1. 0 \in 0..MaxDepth /\ MaxDepth \in 0..MaxDepth
    BY <1>2
  <2>. QED
    BY <1>1, <1>3, <2>1
<1>5. Under(c, i) \in SUBSET Ids
  BY <1>1, <1>2
<1>. DEFINE Level(x) == Len(born[x])
            Good(x) == /\ x \in Ids /\ Level(x) >= Level(i) /\ x \in w[Level(x) - Level(i)]
                       /\ x = i \/ (x # RootId /\ Exists(c, x) /\ c[x].parent \in Under(c, i))
            S == [d \in 0..MaxDepth |-> {X \in SUBSET Ids : \A x \in X : Good(x)}]
<1>6. /\ \A x \in Ids : Level(x) \in Nat /\ Level(x) <= MaxDepth
      /\ \A x \in Ids : \A y \in Children(c, x) :
           y \in Ids \ {RootId} /\ Exists(c, y) /\ Level(y) = Level(x) + 1
  BY FileLevel
<1>. HIDE DEF Level
<1>7. ASSUME NEW x \in Ids, NEW y \in Children(c, x), Level(x) >= Level(i),
             x \in w[Level(x) - Level(i)]
      PROVE  Level(y) >= Level(i) /\ y \in w[Level(y) - Level(i)] /\ y \in Under(c, i)
  <2>1. Level(y) = Level(x) + 1 /\ Level(y) <= MaxDepth /\ Level(x) \in Nat /\ Level(i) \in Nat
    BY <1>6
  <2>2. PICK d \in 1..MaxDepth : d = Level(y) - Level(i) /\ d - 1 = Level(x) - Level(i)
    BY <1>2, <1>7, <2>1
  <2>3. y \in w[d]
    BY <1>1, <1>7, <2>2
  <2>4. w[d] \subseteq w[MaxDepth]
    <3>1. d \in 0..MaxDepth /\ MaxDepth \in d..MaxDepth
      BY <1>2
    <3>. QED
      BY <1>3, <3>1
  <2>. QED
    BY <1>1, <1>7, <2>1, <2>2, <2>3, <2>4
<1>8. w[0] \in S[0]
  <2>1. Level(i) \in Nat /\ Level(i) - Level(i) = 0
    BY <1>6
  <2>2. Good(i) /\ 0 \in 0..MaxDepth
    BY <1>1, <1>2, <2>1
  <2>. HIDE DEF Good
  <2>. QED
    BY <1>1, <2>2
<1>9. ASSUME NEW d \in 1..MaxDepth, w[d-1] \in S[d-1]
      PROVE  w[d] \in S[d]
  <2>1. d - 1 \in 0..MaxDepth /\ d \in 0..MaxDepth
    BY <1>2
  <2>2. w[d-1] \in SUBSET Ids /\ \A x \in w[d-1] : Good(x)
    BY <1>9, <2>1
  <2>3. ASSUME NEW y \in w[d]
        PROVE  Good(y)
    <3>1. CASE y \in w[d-1]
      BY <2>2, <3>1
    <3>2. CASE y \notin w[d-1]
      <4>1. PICK x \in w[d-1] : y \in Children(c, x)
        BY <1>1, <3>2
      <4>2. x \in Ids /\ Level(x) >= Level(i) /\ x \in w[Level(x) - Level(i)]
        BY <2>2, <4>1
      <4>3. Level(y) >= Level(i) /\ y \in w[Level(y) - Level(i)]
        BY <1>7, <4>1, <4>2
      <4>4. x \in Under(c, i)
        <5>1. MaxDepth \in (d-1)..MaxDepth
          BY <1>2
        <5>. QED
          BY <1>1, <1>3, <2>1, <5>1
      <4>5. y \in Ids \ {RootId} /\ Exists(c, y) /\ c[y].parent = x
        BY <4>1 DEF Children
      <4>. QED
        BY <4>3, <4>4, <4>5
    <3>. QED
      BY <3>1, <3>2
  <2>4. w[d] \in SUBSET Ids
    BY <1>1, <2>1
  <2>. HIDE DEF Good
  <2>. QED
    BY <2>1, <2>3, <2>4
<1>10. \A x \in Under(c, i) : Good(x)
  <2>1. \A d \in 0..MaxDepth : w[d] \in S[d]
    <3>. HIDE DEF S
    <3>. QED
      BY <1>2, <1>8, <1>9, LoopStays
  <2>2. MaxDepth \in 0..MaxDepth
    BY <1>2
  <2>. HIDE DEF Good
  <2>. QED
    BY <1>1, <2>1, <2>2
<1>11. ASSUME NEW x \in Under(c, i), NEW y \in Children(c, x)
       PROVE  y \in Under(c, i)
  BY <1>7, <1>10, <1>11
<1>. QED
  BY <1>4, <1>5, <1>10, <1>11

\* Nothing is below a file but what the folders of a closed set have.
LEMMA UnderLeast ==
  ASSUME NEW c, NEW i \in Ids, NEW X \in SUBSET Ids, i \in X,
         \A x \in X : Children(c, x) \subseteq X
  PROVE  Under(c, i) \subseteq X
<1>0. PICK w : Within(c, i, w)
  BY UnderRun
<1>1. /\ w[0] = {i} /\ Under(c, i) = w[MaxDepth] /\ \A d \in 0..MaxDepth : w[d] \in SUBSET Ids
      /\ \A d \in 1..MaxDepth : w[d] = w[d-1] \cup UNION {Children(c, j) : j \in w[d-1]}
  BY <1>0 DEF Within
<1>2. MaxDepth \in Nat
  BY DepthAssumption
<1>. DEFINE S == [d \in 0..MaxDepth |-> SUBSET X]
<1>3. w[0] \in S[0]
  BY <1>1, <1>2
<1>4. ASSUME NEW d \in 1..MaxDepth, w[d-1] \in S[d-1]
      PROVE  w[d] \in S[d]
  <2>1. d - 1 \in 0..MaxDepth /\ d \in 0..MaxDepth
    BY <1>2
  <2>. QED
    BY <1>1, <1>4, <2>1
<1>5. \A d \in 0..MaxDepth : w[d] \in S[d]
  <2>. HIDE DEF S
  <2>. QED
    BY <1>2, <1>3, <1>4, LoopStays
<1>6. MaxDepth \in 0..MaxDepth
  BY <1>2
<1>. QED
  BY <1>1, <1>5, <1>6

\* What is below one that is below i is below i, also when files have gone.
LEMMA UnderBelow ==
  ASSUME NEW c \in Clouds, NEW born \in [Ids -> Paths], CloudOK(c, born), NEW i \in Ids,
         NEW d, \A x \in Ids : Exists(d, x) => d[x] = c[x], NEW j \in Under(c, i)
  PROVE  Under(d, j) \subseteq Under(c, i)
<1>1. /\ Under(c, i) \in SUBSET Ids
      /\ \A x \in Under(c, i) : Children(c, x) \subseteq Under(c, i)
  BY UnderFacts
<1>2. \A x \in Ids : Children(d, x) \subseteq Children(c, x)
  BY DEF Children, Exists
<1>. QED
  BY <1>1, <1>2, UnderLeast

-----------------------------------------------------------------------------
(* The order of the recursion of removeNodes. *)

\* A node is in one list.
LEMMA OneList ==
  ASSUME NEW h \in Heaps, NEW rt, NEW born, TreeOK(h, rt, born), NEW a \in Nodes, NEW b \in Nodes,
         NEW j \in 1..Len(h[a].next), NEW k \in 1..Len(h[b].next), h[a].next[j] = h[b].next[k]
  PROVE  a = b
<1>1. ListOK(h, rt, born, a) /\ ListOK(h, rt, born, b)
  BY DEF TreeOK
<1>2. h[h[a].next[j]].parent = a /\ h[h[b].next[k]].parent = b
  BY <1>1 DEF ListOK, Entered
<1>. QED
  BY <1>2
\* An entry is one level below its directory.
LEMMA Levels ==
  ASSUME NEW h \in Heaps, NEW rt, NEW born \in [Ids -> Paths], TreeOK(h, rt, born),
         NEW m \in Nodes, NEW k \in 1..Len(h[m].next)
  PROVE  /\ h[m].next[k] \in Nodes /\ h[h[m].next[k]].kind # "free"
         /\ Len(born[h[m].id]) \in Nat
         /\ Len(born[h[h[m].next[k]].id]) = Len(born[h[m].id]) + 1
<1>1. PICK e \in Nodes : e = h[m].next[k]
  BY DEF Heaps, NodeRecords
<1>2. Entered(h, rt, born, m, e)
  BY <1>1 DEF TreeOK, ListOK
<1>3. h[m].id \in Ids /\ h[e].name \in Names \cup {NoName}
  BY DEF Heaps, NodeRecords
<1>4. PICK p \in Seq(Names \cup {NoName}), x \in Names \cup {NoName} :
        p = born[h[m].id] /\ x = h[e].name
  <2>1. born[h[m].id] \in Seq(Names)
    BY <1>3, PathFacts
  <2>2. born[h[m].id] \in Seq(Names \cup {NoName})
    BY <2>1
  <2>. QED
    BY <1>3, <2>2
<1>5. Len(Append(p, x)) = Len(p) + 1 /\ Len(p) \in Nat
  OBVIOUS
<1>. QED
  BY <1>1, <1>2, <1>4, <1>5 DEF Entered
\* The nodes of a sequence, and that each is in it once.
Of(s) == {s[k] : k \in 1..Len(s)}
Once(s) == \A j, k \in 1..Len(s) : s[j] = s[k] => j = k

\* The entries of a node come before it in the sequence s of nodes.
EntriesFirst(h, s) ==
  \A k \in 1..Len(s) : \A j \in 1..Len(h[s[k]].next) : \E i \in 1..k-1 : s[i] = h[s[k]].next[j]

\* y is in the list of n.
Has(h, n, y) == \E k \in 1..Len(h[n].next) : h[n].next[k] = y

\* Of the nodes X each is m, or below it in the list of another of them.
Branch(h, born, m, X) ==
  /\ m \in X
  /\ \A y \in X : /\ y \in Nodes /\ h[y].kind # "free"
                  /\ y = m \/ /\ Len(born[h[y].id]) > Len(born[h[m].id])
                              /\ \E z \in X : Has(h, z, y)

\* s lists m last, and before it, entries first and once, all that is below it.
Lists(h, born, m, s) ==
  /\ s \in Seq(Nodes) /\ Len(s) >= 1 /\ s[Len(s)] = m
  /\ EntriesFirst(h, s) /\ Once(s) /\ Branch(h, born, m, Of(s))

\* The sequences of the entries of m, one after the other.
Concat(h, o, m) == Loop(LAMBDA s, k : s \o o[h[m].next[k]], <<>>, Len(h[m].next))

\* The level of a node.
LEMMA NodeLevel ==
  ASSUME NEW h \in Heaps, NEW born \in [Ids -> Paths], NEW y \in Nodes
  PROVE  Len(born[h[y].id]) \in Nat /\ Len(born[h[y].id]) <= MaxDepth
<1>1. h[y].id \in Ids
  BY DEF Heaps, NodeRecords
<1>2. born[h[y].id] \in Seq(Names) /\ Len(born[h[y].id]) <= MaxDepth
  BY <1>1, PathFacts
<1>. QED
  BY <1>2

\* No node of a branch is above where it starts.
LEMMA BranchLevel ==
  ASSUME NEW h \in Heaps, NEW born \in [Ids -> Paths], NEW m \in Nodes, NEW X,
         Branch(h, born, m, X), NEW y \in X
  PROVE  /\ Len(born[h[y].id]) \in Nat /\ Len(born[h[m].id]) \in Nat
         /\ Len(born[h[y].id]) >= Len(born[h[m].id])
<1>1. y \in Nodes /\ (y = m \/ Len(born[h[y].id]) > Len(born[h[m].id]))
  BY DEF Branch
<1>2. Len(born[h[y].id]) \in Nat /\ Len(born[h[m].id]) \in Nat
  BY <1>1, NodeLevel
<1>3. PICK a \in Nat, b \in Nat : a = Len(born[h[y].id]) /\ b = Len(born[h[m].id])
  BY <1>2
<1>4. CASE y = m
  BY <1>2, <1>3, <1>4
<1>5. CASE Len(born[h[y].id]) > Len(born[h[m].id])
  BY <1>2, <1>3, <1>5
<1>. QED
  BY <1>1, <1>4, <1>5

\* What is below one node is not below another of the same level.
LEMMA Apart ==
  ASSUME NEW h \in Heaps, NEW rt, NEW born \in [Ids -> Paths], TreeOK(h, rt, born),
         NEW a \in Nodes, NEW b \in Nodes, a # b, Len(born[h[a].id]) = Len(born[h[b].id]),
         NEW X, NEW Y, Branch(h, born, a, X), Branch(h, born, b, Y)
  PROVE  X \cap Y = {}
<1>. SUFFICES ASSUME X \cap Y # {}
              PROVE  FALSE
  OBVIOUS
<1>. DEFINE Level(y) == Len(born[h[y].id])
<1>1. \A y \in Nodes : Level(y) \in Nat
  BY NodeLevel
<1>2. X \subseteq Nodes /\ Y \subseteq Nodes
  BY DEF Branch
<1>3. PICK y \in X \cap Y : \A z \in X \cap Y : Level(y) <= Level(z)
  <2>. DEFINE S == {Level(z) : z \in X \cap Y}
  <2>1. S \in SUBSET Nat /\ S # {}
    BY <1>1, <1>2
  <2>2. PICK v \in S : \A u \in S : v <= u
    <3>. HIDE DEF S
    <3>. QED
      BY <2>1, Least
  <2>3. PICK y \in X \cap Y : v = Level(y)
    BY <2>2
  <2>. QED
    BY <2>2, <2>3
<1>4. y # a /\ y # b
  <2>1. /\ y = a \/ Level(y) > Level(a)
        /\ y = b \/ Level(y) > Level(b)
    BY <1>3 DEF Branch
  <2>2. Level(a) \in Nat /\ Level(a) = Level(b)
    BY <1>1
  <2>. HIDE DEF Level
  <2>. QED
    BY <2>1, <2>2
<1>5. PICK z \in X, u \in Y : Has(h, z, y) /\ Has(h, u, y)
  BY <1>3, <1>4 DEF Branch
<1>6. z = u
  BY <1>2, <1>5, OneList DEF Has
<1>7. Level(y) = Level(z) + 1 /\ Level(z) \in Nat
  BY <1>2, <1>5, Levels DEF Has
<1>8. Level(y) <= Level(z)
  BY <1>3, <1>5, <1>6
<1>. HIDE DEF Level
<1>. QED
  BY <1>7, <1>8

\* Two sequences with entries first make one.
LEMMA JoinFirst ==
  ASSUME NEW h \in Heaps, NEW s \in Seq(Nodes), NEW t \in Seq(Nodes),
         EntriesFirst(h, s), EntriesFirst(h, t)
  PROVE  EntriesFirst(h, s \o t)
<1>1. /\ Len(s) \in Nat /\ Len(t) \in Nat /\ Len(s \o t) = Len(s) + Len(t)
      /\ \A k \in 1..Len(s) : (s \o t)[k] = s[k]
      /\ \A k \in 1..Len(t) : (s \o t)[Len(s) + k] = t[k]
  OBVIOUS
<1>2. PICK u : u = s \o t
  OBVIOUS
<1>. SUFFICES ASSUME NEW k \in 1..Len(u), NEW j \in 1..Len(h[u[k]].next)
              PROVE  \E i \in 1..k-1 : u[i] = h[u[k]].next[j]
  BY <1>2 DEF EntriesFirst
<1>3. CASE k <= Len(s)
  <2>1. k \in 1..Len(s) /\ u[k] = s[k]
    BY <1>1, <1>2, <1>3
  <2>2. PICK i \in 1..k-1 : s[i] = h[s[k]].next[j]
    BY <2>1 DEF EntriesFirst
  <2>3. i \in 1..Len(s)
    BY <1>1, <1>3
  <2>. QED
    BY <1>1, <1>2, <2>1, <2>2, <2>3
<1>4. CASE ~(k <= Len(s))
  <2>1. PICK e \in 1..Len(t) : k = Len(s) + e
    <3>1. k - Len(s) \in 1..Len(t) /\ k = Len(s) + (k - Len(s))
      BY <1>1, <1>2, <1>4
    <3>. QED
      BY <3>1
  <2>2. u[k] = t[e]
    BY <1>1, <1>2, <2>1
  <2>3. PICK i \in 1..e-1 : t[i] = h[t[e]].next[j]
    BY <2>2 DEF EntriesFirst
  <2>4. i \in 1..Len(t) /\ Len(s) + i \in 1..k-1
    BY <1>1, <2>1
  <2>5. u[Len(s) + i] = t[i]
    BY <1>1, <1>2, <2>4
  <2>. QED
    BY <2>2, <2>3, <2>4, <2>5
<1>. QED
  BY <1>3, <1>4
\* The nodes of two sequences, one after the other.
LEMMA JoinOf ==
  ASSUME NEW s \in Seq(Nodes), NEW t \in Seq(Nodes)
  PROVE  /\ Of(s \o t) = Of(s) \cup Of(t)
         /\ Once(s) /\ Once(t) /\ Of(s) \cap Of(t) = {} => Once(s \o t)
<1>1. PICK u : u = s \o t
  OBVIOUS
<1>2. /\ Len(s) \in Nat /\ Len(t) \in Nat /\ Len(u) = Len(s) + Len(t)
      /\ \A k \in 1..Len(s) : u[k] = s[k]
      /\ \A k \in 1..Len(t) : u[Len(s) + k] = t[k]
  BY <1>1
<1>3. ASSUME NEW k \in 1..Len(u)
      PROVE  k \in 1..Len(s) \/ \E e \in 1..Len(t) : k = Len(s) + e
  <2>1. CASE k <= Len(s)
    BY <1>2, <2>1
  <2>2. CASE ~(k <= Len(s))
    <3>1. k - Len(s) \in 1..Len(t) /\ k = Len(s) + (k - Len(s))
      BY <1>2, <2>2
    <3>. QED
      BY <3>1
  <2>. QED
    BY <2>1, <2>2
<1>4. /\ \A k \in 1..Len(s) : k \in 1..Len(u)
      /\ \A k \in 1..Len(t) : Len(s) + k \in 1..Len(u)
  BY <1>2
<1>5. Of(u) = Of(s) \cup Of(t)
  <2>1. Of(u) \subseteq Of(s) \cup Of(t)
    <3>. SUFFICES ASSUME NEW k \in 1..Len(u)
                  PROVE  u[k] \in Of(s) \cup Of(t)
      BY DEF Of
    <3>1. CASE k \in 1..Len(s)
      BY <1>2, <3>1 DEF Of
    <3>2. ASSUME NEW e \in 1..Len(t), k = Len(s) + e
          PROVE  u[k] \in Of(t)
      BY <1>2, <3>2 DEF Of
    <3>. QED
      BY <1>3, <3>1, <3>2
  <2>2. Of(s) \subseteq Of(u)
    BY <1>2, <1>4 DEF Of
  <2>3. Of(t) \subseteq Of(u)
    BY <1>2, <1>4 DEF Of
  <2>. QED
    BY <2>1, <2>2, <2>3
<1>6. ASSUME Once(s), Once(t), Of(s) \cap Of(t) = {}
      PROVE  Once(u)
  <2>. SUFFICES ASSUME NEW j \in 1..Len(u), NEW k \in 1..Len(u), u[j] = u[k]
                PROVE  j = k
    BY DEF Once
  <2>1. CASE j \in 1..Len(s) /\ k \in 1..Len(s)
    BY <1>2, <1>6, <2>1 DEF Once
  <2>2. ASSUME NEW d \in 1..Len(t), NEW e \in 1..Len(t), j = Len(s) + d, k = Len(s) + e
        PROVE  j = k
    <3>1. t[d] = t[e]
      BY <1>2, <2>2
    <3>. QED
      BY <1>6, <2>2, <3>1 DEF Once
  <2>3. \A d \in 1..Len(s) : \A e \in 1..Len(t) : s[d] # t[e]
    BY <1>6 DEF Of
  <2>4. ASSUME NEW d \in 1..Len(s), NEW e \in 1..Len(t)
        PROVE  u[d] # u[Len(s) + e]
    BY <1>2, <2>3
  <2>. QED
    BY <1>3, <2>1, <2>2, <2>4
<1>. QED
  BY <1>1, <1>5, <1>6

\* The sequences of its entries, and then the node itself, list a directory.
LEMMA ConcatLists ==
  ASSUME NEW h \in Heaps, NEW rt, NEW born \in [Ids -> Paths], TreeOK(h, rt, born),
         NEW o \in [Nodes -> Seq(Nodes)], NEW m \in Nodes
  PROVE  /\ Concat(h, o, m) \in Seq(Nodes)
         /\ h[m].kind # "free"
            /\ (\A k \in 1..Len(h[m].next) : Lists(h, born, h[m].next[k], o[h[m].next[k]]))
              => Lists(h, born, m, Concat(h, o, m) \o <<m>>)
<1>. DEFINE L == Len(h[m].next)
            Good == \A k \in 1..L : Lists(h, born, h[m].next[k], o[h[m].next[k]])
            Parts(k) == UNION {Of(o[h[m].next[j]]) : j \in 1..k}
            Fine(s, k) == Of(s) = Parts(k) /\ EntriesFirst(h, s) /\ Once(s)
            Turn(s, k) == s \o o[h[m].next[k]]
            S == [k \in 0..L |-> {s \in Seq(Nodes) : Good => Fine(s, k)}]
            F == [x \in Seq(Nodes) \X (1..L) |-> Turn(x[1], x[2])]
            Eq(g) == g = [k \in 0..L |-> IF k = 0 THEN <<>> ELSE Turn(g[k-1], k)]
<1>1. L \in Nat /\ \A k \in 1..L : h[m].next[k] \in Nodes
  BY DEF Heaps, NodeRecords
<1>2. ASSUME NEW k \in 1..L, NEW s \in S[k-1]
      PROVE  s \in Seq(Nodes) /\ Turn(s, k) \in S[k]
  <2>1. k - 1 \in 0..L /\ k \in 0..L
    BY <1>1
  <2>2. s \in Seq(Nodes) /\ (Good => Fine(s, k - 1))
    <3>. HIDE DEF Good, Fine, L
    <3>. QED
      BY <1>2, <2>1
  <2>3. PICK e \in Nodes : e = h[m].next[k]
    BY <1>1
  <2>4. PICK t \in Seq(Nodes) : t = o[e]
    OBVIOUS
  <2>. HIDE DEF S, Good
  <2>5. PICK u \in Seq(Nodes) : u = s \o t
    <3>1. s \in Seq(Nodes)
      BY <2>2
    <3>. HIDE DEF Fine
    <3>2. s \o t \in Seq(Nodes)
      BY <3>1
    <3>. QED
      BY <3>2
  <2>6. ASSUME Good
        PROVE  Fine(u, k)
    <3>1. Of(s) = Parts(k - 1) /\ EntriesFirst(h, s) /\ Once(s)
      BY <2>2, <2>6
    <3>2. Lists(h, born, e, t)
      BY <2>3, <2>4, <2>6 DEF Good
    <3>3. EntriesFirst(h, t) /\ Once(t) /\ Branch(h, born, e, Of(t))
      BY <3>2 DEF Lists
    <3>. HIDE DEF Parts
    <3>4. EntriesFirst(h, u)
      BY <2>2, <2>5, <3>1, <3>3, JoinFirst
    <3>5. Parts(k) = Parts(k - 1) \cup Of(t)
      <4>1. 1..k = (1..k-1) \cup {k}
        BY <1>1
      <4>. QED
        BY <2>3, <2>4, <4>1 DEF Parts
    <3>6. Of(s) \cap Of(t) = {}
      <4>. SUFFICES ASSUME NEW j \in 1..k-1
                    PROVE  Of(o[h[m].next[j]]) \cap Of(t) = {}
        BY <3>1 DEF Parts
      <4>1. j \in 1..L /\ j # k
        BY <1>1
      <4>2. PICK a \in Nodes : a = h[m].next[j]
        BY <1>1, <4>1
      <4>3. a # e
        BY <2>3, <4>1, <4>2 DEF TreeOK, ListOK
      <4>4. Len(born[h[a].id]) = Len(born[h[e].id])
        BY <2>3, <4>1, <4>2, Levels
      <4>5. Branch(h, born, a, Of(o[a]))
        BY <2>6, <4>1, <4>2 DEF Good, Lists
      <4>6. Of(o[a]) \cap Of(t) = {}
        <5>1. PICK X, Y : X = Of(o[a]) /\ Y = Of(t)
          OBVIOUS
        <5>2. Branch(h, born, a, X) /\ Branch(h, born, e, Y)
          BY <3>3, <4>5, <5>1
        <5>3. X \cap Y = {}
          BY <4>3, <4>4, <5>2, Apart
        <5>. QED
          BY <5>1, <5>3
      <4>. QED
        BY <4>2, <4>6
    <3>7. Of(u) = Of(s) \cup Of(t) /\ Once(u)
      BY <2>2, <2>5, <3>1, <3>3, <3>6, JoinOf
    <3>. QED
      BY <3>1, <3>4, <3>5, <3>7
  <2>7. Turn(s, k) = u
    BY <2>3, <2>4, <2>5
  <2>. HIDE DEF Turn, Fine
  <2>. QED
    BY <2>1, <2>2, <2>5, <2>6, <2>7 DEF S
<1>3. <<>> \in S[0]
  <2>1. <<>> \in Seq(Nodes) /\ Len(<<>>) = 0 /\ 0 \in 0..L
    BY <1>1
  <2>2. Parts(0) = {} /\ Of(<<>>) = {} /\ EntriesFirst(h, <<>>) /\ Once(<<>>)
    BY <2>1 DEF EntriesFirst, Of, Once
  <2>. HIDE DEF Good, Parts
  <2>. QED
    BY <2>1, <2>2
<1>4. PICK g : Eq(g)
  <2>1. \A k \in 1..L : \A x \in S[k-1] : F[<<x, k>>] \in S[k]
    <3>. HIDE DEF S, Turn
    <3>. QED
      BY <1>2
  <2>2. Runs(L, S, <<>>, F) # {}
    <3>. HIDE DEF F, S, L
    <3>. QED
      BY <1>1, <1>3, <2>1, LoopRuns
  <2>3. PICK g \in [0..L -> UNION {S[k] : k \in 0..L}] :
           /\ g[0] = <<>> /\ \A k \in 1..L : g[k] = F[<<g[k-1], k>>]
           /\ \A k \in 0..L : g[k] \in S[k]
    BY <2>2 DEF Runs
  <2>. HIDE DEF S
  <2>4. ASSUME NEW k \in 1..L
        PROVE  g[k] = Turn(g[k-1], k)
    <3>1. k - 1 \in 0..L
      BY <1>1
    <3>2. g[k-1] \in Seq(Nodes)
      BY <1>2, <2>3, <3>1
    <3>. QED
      BY <2>3, <3>2
  <2>5. 0 \notin 1..L /\ 0..L = {0} \cup (1..L)
    BY <1>1, ZeroFirst
  <2>. HIDE DEF Turn
  <2>6. Eq(g)
    BY <2>3, <2>4, <2>5
  <2>. QED
    BY <2>6
<1>. DEFINE at == CHOOSE f : Eq(f)
<1>5. Eq(at)
  BY <1>4
<1>6. at[0] = <<>> /\ \A k \in 1..L : at[k] = Turn(at[k-1], k)
  <2>. HIDE DEF at, Turn
  <2>1. at = [k \in 0..L |-> IF k = 0 THEN <<>> ELSE Turn(at[k-1], k)]
    BY <1>5
  <2>2. 0 \in 0..L /\ \A k \in 1..L : k \in 0..L /\ k # 0
    BY <1>1
  <2>. QED
    BY <2>1, <2>2
<1>7. at[L] \in S[L]
  <2>1. \A k \in 1..L : at[k-1] \in S[k-1] => at[k] \in S[k]
    <3>. HIDE DEF S, at, Turn
    <3>. QED
      BY <1>2, <1>6
  <2>. HIDE DEF S, L, at
  <2>2. \A k \in 0..L : at[k] \in S[k]
    BY <1>1, <1>3, <1>6, <2>1, LoopStays
  <2>. QED
    BY <1>1, <2>2
<1>8. Concat(h, o, m) = at[L]
  BY DEF Concat, Loop, Turns
<1>. HIDE DEF at, Turn
<1>9. L \in 0..L
  BY <1>1
<1>10. PICK s \in Seq(Nodes) : s = Concat(h, o, m) /\ (Good => Fine(s, L))
  <2>. HIDE DEF Good, Fine, L
  <2>. QED
    BY <1>7, <1>8, <1>9
<1>11. ASSUME h[m].kind # "free", Good
       PROVE  Lists(h, born, m, s \o <<m>>)
  <2>0. Of(s) = Parts(L) /\ EntriesFirst(h, s) /\ Once(s)
    BY <1>10, <1>11
  <2>1. PICK t \in Seq(Nodes) : t = <<m>>
    <3>1. <<m>> \in Seq(Nodes)
      OBVIOUS
    <3>. QED
      BY <3>1
  <2>2. PICK u \in Seq(Nodes) : u = s \o t
    <3>1. s \o t \in Seq(Nodes)
      OBVIOUS
    <3>. QED
      BY <3>1
  <2>3. /\ Len(s) \in Nat /\ Len(u) = Len(s) + 1 /\ u[Len(s) + 1] = m
        /\ \A i \in 1..Len(s) : u[i] = s[i]
    BY <2>1, <2>2
  <2>4. Of(t) = {m} /\ Once(t)
    BY <2>1 DEF Of, Once
  <2>5. ASSUME NEW j \in 1..L
        PROVE  /\ h[m].next[j] \in Of(s) /\ Branch(h, born, h[m].next[j], Of(o[h[m].next[j]]))
               /\ Of(o[h[m].next[j]]) \subseteq Of(s)
               /\ Len(born[h[h[m].next[j]].id]) > Len(born[h[m].id])
    <3>1. Lists(h, born, h[m].next[j], o[h[m].next[j]])
      BY <1>11
    <3>2. Len(born[h[h[m].next[j]].id]) > Len(born[h[m].id])
      <4>1. /\ Len(born[h[m].id]) \in Nat
            /\ Len(born[h[h[m].next[j]].id]) = Len(born[h[m].id]) + 1
        BY Levels
      <4>. QED
        BY <4>1
    <3>3. Of(o[h[m].next[j]]) \subseteq Of(s)
      BY <2>0
    <3>. QED
      BY <3>1, <3>2, <3>3 DEF Lists, Branch
  <2>6. ASSUME NEW y \in Of(s)
        PROVE  /\ y \in Nodes /\ h[y].kind # "free" /\ Len(born[h[y].id]) > Len(born[h[m].id])
               /\ \E z \in Of(s) \cup {m} : Has(h, z, y)
    <3>1. PICK j \in 1..L : y \in Of(o[h[m].next[j]])
      BY <2>0, <2>6
    <3>2. PICK e \in Nodes : e = h[m].next[j]
      BY <1>1
    <3>3. /\ y \in Nodes /\ h[y].kind # "free"
          /\ y = e \/ /\ Len(born[h[y].id]) > Len(born[h[e].id])
                      /\ \E z \in Of(o[e]) : Has(h, z, y)
      BY <2>5, <3>1, <3>2 DEF Branch
    <3>4. Len(born[h[y].id]) > Len(born[h[m].id])
      <4>1. Len(born[h[e].id]) > Len(born[h[m].id])
        BY <2>5, <3>2
      <4>2. /\ Len(born[h[y].id]) \in Nat /\ Len(born[h[e].id]) \in Nat
            /\ Len(born[h[m].id]) \in Nat
        BY <3>3, NodeLevel
      <4>3. \A a, b, d \in Nat : b > d /\ (a = b \/ a > b) => a > d
        OBVIOUS
      <4>4. Len(born[h[y].id]) = Len(born[h[e].id]) \/ Len(born[h[y].id]) > Len(born[h[e].id])
        BY <3>3
      <4>. QED
        BY <4>1, <4>2, <4>3, <4>4
    <3>5. \E z \in Of(s) \cup {m} : Has(h, z, y)
      <4>1. CASE y = e
        BY <3>2, <4>1 DEF Has
      <4>2. CASE y # e
        BY <2>5, <3>2, <3>3, <4>2
      <4>. QED
        BY <4>1, <4>2
    <3>. QED
      BY <3>3, <3>4, <3>5
  <2>. HIDE DEF Good, L, Parts
  <2>7. m \notin Of(s)
    <3>1. Len(born[h[m].id]) \in Nat
      BY NodeLevel
    <3>. QED
      BY <2>6, <3>1
  <2>8. Of(u) = Of(s) \cup {m} /\ Once(u)
    <3>1. Of(s) \cap Of(t) = {}
      BY <2>4, <2>7
    <3>. QED
      BY <2>0, <2>2, <2>4, <3>1, JoinOf
  <2>9. ASSUME NEW k \in 1..Len(u), NEW j \in 1..Len(h[u[k]].next)
        PROVE  \E i \in 1..k-1 : u[i] = h[u[k]].next[j]
    <3>1. CASE k = Len(s) + 1
      <4>1. u[k] = m /\ k - 1 = Len(s)
        BY <2>3, <3>1
      <4>2. PICK i \in 1..Len(s) : s[i] = h[m].next[j]
        BY <2>5, <2>9, <4>1 DEF Of, L
      <4>. QED
        BY <2>3, <4>1, <4>2
    <3>2. CASE k # Len(s) + 1
      <4>1. k \in 1..Len(s) /\ u[k] = s[k]
        BY <2>3, <3>2
      <4>2. PICK i \in 1..k-1 : s[i] = h[s[k]].next[j]
        BY <2>0, <2>9, <4>1 DEF EntriesFirst
      <4>3. i \in 1..Len(s)
        BY <2>3, <4>1
      <4>. QED
        BY <2>3, <4>1, <4>2, <4>3
    <3>. QED
      BY <3>1, <3>2
  <2>10. Branch(h, born, m, Of(u))
    BY <1>11, <2>6, <2>8 DEF Branch
  <2>11. Len(u) >= 1 /\ u[Len(u)] = m
    BY <2>3
  <2>12. Lists(h, born, m, u)
    BY <2>8, <2>9, <2>10, <2>11 DEF Lists, EntriesFirst
  <2>. QED
    BY <2>1, <2>2, <2>12
<1>. QED
  BY <1>10, <1>11

\* The order of the recursion lists every directory after its entries: no node is
\* deeper than the longest path.
LEMMA PostOrderLists ==
  ASSUME NEW h \in Heaps, NEW rt, NEW born \in [Ids -> Paths], TreeOK(h, rt, born),
         NEW m \in Nodes, h[m].kind # "free"
  PROVE  Lists(h, born, m, PostOrder(h, m))
<1>. DEFINE D == MaxDepth + 1
            T == [Nodes -> Seq(Nodes)]
            Level(y) == Len(born[h[y].id])
            Good(d, o) == \A y \in Nodes :
                            h[y].kind # "free" /\ d + Level(y) >= D => Lists(h, born, y, o[y])
            S == [d \in 0..D |-> {o \in T : Good(d, o)}]
            b == [y \in Nodes |-> <<y>>]
            Turn(o) == [y \in Nodes |-> Concat(h, o, y) \o <<y>>]
            F == [x \in T \X (1..D) |-> Turn(x[1])]
            Eq(g) == g = [d \in 0..D |-> [y \in Nodes |-> IF d = 0 THEN <<y>>
                                                          ELSE Concat(h, g[d-1], y) \o <<y>>]]
<1>1. D \in Nat
  BY DepthAssumption
<1>2. ASSUME NEW y \in Nodes
      PROVE  Level(y) \in Nat /\ Level(y) <= MaxDepth
  <2>1. h[y].id \in Ids
    BY DEF Heaps, NodeRecords
  <2>2. born[h[y].id] \in Paths
    BY <2>1
  <2>3. born[h[y].id] \in Seq(Names) /\ Len(born[h[y].id]) <= MaxDepth
    BY <2>2, PathFacts
  <2>. QED
    BY <2>3
<1>3. b \in S[0]
  <2>1. b \in T
    OBVIOUS
  <2>2. \A y \in Nodes : ~(0 + Level(y) >= D)
    <3>. HIDE DEF Level
    <3>. QED
      BY <1>2, DepthAssumption
  <2>3. 0 \in 0..D
    BY <1>1
  <2>. HIDE DEF b, T, Level, D
  <2>. QED
    BY <2>1, <2>2, <2>3
<1>4. ASSUME NEW d \in 1..D, NEW o \in S[d-1]
      PROVE  o \in T /\ Turn(o) \in S[d]
  <2>1. d - 1 \in 0..D /\ d \in 0..D
    BY <1>1
  <2>2. o \in T /\ Good(d - 1, o)
    <3>. HIDE DEF T, D, Good
    <3>. QED
      BY <1>4, <2>1
  <2>. HIDE DEF S
  <2>3. ASSUME NEW y \in Nodes
        PROVE  /\ Concat(h, o, y) \o <<y>> \in Seq(Nodes)
               /\ h[y].kind # "free" /\ d + Level(y) >= D =>
                    Lists(h, born, y, Concat(h, o, y) \o <<y>>)
    <3>1. /\ Concat(h, o, y) \in Seq(Nodes)
          /\ h[y].kind # "free"
             /\ (\A k \in 1..Len(h[y].next) : Lists(h, born, h[y].next[k], o[h[y].next[k]]))
               => Lists(h, born, y, Concat(h, o, y) \o <<y>>)
      BY <2>2, ConcatLists
    <3>2. Concat(h, o, y) \o <<y>> \in Seq(Nodes)
      BY <3>1
    <3>3. ASSUME d + Level(y) >= D, NEW k \in 1..Len(h[y].next)
          PROVE  Lists(h, born, h[y].next[k], o[h[y].next[k]])
      <4>1. /\ h[y].next[k] \in Nodes /\ h[h[y].next[k]].kind # "free"
            /\ Level(h[y].next[k]) = Level(y) + 1 /\ Level(y) \in Nat
        BY Levels
      <4>2. PICK e \in Nodes : e = h[y].next[k]
        BY <4>1
      <4>3. (d - 1) + Level(e) >= D
        <5>1. \A i, j \in Nat : d + i >= D /\ j = i + 1 => (d - 1) + j >= D
          BY <1>1
        <5>2. Level(e) = Level(y) + 1 /\ Level(e) \in Nat
          BY <1>2, <4>1, <4>2
        <5>. HIDE DEF Level, D
        <5>. QED
          BY <3>3, <4>1, <5>1, <5>2
      <4>. QED
        BY <2>2, <4>1, <4>2, <4>3
    <3>. QED
      BY <3>1, <3>2, <3>3
  <2>4. Turn(o) \in T
    BY <2>3
  <2>5. Good(d, Turn(o))
    BY <2>3
  <2>. QED
    BY <2>1, <2>2, <2>4, <2>5 DEF S
<1>5. PICK g : Eq(g)
  <2>1. \A k \in 1..D : \A x \in S[k-1] : F[<<x, k>>] \in S[k]
    <3>. SUFFICES ASSUME NEW k \in 1..D, NEW x \in S[k-1]
                  PROVE  F[<<x, k>>] \in S[k]
      OBVIOUS
    <3>1. x \in T /\ Turn(x) \in S[k]
      BY <1>4
    <3>. HIDE DEF T, Turn, S, D
    <3>. QED
      BY <3>1
  <2>2. Runs(D, S, b, F) # {}
    <3>. HIDE DEF F, S, D, b
    <3>. QED
      BY <1>1, <1>3, <2>1, LoopRuns
  <2>3. PICK g \in [0..D -> UNION {S[k] : k \in 0..D}] :
           /\ g[0] = b /\ \A k \in 1..D : g[k] = F[<<g[k-1], k>>]
           /\ \A k \in 0..D : g[k] \in S[k]
    BY <2>2 DEF Runs
  <2>. HIDE DEF S
  <2>4. ASSUME NEW k \in 1..D
        PROVE  g[k] = Turn(g[k-1])
    <3>1. k - 1 \in 0..D
      BY <1>1
    <3>2. g[k-1] \in T
      BY <1>4, <2>3, <3>1
    <3>. HIDE DEF T, Turn, D
    <3>. QED
      BY <2>3, <3>2
  <2>5. 0 \notin 1..D /\ 0..D = {0} \cup (1..D)
    BY <1>1
  <2>6. \A k \in 0..D : g[k] = [y \in Nodes |-> IF k = 0 THEN <<y>>
                                                ELSE Concat(h, g[k-1], y) \o <<y>>]
    <3>. SUFFICES ASSUME NEW k \in 0..D
                  PROVE  g[k] = [y \in Nodes |-> IF k = 0 THEN <<y>>
                                                ELSE Concat(h, g[k-1], y) \o <<y>>]
      OBVIOUS
    <3>1. CASE k = 0
      BY <2>3, <3>1
    <3>2. CASE k # 0
      <4>1. k \in 1..D
        BY <2>5, <3>2
      <4>. QED
        BY <2>4, <3>2, <4>1
    <3>. QED
      BY <3>1, <3>2
  <2>7. Eq(g)
    <3>. HIDE DEF D, b, F
    <3>. QED
      BY <2>3, <2>6
  <2>. QED
    BY <2>7
<1>. DEFINE at == CHOOSE f : Eq(f)
<1>6. Eq(at)
  BY <1>5
<1>7. at[0] = b /\ \A k \in 1..D : at[k] = Turn(at[k-1])
  <2>. HIDE DEF at
  <2>1. at = [d \in 0..D |-> [y \in Nodes |-> IF d = 0 THEN <<y>>
                                              ELSE Concat(h, at[d-1], y) \o <<y>>]]
    BY <1>6
  <2>2. 0 \in 0..D /\ \A k \in 1..D : k \in 0..D /\ k # 0
    BY <1>1
  <2>. HIDE DEF D
  <2>. QED
    BY <2>1, <2>2
<1>8. at[D] \in S[D]
  <2>1. \A k \in 1..D : at[k-1] \in S[k-1] => at[k] \in S[k]
    <3>. HIDE DEF S, at, Turn, D
    <3>. QED
      BY <1>4, <1>7
  <2>2. at[0] \in S[0]
    <3>. HIDE DEF S, at, b
    <3>. QED
      BY <1>3, <1>7
  <2>. HIDE DEF S, D, at
  <2>3. \A k \in 0..D : at[k] \in S[k]
    BY <1>1, <2>1, <2>2, LoopStays
  <2>. QED
    BY <1>1, <2>3
<1>9. PostOrder(h, m) = at[D][m]
  BY DEF PostOrder, Concat, Loop, Turns
<1>. HIDE DEF at
<1>10. D \in 0..D
  BY <1>1
<1>11. Good(D, at[D])
  <2>. HIDE DEF T, Good, D
  <2>. QED
    BY <1>8, <1>10
<1>12. Level(m) \in Nat /\ D + Level(m) >= D
  <2>1. Level(m) \in Nat
    BY <1>2
  <2>. HIDE DEF Level, D
  <2>. QED
    BY <1>1, <2>1
<1>. QED
  BY <1>9, <1>11, <1>12

\* An entry of a listed node comes before it.
LEMMA EntryBefore ==
  ASSUME NEW h \in Heaps, NEW s \in Seq(Nodes), EntriesFirst(h, s), Once(s),
         NEW i \in 1..Len(s), NEW k \in 1..Len(s), Has(h, s[k], s[i])
  PROVE  i < k
<1>1. PICK j \in 1..Len(h[s[k]].next) : h[s[k]].next[j] = s[i]
  BY DEF Has
<1>2. PICK e \in 1..k-1 : s[e] = s[i]
  BY <1>1 DEF EntriesFirst
<1>3. e = i
  <2>1. e \in 1..Len(s)
    OBVIOUS
  <2>. QED
    BY <1>2, <2>1 DEF Once
<1>. QED
  BY <1>3

\* What is in the list of n is a level below n, and so its file, when both are there.
LEMMA EntryFile ==
  ASSUME NEW h \in Heaps, NEW rt, NEW c \in Clouds, NEW born \in [Ids -> Paths], CloudOK(c, born),
         NodesOK(h, rt, c), TreeOK(h, rt, born), NEW n \in Nodes, NEW y \in Nodes, Has(h, n, y)
  PROVE  /\ h[y].kind # "free" /\ y # rt /\ h[y].parent = n /\ h[y].id \in Ids \ {RootId}
         /\ Len(born[h[y].id]) = Len(born[h[n].id]) + 1 /\ Len(born[h[n].id]) \in Nat
         /\ Exists(c, h[y].id) => Exists(c, h[n].id) /\ h[y].id \in Children(c, h[n].id)
<1>1. PICK k \in 1..Len(h[n].next) : h[n].next[k] = y
  BY DEF Has
<1>2. h[y].kind # "free" /\ y # rt /\ h[y].parent = n
  BY <1>1 DEF TreeOK, ListOK, Entered
<1>3. Len(born[h[y].id]) = Len(born[h[n].id]) + 1 /\ Len(born[h[n].id]) \in Nat
  BY <1>1, Levels
<1>4. h[y].id \in Ids /\ h[y].id # RootId
  <2>1. Len(<<>>) = 0
    OBVIOUS
  <2>2. Len(born[h[y].id]) # 0
    BY <1>3
  <2>3. h[y].id \in Ids
    BY DEF Heaps, NodeRecords
  <2>. QED
    BY <2>1, <2>2, <2>3 DEF CloudOK
<1>5. ASSUME Exists(c, h[y].id)
      PROVE  Exists(c, h[n].id) /\ h[y].id \in Children(c, h[n].id)
  <2>1. c[h[y].id].parent = h[n].id
    BY <1>2, <1>5 DEF NodesOK, Filed
  <2>. QED
    BY <1>4, <1>5, <2>1 DEF CloudOK, Children
<1>. QED
  BY <1>2, <1>3, <1>4, <1>5

\* The files of what is below a node are below its file.
LEMMA BranchUnder ==
  ASSUME NEW h \in Heaps, NEW rt, NEW c \in Clouds, NEW born \in [Ids -> Paths], CloudOK(c, born),
         NodesOK(h, rt, c), TreeOK(h, rt, born), NEW m \in Nodes, NEW X, Branch(h, born, m, X)
  PROVE  \A y \in X : Exists(c, h[y].id) => h[y].id \in Under(c, h[m].id)
<1>. DEFINE Level(y) == Len(born[h[y].id])
            Good(y) == Exists(c, h[y].id) => h[y].id \in Under(c, h[m].id)
            A == {n \in Nat : \A y \in X : Level(y) <= n => Good(y)}
<1>1. X \subseteq Nodes /\ \A y \in Nodes : Level(y) \in Nat
  BY NodeLevel DEF Branch
<1>2. /\ h[m].id \in Under(c, h[m].id)
      /\ \A x \in Under(c, h[m].id) : Children(c, x) \subseteq Under(c, h[m].id)
  <2>1. h[m].id \in Ids
    BY DEF Heaps, NodeRecords
  <2>. QED
    BY <2>1, UnderFacts
<1>3. ASSUME NEW y \in X, y # m
      PROVE  \E z \in X : Level(y) = Level(z) + 1 /\ (Good(z) => Good(y))
  <2>1. PICK z \in X : Has(h, z, y)
    BY <1>3 DEF Branch
  <2>2. /\ Level(y) = Level(z) + 1
        /\ Exists(c, h[y].id) => Exists(c, h[z].id) /\ h[y].id \in Children(c, h[z].id)
    BY <1>1, <2>1, EntryFile
  <2>. QED
    BY <1>2, <2>2
<1>. HIDE DEF Level
<1>4. 0 \in A
  <2>. SUFFICES ASSUME NEW y \in X, Level(y) <= 0
                PROVE  Good(y)
    OBVIOUS
  <2>1. CASE y = m
    BY <1>2, <2>1
  <2>2. CASE y # m
    <3>1. PICK z \in X : Level(y) = Level(z) + 1
      BY <1>3, <2>2
    <3>2. Level(z) \in Nat
      BY <1>1
    <3>. QED
      BY <3>1, <3>2
  <2>. QED
    BY <2>1, <2>2
<1>5. ASSUME NEW n \in A
      PROVE  n + 1 \in A
  <2>. SUFFICES ASSUME NEW y \in X, Level(y) <= n + 1
                PROVE  Good(y)
    OBVIOUS
  <2>1. CASE y = m
    BY <1>2, <2>1
  <2>2. CASE y # m
    <3>1. PICK z \in X : Level(y) = Level(z) + 1 /\ (Good(z) => Good(y))
      BY <1>3, <2>2
    <3>2. Level(z) \in Nat
      BY <1>1
    <3>3. Level(z) <= n
      BY <3>1, <3>2
    <3>. HIDE DEF Good
    <3>. QED
      BY <3>1, <3>3
  <2>. QED
    BY <2>1, <2>2
<1>6. A = Nat
  <2>. HIDE DEF A
  <2>. QED
    BY <1>4, <1>5, Induction DEF A
<1>7. ASSUME NEW y \in X
      PROVE  Good(y)
  <2>1. Level(y) \in A /\ Level(y) <= Level(y)
    <3>1. Level(y) \in Nat
      BY <1>1
    <3>. HIDE DEF A
    <3>. QED
      BY <1>6, <3>1
  <2>. HIDE DEF Good
  <2>. QED
    BY <2>1
<1>. QED
  BY <1>7

=============================================================================
