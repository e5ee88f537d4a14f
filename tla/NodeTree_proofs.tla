--------------------------- MODULE NodeTree_proofs ---------------------------
(***************************************************************************)
(* Proofs about NodeTree when nothing is renamed, whatever fails.  Each    *)
(* file then has one path for good, born[i], and so has each node: the     *)
(* inductive invariant, Sound of NodeTreeShape_proofs, ties the drive, the *)
(* tree and the cache to those paths.  It is proved of what a handler      *)
(* holds after each call it makes, also after the one that throws, and so  *)
(* of every step.                                                          *)
(***************************************************************************)
EXTENDS NodeTreeShape_proofs

\* The files of the list of n, and whether they are all that the drive has.
IdsIn(h, n) == {h[h[n].next[k]].id : k \in 1..Len(h[n].next)}
Whole(c, h, n) == Children(c, h[n].id) \subseteq IdsIn(h, n)

\* Nothing has gone from c to d.
Lives(c, d) == \A i \in Ids : Exists(c, i) => d[i] = c[i]

\* What is marked as read from h to g is whole.
Fills(c, h, g) ==
  \A n \in Nodes : ~h[n].filled /\ g[n].filled => g[n].kind # "free" /\ Whole(c, g, n)

\* From r to s a handler has only looked.
Looks(r, s, born) ==
  /\ Sane(s, born) /\ s.cloud = r.cloud /\ (r.root # NoNode => s.root = r.root)
  /\ Kept(r.heap, s.heap) /\ Fills(r.cloud, r.heap, s.heap)

\* A directory that is kept keeps its files.
LEMMA IdsKept ==
  ASSUME NEW h \in Heaps, NEW g \in Heaps, NEW rt, NEW born, TreeOK(h, rt, born), Kept(h, g),
         NEW n \in Nodes, h[n].kind # "free"
  PROVE  IdsIn(h, n) \subseteq IdsIn(g, n)
<1>. SUFFICES ASSUME NEW k \in 1..Len(h[n].next)
              PROVE  h[h[n].next[k]].id \in IdsIn(g, n)
  BY DEF IdsIn
<1>1. h[n].next[k] \in Nodes /\ Len(h[n].next) \in Nat /\ Len(g[n].next) \in Nat
  BY DEF Heaps, NodeRecords
<1>2. h[h[n].next[k]].kind # "free"
  BY DEF TreeOK, ListOK, Entered
<1>3. KeptNode(h, g, n) /\ g[h[n].next[k]].id = h[h[n].next[k]].id
  BY <1>1, <1>2 DEF Kept, KeptNode
<1>4. k \in 1..Len(g[n].next) /\ g[n].next[k] = h[n].next[k]
  BY <1>1, <1>3 DEF KeptNode
<1>. QED
  BY <1>3, <1>4 DEF IdsIn

\* A handler that does nothing only looks.
LEMMA LooksRefl ==
  ASSUME NEW r, NEW born, Sane(r, born)
  PROVE  Looks(r, r, born)
BY DEF Looks, Kept, KeptNode, Fills, Sane, Handlers, Heaps, NodeRecords

\* Looking twice is looking: what the first look has marked as read is kept by
\* the second.
LEMMA LooksTrans ==
  ASSUME NEW r, NEW s, NEW t, NEW born, Sane(r, born), Looks(r, s, born), Looks(s, t, born)
  PROVE  Looks(r, t, born)
<1>1. r.heap \in Heaps /\ s.heap \in Heaps /\ t.heap \in Heaps /\ TreeOK(s.heap, s.root, born)
  BY DEF Looks, Sane, Handlers, Sound
<1>2. Kept(r.heap, t.heap)
  BY <1>1, KeptTrans DEF Looks
<1>3. ASSUME NEW n \in Nodes, ~r.heap[n].filled, t.heap[n].filled
      PROVE  t.heap[n].kind # "free" /\ Whole(r.cloud, t.heap, n)
  <2>1. CASE s.heap[n].filled
    <3>1. s.heap[n].kind # "free" /\ Whole(r.cloud, s.heap, n)
      BY <1>3, <2>1 DEF Looks, Fills
    <3>2. IdsIn(s.heap, n) \subseteq IdsIn(t.heap, n)
      BY <1>1, <3>1, IdsKept DEF Looks
    <3>3. t.heap[n].kind = s.heap[n].kind /\ t.heap[n].id = s.heap[n].id
      BY <3>1 DEF Looks, Kept, KeptNode
    <3>. QED
      BY <3>1, <3>2, <3>3 DEF Whole
  <2>2. CASE ~s.heap[n].filled
    BY <1>3, <2>2 DEF Looks, Fills
  <2>. QED
    BY <2>1, <2>2
<1>. QED
  BY <1>2, <1>3 DEF Looks, Fills

-----------------------------------------------------------------------------
(* fillDir. *)

\* From r to s entries of the directory n are fetched.
Fetches(r, s, born) ==
  /\ Looks(r, s, born) /\ s.root = r.root /\ s.byPath = r.byPath /\ s.pathOf = r.pathOf
  /\ s.ok => r.ok /\ s.res = r.res
  /\ \A x \in Nodes : s.heap[x].filled => r.heap[x].filled

\* An exception changes nothing of the tree.
LEMMA ThrowKeeps ==
  ASSUME NEW r, NEW born, Sane(r, born)
  PROVE  /\ Sane(Throw(r), born) /\ Fetches(r, Throw(r), born) /\ ~Throw(r).ok
         /\ Throw(r).heap = r.heap /\ Throw(r).res = NoNode
<1>1. Throw(r) \in Handlers
  BY DEF Throw, Sane, Handlers
<1>2. /\ Throw(r).cloud = r.cloud /\ Throw(r).heap = r.heap /\ Throw(r).root = r.root
      /\ Throw(r).byPath = r.byPath /\ Throw(r).pathOf = r.pathOf /\ ~Throw(r).ok
      /\ Throw(r).res = NoNode
  BY DEF Throw, Sane, Handlers
<1>3. Sane(Throw(r), born)
  BY <1>1, <1>2 DEF Sane
<1>4. Looks(r, r, born)
  BY LooksRefl
<1>. QED
  BY <1>2, <1>3, <1>4 DEF Looks, Fetches

\* A request that succeeds changes nothing of the tree.
LEMMA SpendKeeps ==
  ASSUME NEW r, NEW born, Sane(r, born), r.fuel # 0
  PROVE  /\ Sane(Spend(r), born) /\ Fetches(r, Spend(r), born)
         /\ Spend(r).ok = r.ok /\ Spend(r).heap = r.heap /\ Spend(r).res = r.res
<1>1. Spend(r) \in Handlers
  <2>1. r.fuel - 1 \in Int
    BY DEF Sane, Handlers
  <2>. QED
    BY <2>1 DEF Spend, Sane, Handlers
<1>2. /\ Spend(r).cloud = r.cloud /\ Spend(r).heap = r.heap /\ Spend(r).root = r.root
      /\ Spend(r).byPath = r.byPath /\ Spend(r).pathOf = r.pathOf /\ Spend(r).ok = r.ok
      /\ Spend(r).res = r.res
  BY DEF Spend, Sane, Handlers
<1>3. Sane(Spend(r), born)
  BY <1>1, <1>2 DEF Sane
<1>4. Looks(r, r, born)
  BY LooksRefl
<1>. QED
  BY <1>2, <1>3, <1>4 DEF Looks, Fetches

\* A change of the heap alone, that keeps what is in it.
LEMMA HeapKeeps ==
  ASSUME NEW r, NEW born, Sane(r, born), NEW g \in Heaps, r.root # NoNode,
         NodesOK(g, r.root, r.cloud), TreeOK(g, r.root, born), Kept(r.heap, g)
  PROVE  LET s == [r EXCEPT !.heap = g]
         IN /\ Sane(s, born) /\ s.heap = g /\ s.cloud = r.cloud /\ s.root = r.root
            /\ s.byPath = r.byPath /\ s.pathOf = r.pathOf /\ (s.ok <=> r.ok) /\ s.res = r.res
            /\ s.fuel = r.fuel
<1>1. PICK s : s = [r EXCEPT !.heap = g]
  OBVIOUS
<1>2. /\ s \in Handlers /\ s.heap = g /\ s.cloud = r.cloud /\ s.root = r.root
      /\ s.byPath = r.byPath /\ s.pathOf = r.pathOf /\ (s.ok <=> r.ok) /\ s.res = r.res
      /\ s.fuel = r.fuel
  BY <1>1 DEF Sane, Handlers
<1>3. CacheOK(g, r.root, r.byPath, r.pathOf)
  BY KeptCache DEF Sane, Sound, Handlers, CloudOK
<1>. QED
  BY <1>1, <1>2, <1>3 DEF Sane, Sound

\* The heap after the fetch of one entry.
LEMMA NewChildIs ==
  ASSUME NEW i \in Ids, NEW kind \in Kinds, NEW x \in Names \cup {NoName}, NEW n \in Nodes
  PROVE  NewChild([kind |-> kind, id |-> i, name |-> x, parent |-> n, filled |-> FALSE,
                   next |-> <<>>], i, x, n)
BY DEF NewChild, NodeRecords, Kinds

\* A new node gets an address that is free.
LEMMA NewNodeFacts ==
  ASSUME NEW h \in Heaps, Vacant(h) # {}
  PROVE  NewNode(h) \in Nodes /\ h[NewNode(h)] = Free
BY DEF NewNode, Vacant

\* One turn of fillDir's loop adds the file to the list, or throws.
LEMMA FetchChildKeeps ==
  ASSUME NEW r, NEW born, Sane(r, born), r.root # NoNode,
         NEW n \in Nodes, r.heap[n].kind # "free",
         NEW i, i \in Children(r.cloud, r.heap[n].id)
  PROVE  LET s == FetchChild(r, n, i)
         IN Fetches(r, s, born) /\ (s.ok => i \in IdsIn(s.heap, n))
<1>1. CASE ~r.ok
  BY <1>1, LooksRefl DEF FetchChild, Fetches
<1>2. CASE r.ok /\ (Vacant(r.heap) = {} \/ Fails(r, i))
  <2>1. FetchChild(r, n, i) = Throw(r)
    BY <1>2 DEF FetchChild
  <2>. QED
    BY <2>1, ThrowKeeps
<1>3. CASE r.ok /\ Vacant(r.heap) # {} /\ ~Fails(r, i)
  <2>1. PICK m \in Nodes : m = NewNode(r.heap) /\ r.heap[m] = Free
    BY <1>3, NewNodeFacts DEF Sane, Handlers
  <2>2. PICK t : t = Spend(r)
    OBVIOUS
  <2>3. /\ Sane(t, born) /\ Fetches(r, t, born) /\ t.ok = r.ok /\ t.heap = r.heap
        /\ t.res = r.res /\ t.root = r.root /\ t.cloud = r.cloud
    BY <1>3, <2>2, SpendKeeps DEF Fails, Fetches, Looks
  <2>4. /\ i \in Ids \ {RootId} /\ r.cloud[i].kind \in Kinds
        /\ r.cloud[i].parent = r.heap[n].id /\ r.cloud[i].name \in Names \cup {NoName}
    BY DEF Children, Exists, Sane, Handlers, Clouds, Entry
  <2>5. born[i] = Append(born[r.heap[n].id], r.cloud[i].name) /\ r.cloud[i].kind # "unborn"
    BY <2>4 DEF Sane, Sound, CloudOK, Exists, Kinds
  <2>6. PICK g : g = Linked(r.heap, n, m, NodeOf(r.cloud, i, n))
    OBVIOUS
  <2>7. /\ g \in Heaps /\ NodesOK(g, r.root, r.cloud) /\ TreeOK(g, r.root, born)
        /\ Kept(r.heap, g) /\ g[m].id = i /\ g[n].next = Append(r.heap[n].next, m)
        /\ \A y \in Nodes : g[y].filled => r.heap[y].filled
    <3>1. r.root \in Nodes /\ r.heap \in Heaps /\ born \in [Ids -> Paths]
      BY DEF Sane, Handlers, Sound
    <3>2. NodesOK(r.heap, r.root, r.cloud) /\ TreeOK(r.heap, r.root, born)
      BY DEF Sane, Sound
    <3>3. PICK node : node = NodeOf(r.cloud, i, n)
      OBVIOUS
    <3>4. NewChild(node, i, r.cloud[i].name, n)
      BY <2>4, <3>3, NewChildIs DEF NodeOf
    <3>5. g = Linked(r.heap, n, m, node) /\ i \in Ids
      BY <2>4, <2>6, <3>3
    <3>6. Grown(r.heap, r.root, r.cloud, born, n, m, node, g)
      BY <2>1, <2>4, <2>5, <3>1, <3>2, <3>4, <3>5, LinkedKeeps
    <3>. QED
      BY <3>4, <3>6 DEF Grown, NewChild
  <2>8. PICK s : s = [t EXCEPT !.heap = g]
    OBVIOUS
  <2>9. FetchChild(r, n, i) = s
    BY <1>3, <2>1, <2>2, <2>3, <2>6, <2>8 DEF FetchChild, AddNext
  <2>10. /\ Sane(s, born) /\ s.heap = g /\ s.cloud = t.cloud /\ s.root = t.root
         /\ s.byPath = t.byPath /\ s.pathOf = t.pathOf /\ (s.ok <=> t.ok) /\ s.res = t.res
    BY <2>3, <2>7, <2>8, HeapKeeps
  <2>11. Fills(r.cloud, r.heap, s.heap)
    BY <2>7, <2>10 DEF Fills
  <2>12. Fetches(r, s, born)
    BY <1>3, <2>3, <2>7, <2>10, <2>11 DEF Fetches, Looks
  <2>13. i \in IdsIn(s.heap, n)
    <3>1. Len(r.heap[n].next) \in Nat /\ r.heap[n].next \in Seq(Nodes)
      BY DEF Sane, Handlers, Heaps, NodeRecords
    <3>2. /\ Len(g[n].next) = Len(r.heap[n].next) + 1
          /\ g[n].next[Len(r.heap[n].next) + 1] = m
      BY <2>7, <3>1
    <3>3. Len(r.heap[n].next) + 1 \in 1..Len(g[n].next)
      BY <3>1, <3>2
    <3>. QED
      BY <2>7, <2>10, <3>2, <3>3 DEF IdsIn
  <2>. QED
    BY <2>9, <2>12, <2>13
<1>. QED
  BY <1>1, <1>2, <1>3

\* Fetching goes on after fetching.
LEMMA FetchesTrans ==
  ASSUME NEW r, NEW s, NEW t, NEW born, Sane(r, born), Fetches(r, s, born), Fetches(s, t, born)
  PROVE  Fetches(r, t, born)
<1>1. Looks(r, t, born)
  BY LooksTrans DEF Fetches
<1>. QED
  BY <1>1 DEF Fetches

\* SetToSeq lists a finite set.
LEMMA SetToSeqLists ==
  ASSUME NEW C, IsFiniteSet(C)
  PROVE  /\ SetToSeq(C) \in Seq(C)
         /\ \A i \in C : \E k \in 1..Len(SetToSeq(C)) : SetToSeq(C)[k] = i
<1>1. Cardinality(C) \in Nat /\ ExistsBijection(1..Cardinality(C), C)
  BY FS_CardinalityType
<1>2. PICK f \in [1..Cardinality(C) -> C] : IsInjective(f)
  <2>1. PICK f : f \in Bijection(1..Cardinality(C), C)
    BY <1>1 DEF ExistsBijection
  <2>. QED
    BY <2>1 DEF Bijection, Injection
<1>3. SetToSeq(C) \in [1..Cardinality(C) -> C] /\ IsInjective(SetToSeq(C))
  BY <1>2 DEF SetToSeq
<1>4. SetToSeq(C) \in Surjection(1..Cardinality(C), C)
  <2>1. SetToSeq(C) \in Injection(1..Cardinality(C), C)
    BY <1>3 DEF Injection
  <2>2. Cardinality(1..Cardinality(C)) = Cardinality(C)
    BY <1>1, FS_Interval
  <2>. QED
    BY <2>1, <2>2, FS_Injection
<1>5. SetToSeq(C) \in Seq(C) /\ Len(SetToSeq(C)) = Cardinality(C)
  BY <1>1, <1>3
<1>. QED
  BY <1>4, <1>5 DEF Surjection

\* fillDir's loop: when it ends without an exception the list has every child
\* of the drive.
LEMMA FetchChildrenKeeps ==
  ASSUME NEW r, NEW born, Sane(r, born), r.root # NoNode,
         NEW n \in Nodes, r.heap[n].kind # "free"
  PROVE  /\ Fetches(r, FetchChildren(r, n), born)
         /\ FetchChildren(r, n).ok =>
              Children(r.cloud, r.heap[n].id) \subseteq IdsIn(FetchChildren(r, n).heap, n)
<1>. DEFINE C == Children(r.cloud, r.heap[n].id)
<1>1. PICK ids : ids = SetToSeq(C)
  OBVIOUS
<1>2. ids \in Seq(C) /\ \A i \in C : \E k \in 1..Len(ids) : ids[k] = i
  <2>1. IsFiniteSet(C)
    BY IdsAssumption, FS_Subset DEF Children
  <2>. HIDE DEF C
  <2>. QED
    BY <1>1, <2>1, SetToSeqLists
<1>. DEFINE L == Len(ids)
            Turn(x, k) == FetchChild(x, n, ids[k])
            S == [k \in 0..L |->
                    {x \in Handlers :
                       /\ Fetches(r, x, born)
                       /\ x.ok => \A j \in 1..k : ids[j] \in IdsIn(x.heap, n)}]
            F == [x \in Handlers \X (1..L) |-> Turn(x[1], x[2])]
            Eq(g) == g = [k \in 0..L |-> IF k = 0 THEN r ELSE Turn(g[k-1], k)]
<1>3. L \in Nat /\ \A k \in 1..L : ids[k] \in C
  BY <1>2
<1>4. ASSUME NEW k \in 1..L, NEW x \in S[k-1]
      PROVE  x \in Handlers /\ Turn(x, k) \in S[k]
  <2>1. k - 1 \in 0..L /\ k \in 0..L
    BY <1>3
  <2>2. /\ x \in Handlers /\ Fetches(r, x, born)
        /\ x.ok => \A j \in 1..k-1 : ids[j] \in IdsIn(x.heap, n)
    BY <1>4, <2>1
  <2>3. /\ Sane(x, born) /\ x.root # NoNode /\ x.heap[n].kind # "free"
        /\ x.heap[n].id = r.heap[n].id /\ x.cloud = r.cloud
    BY <2>2 DEF Fetches, Looks, Kept, KeptNode
  <2>4. PICK s : s = FetchChild(x, n, ids[k])
    OBVIOUS
  <2>5. Fetches(x, s, born) /\ (s.ok => ids[k] \in IdsIn(s.heap, n))
    BY <1>3, <2>3, <2>4, FetchChildKeeps
  <2>6. Fetches(r, s, born) /\ s \in Handlers
    BY <2>2, <2>5, FetchesTrans DEF Fetches, Looks, Sane
  <2>7. s.ok => \A j \in 1..k : ids[j] \in IdsIn(s.heap, n)
    <3>1. IdsIn(x.heap, n) \subseteq IdsIn(s.heap, n)
      <4>1. x.heap \in Heaps /\ s.heap \in Heaps /\ TreeOK(x.heap, x.root, born)
        BY <2>2, <2>3, <2>6 DEF Sane, Sound, Handlers
      <4>. QED
        BY <2>3, <2>5, <4>1, IdsKept DEF Fetches, Looks
    <3>2. \A j \in 1..k : j = k \/ j \in 1..k-1
      BY <1>3
    <3>. QED
      BY <2>2, <2>5, <3>1, <3>2 DEF Fetches
  <2>. QED
    BY <2>1, <2>2, <2>4, <2>6, <2>7
<1>5. r \in S[0]
  <2>1. Fetches(r, r, born) /\ r \in Handlers
    BY LooksRefl DEF Fetches, Sane
  <2>. QED
    BY <1>3, <2>1
<1>6. PICK g : Eq(g)
  <2>1. \A k \in 1..L : \A x \in S[k-1] : F[<<x, k>>] \in S[k]
    BY <1>4
  <2>2. Runs(L, S, r, F) # {}
    <3>. HIDE DEF F, S, L
    <3>. QED
      BY <1>3, <1>5, <2>1, LoopRuns
  <2>3. PICK g \in [0..L -> UNION {S[k] : k \in 0..L}] :
           /\ g[0] = r /\ \A k \in 1..L : g[k] = F[<<g[k-1], k>>]
           /\ \A k \in 0..L : g[k] \in S[k]
    BY <2>2 DEF Runs
  <2>4. ASSUME NEW k \in 1..L
        PROVE  g[k] = Turn(g[k-1], k)
    <3>1. k - 1 \in 0..L
      BY <1>3
    <3>2. g[k-1] \in Handlers
      BY <1>4, <2>3, <3>1
    <3>. QED
      BY <2>3, <3>2
  <2>. HIDE DEF Turn, S, F, L
  <2>5. 0 \notin 1..L /\ 0..L = {0} \cup (1..L)
    BY <1>3, ZeroFirst
  <2>6. g = [k \in 0..L |-> g[k]]
    BY <2>3
  <2>7. \A k \in 0..L : g[k] = IF k = 0 THEN r ELSE Turn(g[k-1], k)
    BY <2>3, <2>4, <2>5
  <2>8. Eq(g)
    BY <2>6, <2>7, Zenon
  <2>. HIDE DEF Eq
  <2>. QED
    BY <2>8
<1>. DEFINE at == CHOOSE f : Eq(f)
<1>8. Eq(at)
  <2>. HIDE DEF Eq
  <2>. QED
    BY <1>6
<1>9. at[0] = r /\ \A k \in 1..L : at[k] = Turn(at[k-1], k)
  <2>. HIDE DEF at, Turn, S, F
  <2>1. 0 \in 0..L /\ \A k \in 1..L : k \in 0..L /\ k # 0
    BY <1>3
  <2>2. at = [k \in 0..L |-> IF k = 0 THEN r ELSE Turn(at[k-1], k)]
    BY <1>8
  <2>. HIDE DEF L
  <2>3. at[0] = r
    BY <2>1, <2>2
  <2>4. ASSUME NEW k \in 1..L
        PROVE  at[k] = Turn(at[k-1], k)
    BY <2>1, <2>2
  <2>. QED
    BY <2>3, <2>4
<1>10. at[L] \in S[L]
  <2>1. ASSUME NEW k \in 1..L, at[k-1] \in S[k-1]
        PROVE  at[k] \in S[k]
    <3>. HIDE DEF S, Turn, at
    <3>. QED
      BY <2>1, <1>4, <1>9
  <2>. HIDE DEF S, L, at
  <2>2. \A k \in 0..L : at[k] \in S[k]
    BY <1>3, <1>5, <1>9, <2>1, LoopStays
  <2>. QED
    BY <1>3, <2>2
<1>11. FetchChildren(r, n) = at[L]
  BY <1>1 DEF FetchChildren, Loop, Turns
<1>. HIDE DEF at, Turn
<1>12. L \in 0..L
  BY <1>3
<1>. QED
  BY <1>2, <1>10, <1>11, <1>12

\* From r to s a directory is read.
Scans(r, s, born) ==
  /\ Looks(r, s, born) /\ s.root = r.root /\ s.byPath = r.byPath /\ s.pathOf = r.pathOf
  /\ s.ok => r.ok /\ s.res = r.res

\* A directory is marked as read when all of its files have been fetched.
LEMMA FillDirKeeps ==
  ASSUME NEW r, NEW born, Sane(r, born), r.root # NoNode,
         NEW n \in Nodes, r.heap[n].kind # "free"
  PROVE  Scans(r, FillDir(r, n), born)
<1>1. Scans(r, r, born)
  BY LooksRefl DEF Scans
<1>2. Scans(r, Throw(r), born)
  BY ThrowKeeps DEF Fetches, Scans
<1>3. CASE r.ok /\ r.heap[n].kind = "dir" /\ ~Fails(r, r.heap[n].id)
  <2>1. PICK t : t = Spend(r)
    OBVIOUS
  <2>2. /\ Sane(t, born) /\ Fetches(r, t, born) /\ t.ok = r.ok /\ t.heap = r.heap
        /\ t.res = r.res /\ t.root = r.root /\ t.cloud = r.cloud
    BY <1>3, <2>1, SpendKeeps DEF Fails, Fetches, Looks
  <2>3. PICK s : s = FetchChildren(t, n)
    OBVIOUS
  <2>4. /\ Fetches(t, s, born)
        /\ s.ok => Children(r.cloud, r.heap[n].id) \subseteq IdsIn(s.heap, n)
    BY <2>2, <2>3, FetchChildrenKeeps
  <2>5. Fetches(r, s, born)
    BY <2>2, <2>4, FetchesTrans
  <2>6. CASE ~s.ok
    <3>1. FillDir(r, n) = s
      BY <1>3, <2>1, <2>3, <2>6 DEF FillDir
    <3>. QED
      BY <2>5, <3>1 DEF Fetches, Scans
  <2>7. CASE s.ok
    <3>1. /\ Sane(s, born) /\ s.root # NoNode /\ s.heap[n].kind # "free"
          /\ s.heap[n].id = r.heap[n].id /\ s.cloud = r.cloud
      BY <2>5 DEF Fetches, Looks, Kept, KeptNode
    <3>2. PICK g : g = Filled(s.heap, n)
      OBVIOUS
    <3>3. /\ s.heap \in Heaps /\ s.root \in Nodes /\ born \in [Ids -> Paths]
          /\ NodesOK(s.heap, s.root, s.cloud) /\ TreeOK(s.heap, s.root, born)
      BY <3>1 DEF Sane, Sound, Handlers
    <3>4. /\ g \in Heaps /\ NodesOK(g, s.root, s.cloud) /\ TreeOK(g, s.root, born)
          /\ Kept(s.heap, g)
          /\ \A x \in Nodes : /\ g[x].next = s.heap[x].next /\ g[x].id = s.heap[x].id
                              /\ g[x].kind = s.heap[x].kind
                              /\ g[x].filled => x = n \/ s.heap[x].filled
      BY <3>1, <3>2, <3>3, FilledKeeps
    <3>5. PICK u : u = [s EXCEPT !.heap = g]
      OBVIOUS
    <3>6. FillDir(r, n) = u
      BY <1>3, <2>1, <2>3, <2>7, <3>2, <3>5 DEF FillDir
    <3>7. /\ Sane(u, born) /\ u.heap = g /\ u.cloud = s.cloud /\ u.root = s.root
          /\ u.byPath = s.byPath /\ u.pathOf = s.pathOf /\ (u.ok <=> s.ok) /\ u.res = s.res
      BY <3>1, <3>4, <3>5, HeapKeeps
    <3>8. Fills(s.cloud, s.heap, g)
      <4>1. IdsIn(s.heap, n) \subseteq IdsIn(g, n)
        BY <3>1, <3>3, <3>4, IdsKept
      <4>2. Whole(s.cloud, g, n)
        BY <2>4, <2>7, <3>1, <3>4, <4>1 DEF Whole
      <4>. QED
        BY <3>1, <3>4, <4>2 DEF Fills
    <3>9. Looks(s, u, born)
      BY <3>4, <3>7, <3>8 DEF Looks
    <3>10. Looks(r, u, born)
      BY <2>5, <3>9, LooksTrans DEF Fetches
    <3>. QED
      BY <2>5, <3>6, <3>7, <3>10 DEF Fetches, Scans
  <2>. QED
    BY <2>6, <2>7
<1>. QED
  BY <1>1, <1>2, <1>3 DEF FillDir

-----------------------------------------------------------------------------
(* getRoot and get. *)

\* The heap after getRoot has made the root.
LEMMA RootedIs ==
  ASSUME NEW h \in Heaps, NEW c, NEW born, born[RootId] = <<>>, Exists(c, RootId),
         NodesOK(h, NoNode, c), NEW n \in Nodes, NEW kind \in Kinds
  PROVE  LET g == [h EXCEPT ![n] = [Free EXCEPT !.kind = kind]]
         IN /\ g \in Heaps /\ NodesOK(g, n, c) /\ TreeOK(g, n, born) /\ Kept(h, g)
            /\ \A m \in Nodes : ~g[m].filled
<1>1. PICK g : g = [h EXCEPT ![n] = [Free EXCEPT !.kind = kind]]
  OBVIOUS
<1>2. \A m \in Nodes : h[m] = Free
  BY DEF NodesOK
<1>3. /\ \A m \in Nodes : m # n => g[m] = Free
      /\ g[n] = [Free EXCEPT !.kind = kind] /\ DOMAIN g = Nodes /\ g = [m \in Nodes |-> g[m]]
  BY <1>1, <1>2 DEF Heaps
<1>4. /\ Free.kind = "free" /\ Free.id = RootId /\ Free.next = <<>> /\ Free.filled = FALSE
      /\ Free \in NodeRecords
  BY IdsAssumption DEF Free, NodeRecords
<1>5. /\ g[n].kind = kind /\ g[n].id = RootId /\ g[n].next = <<>> /\ g[n].filled = FALSE
      /\ g[n] \in NodeRecords
  <2>1. Free \in [kind : Kinds \cup {"free"}, id : Ids, name : Names \cup {NoName},
                  parent : Nodes \cup {NoNode}, filled : BOOLEAN, next : Seq(Nodes)]
    BY IdsAssumption DEF Free
  <2>2. kind \in Kinds \cup {"free"}
    OBVIOUS
  <2>3. g[n] \in NodeRecords
    BY <1>3, <2>1, <2>2 DEF NodeRecords
  <2>. QED
    BY <1>3, <1>4, <2>1, <2>3
<1>6. g \in Heaps
  BY <1>3, <1>4, <1>5 DEF Heaps
<1>7. kind # "free"
  BY DEF Kinds
<1>8. NodesOK(g, n, c)
  <2>1. c[RootId].kind # "unborn" /\ n # NoNode
    BY NodesAssumption DEF Exists, Kinds
  <2>. QED
    <3>1. ASSUME NEW m \in Nodes
          PROVE  /\ g[m].kind = "free" => g[m] = Free
                 /\ g[m].kind # "free" => m = n
                 /\ g[m].id = RootId
      BY <1>3, <1>4, <1>5, <1>7
    <3>2. \A m \in Nodes : c[g[m].id].kind # "unborn" /\ Filed(g, n, c, m)
      BY <2>1, <3>1 DEF Filed
    <3>. QED
      BY <1>5, <1>7, <2>1, <3>1, <3>2 DEF NodesOK
<1>9. \A m \in Nodes : Len(g[m].next) = 0 /\ ~g[m].filled /\ (g[m].kind # "free" => m = n)
  <2>1. \A m \in Nodes : g[m].next = <<>> /\ ~g[m].filled /\ (g[m].kind # "free" => m = n)
    <3>. TAKE m \in Nodes
    <3>1. CASE m = n
      BY <1>5, <3>1
    <3>2. CASE m # n
      BY <1>3, <1>4, <3>2
    <3>. QED
      BY <3>1, <3>2
  <2>2. Len(<<>>) = 0
    OBVIOUS
  <2>. QED
    BY <2>1, <2>2
<1>10. TreeOK(g, n, born)
  BY <1>9 DEF TreeOK, ListedOK, ListOK
<1>11. Kept(h, g)
  BY <1>2, <1>4 DEF Kept
<1>. QED
  BY <1>1, <1>6, <1>8, <1>9, <1>10, <1>11

\* getRoot makes a tree of one node when there is none, whether its request
\* fails or not.
LEMMA GetRootKeeps ==
  ASSUME NEW r, NEW born, Sane(r, born), r.ok
  PROVE  /\ Looks(r, GetRoot(r), born) /\ GetRoot(r).byPath = r.byPath
         /\ GetRoot(r).ok => GetRoot(r).root # NoNode
         /\ r.root # NoNode => GetRoot(r) = r
<1>1. CASE r.root # NoNode
  BY <1>1, LooksRefl DEF GetRoot
<1>2. CASE r.root = NoNode /\ Vacant(r.heap) = {}
  BY <1>2, ThrowKeeps DEF GetRoot, Fetches
<1>3. CASE r.root = NoNode /\ Vacant(r.heap) # {}
  <2>0. /\ r \in Handlers /\ r.heap \in Heaps /\ born \in [Ids -> Paths] /\ CloudOK(r.cloud, born)
        /\ NodesOK(r.heap, NoNode, r.cloud) /\ CacheOK(r.heap, NoNode, r.byPath, r.pathOf)
    BY <1>3 DEF Sane, Handlers, Sound
  <2>1. PICK n \in Nodes : n = NewNode(r.heap)
    BY <1>3, <2>0, NewNodeFacts
  <2>. DEFINE Rooted(kind) ==
                [r EXCEPT !.root = n, !.heap = [r.heap EXCEPT ![n] = [Free EXCEPT !.kind = kind]]]
  <2>2. ASSUME NEW kind \in Kinds, NEW s, s = Rooted(kind)
        PROVE  /\ Looks(r, s, born) /\ s.byPath = r.byPath /\ s.root = n /\ s.ok = r.ok
               /\ s.fuel = r.fuel
    <3>1. PICK g : g = [r.heap EXCEPT ![n] = [Free EXCEPT !.kind = kind]]
      OBVIOUS
    <3>2. /\ g \in Heaps /\ NodesOK(g, n, r.cloud) /\ TreeOK(g, n, born) /\ Kept(r.heap, g)
          /\ \A m \in Nodes : ~g[m].filled
      BY <2>0, <3>1, RootedIs DEF CloudOK
    <3>3. s = [r EXCEPT !.root = n, !.heap = g]
      BY <2>2, <3>1
    <3>4. /\ s \in Handlers /\ s.heap = g /\ s.cloud = r.cloud /\ s.root = n
          /\ s.byPath = r.byPath /\ s.pathOf = r.pathOf /\ s.ok = r.ok /\ s.res = r.res
          /\ s.fuel = r.fuel
      BY <2>0, <3>2, <3>3 DEF Handlers
    <3>5. CacheOK(g, n, r.byPath, r.pathOf)
      BY <2>0 DEF CacheOK
    <3>6. Sane(s, born)
      BY <2>0, <3>2, <3>4, <3>5 DEF Sane, Sound
    <3>7. Fills(r.cloud, r.heap, g)
      BY <3>2 DEF Fills
    <3>. QED
      BY <1>3, <3>2, <3>4, <3>6, <3>7 DEF Looks
  <2>3. CASE Fails(r, RootId)
    <3>1. PICK s : s = Rooted("file")
      OBVIOUS
    <3>2. Looks(r, s, born) /\ s.byPath = r.byPath
      BY <2>2, <3>1 DEF Kinds
    <3>3. Sane(s, born)
      BY <3>2 DEF Looks
    <3>4. /\ Looks(s, Throw(s), born) /\ ~Throw(s).ok /\ Throw(s).byPath = s.byPath
      BY <3>3, ThrowKeeps DEF Fetches
    <3>5. Looks(r, Throw(s), born)
      BY <3>2, <3>4, LooksTrans
    <3>6. GetRoot(r) = Throw(s)
      BY <1>3, <2>1, <2>3, <3>1 DEF GetRoot
    <3>. QED
      BY <1>3, <3>2, <3>4, <3>5, <3>6
  <2>4. CASE ~Fails(r, RootId)
    <3>1. PICK s : s = Rooted("dir")
      OBVIOUS
    <3>2. Looks(r, s, born) /\ s.byPath = r.byPath /\ s.root = n /\ s.fuel # 0
      BY <2>2, <2>4, <3>1 DEF Kinds, Fails
    <3>3. Sane(s, born)
      BY <3>2 DEF Looks
    <3>4. Looks(s, Spend(s), born) /\ Spend(s).byPath = s.byPath /\ Spend(s).root = s.root
      BY <3>2, <3>3, SpendKeeps DEF Fetches
    <3>5. Looks(r, Spend(s), born)
      BY <3>2, <3>4, LooksTrans
    <3>6. GetRoot(r) = Spend(s)
      BY <1>3, <2>1, <2>4, <3>1 DEF GetRoot
    <3>. QED
      BY <1>3, <3>2, <3>4, <3>5, <3>6, NodesAssumption
  <2>. QED
    BY <2>3, <2>4
<1>. QED
  BY <1>1, <1>2, <1>3

\* The handler has found the node that the tree has for the first d names of p.
Found(r, p, d) ==
  r.ok /\ r.res # NoNode => r.root # NoNode /\ Walk(r.heap, r.root, p)[d] = r.res

\* Cache::insert of a path and the node at its end.
LEMMA InsertKeeps ==
  ASSUME NEW r, NEW born, Sane(r, born), r.ok, r.root # NoNode, NEW p \in Paths,
         NEW n \in Nodes, Walk(r.heap, r.root, p)[Len(p)] = n
  PROVE  LET s == Insert(r, p, n)
         IN Looks(r, s, born) /\ s.ok /\ s.res = n /\ s.heap = r.heap /\ s.root = r.root
<1>1. PICK s : s = Insert(r, p, n)
  OBVIOUS
<1>2. PICK bp : bp = [q \in DOMAIN r.byPath \cup {p} |-> IF q = p THEN n ELSE r.byPath[q]]
  OBVIOUS
<1>3. PICK po : po = [m \in DOMAIN r.pathOf \cup {n} |-> IF m = n THEN p ELSE r.pathOf[m]]
  OBVIOUS
<1>4. /\ r \in Handlers /\ r.heap \in Heaps /\ r.root \in Nodes /\ born \in [Ids -> Paths]
      /\ born[RootId] = <<>> /\ NodesOK(r.heap, r.root, r.cloud) /\ TreeOK(r.heap, r.root, born)
      /\ CacheOK(r.heap, r.root, r.byPath, r.pathOf) /\ r.byPath \in PathMaps
      /\ r.pathOf \in NodeMaps
  BY DEF Sane, Sound, Handlers, CloudOK
<1>5. bp \in PathMaps
  <2>1. /\ DOMAIN r.byPath \cup {p} \in SUBSET Paths
        /\ \A q \in DOMAIN r.byPath : r.byPath[q] \in Nodes
    BY <1>4 DEF PathMaps
  <2>2. bp \in [DOMAIN r.byPath \cup {p} -> Nodes]
    BY <1>2, <2>1
  <2>. QED
    BY <2>1, <2>2 DEF PathMaps
<1>6. po \in NodeMaps
  <2>1. /\ DOMAIN r.pathOf \cup {n} \in SUBSET Nodes
        /\ \A q \in DOMAIN r.pathOf : r.pathOf[q] \in Paths
    BY <1>4 DEF NodeMaps
  <2>2. po \in [DOMAIN r.pathOf \cup {n} -> Paths]
    BY <1>3, <2>1
  <2>. QED
    BY <2>1, <2>2 DEF NodeMaps
<1>7. CacheOK(r.heap, r.root, bp, po)
  <2>. SUFFICES ASSUME NEW q \in DOMAIN bp
                PROVE  /\ r.root # NoNode /\ Walk(r.heap, r.root, q)[Len(q)] = bp[q]
                       /\ bp[q] \in DOMAIN po /\ po[bp[q]] = q
    BY DEF CacheOK
  <2>1. CASE q = p
    BY <1>2, <1>3, <2>1
  <2>2. CASE q # p
    <3>1. /\ q \in DOMAIN r.byPath /\ bp[q] = r.byPath[q] /\ q \in Seq(Names)
          /\ r.byPath[q] \in Nodes /\ p \in Seq(Names)
      BY <1>2, <1>4, <2>2, PathFacts DEF PathMaps
    <3>2. /\ Walk(r.heap, r.root, q)[Len(q)] = bp[q]
          /\ bp[q] \in DOMAIN r.pathOf /\ r.pathOf[bp[q]] = q
      BY <1>4, <3>1 DEF CacheOK
    <3>3. bp[q] # n
      <4>1. bp[q] # NoNode /\ n # NoNode
        BY <3>1, NodesAssumption
      <4>2. born[r.heap[bp[q]].id] = q /\ born[r.heap[n].id] = p
        BY <1>4, <3>1, <3>2, <4>1, WalkEnds
      <4>. QED
        BY <2>2, <4>2
    <3>. QED
      BY <1>3, <3>2, <3>3
  <2>. QED
    BY <2>1, <2>2
<1>8. s = [r EXCEPT !.byPath = bp, !.pathOf = po, !.res = n]
  BY <1>1, <1>2, <1>3 DEF Insert
<1>9. /\ s \in Handlers /\ s.heap = r.heap /\ s.cloud = r.cloud /\ s.root = r.root
      /\ s.byPath = bp /\ s.pathOf = po /\ s.ok = r.ok /\ s.res = n
  BY <1>4, <1>5, <1>6, <1>8 DEF Handlers
<1>10. Sane(s, born)
  BY <1>7, <1>9 DEF Sane, Sound
<1>11. Looks(r, r, born)
  BY LooksRefl
<1>. QED
  BY <1>1, <1>9, <1>10, <1>11 DEF Looks

\* Nothing is found.
LEMMA NothingKeeps ==
  ASSUME NEW r, NEW born, Sane(r, born), NEW s, s = [r EXCEPT !.res = NoNode]
  PROVE  Looks(r, s, born) /\ s.ok = r.ok /\ s.res = NoNode /\ s.heap = r.heap /\ s.root = r.root
<1>1. s = [r EXCEPT !.res = NoNode]
  OBVIOUS
<1>2. /\ s \in Handlers /\ s.heap = r.heap /\ s.cloud = r.cloud /\ s.root = r.root
      /\ s.byPath = r.byPath /\ s.pathOf = r.pathOf /\ s.ok = r.ok /\ s.res = NoNode
  BY <1>1 DEF Sane, Handlers
<1>3. Sane(s, born)
  BY <1>2 DEF Sane
<1>4. Looks(r, r, born)
  BY LooksRefl
<1>. QED
  BY <1>1, <1>2, <1>3, <1>4 DEF Looks

\* The prefixes of a path are paths, and lead as far.
LEMMA PrefixFacts ==
  ASSUME NEW h \in Heaps, NEW n \in Nodes, NEW p \in Paths, NEW d \in 0..Len(p)
  PROVE  /\ SubSeq(p, 1, d) \in Paths /\ Len(SubSeq(p, 1, d)) = d
         /\ \A e \in 1..d : SubSeq(p, 1, d)[e] = p[e]
         /\ Walk(h, n, SubSeq(p, 1, d))[d] = Walk(h, n, p)[d]
<1>1. p \in Seq(Names) /\ Len(p) \in Nat /\ Len(p) <= MaxDepth /\ MaxDepth \in Nat
  BY PathFacts, DepthAssumption
<1>2. PICK q : q = SubSeq(p, 1, d)
  OBVIOUS
<1>3. q \in Seq(Names) /\ Len(q) = d /\ \A e \in 1..d : q[e] = p[e]
  BY <1>1, <1>2
<1>4. q \in Paths
  BY <1>1, <1>3, PathFacts
<1>5. Walk(h, n, q)[d] = Walk(h, n, p)[d]
  <2>1. d \in Nat /\ d <= Len(p) /\ d <= Len(q) /\ d \in 0..d
    BY <1>1, <1>3
  <2>2. \A e \in 0..d : Walk(h, n, q)[e] = Walk(h, n, p)[e]
    BY <1>1, <1>3, <2>1, WalkSame
  <2>. QED
    BY <2>1, <2>2
<1>. QED
  BY <1>2, <1>3, <1>4, <1>5

\* One turn of get's loop: the directory is read, and its entry looked up and
\* cached.
LEMMA DescendKeeps ==
  ASSUME NEW r, NEW born, Sane(r, born), NEW p \in Paths, NEW d \in 1..Len(p), Found(r, p, d - 1)
  PROVE  Looks(r, Descend(r, p, d), born) /\ Found(Descend(r, p, d), p, d)
<1>1. CASE ~r.ok \/ r.res = NoNode
  BY <1>1, LooksRefl DEF Descend, Found
<1>2. CASE r.ok /\ r.res # NoNode
  <2>0. /\ p \in Seq(Names) /\ r.heap \in Heaps /\ r.root \in Nodes /\ r.res \in Nodes
        /\ born \in [Ids -> Paths] /\ born[RootId] = <<>>
        /\ NodesOK(r.heap, r.root, r.cloud) /\ TreeOK(r.heap, r.root, born)
    BY <1>2, PathFacts DEF Sane, Sound, Handlers, CloudOK, Found
  <2>1. PICK n \in Nodes : n = r.res /\ Walk(r.heap, r.root, p)[d-1] = n
    BY <1>2, <2>0 DEF Found
  <2>2. d \in 0..Len(p) /\ d - 1 \in 0..Len(p) /\ n # NoNode /\ r.root # NoNode
    BY <2>0, NodesAssumption
  <2>3. r.heap[n].kind # "free"
    BY <2>0, <2>1, <2>2, WalkPaths
  <2>4. PICK s : s = FillDir(r, n)
    OBVIOUS
  <2>5. Scans(r, s, born)
    BY <2>2, <2>3, <2>4, FillDirKeeps
  <2>6. PICK q : q = SubSeq(p, 1, d)
    OBVIOUS
  <2>7. Descend(r, p, d) = Follow(s, n, q)
    BY <1>2, <2>1, <2>4, <2>6 DEF Descend
  <2>8. CASE ~s.ok
    BY <2>5, <2>7, <2>8 DEF Follow, Scans, Found
  <2>9. CASE s.ok
    <3>1. Sane(s, born) /\ s.root = r.root /\ s.heap \in Heaps /\ Kept(r.heap, s.heap)
      BY <2>5 DEF Scans, Looks, Sane, Handlers
    <3>2. Walk(s.heap, s.root, p)[d-1] = n
      BY <2>0, <2>1, <2>2, <3>1, KeptWalk
    <3>3. PICK m : m = ChildNamed(s.heap, n, p[d])
      OBVIOUS
    <3>4. Walk(s.heap, s.root, p)[d] = m
      BY <2>0, <2>2, <3>1, <3>2, <3>3, WalkRun
    <3>5. /\ q \in Paths /\ Len(q) = d /\ q[d] = p[d]
          /\ Walk(s.heap, s.root, q)[d] = Walk(s.heap, s.root, p)[d]
      <4>1. d \in 1..d
        BY <2>2
      <4>. QED
        BY <2>0, <2>2, <2>6, <3>1, <4>1, PrefixFacts
    <3>6. Last(q) = p[d]
      BY <3>5 DEF Last
    <3>7. CASE m = NoNode
      <4>1. Follow(s, n, q) = [s EXCEPT !.res = NoNode]
        BY <2>9, <3>3, <3>6, <3>7 DEF Follow
      <4>2. PICK t : t = [s EXCEPT !.res = NoNode]
        OBVIOUS
      <4>3. Looks(s, t, born) /\ t.res = NoNode
        BY <3>1, <4>2, NothingKeeps
      <4>4. Looks(r, t, born)
        BY <2>5, <4>3, LooksTrans DEF Scans
      <4>. QED
        BY <2>7, <4>1, <4>2, <4>3, <4>4 DEF Found
    <3>8. CASE m # NoNode
      <4>1. m \in Nodes
        BY <3>1, <3>3, <3>8, ChildFacts
      <4>2. Follow(s, n, q) = Insert(s, q, m)
        BY <2>9, <3>3, <3>6, <3>8 DEF Follow
      <4>3. PICK t : t = Insert(s, q, m)
        OBVIOUS
      <4>4. Looks(s, t, born) /\ t.ok /\ t.res = m /\ t.heap = s.heap /\ t.root = s.root
        BY <2>2, <2>9, <3>1, <3>4, <3>5, <4>1, <4>3, InsertKeeps
      <4>5. Looks(r, t, born)
        BY <2>5, <4>4, LooksTrans DEF Scans
      <4>. QED
        BY <2>2, <2>7, <3>1, <3>4, <4>2, <4>3, <4>4, <4>5 DEF Found
    <3>. QED
      BY <3>7, <3>8
  <2>. QED
    BY <2>8, <2>9
<1>. QED
  BY <1>1, <1>2

\* s is r with the answer n.
Answer(s, r, n) == s = [r EXCEPT !.res = n]

\* What get() has returned is not part of the tree.
LEMMA ResKeeps ==
  ASSUME NEW r, NEW born, Sane(r, born), NEW n \in Nodes \cup {NoNode}, r.ok,
         NEW s, Answer(s, r, n)
  PROVE  /\ Looks(r, s, born) /\ s.ok /\ s.res = n /\ s.heap = r.heap
         /\ s.root = r.root /\ s.cloud = r.cloud
<1>1. s = [r EXCEPT !.res = n]
  BY DEF Answer
<1>2. /\ s \in Handlers /\ s.heap = r.heap /\ s.cloud = r.cloud /\ s.root = r.root
      /\ s.byPath = r.byPath /\ s.pathOf = r.pathOf /\ s.ok = r.ok /\ s.res = n
  BY <1>1 DEF Sane, Handlers
<1>3. Sane(s, born)
  BY <1>2 DEF Sane
<1>4. Looks(r, r, born)
  BY LooksRefl
<1>. QED
  BY <1>1, <1>2, <1>3, <1>4 DEF Looks

\* get()'s way down from the directory where find() stops.
LEMMA DescentKeeps ==
  ASSUME NEW r, NEW born, Sane(r, born), NEW p \in Paths, NEW d \in 0..Len(p), Found(r, p, d)
  PROVE  LET s == Loop(LAMBDA x, k : Descend(x, p, d + k), r, Len(p) - d)
         IN Looks(r, s, born) /\ Found(s, p, Len(p))
<1>. DEFINE L == Len(p) - d
            Turn(x, k) == Descend(x, p, d + k)
            S == [k \in 0..L |-> {x \in Handlers : Looks(r, x, born) /\ Found(x, p, d + k)}]
            F == [x \in Handlers \X (1..L) |-> Turn(x[1], x[2])]
            Eq(g) == g = [k \in 0..L |-> IF k = 0 THEN r ELSE Turn(g[k-1], k)]
<1>1. Len(p) \in Nat /\ L \in Nat /\ d \in Nat /\ d + L = Len(p)
  BY PathFacts
<1>2. ASSUME NEW k \in 1..L, NEW x \in S[k-1]
      PROVE  x \in Handlers /\ Turn(x, k) \in S[k]
  <2>1. k - 1 \in 0..L /\ k \in 0..L /\ d + k \in 1..Len(p) /\ d + (k - 1) = (d + k) - 1
    BY <1>1
  <2>2. x \in Handlers /\ Looks(r, x, born) /\ Found(x, p, (d + k) - 1)
    BY <1>2, <2>1
  <2>3. PICK s : s = Descend(x, p, d + k)
    OBVIOUS
  <2>4. Looks(x, s, born) /\ Found(s, p, d + k)
    BY <2>1, <2>2, <2>3, DescendKeeps DEF Looks
  <2>5. Looks(r, s, born) /\ s \in Handlers
    BY <2>2, <2>4, LooksTrans DEF Looks, Sane
  <2>. QED
    BY <2>1, <2>2, <2>3, <2>4, <2>5
<1>3. r \in S[0]
  <2>1. Looks(r, r, born) /\ r \in Handlers /\ d + 0 = d /\ 0 \in 0..L
    BY <1>1, LooksRefl DEF Sane
  <2>. QED
    BY <2>1
<1>4. PICK g : Eq(g)
  <2>1. \A k \in 1..L : \A x \in S[k-1] : F[<<x, k>>] \in S[k]
    BY <1>2
  <2>2. Runs(L, S, r, F) # {}
    <3>. HIDE DEF F, S, L
    <3>. QED
      BY <1>1, <1>3, <2>1, LoopRuns
  <2>3. PICK g \in [0..L -> UNION {S[k] : k \in 0..L}] :
           /\ g[0] = r /\ \A k \in 1..L : g[k] = F[<<g[k-1], k>>]
           /\ \A k \in 0..L : g[k] \in S[k]
    BY <2>2 DEF Runs
  <2>4. ASSUME NEW k \in 1..L
        PROVE  g[k] = Turn(g[k-1], k)
    <3>1. k - 1 \in 0..L
      BY <1>1
    <3>2. g[k-1] \in Handlers
      BY <1>2, <2>3, <3>1
    <3>. QED
      BY <2>3, <3>2
  <2>5. 0 \notin 1..L /\ 0..L = {0} \cup (1..L)
    BY <1>1, ZeroFirst
  <2>. HIDE DEF Turn
  <2>6. Eq(g)
    BY <2>3, <2>4, <2>5
  <2>. QED
    BY <2>6
<1>. DEFINE at == CHOOSE f : Eq(f)
<1>5. Eq(at)
  BY <1>4
<1>6. at[0] = r /\ \A k \in 1..L : at[k] = Turn(at[k-1], k)
  <2>. HIDE DEF at, Turn
  <2>. QED
    BY <1>1, <1>5
<1>7. at[L] \in S[L]
  <2>1. ASSUME NEW k \in 1..L, at[k-1] \in S[k-1]
        PROVE  at[k] \in S[k]
    <3>. HIDE DEF S, Turn, at
    <3>. QED
      BY <2>1, <1>2, <1>6
  <2>. HIDE DEF S, L, at
  <2>2. \A k \in 0..L : at[k] \in S[k]
    BY <1>1, <1>3, <1>6, <2>1, LoopStays
  <2>. QED
    BY <1>1, <2>2
<1>8. Loop(LAMBDA x, k : Descend(x, p, d + k), r, Len(p) - d) = at[L]
  BY DEF Loop, Turns
<1>. HIDE DEF at, Turn
<1>9. L \in 0..L
  BY <1>1
<1>. QED
  BY <1>1, <1>7, <1>8, <1>9

\* The handler answers what the tree holds already, without a change of it.
Holds(r, s, n) == s.ok /\ s.res = n /\ s.heap = r.heap /\ s.root = r.root

\* get() of a path that is not cached.
LEMMA SearchKeeps ==
  ASSUME NEW r, NEW born, Sane(r, born), r.ok, r.root # NoNode, NEW p \in Paths
  PROVE  /\ Looks(r, Search(r, p), born) /\ Found(Search(r, p), p, Len(p))
         /\ Walk(r.heap, r.root, p)[Len(p)] # NoNode =>
              Holds(r, Search(r, p), Walk(r.heap, r.root, p)[Len(p)])
<1>1. PICK d : d = Depth(r.heap, r.root, p)
  OBVIOUS
<1>2. PICK n : n = Walk(r.heap, r.root, p)[d]
  OBVIOUS
<1>3. /\ d \in 0..Len(p) /\ n \in Nodes
      /\ Walk(r.heap, r.root, p)[Len(p)] # NoNode => d = Len(p)
  <2>1. r.heap \in Heaps /\ r.root \in Nodes /\ p \in Seq(Names)
    BY PathFacts DEF Sane, Handlers
  <2>. QED
    BY <1>1, <1>2, <2>1, DepthFacts
<1>4. CASE d = Len(p)
  <2>1. Search(r, p) = Insert(r, p, n)
    BY <1>1, <1>2, <1>4 DEF Search
  <2>2. PICK s : s = Insert(r, p, n)
    OBVIOUS
  <2>3. Looks(r, s, born) /\ s.ok /\ s.res = n /\ s.heap = r.heap /\ s.root = r.root
    BY <1>2, <1>3, <1>4, <2>2, InsertKeeps
  <2>. QED
    BY <1>2, <1>4, <2>1, <2>2, <2>3 DEF Found, Holds
<1>5. CASE d # Len(p) /\ r.heap[n].filled
  <2>1. Search(r, p) = [r EXCEPT !.res = NoNode]
    BY <1>1, <1>2, <1>5 DEF Search
  <2>2. PICK s : s = [r EXCEPT !.res = NoNode]
    OBVIOUS
  <2>3. Looks(r, s, born) /\ s.res = NoNode
    BY <2>2, NothingKeeps
  <2>. QED
    BY <1>3, <1>5, <2>1, <2>2, <2>3 DEF Found
<1>6. CASE d # Len(p) /\ ~r.heap[n].filled
  <2>1. PICK t : t = [r EXCEPT !.res = n]
    OBVIOUS
  <2>2. Looks(r, t, born) /\ t.ok /\ t.res = n /\ t.heap = r.heap /\ t.root = r.root
    <3>1. Answer(t, r, n) /\ n \in Nodes \cup {NoNode}
      BY <1>3, <2>1 DEF Answer
    <3>. QED
      BY <3>1, ResKeeps
  <2>3. PICK s : s = Loop(LAMBDA x, k : Descend(x, p, d + k), t, Len(p) - d)
    OBVIOUS
  <2>4. Search(r, p) = s
    BY <1>1, <1>2, <1>6, <2>1, <2>3 DEF Search, Loop, Turns
  <2>5. Found(t, p, d) /\ Sane(t, born)
    BY <1>2, <2>2 DEF Found, Looks
  <2>6. Looks(t, s, born) /\ Found(s, p, Len(p))
    BY <1>3, <2>3, <2>5, DescentKeeps DEF Loop, Turns
  <2>7. Looks(r, s, born)
    BY <2>2, <2>6, LooksTrans
  <2>. QED
    BY <1>3, <1>6, <2>4, <2>6, <2>7
<1>. QED
  BY <1>4, <1>5, <1>6

\* get() finds the node that the tree has for the path, and only looks.
LEMMA GetKeeps ==
  ASSUME NEW r, NEW born, Sane(r, born), NEW p \in Paths
  PROVE  /\ Looks(r, Get(r, p), born) /\ Found(Get(r, p), p, Len(p))
         /\ r.ok /\ r.root # NoNode /\ Walk(r.heap, r.root, p)[Len(p)] # NoNode =>
              Holds(r, Get(r, p), Walk(r.heap, r.root, p)[Len(p)])
<1>0. r.heap \in Heaps /\ p \in Seq(Names) /\ Len(<<>>) = 0
  BY PathFacts DEF Sane, Handlers
<1>1. CASE ~r.ok
  BY <1>1, LooksRefl DEF Get, Found
<1>2. CASE r.ok /\ p \in DOMAIN r.byPath
  <2>1. PICK n \in Nodes : n = r.byPath[p]
    BY <1>2 DEF Sane, Handlers, PathMaps
  <2>2. PICK s : s = [r EXCEPT !.res = n]
    OBVIOUS
  <2>3. Get(r, p) = s
    BY <1>2, <2>1, <2>2 DEF Get
  <2>4. Looks(r, s, born) /\ s.ok /\ s.res = n /\ s.heap = r.heap /\ s.root = r.root
    <3>1. Answer(s, r, n) /\ n \in Nodes \cup {NoNode}
      BY <2>1, <2>2 DEF Answer
    <3>. QED
      BY <1>2, <3>1, ResKeeps
  <2>5. r.root # NoNode /\ Walk(r.heap, r.root, p)[Len(p)] = n
    BY <1>2, <2>1 DEF Sane, Sound, CacheOK
  <2>. QED
    BY <1>2, <2>3, <2>4, <2>5 DEF Found, Holds
<1>3. CASE r.ok /\ p \notin DOMAIN r.byPath
  <2>1. PICK s : s = GetRoot(r)
    OBVIOUS
  <2>2. /\ Looks(r, s, born) /\ (s.ok => s.root # NoNode) /\ (r.root # NoNode => s = r)
        /\ Sane(s, born)
    BY <1>3, <2>1, GetRootKeeps DEF Looks
  <2>3. CASE ~s.ok
    <3>1. Get(r, p) = s /\ r.root = NoNode
      BY <1>3, <2>1, <2>2, <2>3 DEF Get
    <3>. QED
      BY <2>2, <2>3, <3>1 DEF Found
  <2>4. CASE s.ok /\ p = <<>>
    <3>1. PICK t : t = [s EXCEPT !.res = s.root]
      OBVIOUS
    <3>2. Get(r, p) = t
      BY <1>3, <2>1, <2>4, <3>1 DEF Get
    <3>3. s.root \in Nodes /\ s.heap \in Heaps
      BY <2>2, <2>4 DEF Sane, Handlers
    <3>4. Looks(s, t, born) /\ t.ok /\ t.res = s.root /\ t.heap = s.heap /\ t.root = s.root
      <4>1. Answer(t, s, s.root) /\ s.root \in Nodes \cup {NoNode}
        BY <3>1, <3>3 DEF Answer
      <4>. QED
        BY <2>2, <2>4, <4>1, ResKeeps
    <3>5. Looks(r, t, born)
      BY <2>2, <3>4, LooksTrans
    <3>6. Walk(s.heap, s.root, p)[Len(p)] = s.root
      <4>1. Len(p) = 0 /\ s.root \in Nodes \cup {NoNode}
        BY <1>0, <2>4, <3>3
      <4>2. Walk(s.heap, s.root, p)[0] = s.root
        BY <1>0, <3>3, <4>1, WalkRun
      <4>. QED
        BY <4>1, <4>2
    <3>. QED
      BY <2>2, <2>4, <3>2, <3>4, <3>5, <3>6 DEF Found, Holds
  <2>5. CASE s.ok /\ p # <<>>
    <3>1. Get(r, p) = Search(s, p)
      BY <1>3, <2>1, <2>5 DEF Get
    <3>2. PICK t : t = Search(s, p)
      OBVIOUS
    <3>3. /\ Looks(s, t, born) /\ Found(t, p, Len(p))
          /\ Walk(s.heap, s.root, p)[Len(p)] # NoNode =>
               Holds(s, t, Walk(s.heap, s.root, p)[Len(p)])
      BY <2>2, <2>5, <3>2, SearchKeeps
    <3>4. Looks(r, t, born)
      BY <2>2, <3>3, LooksTrans
    <3>. QED
      BY <2>2, <3>1, <3>2, <3>3, <3>4
  <2>. QED
    BY <2>3, <2>4, <2>5
<1>. QED
  BY <1>1, <1>2, <1>3

-----------------------------------------------------------------------------
(* Changes of the drive. *)

\* After the change c of the drive all is as it should be.
Fits(r, c, b) ==
  /\ c \in Clouds /\ b \in [Ids -> Paths] /\ CloudOK(c, b)
  /\ NodesOK(r.heap, r.root, c) /\ TreeOK(r.heap, r.root, b)

\* From r to s only the drive may have changed.
SameTree(r, s) ==
  s.heap = r.heap /\ s.root = r.root /\ s.byPath = r.byPath /\ s.pathOf = r.pathOf

\* A change of the drive that fits the tree.
LEMMA CloudKeeps ==
  ASSUME NEW r, NEW born, Sane(r, born), NEW c, NEW b, Fits(r, c, b)
  PROVE  LET s == [r EXCEPT !.cloud = c]
         IN /\ Sane(s, b) /\ s.cloud = c /\ SameTree(r, s)
            /\ s.ok = r.ok /\ s.res = r.res /\ s.fuel = r.fuel
<1>1. PICK s : s = [r EXCEPT !.cloud = c]
  OBVIOUS
<1>2. /\ s \in Handlers /\ s.heap = r.heap /\ s.cloud = c /\ s.root = r.root
      /\ s.byPath = r.byPath /\ s.pathOf = r.pathOf /\ s.ok = r.ok /\ s.res = r.res
      /\ s.fuel = r.fuel
  BY <1>1 DEF Sane, Handlers, Fits
<1>3. Sane(s, b)
  BY <1>2 DEF Sane, Sound, Fits
<1>. QED
  BY <1>1, <1>2, <1>3 DEF SameTree

\* A request for a change succeeds, fails after the change, or fails before it.
LEMMA UpdateKeeps ==
  ASSUME NEW r, NEW born, Sane(r, born), r.ok, NEW i, NEW c, NEW b,
         Exists(r.cloud, i) => Fits(r, c, b)
  PROVE  LET s == Update(r, i, c)
         IN /\ SameTree(r, s)
            /\ \/ s.cloud = r.cloud /\ ~s.ok /\ Sane(s, born)
               \/ s.cloud = c /\ Sane(s, b) /\ Exists(r.cloud, i)
            /\ s.ok => s.res = r.res
<1>1. PICK s : s = Update(r, i, c)
  OBVIOUS
<1>2. CASE ~Fails(r, i)
  <2>1. PICK t : t = Spend(r)
    OBVIOUS
  <2>2. Sane(t, born) /\ t.ok = r.ok /\ t.res = r.res /\ SameTree(r, t)
    BY <1>2, <2>1, SpendKeeps DEF Fails, Fetches, SameTree
  <2>3. Exists(r.cloud, i) /\ Fits(t, c, b)
    BY <1>2, <2>2 DEF Fails, Fits, SameTree
  <2>4. s = [t EXCEPT !.cloud = c]
    BY <1>1, <1>2, <2>1 DEF Update
  <2>5. Sane(s, b) /\ s.cloud = c /\ SameTree(t, s) /\ s.ok = t.ok /\ s.res = t.res
    BY <2>2, <2>3, <2>4, CloudKeeps
  <2>. QED
    BY <1>1, <2>2, <2>3, <2>5 DEF SameTree
<1>3. CASE Fails(r, i) /\ r.late /\ Exists(r.cloud, i)
  <2>1. PICK t : t = [r EXCEPT !.cloud = c]
    OBVIOUS
  <2>2. Sane(t, b) /\ t.cloud = c /\ SameTree(r, t)
    BY <1>3, <2>1, CloudKeeps
  <2>3. s = Throw(t)
    BY <1>1, <1>3, <2>1 DEF Update
  <2>4. Sane(s, b) /\ s.cloud = t.cloud /\ SameTree(t, s) /\ ~s.ok
    BY <2>2, <2>3, ThrowKeeps DEF Fetches, Looks, SameTree
  <2>. QED
    BY <1>1, <1>3, <2>2, <2>4 DEF SameTree
<1>4. CASE Fails(r, i) /\ ~(r.late /\ Exists(r.cloud, i))
  <2>1. s = Throw(r)
    BY <1>1, <1>4 DEF Update
  <2>. QED
    BY <1>1, <2>1, ThrowKeeps DEF Fetches, Looks, SameTree
<1>. QED
  BY <1>2, <1>3, <1>4

-----------------------------------------------------------------------------
(* createNode. *)

\* The drive after the birth of the file i of name x in the folder f.
Birth(c, i, kind, x, f) == [c EXCEPT ![i] = [kind |-> kind, name |-> x, parent |-> f]]

\* c and b are the drive and the paths after it.
Born(r, born, i, kind, x, f, c, b) ==
  /\ Fits(r, c, b) /\ Lives(r.cloud, c)
  /\ i # f /\ b[i] = Append(b[f], x) /\ b[i] = Append(born[f], x)
  /\ c[i].kind = kind /\ c[i].name = x /\ c[i].parent = f

\* A file that is born under a folder that exists fits: its path is the
\* folder's and its name, and no file or node has been there under its id.
LEMMA BirthFits ==
  ASSUME NEW r, NEW born, Sane(r, born), NEW i \in Ids, r.cloud[i] = Unborn,
         NEW kind \in Kinds, NEW x \in Names, NEW f \in Ids, Exists(r.cloud, f),
         Append(born[f], x) \in Paths, NEW c, c = Birth(r.cloud, i, kind, x, f),
         NEW b, b = [born EXCEPT ![i] = Append(born[f], x)]
  PROVE  Born(r, born, i, kind, x, f, c, b)
<1>3. /\ r.cloud \in [Ids -> [kind : Kinds \cup {"unborn", "gone"}, name : Names \cup {NoName},
                              parent : Ids]]
      /\ r.heap \in Heaps /\ born \in [Ids -> Paths] /\ CloudOK(r.cloud, born)
      /\ NodesOK(r.heap, r.root, r.cloud) /\ TreeOK(r.heap, r.root, born)
  BY DEF Sane, Sound, Handlers, Clouds, Entry
<1>4. r.cloud[i].kind = "unborn" /\ r.cloud[f].kind \in Kinds /\ "unborn" \notin Kinds
  BY DEF Unborn, Exists, Kinds
<1>5. i # f /\ i # RootId
  BY <1>3, <1>4 DEF CloudOK, Exists
<1>6. /\ \A j \in Ids : j # i => c[j] = r.cloud[j] /\ b[j] = born[j]
      /\ c[i].kind = kind /\ c[i].name = x /\ c[i].parent = f
      /\ b[i] = Append(born[f], x) /\ b \in [Ids -> Paths] /\ c \in Clouds
  <2>1. [kind |-> kind, name |-> x, parent |-> f]
           \in [kind : Kinds \cup {"unborn", "gone"}, name : Names \cup {NoName}, parent : Ids]
    OBVIOUS
  <2>2. c = [j \in Ids |-> IF j = i THEN [kind |-> kind, name |-> x, parent |-> f]
                           ELSE r.cloud[j]]
    BY <1>3 DEF Birth
  <2>3. c \in Clouds
    BY <1>3, <2>1, <2>2 DEF Clouds, Entry
  <2>4. b = [j \in Ids |-> IF j = i THEN Append(born[f], x) ELSE born[j]]
    BY <1>3
  <2>5. b \in [Ids -> Paths]
    BY <1>3, <2>4
  <2>. QED
    BY <2>2, <2>3, <2>4, <2>5
<1>7. \A n \in Nodes : r.heap[n].id \in Ids /\ r.heap[n].id # i
  <2>. TAKE n \in Nodes
  <2>1. r.heap[n].id \in Ids
    BY <1>3 DEF Heaps, NodeRecords
  <2>. QED
    BY <1>3, <1>4, <2>1 DEF NodesOK
<1>8. CloudOK(c, b)
  <2>1. b[RootId] = <<>> /\ Exists(c, RootId)
    BY <1>3, <1>5, <1>6, IdsAssumption DEF CloudOK, Exists
  <2>2. ASSUME NEW j \in Ids \ {RootId}, Exists(c, j)
        PROVE  Exists(c, c[j].parent) /\ b[j] = Append(b[c[j].parent], c[j].name)
    <3>1. CASE j = i
      BY <1>4, <1>5, <1>6, <3>1 DEF Exists
    <3>2. CASE j # i
      <4>1. c[j] = r.cloud[j] /\ Exists(r.cloud, j) /\ r.cloud[j].parent \in Ids
        BY <1>3, <1>6, <2>2, <3>2 DEF Exists
      <4>2. /\ Exists(r.cloud, r.cloud[j].parent)
            /\ born[j] = Append(born[r.cloud[j].parent], r.cloud[j].name)
        BY <1>3, <4>1 DEF CloudOK
      <4>3. r.cloud[j].parent # i
        BY <1>4, <4>2 DEF Exists
      <4>. QED
        BY <1>6, <3>2, <4>1, <4>2, <4>3 DEF Exists
    <3>. QED
      BY <3>1, <3>2
  <2>. QED
    BY <2>1, <2>2 DEF CloudOK
<1>9. NodesOK(r.heap, r.root, c)
  <2>1. PICK h, rt, e : h = r.heap /\ rt = r.root /\ e = r.cloud
    OBVIOUS
  <2>2. \A n \in Nodes : c[h[n].id] = e[h[n].id]
    BY <1>3, <1>6, <1>7, <2>1 DEF Heaps, NodeRecords
  <2>3. NodesOK(h, rt, e)
    BY <1>3, <2>1
  <2>4. ASSUME NEW n \in Nodes
        PROVE  Filed(h, rt, c, n)
    BY <2>2, <2>3 DEF NodesOK, Filed, Exists
  <2>5. NodesOK(h, rt, c)
    BY <2>2, <2>3, <2>4 DEF NodesOK
  <2>. QED
    BY <2>1, <2>5
<1>10. \A n \in Nodes : b[r.heap[n].id] = born[r.heap[n].id]
  BY <1>6, <1>7
<1>11. TreeOK(r.heap, r.root, b)
  <2>1. ASSUME NEW n \in Nodes
        PROVE  ListOK(r.heap, r.root, b, n)
    <3>1. \A k \in 1..Len(r.heap[n].next) : r.heap[n].next[k] \in Nodes
      BY <1>3 DEF Heaps, NodeRecords
    <3>2. ListOK(r.heap, r.root, born, n)
      BY <1>3 DEF TreeOK
    <3>. QED
      BY <1>10, <3>1, <3>2 DEF ListOK, Entered
  <2>. QED
    BY <1>3, <2>1 DEF TreeOK
<1>12. b[i] = Append(b[f], x)
  BY <1>5, <1>6
<1>13. Lives(r.cloud, c)
  BY <1>4, <1>6 DEF Lives, Exists
<1>. QED
  BY <1>3, <1>5, <1>6, <1>8, <1>9, <1>11, <1>12, <1>13 DEF Fits, Born

\* The next entry of p is to be made in the directory of its first d names.
On(r, p, d, b) ==
  r.ok => /\ r.root # NoNode /\ r.res # NoNode /\ r.heap[r.res].kind # "free"
          /\ b[r.heap[r.res].id] = SubSeq(p, 1, d)

\* From r to s files and nodes are added, and no directory is read.
Adds(r, s) ==
  /\ Lives(r.cloud, s.cloud) /\ Kept(r.heap, s.heap) /\ (r.root # NoNode => s.root = r.root)
  /\ \A x \in Nodes : s.heap[x].filled => r.heap[x].filled

\* One turn of createNode's loop: the folder is made on the drive, then its
\* node is added.
LEMMA CreateEntryKeeps ==
  ASSUME NEW r, NEW born, Sane(r, born), NEW p \in Paths, NEW d \in 1..Len(p),
         On(r, p, d - 1, born), NEW dir
  PROVE  LET s == CreateEntry(r, p, d, dir)
         IN Adds(r, s) /\ \E b : Sane(s, b) /\ On(s, p, d, b)
<1>0. /\ Lives(r.cloud, r.cloud)
      /\ \A s : s.heap = r.heap /\ s.root = r.root /\ Lives(r.cloud, s.cloud) => Adds(r, s)
  BY LooksRefl DEF Adds, Looks, Lives
<1>1. CASE ~r.ok
  <2>1. CreateEntry(r, p, d, dir) = r
    BY <1>1 DEF CreateEntry
  <2>2. PICK t : t = CreateEntry(r, p, d, dir)
    OBVIOUS
  <2>3. Adds(r, t) /\ Sane(t, born) /\ On(t, p, d, born)
    BY <1>0, <1>1, <2>1, <2>2 DEF On
  <2>. QED
    BY <2>2, <2>3
<1>2. CASE r.ok /\ (Vacant(r.heap) = {} \/ Unused(r.cloud) = {})
  <2>1. CreateEntry(r, p, d, dir) = Throw(r)
    BY <1>2 DEF CreateEntry
  <2>2. PICK t : t = Throw(r)
    OBVIOUS
  <2>3. Sane(t, born) /\ t.heap = r.heap /\ t.root = r.root /\ t.cloud = r.cloud /\ ~t.ok
    BY <2>2, ThrowKeeps DEF Fetches, Looks
  <2>4. Adds(r, t) /\ On(t, p, d, born)
    BY <1>0, <2>3 DEF On
  <2>. QED
    BY <2>1, <2>2, <2>3, <2>4
<1>3. CASE r.ok /\ Vacant(r.heap) # {} /\ Unused(r.cloud) # {}
  <2>1. PICK n : n = r.res
    OBVIOUS
  <2>2. PICK i : i = FreshId(r.cloud)
    OBVIOUS
  <2>3. PICK kind \in Kinds : kind = IF d = Len(p) /\ ~dir THEN "file" ELSE "dir"
    BY DEF Kinds
  <2>4. PICK f : f = r.heap[n].id
    OBVIOUS
  <2>5. PICK c : c = Birth(r.cloud, i, kind, p[d], f)
    OBVIOUS
  <2>6. PICK b : b = [born EXCEPT ![i] = Append(born[f], p[d])]
    OBVIOUS
  <2>7. PICK s : s = Update(r, f, c)
    OBVIOUS
  <2>8. /\ n \in Nodes /\ r.heap[n].kind # "free" /\ born[f] = SubSeq(p, 1, d - 1)
        /\ r.root \in Nodes /\ r.heap \in Heaps /\ f \in Ids
    <3>1. n \in Nodes /\ r.root \in Nodes /\ r.heap \in Heaps
      BY <1>3, <2>1 DEF On, Sane, Handlers
    <3>. QED
      BY <1>3, <2>1, <2>4, <3>1 DEF On, Heaps, NodeRecords
  <2>9. i \in Ids /\ r.cloud[i] = Unborn
    BY <1>3, <2>2 DEF FreshId, Unused
  <2>10. p[d] \in Names /\ Append(born[f], p[d]) = SubSeq(p, 1, d) /\ SubSeq(p, 1, d) \in Paths
    <3>1. p \in Seq(Names) /\ d \in 0..Len(p)
      BY PathFacts
    <3>. QED
      BY <2>8, <3>1, PrefixFacts
  <2>11. Exists(r.cloud, f) => Born(r, born, i, kind, p[d], f, c, b)
    BY <2>3, <2>5, <2>6, <2>8, <2>9, <2>10, BirthFits
  <2>12. /\ SameTree(r, s)
         /\ \/ s.cloud = r.cloud /\ ~s.ok /\ Sane(s, born)
            \/ s.cloud = c /\ Sane(s, b) /\ Exists(r.cloud, f)
         /\ s.ok => s.res = r.res
    <3>1. Exists(r.cloud, f) => Fits(r, c, b)
      BY <2>11 DEF Born
    <3>. QED
      BY <1>3, <2>7, <3>1, UpdateKeeps
  <2>13. CASE ~s.ok
    <3>1. CreateEntry(r, p, d, dir) = s
      BY <1>3, <2>1, <2>2, <2>3, <2>4, <2>5, <2>7, <2>13 DEF CreateEntry, Birth
    <3>2. Lives(r.cloud, s.cloud)
      BY <1>0, <2>11, <2>12 DEF Born
    <3>. QED
      BY <1>0, <2>12, <2>13, <3>1, <3>2 DEF On, SameTree
  <2>14. CASE s.ok
    <3>1. PICK m : m = NewNode(r.heap)
      OBVIOUS
    <3>2. m \in Nodes /\ r.heap[m] = Free
      BY <1>3, <2>8, <3>1, NewNodeFacts
    <3>3. PICK node : node = NodeOf(c, i, n)
      OBVIOUS
    <3>4. PICK t : t = [s EXCEPT !.res = m]
      OBVIOUS
    <3>5. PICK g : g = Linked(r.heap, n, m, node)
      OBVIOUS
    <3>6. PICK u : u = [t EXCEPT !.heap = g]
      OBVIOUS
    <3>7. Sane(s, b) /\ s.cloud = c /\ Exists(r.cloud, f)
      BY <2>12, <2>14
    <3>8. /\ Sane(t, b) /\ t.ok /\ t.res = m /\ t.heap = r.heap /\ t.root = r.root
          /\ t.cloud = c
      <4>1. Answer(t, s, m) /\ m \in Nodes \cup {NoNode}
        BY <3>2, <3>4 DEF Answer
      <4>2. Looks(s, t, b) /\ t.ok /\ t.res = m /\ t.heap = s.heap /\ t.root = s.root
        BY <2>14, <3>7, <4>1, ResKeeps
      <4>. QED
        BY <2>12, <3>7, <4>2 DEF Looks, SameTree
    <3>9. CreateEntry(r, p, d, dir) = u
      <4>1. NewNode(s.heap) = m
        BY <2>12, <3>1 DEF SameTree
      <4>2. CreateEntry(r, p, d, dir) = AddNext(t, n, node)
        BY <1>3, <2>1, <2>2, <2>3, <2>4, <2>5, <2>7, <2>14, <3>3, <3>4, <4>1
        DEF CreateEntry, Birth
      <4>. QED
        BY <3>1, <3>5, <3>6, <3>8, <4>2 DEF AddNext
    <3>10. NewChild(node, i, p[d], n)
      BY <2>3, <2>8, <2>9, <2>10, <2>11, <3>3, <3>7, NewChildIs DEF NodeOf, Born
    <3>11. Grown(r.heap, r.root, c, b, n, m, node, g)
      <4>1. /\ b \in [Ids -> Paths] /\ NodesOK(r.heap, r.root, c) /\ TreeOK(r.heap, r.root, b)
        BY <2>11, <3>7 DEF Fits, Born
      <4>2. /\ c[i].kind # "unborn" /\ c[i].parent = r.heap[n].id
            /\ b[i] = Append(b[r.heap[n].id], p[d])
        BY <2>3, <2>4, <2>11, <3>7 DEF Kinds, Born
      <4>. QED
        BY <2>8, <2>9, <3>2, <3>5, <3>10, <4>1, <4>2, LinkedKeeps
    <3>12. /\ Sane(u, b) /\ u.heap = g /\ u.root = t.root /\ (u.ok <=> t.ok) /\ u.res = t.res
      <4>1. t.root # NoNode
        BY <2>8, <3>8, NodesAssumption
      <4>2. g \in Heaps /\ NodesOK(g, t.root, t.cloud) /\ TreeOK(g, t.root, b) /\ Kept(t.heap, g)
        BY <3>8, <3>11 DEF Grown
      <4>. QED
        BY <3>6, <3>8, <4>1, <4>2, HeapKeeps
    <3>13. Adds(r, u)
      <4>1. u.cloud = c
        BY <3>6, <3>8 DEF Sane, Handlers
      <4>2. Lives(r.cloud, c)
        BY <2>11, <3>7 DEF Born
      <4>. QED
        BY <3>8, <3>11, <3>12, <4>1, <4>2 DEF Adds, Grown
    <3>14. On(u, p, d, b)
      <4>1. u.res = m /\ u.heap[m] = node /\ u.root # NoNode /\ m # NoNode
        BY <2>8, <3>2, <3>8, <3>11, <3>12, NodesAssumption DEF Grown
      <4>2. node.kind # "free" /\ node.id = i
        BY <3>10 DEF NewChild
      <4>3. b[i] = SubSeq(p, 1, d)
        BY <2>10, <2>11, <3>7 DEF Born
      <4>. QED
        BY <4>1, <4>2, <4>3 DEF On
    <3>. QED
      BY <3>9, <3>12, <3>13, <3>14
  <2>. QED
    BY <2>13, <2>14
<1>. QED
  BY <1>1, <1>2, <1>3

\* The entries of p below its first d names are made, one in the other.
Creation(r, p, d, dir) == Loop(LAMBDA x, k : CreateEntry(x, p, d + k, dir), r, Len(p) - d)

\* createNode's loop.
LEMMA CreationKeeps ==
  ASSUME NEW r, NEW born, Sane(r, born), NEW p \in Paths, NEW d \in 0..Len(p), On(r, p, d, born),
         NEW dir
  PROVE  Adds(r, Creation(r, p, d, dir)) /\ \E b : Sane(Creation(r, p, d, dir), b)
<1>. DEFINE L == Len(p) - d
            Turn(x, k) == CreateEntry(x, p, d + k, dir)
            S == [k \in 0..L |-> {x \in Handlers :
                                    Adds(r, x) /\ \E b : Sane(x, b) /\ On(x, p, d + k, b)}]
            F == [x \in Handlers \X (1..L) |-> Turn(x[1], x[2])]
            Eq(g) == g = [k \in 0..L |-> IF k = 0 THEN r ELSE Turn(g[k-1], k)]
<1>1. Len(p) \in Nat /\ L \in Nat /\ d \in Nat /\ d + L = Len(p)
  BY PathFacts
<1>2. ASSUME NEW k \in 1..L, NEW x \in S[k-1]
      PROVE  x \in Handlers /\ Turn(x, k) \in S[k]
  <2>1. k - 1 \in 0..L /\ k \in 0..L /\ d + k \in 1..Len(p) /\ d + (k - 1) = (d + k) - 1
    BY <1>1
  <2>2. PICK b : x \in Handlers /\ Adds(r, x) /\ Sane(x, b) /\ On(x, p, (d + k) - 1, b)
    BY <1>2, <2>1
  <2>3. PICK s : s = CreateEntry(x, p, d + k, dir)
    OBVIOUS
  <2>4. Adds(x, s) /\ \E e : Sane(s, e) /\ On(s, p, d + k, e)
    BY <2>1, <2>2, <2>3, CreateEntryKeeps
  <2>5. s \in Handlers
    BY <2>4 DEF Sane
  <2>6. Adds(r, s)
    <3>1. r.heap \in Heaps /\ x.heap \in Heaps /\ s.heap \in Heaps
      BY <2>2, <2>5 DEF Sane, Handlers
    <3>2. Kept(r.heap, s.heap)
      BY <2>2, <2>4, <3>1, KeptTrans DEF Adds
    <3>3. Lives(r.cloud, s.cloud)
      BY <2>2, <2>4 DEF Adds, Lives, Exists
    <3>. QED
      BY <2>2, <2>4, <3>2, <3>3 DEF Adds
  <2>. QED
    BY <2>1, <2>2, <2>3, <2>4, <2>5, <2>6
<1>3. r \in S[0]
  <2>1. /\ Adds(r, r) /\ r \in Handlers /\ d + 0 = d /\ 0 \in 0..L
        /\ \E b : Sane(r, b) /\ On(r, p, d, b)
    <3>1. Looks(r, r, born)
      BY LooksRefl
    <3>2. Adds(r, r) /\ r \in Handlers
      BY <3>1 DEF Looks, Adds, Sane, Lives
    <3>3. d + 0 = d /\ 0 \in 0..L
      BY <1>1
    <3>. QED
      BY <3>2, <3>3
  <2>. QED
    BY <2>1
<1>4. PICK g : Eq(g)
  <2>1. \A k \in 1..L : \A x \in S[k-1] : F[<<x, k>>] \in S[k]
    BY <1>2
  <2>2. Runs(L, S, r, F) # {}
    <3>. HIDE DEF F, S, L
    <3>. QED
      BY <1>1, <1>3, <2>1, LoopRuns
  <2>3. PICK g \in [0..L -> UNION {S[k] : k \in 0..L}] :
           /\ g[0] = r /\ \A k \in 1..L : g[k] = F[<<g[k-1], k>>]
           /\ \A k \in 0..L : g[k] \in S[k]
    BY <2>2 DEF Runs
  <2>4. ASSUME NEW k \in 1..L
        PROVE  g[k] = Turn(g[k-1], k)
    <3>1. k - 1 \in 0..L
      BY <1>1
    <3>2. g[k-1] \in Handlers
      BY <1>2, <2>3, <3>1
    <3>. QED
      BY <2>3, <3>2
  <2>5. 0 \notin 1..L /\ 0..L = {0} \cup (1..L)
    BY <1>1, ZeroFirst
  <2>. HIDE DEF Turn
  <2>6. Eq(g)
    BY <2>3, <2>4, <2>5
  <2>. QED
    BY <2>6
<1>. DEFINE at == CHOOSE f : Eq(f)
<1>5. Eq(at)
  BY <1>4
<1>6. at[0] = r /\ \A k \in 1..L : at[k] = Turn(at[k-1], k)
  <2>. HIDE DEF at, Turn
  <2>. QED
    BY <1>1, <1>5
<1>7. at[L] \in S[L]
  <2>1. ASSUME NEW k \in 1..L, at[k-1] \in S[k-1]
        PROVE  at[k] \in S[k]
    <3>. HIDE DEF S, Turn, at
    <3>. QED
      BY <2>1, <1>2, <1>6
  <2>. HIDE DEF S, L, at
  <2>2. \A k \in 0..L : at[k] \in S[k]
    BY <1>1, <1>3, <1>6, <2>1, LoopStays
  <2>. QED
    BY <1>1, <2>2
<1>8. Creation(r, p, d, dir) = at[L]
  BY DEF Creation, Loop, Turns
<1>. HIDE DEF at, Turn
<1>9. L \in 0..L
  BY <1>1
<1>. QED
  BY <1>7, <1>8, <1>9

\* From r to t a handler looks, and then adds.
Makes(r, t, born) ==
  \E s : Looks(r, s, born) /\ Adds(s, t) /\ \E b : Sane(t, b)

\* A handler may look before it makes.
LEMMA MakesAfter ==
  ASSUME NEW r, NEW s, NEW t, NEW born, Sane(r, born), Looks(r, s, born), Makes(s, t, born)
  PROVE  Makes(r, t, born)
<1>1. PICK u : Looks(s, u, born) /\ Adds(u, t) /\ \E b : Sane(t, b)
  BY DEF Makes
<1>2. Looks(r, u, born)
  BY <1>1, LooksTrans
<1>. QED
  BY <1>1, <1>2 DEF Makes

\* A handler that only looks makes nothing.
LEMMA LooksMakes ==
  ASSUME NEW r, NEW s, NEW born, Looks(r, s, born)
  PROVE  Makes(r, s, born)
<1>1. Sane(s, born)
  BY DEF Looks
<1>2. Adds(s, s)
  BY <1>1, LooksRefl DEF Looks, Adds, Lives
<1>. QED
  BY <1>1, <1>2 DEF Makes

\* createNode, whether a request fails or not.
LEMMA CreateNodeKeeps ==
  ASSUME NEW r, NEW born, Sane(r, born), NEW p \in Paths, NEW dir
  PROVE  Makes(r, CreateNode(r, p, dir), born)
<1>1. CASE ~r.ok
  <2>1. CreateNode(r, p, dir) = r
    BY <1>1 DEF CreateNode
  <2>. QED
    BY <2>1, LooksRefl, LooksMakes
<1>2. CASE r.ok
  <2>1. PICK s : s = GetRoot(r)
    OBVIOUS
  <2>2. Looks(r, s, born) /\ (s.ok => s.root # NoNode) /\ Sane(s, born)
    BY <1>2, <2>1, GetRootKeeps DEF Looks
  <2>3. CASE ~s.ok
    <3>1. CreateNode(r, p, dir) = s
      BY <1>2, <2>1, <2>3 DEF CreateNode
    <3>. QED
      BY <2>2, <3>1, LooksMakes
  <2>4. CASE s.ok
    <3>1. PICK d : d = Depth(s.heap, s.root, p)
      OBVIOUS
    <3>2. PICK n : n = Walk(s.heap, s.root, p)[d]
      OBVIOUS
    <3>3. PICK t : t = [s EXCEPT !.res = n]
      OBVIOUS
    <3>4. PICK u : u = Creation(t, p, d, dir)
      OBVIOUS
    <3>5. CreateNode(r, p, dir) = u
      BY <1>2, <2>1, <2>4, <3>1, <3>2, <3>3, <3>4 DEF CreateNode, Creation, Loop, Turns
    <3>6. /\ s.heap \in Heaps /\ s.root \in Nodes /\ p \in Seq(Names) /\ born \in [Ids -> Paths]
          /\ born[RootId] = <<>> /\ NodesOK(s.heap, s.root, s.cloud) /\ TreeOK(s.heap, s.root, born)
      BY <2>2, <2>4, PathFacts DEF Sane, Sound, Handlers, CloudOK
    <3>7. d \in 0..Len(p) /\ n \in Nodes /\ n # NoNode
      BY <3>1, <3>2, <3>6, DepthFacts, NodesAssumption
    <3>8. s.heap[n].kind # "free" /\ born[s.heap[n].id] = SubSeq(p, 1, d)
      BY <3>2, <3>6, <3>7, WalkPaths
    <3>9. /\ Looks(s, t, born) /\ t.ok /\ t.res = n /\ t.heap = s.heap /\ t.root = s.root
      <4>1. Answer(t, s, n) /\ n \in Nodes \cup {NoNode}
        BY <3>3, <3>7 DEF Answer
      <4>. QED
        BY <2>2, <2>4, <4>1, ResKeeps
    <3>10. On(t, p, d, born) /\ Sane(t, born)
      BY <2>2, <2>4, <3>7, <3>8, <3>9 DEF On, Looks
    <3>11. Adds(t, u) /\ \E b : Sane(u, b)
      BY <3>4, <3>7, <3>10, CreationKeeps
    <3>12. Looks(r, t, born)
      BY <2>2, <3>9, LooksTrans
    <3>. QED
      BY <3>5, <3>11, <3>12 DEF Makes
  <2>. QED
    BY <2>3, <2>4
<1>. QED
  BY <1>1, <1>2

\* After it the invariant holds, nothing has gone, and what it has marked as read is
\* whole.
Fine(r, s) ==
  /\ Fills(r.cloud, r.heap, s.heap) /\ Kept(r.heap, s.heap) /\ Lives(r.cloud, s.cloud)
  /\ \E b : Sane(s, b)

\* What a handler has marked as read is whole after it has added nodes.
LEMMA MakesFine ==
  ASSUME NEW r, NEW t, NEW born, Sane(r, born), Makes(r, t, born)
  PROVE  Fine(r, t)
<1>1. PICK s : Looks(r, s, born) /\ Adds(s, t) /\ \E b : Sane(t, b)
  BY DEF Makes
<1>2. ASSUME NEW n \in Nodes, ~r.heap[n].filled, t.heap[n].filled
      PROVE  t.heap[n].kind # "free" /\ Whole(r.cloud, t.heap, n)
  <2>1. s.heap[n].filled
    BY <1>1, <1>2 DEF Adds
  <2>2. s.heap[n].kind # "free" /\ Whole(r.cloud, s.heap, n)
    BY <1>1, <1>2, <2>1 DEF Looks, Fills
  <2>3. /\ s.heap \in Heaps /\ t.heap \in Heaps /\ TreeOK(s.heap, s.root, born)
    BY <1>1 DEF Looks, Sane, Sound, Handlers
  <2>4. IdsIn(s.heap, n) \subseteq IdsIn(t.heap, n)
    BY <1>1, <2>2, <2>3, IdsKept DEF Adds
  <2>5. t.heap[n].kind = s.heap[n].kind /\ t.heap[n].id = s.heap[n].id
    BY <1>1, <2>2 DEF Adds, Kept, KeptNode
  <2>. QED
    BY <2>2, <2>4, <2>5 DEF Whole
<1>3. Kept(r.heap, t.heap)
  <2>1. r.heap \in Heaps /\ s.heap \in Heaps /\ t.heap \in Heaps
    BY <1>1 DEF Looks, Sane, Handlers
  <2>. QED
    BY <1>1, <2>1, KeptTrans DEF Looks, Adds
<1>4. Lives(r.cloud, t.cloud)
  BY <1>1 DEF Looks, Adds, Lives
<1>. QED
  BY <1>1, <1>2, <1>3, <1>4 DEF Fine, Fills

-----------------------------------------------------------------------------
(* Nodes that go. *)

\* g is h without the nodes X, which are entries of n without entries of their own.
Pruned(h, g, n, X) ==
  /\ g \in Heaps /\ n \in Nodes \ X /\ X \subseteq Nodes
  /\ \A y \in Nodes \ (X \cup {n}) : g[y] = h[y]
  /\ \A x \in X : /\ g[x] = Free /\ h[x].next = <<>>
                  /\ \E k \in 1..Len(h[n].next) : h[n].next[k] = x
  /\ g[n].kind = h[n].kind /\ g[n].id = h[n].id /\ g[n].name = h[n].name
  /\ g[n].parent = h[n].parent /\ g[n].filled = h[n].filled /\ (g[n].kind = "free" => g[n] = Free)

\* The list of n is what is left, in the same order.
Left(h, g, n, X) ==
  /\ \A k \in 1..Len(g[n].next) :
       /\ \E j \in 1..Len(h[n].next) : g[n].next[k] = h[n].next[j]
       /\ g[n].next[k] \notin X
       /\ \A j \in 1..Len(g[n].next) : g[n].next[j] = g[n].next[k] => j = k
  /\ \A j \in 1..Len(h[n].next) : h[n].next[j] \in X \/ \E k \in 1..Len(g[n].next) :
                                                          g[n].next[k] = h[n].next[j]
  /\ \A x, m : m \notin X /\ IsFirst(h, n, x, m) => IsFirst(g, n, x, m)

\* A tree without some entries of a directory is a tree.
LEMMA PrunedTree ==
  ASSUME NEW h \in Heaps, NEW g, NEW rt \in Nodes, NEW c, NEW born,
         NodesOK(h, rt, c), Exists(c, RootId), TreeOK(h, rt, born),
         NEW n, NEW X, Pruned(h, g, n, X), Left(h, g, n, X)
  PROVE  NodesOK(g, rt, c) /\ TreeOK(g, rt, born)
<1>0. /\ g \in Heaps /\ n \in Nodes /\ X \subseteq Nodes /\ n \notin X
      /\ Free.kind = "free" /\ Free.id = RootId /\ Free.next = <<>>
  BY DEF Pruned, Free
<1>1. rt \notin X /\ rt # NoNode
  <2>1. ASSUME rt \in X
        PROVE  FALSE
    <3>1. PICK k \in 1..Len(h[n].next) : h[n].next[k] = rt
      BY <2>1 DEF Pruned
    <3>2. ListOK(h, rt, born, n)
      BY <1>0 DEF TreeOK
    <3>. QED
      BY <3>1, <3>2 DEF ListOK, Entered
  <2>. QED
    BY <2>1, NodesAssumption
<1>2. \A y \in Nodes \ X : /\ g[y].kind = h[y].kind /\ g[y].id = h[y].id /\ g[y].name = h[y].name
                           /\ g[y].parent = h[y].parent
  BY DEF Pruned
<1>3. NodesOK(g, rt, c)
  <2>1. ASSUME NEW y \in Nodes
        PROVE  /\ g[y].kind = "free" => g[y] = Free
               /\ c[g[y].id].kind # "unborn" /\ (g[y].kind # "free" => rt # NoNode)
    <3>1. CASE y \in X
      BY <1>0, <1>1, <3>1 DEF Pruned, Exists, Kinds
    <3>2. CASE y = n
      BY <1>0, <1>1, <3>2 DEF Pruned, NodesOK
    <3>3. CASE y \notin X \cup {n}
      <4>1. g[y] = h[y]
        BY <3>3 DEF Pruned
      <4>. QED
        BY <1>1, <4>1 DEF NodesOK
    <3>. QED
      BY <3>1, <3>2, <3>3
  <2>2. g[rt].kind # "free" /\ g[rt].id = RootId
    BY <1>1, <1>2 DEF NodesOK
  <2>3. ASSUME NEW y \in Nodes, g[y].kind # "free", y # rt
        PROVE  Filed(g, rt, c, y)
    <3>1. y \notin X /\ h[y].kind # "free" /\ Filed(h, rt, c, y)
      BY <1>0, <1>2, <2>3 DEF Pruned, NodesOK
    <3>2. PICK a \in Nodes : a = h[y].parent /\ \E k \in 1..Len(h[a].next) : h[a].next[k] = y
      BY <2>3, <3>1 DEF TreeOK, ListedOK
    <3>3. a \notin X
      <4>1. ASSUME a \in X
            PROVE  FALSE
        <5>1. Len(h[a].next) = 0
          BY <4>1 DEF Pruned
        <5>. QED
          BY <3>2, <5>1
      <4>. QED
        BY <4>1
    <3>. QED
      BY <1>2, <2>3, <3>1, <3>2, <3>3 DEF Filed
  <2>4. \A y \in Nodes : Filed(g, rt, c, y)
    BY <2>3 DEF Filed
  <2>. QED
    BY <2>1, <2>2, <2>4 DEF NodesOK
<1>4. ASSUME NEW a \in Nodes \ X, NEW m \in Nodes \ X, Entered(h, rt, born, a, m)
      PROVE  Entered(g, rt, born, a, m)
  <2>1. g[m].kind = h[m].kind /\ g[m].id = h[m].id /\ g[m].name = h[m].name
    BY <1>2
  <2>2. g[m].parent = h[m].parent /\ g[a].id = h[a].id
    BY <1>2
  <2>. QED
    BY <1>4, <2>1, <2>2, Zenon DEF Entered
<1>5. ASSUME NEW a \in Nodes
      PROVE  ListOK(g, rt, born, a)
  <2>1. CASE a \in X
    <3>1. g[a].next = <<>>
      BY <1>0, <2>1 DEF Pruned
    <3>2. Len(g[a].next) = 0
      BY <3>1
    <3>. QED
      BY <3>2 DEF ListOK
  <2>2. CASE a = n
    <3>1. ASSUME NEW k \in 1..Len(g[n].next)
          PROVE  Entered(g, rt, born, n, g[n].next[k])
      <4>1. PICK j \in 1..Len(h[n].next) : g[n].next[k] = h[n].next[j] /\ h[n].next[j] \notin X
        BY DEF Left
      <4>2. h[n].next[j] \in Nodes
        BY <1>0 DEF Heaps, NodeRecords
      <4>3. Entered(h, rt, born, n, h[n].next[j])
        BY <1>0 DEF TreeOK, ListOK
      <4>. QED
        BY <1>0, <1>4, <4>1, <4>2, <4>3
    <3>. QED
      BY <2>2, <3>1 DEF ListOK, Left
  <2>3. CASE a \notin X \cup {n}
    <3>1. g[a].next = h[a].next
      BY <2>3 DEF Pruned
    <3>2. ASSUME NEW k \in 1..Len(h[a].next)
          PROVE  Entered(g, rt, born, a, h[a].next[k])
      <4>1. h[a].next[k] \in Nodes
        BY DEF Heaps, NodeRecords
      <4>2. Entered(h, rt, born, a, h[a].next[k])
        BY DEF TreeOK, ListOK
      <4>3. h[a].next[k] \notin X
        <5>. SUFFICES ASSUME h[a].next[k] \in X
                      PROVE  FALSE
          OBVIOUS
        <5>1. PICK j \in 1..Len(h[n].next) : h[n].next[j] = h[a].next[k]
          BY DEF Pruned
        <5>2. a = n
          BY <1>0, <5>1, OneList
        <5>. QED
          BY <2>3, <5>2
      <4>. QED
        BY <1>4, <2>3, <4>1, <4>2, <4>3
    <3>3. ListOK(h, rt, born, a)
      BY DEF TreeOK
    <3>. QED
      BY <3>1, <3>2, <3>3 DEF ListOK
  <2>. QED
    BY <2>1, <2>2, <2>3
<1>6. ASSUME NEW m \in Nodes, g[m].kind # "free", m # rt
      PROVE  /\ g[m].parent \in Nodes
              /\ \E k \in 1..Len(g[g[m].parent].next) : g[g[m].parent].next[k] = m
  <2>1. m \notin X /\ h[m].kind # "free" /\ g[m].parent = h[m].parent
    BY <1>0, <1>2, <1>6 DEF Pruned
  <2>2. PICK a \in Nodes : a = h[m].parent /\ \E k \in 1..Len(h[a].next) : h[a].next[k] = m
    BY <1>6, <2>1 DEF TreeOK, ListedOK
  <2>3. PICK k \in 1..Len(h[a].next) : h[a].next[k] = m
    BY <2>2
  <2>4. \E j \in 1..Len(g[a].next) : g[a].next[j] = m
    <3>1. CASE a = n
      BY <2>1, <2>3, <3>1 DEF Left
    <3>2. CASE a \in X
      <4>1. Len(h[a].next) = 0
        BY <3>2 DEF Pruned
      <4>. QED
        BY <2>3, <4>1
    <3>3. CASE a \notin X \cup {n}
      BY <2>3, <3>3 DEF Pruned
    <3>. QED
      BY <3>1, <3>2, <3>3
  <2>. QED
    BY <2>1, <2>2, <2>4
<1>. QED
  BY <1>3, <1>5, <1>6 DEF TreeOK, ListedOK

\* The cache is right after nodes have gone that were not in it: a walk to a
\* cached node passes none of them.
LEMMA PrunedCache ==
  ASSUME NEW h \in Heaps, NEW g, NEW rt \in Nodes \cup {NoNode}, NEW c, NEW born,
         TreeOK(h, rt, born), NEW n, NEW X, Pruned(h, g, n, X), Left(h, g, n, X),
         NEW bp \in PathMaps, NEW po, CacheOK(h, rt, bp, po), X \cap DOMAIN po = {}
  PROVE  CacheOK(g, rt, bp, po)
<1>. SUFFICES ASSUME NEW p \in DOMAIN bp
              PROVE  Walk(g, rt, p)[Len(p)] = bp[p]
  BY DEF CacheOK
<1>. DEFINE L == Len(p)
            w == Walk(h, rt, p)
<1>1. p \in Seq(Names) /\ bp[p] \in Nodes /\ L \in Nat
  BY PathFacts DEF PathMaps
<1>2. w[L] = bp[p] /\ bp[p] # NoNode /\ rt \in Nodes /\ bp[p] \in DOMAIN po
  BY <1>1, NodesAssumption DEF CacheOK
<1>3. \A d \in 0..L : w[d] \in Nodes
  BY <1>1, <1>2, WalkLost
<1>4. \A d \in 1..L : w[d] = IF w[d-1] = NoNode THEN NoNode ELSE ChildNamed(h, w[d-1], p[d])
  BY <1>1, WalkRun
<1>5. w[0] = rt
  BY <1>1, WalkRun
<1>0. g \in Heaps /\ n \in Nodes /\ X \subseteq Nodes /\ n \notin X
  BY DEF Pruned
<1>. HIDE DEF w
<1>6. \A d \in 1..L : IsFirst(h, w[d-1], p[d], w[d])
  <2>. TAKE d \in 1..L
  <2>1. d - 1 \in 0..L /\ d \in 0..L
    BY <1>1
  <2>2. w[d-1] \in Nodes /\ w[d] \in Nodes /\ w[d] = ChildNamed(h, w[d-1], p[d])
    BY <1>3, <1>4, <2>1, NodesAssumption
  <2>. QED
    BY <2>2, ChildFacts
<1>7. \A d \in 0..L : w[d] \notin X
  <2>. TAKE d \in 0..L
  <2>1. CASE d = L
    BY <1>2, <2>1
  <2>2. CASE d # L
    <3>1. d + 1 \in 1..L /\ (d + 1) - 1 = d
      BY <1>1, <2>2
    <3>2. IsFirst(h, w[d], p[d+1], w[d+1])
      BY <1>6, <3>1
    <3>3. h[w[d]].next # <<>>
      <4>1. \E k \in 1..Len(h[w[d]].next) : TRUE
        BY <3>2 DEF IsFirst
      <4>. QED
        BY <4>1
    <3>. QED
      BY <3>3 DEF Pruned
  <2>. QED
    BY <2>1, <2>2
<1>8. ASSUME NEW d \in 1..L
      PROVE  ChildNamed(g, w[d-1], p[d]) = ChildNamed(h, w[d-1], p[d])
  <2>1. d - 1 \in 0..L /\ d \in 0..L
    BY <1>1
  <2>2. PICK a \in Nodes \ X, m \in Nodes \ X : a = w[d-1] /\ m = w[d]
    BY <1>3, <1>7, <2>1
  <2>3. IsFirst(h, a, p[d], m)
    BY <1>6, <2>2
  <2>4. IsFirst(g, a, p[d], m)
    <3>1. CASE a = n
      BY <2>2, <2>3, <3>1 DEF Left
    <3>2. CASE a # n
      <4>1. g[a].next = h[a].next
        BY <2>2, <3>2 DEF Pruned
      <4>2. \A k \in 1..Len(h[a].next) : h[a].next[k] \in Nodes
        BY DEF Heaps, NodeRecords
      <4>3. ASSUME NEW k \in 1..Len(h[a].next)
            PROVE  g[h[a].next[k]].name = h[h[a].next[k]].name
        <5>1. h[a].next[k] \notin X
          <6>. SUFFICES ASSUME h[a].next[k] \in X
                        PROVE  FALSE
            OBVIOUS
          <6>1. PICK j \in 1..Len(h[n].next) : h[n].next[j] = h[a].next[k]
            BY DEF Pruned
          <6>2. a = n
            BY <1>0, <6>1, OneList
          <6>. QED
            BY <3>2, <6>2
        <5>. QED
          BY <4>2, <5>1 DEF Pruned
      <4>4. PICK k \in 1..Len(h[a].next) :
              /\ h[a].next[k] = m /\ h[m].name = p[d]
              /\ \A j \in 1..k-1 : h[h[a].next[j]].name # p[d]
        BY <2>3 DEF IsFirst
      <4>5. \A j \in 1..k-1 : j \in 1..Len(h[a].next)
        <5>1. Len(h[a].next) \in Nat
          BY DEF Heaps, NodeRecords
        <5>. QED
          BY <5>1
      <4>6. g[m].name = p[d] /\ \A j \in 1..k-1 : g[h[a].next[j]].name # p[d]
        BY <4>3, <4>4, <4>5
      <4>. QED
        BY <4>1, <4>4, <4>6 DEF IsFirst
    <3>. QED
      BY <3>1, <3>2
  <2>5. ChildNamed(g, a, p[d]) = m /\ ChildNamed(h, a, p[d]) = m
    BY <1>0, <2>3, <2>4, ChildFacts
  <2>. QED
    BY <2>2, <2>5
<1>9. \A d \in 0..L : Walk(g, rt, p)[d] = w[d]
  <2>1. L <= Len(p) /\ \A d \in 1..L : p[d] = p[d]
    BY <1>1
  <2>2. \A d \in 1..L : Walk(h, rt, p)[d-1] \in Nodes =>
          ChildNamed(g, Walk(h, rt, p)[d-1], p[d]) = ChildNamed(h, Walk(h, rt, p)[d-1], p[d])
    BY <1>8 DEF w
  <2>3. \A d \in 0..L : Walk(g, rt, p)[d] = Walk(h, rt, p)[d]
    <3>. HIDE DEF L
    <3>. QED
      BY <1>0, <1>1, <1>2, <2>1, <2>2, WalkSame
  <2>. QED
    BY <2>3 DEF w
<1>. QED
  BY <1>1, <1>2, <1>9

\* No directory is an entry of itself.
LEMMA OwnList ==
  ASSUME NEW h \in Heaps, NEW rt, NEW born \in [Ids -> Paths], TreeOK(h, rt, born), NEW n \in Nodes,
         NEW k \in 1..Len(h[n].next)
  PROVE  h[n].next[k] # n
<1>. SUFFICES ASSUME h[n].next[k] = n
              PROVE  FALSE
  OBVIOUS
<1>1. Entered(h, rt, born, n, n)
  BY DEF TreeOK, ListOK
<1>2. PICK p \in Seq(Names \cup {NoName}), x \in Names \cup {NoName} : p = Append(p, x)
  <2>1. h[n].id \in Ids /\ h[n].name \in Names \cup {NoName}
    BY DEF Heaps, NodeRecords
  <2>2. born[h[n].id] \in Seq(Names)
    BY <2>1, PathFacts
  <2>3. born[h[n].id] \in Seq(Names \cup {NoName})
    BY <2>2
  <2>. QED
    BY <1>1, <2>1, <2>3 DEF Entered
<1>3. Len(Append(p, x)) = Len(p) + 1 /\ Len(p) \in Nat
  OBVIOUS
<1>. QED
  BY <1>2, <1>3

\* clear() of a list.
LEMMA ClearedPrunes ==
  ASSUME NEW h \in Heaps, NEW rt, NEW c, NEW born \in [Ids -> Paths], NodesOK(h, rt, c),
         TreeOK(h, rt, born), NEW n \in Nodes,
         \A k \in 1..Len(h[n].next) : h[h[n].next[k]].next = <<>>
  PROVE  LET g == Cleared(h, n)
             X == {h[n].next[k] : k \in 1..Len(h[n].next)}
         IN /\ Pruned(h, g, n, X) /\ Left(h, g, n, X) /\ g[n].next = <<>>
<1>1. PICK g : g = Cleared(h, n)
  OBVIOUS
<1>2. PICK X : X = {h[n].next[k] : k \in 1..Len(h[n].next)}
  OBVIOUS
<1>3. /\ h \in [Nodes -> [kind : Kinds \cup {"free"}, id : Ids, name : Names \cup {NoName},
                          parent : Nodes \cup {NoNode}, filled : BOOLEAN, next : Seq(Nodes)]]
      /\ Free \in [kind : Kinds \cup {"free"}, id : Ids, name : Names \cup {NoName},
                   parent : Nodes \cup {NoNode}, filled : BOOLEAN, next : Seq(Nodes)]
  BY IdsAssumption DEF Heaps, NodeRecords, Free
<1>4. X = ToSet(h[n].next) /\ X \subseteq Nodes
  BY <1>2, <1>3 DEF ToSet
<1>5. n \notin X
  BY <1>2, OwnList
<1>6. g = [m \in Nodes |-> IF m \in X THEN Free
                           ELSE IF m = n THEN [h[n] EXCEPT !.next = <<>>] ELSE h[m]]
  BY <1>1, <1>4 DEF Cleared
<1>7. /\ \A y \in Nodes \ (X \cup {n}) : g[y] = h[y]
      /\ \A x \in X : g[x] = Free
      /\ g[n] = [h[n] EXCEPT !.next = <<>>]
  BY <1>4, <1>5, <1>6
<1>8. /\ g[n].kind = h[n].kind /\ g[n].id = h[n].id /\ g[n].name = h[n].name
      /\ g[n].parent = h[n].parent /\ g[n].filled = h[n].filled /\ g[n].next = <<>>
  BY <1>3, <1>7
<1>9. g \in Heaps
  <2>1. <<>> \in Seq(Nodes)
    OBVIOUS
  <2>2. [h[n] EXCEPT !.next = <<>>]
           \in [kind : Kinds \cup {"free"}, id : Ids, name : Names \cup {NoName},
                parent : Nodes \cup {NoNode}, filled : BOOLEAN, next : Seq(Nodes)]
    BY <1>3, <2>1
  <2>. QED
    BY <1>3, <1>6, <2>2 DEF Heaps, NodeRecords
<1>10. g[n].kind = "free" => g[n] = Free
  <2>1. ASSUME g[n].kind = "free"
        PROVE  g[n] = Free
    <3>1. h[n] = Free
      BY <1>8, <2>1 DEF NodesOK
    <3>2. Free.next = <<>>
      BY DEF Free
    <3>3. [Free EXCEPT !.next = <<>>] = Free
      BY <1>3, <3>2
    <3>. QED
      BY <1>7, <3>1, <3>3
  <2>. QED
    BY <2>1
<1>11. Pruned(h, g, n, X)
  BY <1>2, <1>4, <1>5, <1>7, <1>8, <1>9, <1>10 DEF Pruned
<1>12. Left(h, g, n, X)
  <2>1. Len(g[n].next) = 0
    BY <1>8
  <2>2. \A j \in 1..Len(h[n].next) : h[n].next[j] \in X
    BY <1>2
  <2>3. \A x, m : IsFirst(h, n, x, m) => m \in X
    BY <2>2 DEF IsFirst
  <2>. QED
    BY <2>1, <2>2, <2>3 DEF Left
<1>. QED
  BY <1>1, <1>2, <1>8, <1>11, <1>12

\* A list without its i-th entry.
LEMMA RemoveFirstIs ==
  ASSUME NEW l \in Seq(Nodes), NEW i \in 1..Len(l),
         \A j \in 1..Len(l) : l[j] = l[i] => j = i
  PROVE  /\ RemoveFirst(l, l[i]) \in Seq(Nodes) /\ Len(RemoveFirst(l, l[i])) = Len(l) - 1
         /\ \A k \in 1..Len(l) - 1 :
              RemoveFirst(l, l[i])[k] = IF k < i THEN l[k] ELSE l[k+1]
<1>. DEFINE I == {j \in 1..Len(l) : l[j] = l[i]}
<1>1. I = {i} /\ Len(l) \in Nat
  OBVIOUS
<1>2. SelectInSeq(l, LAMBDA v : v = l[i]) = i
  <2>1. Min(I) = i
    BY <1>1 DEF Min
  <2>2. I # {}
    BY <1>1
  <2>. QED
    BY <2>1, <2>2 DEF SelectInSeq
<1>3. RemoveFirst(l, l[i]) = SubSeq(l, 1, i-1) \o SubSeq(l, i+1, Len(l))
  BY <1>2 DEF RemoveFirst, RemoveAt, SelectInSeq
<1>. DEFINE a == SubSeq(l, 1, i-1)
            b == SubSeq(l, i+1, Len(l))
<1>4. /\ a \in Seq(Nodes) /\ Len(a) = i - 1 /\ \A k \in 1..i-1 : a[k] = l[k]
      /\ b \in Seq(Nodes) /\ Len(b) = Len(l) - i /\ \A k \in 1..Len(l)-i : b[k] = l[k+i]
  BY <1>1
<1>. HIDE DEF a, b
<1>5. a \o b \in Seq(Nodes) /\ Len(a \o b) = Len(l) - 1
  <2>1. PICK x \in Seq(Nodes), y \in Seq(Nodes) : x = a /\ y = b
    BY <1>4
  <2>2. x \o y \in Seq(Nodes) /\ Len(x \o y) = Len(x) + Len(y)
    OBVIOUS
  <2>. QED
    BY <1>1, <1>4, <2>1, <2>2
<1>6. ASSUME NEW k \in 1..Len(l)-1
      PROVE  (a \o b)[k] = IF k < i THEN l[k] ELSE l[k+1]
  <2>1. CASE k < i
    <3>1. k \in 1..i-1 /\ (a \o b)[k] = a[k]
      BY <1>1, <1>4, <2>1
    <3>. QED
      BY <1>4, <2>1, <3>1
  <2>2. CASE ~(k < i)
    <3>1. /\ (a \o b)[k] = b[k - (i-1)] /\ k - (i-1) \in 1..Len(l)-i
          /\ (k - (i-1)) + i = k + 1
      BY <1>1, <1>4, <2>2
    <3>. QED
      BY <1>4, <2>2, <3>1
  <2>. QED
    BY <2>1, <2>2
<1>7. RemoveFirst(l, l[i]) = a \o b
  BY <1>3 DEF a, b
<1>. QED
  BY <1>5, <1>6, <1>7

\* erase() of an entry.
LEMMA ErasedPrunes ==
  ASSUME NEW h \in Heaps, NEW rt, NEW c, NEW born \in [Ids -> Paths], NodesOK(h, rt, c),
         TreeOK(h, rt, born), NEW n \in Nodes, NEW i \in 1..Len(h[n].next),
         NEW m, m = h[n].next[i], h[m].next = <<>>
  PROVE  Pruned(h, Erased(h, n, m), n, {m}) /\ Left(h, Erased(h, n, m), n, {m})
<1>1. PICK g : g = Erased(h, n, m)
  OBVIOUS
<1>2. PICK l \in Seq(Nodes) : l = h[n].next
  BY DEF Heaps, NodeRecords
<1>3. /\ h \in [Nodes -> [kind : Kinds \cup {"free"}, id : Ids, name : Names \cup {NoName},
                          parent : Nodes \cup {NoNode}, filled : BOOLEAN, next : Seq(Nodes)]]
      /\ Free \in [kind : Kinds \cup {"free"}, id : Ids, name : Names \cup {NoName},
                   parent : Nodes \cup {NoNode}, filled : BOOLEAN, next : Seq(Nodes)]
  BY IdsAssumption DEF Heaps, NodeRecords, Free
<1>4. m \in Nodes /\ m # n /\ i \in 1..Len(l) /\ l[i] = m
  BY <1>2, OwnList
<1>5. \A j, k \in 1..Len(l) : l[j] = l[k] => j = k
  BY <1>2 DEF TreeOK, ListOK
<1>6. PICK q \in Seq(Nodes) : q = RemoveFirst(l, m)
  BY <1>4, <1>5, RemoveFirstIs
<1>7. Len(q) = Len(l) - 1 /\ \A k \in 1..Len(l)-1 : q[k] = IF k < i THEN l[k] ELSE l[k+1]
  BY <1>4, <1>5, <1>6, RemoveFirstIs
<1>8. g = [x \in Nodes |-> IF x = m THEN Free
                           ELSE IF x = n THEN [h[n] EXCEPT !.next = q] ELSE h[x]]
  BY <1>1, <1>2, <1>6 DEF Erased
<1>9. /\ \A y \in Nodes \ ({m} \cup {n}) : g[y] = h[y]
      /\ g[m] = Free /\ g[n] = [h[n] EXCEPT !.next = q]
  BY <1>4, <1>8
<1>10. /\ g[n].kind = h[n].kind /\ g[n].id = h[n].id /\ g[n].name = h[n].name
       /\ g[n].parent = h[n].parent /\ g[n].filled = h[n].filled /\ g[n].next = q
  BY <1>3, <1>9
<1>11. g \in Heaps
  <2>1. [h[n] EXCEPT !.next = q]
           \in [kind : Kinds \cup {"free"}, id : Ids, name : Names \cup {NoName},
                parent : Nodes \cup {NoNode}, filled : BOOLEAN, next : Seq(Nodes)]
    BY <1>3
  <2>. QED
    BY <1>3, <1>8, <2>1 DEF Heaps, NodeRecords
<1>12. h[n].kind # "free"
  <2>1. h[n].kind = "free" => Len(h[n].next) = 0
    BY DEF NodesOK, Free
  <2>. QED
    BY <2>1
<1>13. Pruned(h, g, n, {m})
  BY <1>4, <1>9, <1>10, <1>11, <1>12 DEF Pruned
<1>0. Len(l) \in Nat /\ i \in Nat /\ 1 <= i /\ i <= Len(l)
  BY <1>4
<1>14. Left(h, g, n, {m})
  <2>1. ASSUME NEW k \in 1..Len(q)
        PROVE  \E j \in 1..Len(l) : q[k] = l[j] /\ j # i /\ j = IF k < i THEN k ELSE k + 1
    <3>1. k \in 1..Len(l) /\ k + 1 \in 1..Len(l)
      BY <1>0, <1>7
    <3>2. q[k] = IF k < i THEN l[k] ELSE l[k+1]
      BY <1>0, <1>7
    <3>. QED
      BY <1>0, <3>1, <3>2
  <2>2. ASSUME NEW k \in 1..Len(q)
        PROVE  /\ \E j \in 1..Len(l) : q[k] = l[j]
               /\ q[k] # m /\ \A j \in 1..Len(q) : q[j] = q[k] => j = k
    <3>1. PICK a \in 1..Len(l) : q[k] = l[a] /\ a # i /\ a = IF k < i THEN k ELSE k + 1
      BY <2>1
    <3>2. q[k] # m
      BY <1>4, <1>5, <3>1
    <3>3. ASSUME NEW j \in 1..Len(q), q[j] = q[k]
          PROVE  j = k
      <4>1. PICK b \in 1..Len(l) : q[j] = l[b] /\ b # i /\ b = IF j < i THEN j ELSE j + 1
        BY <2>1
      <4>2. a = b
        BY <1>5, <3>1, <3>3, <4>1
      <4>. QED
        BY <1>0, <1>7, <3>1, <4>1, <4>2
    <3>. QED
      BY <3>1, <3>2, <3>3
  <2>3. ASSUME NEW j \in 1..Len(l), l[j] # m
        PROVE  \E k \in 1..Len(q) : q[k] = l[j]
    <3>1. CASE j < i
      <4>1. j \in 1..Len(q) /\ q[j] = l[j]
        BY <1>0, <1>7, <3>1
      <4>. QED
        BY <4>1
    <3>2. CASE j > i
      <4>1. j - 1 \in 1..Len(q) /\ ~(j - 1 < i) /\ (j - 1) + 1 = j
        BY <1>0, <1>7, <3>2
      <4>2. q[j-1] = l[j]
        BY <1>7, <4>1
      <4>. QED
        BY <4>1, <4>2
    <3>3. j # i
      BY <1>4, <2>3
    <3>. QED
      BY <1>0, <3>1, <3>2, <3>3
  <2>4. ASSUME NEW x, NEW y, y # m, IsFirst(h, n, x, y)
        PROVE  IsFirst(g, n, x, y)
    <3>1. PICK a \in 1..Len(l) : /\ l[a] = y /\ h[y].name = x
                                 /\ \A j \in 1..a-1 : h[l[j]].name # x
      BY <1>2, <2>4 DEF IsFirst
    <3>2. \A j \in 1..Len(l) : l[j] # m => g[l[j]].name = h[l[j]].name
      <4>. TAKE j \in 1..Len(l)
      <4>1. l[j] \in Nodes
        OBVIOUS
      <4>. QED
        BY <1>9, <1>10, <4>1
    <3>3. PICK k \in 1..Len(q) : q[k] = l[a]
      BY <2>3, <2>4, <3>1
    <3>4. ASSUME NEW j \in 1..k-1
          PROVE  g[q[j]].name # x
      <4>1. j \in 1..Len(q) /\ j < k
        BY <1>0, <1>7
      <4>2. PICK b \in 1..Len(l) : q[j] = l[b] /\ b # i /\ b = IF j < i THEN j ELSE j + 1
        BY <2>1, <4>1
      <4>3. PICK e \in 1..Len(l) : q[k] = l[e] /\ e # i /\ e = IF k < i THEN k ELSE k + 1
        BY <2>1
      <4>4. e = a
        BY <1>5, <3>3, <4>3
      <4>5. b < a
        BY <1>0, <4>1, <4>2, <4>3, <4>4
      <4>6. h[l[b]].name # x
        BY <1>0, <3>1, <4>5
      <4>7. l[b] # m
        BY <1>4, <1>5, <4>2
      <4>. QED
        BY <3>2, <4>2, <4>6, <4>7
    <3>5. g[y].name = x
      BY <2>4, <3>1, <3>2
    <3>. QED
      BY <1>10, <3>1, <3>3, <3>4, <3>5 DEF IsFirst
  <2>. QED
    BY <1>2, <1>10, <2>2, <2>3, <2>4 DEF Left
<1>. QED
  BY <1>1, <1>13, <1>14

\* A node is evicted.
LEMMA EvictKeeps ==
  ASSUME NEW r, NEW born, Sane(r, born), NEW n
  PROVE  LET s == Evict(r, n)
         IN /\ Sane(s, born) /\ s.heap = r.heap /\ s.cloud = r.cloud /\ s.root = r.root
            /\ (s.ok <=> r.ok) /\ s.res = r.res /\ s.fuel = r.fuel
            /\ DOMAIN s.pathOf \subseteq DOMAIN r.pathOf /\ n \notin DOMAIN s.pathOf
<1>1. CASE n \notin DOMAIN r.pathOf
  BY <1>1 DEF Evict
<1>2. CASE n \in DOMAIN r.pathOf
  <2>1. PICK q : q = r.pathOf[n]
    OBVIOUS
  <2>2. PICK bp : bp = Restrict(r.byPath, DOMAIN r.byPath \ {q})
    OBVIOUS
  <2>3. PICK po : po = Restrict(r.pathOf, DOMAIN r.pathOf \ {n})
    OBVIOUS
  <2>4. PICK s : s = Evict(r, n)
    OBVIOUS
  <2>5. s = [r EXCEPT !.byPath = bp, !.pathOf = po]
    BY <1>2, <2>1, <2>2, <2>3, <2>4 DEF Evict
  <2>6. r \in Handlers /\ r.byPath \in PathMaps /\ r.pathOf \in NodeMaps
    BY DEF Sane, Handlers
  <2>7. bp \in PathMaps
    <3>1. /\ DOMAIN r.byPath \ {q} \in SUBSET Paths
          /\ \A x \in DOMAIN r.byPath : r.byPath[x] \in Nodes
      BY <2>6 DEF PathMaps
    <3>2. bp \in [DOMAIN r.byPath \ {q} -> Nodes]
      BY <2>2, <3>1 DEF Restrict
    <3>. QED
      BY <3>1, <3>2 DEF PathMaps
  <2>8. po \in NodeMaps
    <3>1. /\ DOMAIN r.pathOf \ {n} \in SUBSET Nodes
          /\ \A x \in DOMAIN r.pathOf : r.pathOf[x] \in Paths
      BY <2>6 DEF NodeMaps
    <3>2. po \in [DOMAIN r.pathOf \ {n} -> Paths]
      BY <2>3, <3>1 DEF Restrict
    <3>. QED
      BY <3>1, <3>2 DEF NodeMaps
  <2>9. /\ s \in Handlers /\ s.heap = r.heap /\ s.cloud = r.cloud /\ s.root = r.root
        /\ s.byPath = bp /\ s.pathOf = po /\ s.ok = r.ok /\ s.res = r.res
        /\ s.fuel = r.fuel
    BY <2>5, <2>6, <2>7, <2>8 DEF Handlers
  <2>10. /\ DOMAIN bp = DOMAIN r.byPath \ {q} /\ \A x \in DOMAIN bp : bp[x] = r.byPath[x]
         /\ DOMAIN po = DOMAIN r.pathOf \ {n} /\ \A x \in DOMAIN po : po[x] = r.pathOf[x]
    BY <2>2, <2>3 DEF Restrict
  <2>11. CacheOK(r.heap, r.root, bp, po)
    <3>1. CacheOK(r.heap, r.root, r.byPath, r.pathOf)
      BY DEF Sane, Sound
    <3>. QED
      BY <2>1, <2>10, <3>1 DEF CacheOK
  <2>12. Sane(s, born)
    BY <2>9, <2>11 DEF Sane, Sound
  <2>. QED
    BY <2>4, <2>9, <2>10, <2>12
<1>. QED
  BY <1>1, <1>2

\* What the drive deletes may stay in the tree: its path is what it was.
LEMMA DeleteFits ==
  ASSUME NEW r, NEW born, Sane(r, born), NEW i \in Ids \ {RootId}
  PROVE  Fits(r, Delete(r.cloud, i), born)
<1>1. PICK c : c = Delete(r.cloud, i)
  OBVIOUS
<1>2. PICK U : U = Under(r.cloud, i)
  OBVIOUS
<1>3. /\ r.cloud \in [Ids -> Entry] /\ r.heap \in Heaps /\ born \in [Ids -> Paths]
      /\ CloudOK(r.cloud, born) /\ NodesOK(r.heap, r.root, r.cloud) /\ TreeOK(r.heap, r.root, born)
  BY DEF Sane, Sound, Handlers, Clouds
<1>4. c = [j \in Ids |-> IF j \in U THEN Gone ELSE r.cloud[j]]
  BY <1>1, <1>2 DEF Delete
<1>5. Gone \in Entry /\ Gone.kind = "gone" /\ "gone" \notin Kinds
  BY IdsAssumption DEF Gone, Entry, Kinds
<1>6. c \in Clouds
  BY <1>3, <1>4, <1>5 DEF Clouds
<1>7. \A j \in Ids : /\ r.cloud[j].kind # "unborn" => c[j].kind # "unborn"
                     /\ Exists(c, j) => c[j] = r.cloud[j]
  BY <1>4, <1>5 DEF Exists
<1>10. /\ \A x \in U : x = i \/ x # RootId
       /\ \A x \in U : Children(r.cloud, x) \subseteq U
  <2>1. r.cloud \in Clouds
    BY <1>3 DEF Clouds
  <2>. QED
    BY <1>2, <1>3, <2>1, UnderFacts
<1>8. CloudOK(c, born)
  <2>1. Exists(c, RootId) /\ born[RootId] = <<>>
    BY <1>3, <1>4, <1>10, IdsAssumption DEF CloudOK, Exists
  <2>2. ASSUME NEW j \in Ids \ {RootId}, Exists(c, j)
        PROVE  Exists(c, c[j].parent) /\ born[j] = Append(born[c[j].parent], c[j].name)
    <3>1. /\ c[j] = r.cloud[j] /\ r.cloud[j].parent \in Ids /\ Exists(r.cloud, j)
          /\ j \notin U
      BY <1>3, <1>4, <1>5, <1>7, <2>2 DEF Entry, Exists
    <3>2. /\ Exists(r.cloud, r.cloud[j].parent)
          /\ born[j] = Append(born[r.cloud[j].parent], r.cloud[j].name)
      BY <1>3, <3>1 DEF CloudOK
    <3>3. r.cloud[j].parent \notin U
      BY <1>10, <3>1 DEF Children
    <3>. QED
      BY <1>4, <3>1, <3>2, <3>3 DEF Exists
  <2>. QED
    BY <2>1, <2>2 DEF CloudOK
<1>9. NodesOK(r.heap, r.root, c)
  <2>1. \A n \in Nodes : r.heap[n].id \in Ids
    BY <1>3 DEF Heaps, NodeRecords
  <2>2. ASSUME NEW n \in Nodes, Filed(r.heap, r.root, r.cloud, n)
        PROVE  Filed(r.heap, r.root, c, n)
    <3>1. Exists(c, r.heap[n].id) => /\ c[r.heap[n].id] = r.cloud[r.heap[n].id]
                                     /\ Exists(r.cloud, r.heap[n].id)
      BY <1>7, <2>1 DEF Exists
    <3>. QED
      BY <2>2, <3>1 DEF Filed
  <2>3. \A n \in Nodes : r.cloud[r.heap[n].id].kind # "unborn" => c[r.heap[n].id].kind # "unborn"
    BY <1>7, <2>1
  <2>. QED
    BY <1>3, <2>2, <2>3 DEF NodesOK
<1>. QED
  BY <1>1, <1>3, <1>6, <1>8, <1>9 DEF Fits

\* The node y of g is that of h but for its list, which may be empty.
Drained(h, g, y) == g[y] = h[y] \/ g[y] = [h[y] EXCEPT !.next = <<>>]

\* clear() frees the entries of n, and changes nothing else.
LEMMA ClearedIs ==
  ASSUME NEW h \in Heaps, NEW n \in Nodes, ~Has(h, n, n)
  PROVE  LET g == Cleared(h, n)
         IN /\ g[n] = [h[n] EXCEPT !.next = <<>>]
            /\ \A y \in Nodes : Has(h, n, y) => g[y] = Free
            /\ \A y \in Nodes : y # n /\ ~Has(h, n, y) => g[y] = h[y]
<1>1. DOMAIN h[n].next = 1..Len(h[n].next)
  BY DEF Heaps, NodeRecords
<1>2. \A y : y \in ToSet(h[n].next) <=> Has(h, n, y)
  BY <1>1 DEF ToSet, Has
<1>. QED
  BY <1>2 DEF Cleared

\* From r to s the entries of n go, then its file and what is below it, and n goes
\* from the cache; nothing else does.
Shrinks(r, s, n) ==
  /\ s.root = r.root /\ DOMAIN s.pathOf \subseteq DOMAIN r.pathOf
  /\ ~r.ok => s = r
  /\ Drained(r.heap, s.heap, n)
  /\ \A y \in Nodes : Has(r.heap, n, y) => s.heap[y] \in {r.heap[y], Free}
  /\ \A y \in Nodes : y # n /\ ~Has(r.heap, n, y) => s.heap[y] = r.heap[y]
  /\ \/ s.cloud = r.cloud /\ (r.ok => ~s.ok)
     \/ s.cloud = Delete(r.cloud, r.heap[n].id) /\ Exists(r.cloud, r.heap[n].id)
  /\ s.ok => /\ s.heap[n].next = <<>> /\ n \notin DOMAIN s.pathOf
             /\ \A y \in Nodes : Has(r.heap, n, y) => s.heap[y] = Free
  /\ r.ok /\ r.fuel < 0 /\ Exists(r.cloud, r.heap[n].id) => s.ok /\ s.fuel < 0

\* The entries of a node are freed, when they have no entries and are not
\* cached.
LEMMA ForgetKeeps ==
  ASSUME NEW r, NEW born, Sane(r, born), r.root # NoNode, NEW n \in Nodes,
         \A k \in 1..Len(r.heap[n].next) : /\ r.heap[r.heap[n].next[k]].next = <<>>
                                           /\ r.heap[n].next[k] \notin DOMAIN r.pathOf
  PROVE  LET s == Forget(r, n)
         IN /\ Sane(s, born) /\ s.ok = r.ok /\ s.root = r.root /\ s.pathOf = r.pathOf
            /\ s.cloud = r.cloud /\ s.fuel = r.fuel /\ s.heap = Cleared(r.heap, n)
            /\ ~Has(r.heap, n, n)
<1>1. PICK h \in Heaps, rt \in Nodes : h = r.heap /\ rt = r.root
  BY DEF Sane, Handlers
<1>2. PICK g : g = Cleared(h, n)
  OBVIOUS
<1>3. PICK X : X = {h[n].next[k] : k \in 1..Len(h[n].next)}
  OBVIOUS
<1>4. /\ r \in Handlers /\ born \in [Ids -> Paths] /\ NodesOK(h, rt, r.cloud)
      /\ TreeOK(h, rt, born) /\ r.byPath \in PathMaps /\ CacheOK(h, rt, r.byPath, r.pathOf)
      /\ Exists(r.cloud, RootId)
  BY <1>1 DEF Sane, Sound, Handlers, CloudOK
<1>5. Pruned(h, g, n, X) /\ Left(h, g, n, X)
  BY <1>1, <1>2, <1>3, <1>4, ClearedPrunes
<1>6. NodesOK(g, rt, r.cloud) /\ TreeOK(g, rt, born) /\ g \in Heaps
  <2>1. g \in Heaps
    BY <1>5 DEF Pruned
  <2>. QED
    BY <1>4, <1>5, <2>1, PrunedTree
<1>7. CacheOK(g, rt, r.byPath, r.pathOf)
  <2>1. X \cap DOMAIN r.pathOf = {}
    BY <1>1, <1>3
  <2>. QED
    BY <1>4, <1>5, <2>1, PrunedCache
<1>8. PICK s : s = Forget(r, n)
  OBVIOUS
<1>9. s = [r EXCEPT !.heap = g]
  BY <1>1, <1>2, <1>8 DEF Forget
<1>10. /\ s \in Handlers /\ s.heap = g /\ s.cloud = r.cloud /\ s.root = r.root
       /\ s.byPath = r.byPath /\ s.pathOf = r.pathOf /\ s.ok = r.ok /\ s.res = r.res
       /\ s.fuel = r.fuel
  BY <1>4, <1>6, <1>9 DEF Handlers
<1>11. Sane(s, born)
  BY <1>1, <1>6, <1>7, <1>10 DEF Sane, Sound
<1>12. ~Has(h, n, n)
  BY <1>4, OwnList DEF Has
<1>. QED
  BY <1>1, <1>2, <1>8, <1>10, <1>11, <1>12

\* A request for a file that is there does not fail when none is to fail.
LEMMA UpdateWell ==
  ASSUME NEW r \in Handlers, NEW i, NEW c, r.fuel < 0, Exists(r.cloud, i)
  PROVE  LET s == Update(r, i, c) IN s.ok = r.ok /\ s.fuel < 0 /\ s.cloud = c
<1>1. r.fuel \in Int
  BY DEF Handlers
<1>2. ~Fails(r, i)
  BY <1>1 DEF Fails
<1>3. PICK s : s = Update(r, i, c)
  OBVIOUS
<1>4. s = [Spend(r) EXCEPT !.cloud = c]
  BY <1>2, <1>3 DEF Update
<1>5. s.ok = r.ok /\ s.fuel = r.fuel - 1 /\ s.cloud = c
  BY <1>4 DEF Spend, Handlers
<1>6. s.fuel < 0
  BY <1>1, <1>5
<1>. QED
  BY <1>3, <1>5, <1>6

\* A node of which all entries have been removed.
LEMMA RemoveOneKeeps ==
  ASSUME NEW r, NEW born, Sane(r, born), r.root # NoNode, NEW n \in Nodes,
         r.ok => /\ r.heap[n].id # RootId
                 /\ \A k \in 1..Len(r.heap[n].next) :
                      /\ r.heap[r.heap[n].next[k]].next = <<>>
                      /\ r.heap[n].next[k] \notin DOMAIN r.pathOf
  PROVE  LET s == RemoveOne(r, n) IN Sane(s, born) /\ Shrinks(r, s, n)
<1>1. CASE ~r.ok
  <2>1. RemoveOne(r, n) = r
    BY <1>1 DEF RemoveOne
  <2>2. Shrinks(r, r, n)
    BY <1>1 DEF Shrinks, Drained
  <2>. QED
    BY <2>1, <2>2
<1>2. CASE r.ok
  <2>1. PICK s : s = Forget(r, n)
    OBVIOUS
  <2>2. /\ Sane(s, born) /\ s.ok = r.ok /\ s.root = r.root /\ s.pathOf = r.pathOf
        /\ s.cloud = r.cloud /\ s.fuel = r.fuel /\ s.heap = Cleared(r.heap, n)
        /\ ~Has(r.heap, n, n)
    BY <1>2, <2>1, ForgetKeeps
  <2>3. /\ r.heap \in Heaps /\ s.heap[n] = [r.heap[n] EXCEPT !.next = <<>>]
        /\ \A y \in Nodes : Has(r.heap, n, y) => s.heap[y] = Free
        /\ \A y \in Nodes : y # n /\ ~Has(r.heap, n, y) => s.heap[y] = r.heap[y]
    <3>1. r.heap \in Heaps
      BY DEF Sane, Handlers
    <3>. QED
      BY <2>2, <3>1, ClearedIs
  <2>4. PICK i : i = r.heap[n].id
    OBVIOUS
  <2>5. i = s.heap[n].id /\ i \in Ids \ {RootId} /\ s.heap[n].next = <<>>
    <3>1. r.heap[n] \in NodeRecords /\ r.heap[n].id # RootId
      BY <1>2, <2>3 DEF Heaps
    <3>. QED
      BY <2>3, <2>4, <3>1 DEF NodeRecords
  <2>6. PICK c : c = Delete(s.cloud, i)
    OBVIOUS
  <2>7. PICK t : t = Update(s, i, c)
    OBVIOUS
  <2>8. Fits(s, c, born)
    BY <2>2, <2>5, <2>6, DeleteFits
  <2>9. /\ SameTree(s, t) /\ Sane(t, born)
        /\ (s.cloud = t.cloud /\ ~t.ok) \/ (t.cloud = c /\ Exists(s.cloud, i))
    <3>1. s.ok
      BY <1>2, <2>2
    <3>2. PICK a : a = t
      OBVIOUS
    <3>3. /\ SameTree(s, a)
          /\ \/ a.cloud = s.cloud /\ ~a.ok /\ Sane(a, born)
             \/ a.cloud = c /\ Sane(a, born) /\ Exists(s.cloud, i)
      BY <2>2, <2>7, <2>8, <3>1, <3>2, UpdateKeeps
    <3>. QED
      BY <3>2, <3>3
  <2>10. t.heap = s.heap /\ t.root = r.root /\ t.pathOf = r.pathOf
    BY <2>2, <2>9 DEF SameTree
  <2>11. r.fuel < 0 /\ Exists(r.cloud, i) => t.ok /\ t.fuel < 0
    BY <1>2, <2>2, <2>7, UpdateWell DEF Sane
  <2>12. CASE ~t.ok
    <3>1. RemoveOne(r, n) = t
      BY <1>2, <2>1, <2>5, <2>6, <2>7, <2>12 DEF RemoveOne
    <3>2. Shrinks(r, t, n)
      BY <1>2, <2>2, <2>3, <2>4, <2>6, <2>9, <2>10, <2>11, <2>12 DEF Shrinks, Drained
    <3>. QED
      BY <2>9, <3>1, <3>2
  <2>13. CASE t.ok
    <3>1. PICK u : u = Evict(t, n)
      OBVIOUS
    <3>2. RemoveOne(r, n) = u
      BY <1>2, <2>1, <2>5, <2>6, <2>7, <2>13, <3>1 DEF RemoveOne
    <3>3. /\ Sane(u, born) /\ u.heap = t.heap /\ u.root = t.root /\ (u.ok <=> t.ok)
          /\ u.cloud = t.cloud /\ u.fuel = t.fuel
          /\ DOMAIN u.pathOf \subseteq DOMAIN t.pathOf /\ n \notin DOMAIN u.pathOf
      BY <2>9, <3>1, EvictKeeps
    <3>4. /\ u.root = r.root /\ DOMAIN u.pathOf \subseteq DOMAIN r.pathOf /\ u.heap = s.heap
          /\ u.ok /\ n \notin DOMAIN u.pathOf
      BY <2>10, <2>13, <3>3
    <3>5. u.cloud = Delete(r.cloud, r.heap[n].id) /\ Exists(r.cloud, r.heap[n].id)
      BY <2>2, <2>4, <2>6, <2>9, <2>13, <3>3
    <3>6. r.fuel < 0 => u.fuel < 0
      BY <2>4, <2>11, <3>3, <3>5
    <3>7. Shrinks(r, u, n)
      <4>1. Drained(r.heap, u.heap, n)
        BY <2>3, <3>4 DEF Drained
      <4>2. /\ \A y \in Nodes : Has(r.heap, n, y) => u.heap[y] = Free
            /\ \A y \in Nodes : y # n /\ ~Has(r.heap, n, y) => u.heap[y] = r.heap[y]
        BY <2>3, <3>4
      <4>3. u.heap[n].next = <<>> /\ n \notin DOMAIN u.pathOf
        BY <2>5, <3>4
      <4>. QED
        BY <1>2, <3>4, <3>5, <3>6, <4>1, <4>2, <4>3 DEF Shrinks
    <3>. QED
      BY <3>2, <3>3, <3>7
  <2>. QED
    BY <2>12, <2>13
<1>. QED
  BY <1>1, <1>2

\* What is left of what is below a file is still below it.
LEMMA UnderStays ==
  ASSUME NEW c \in Clouds, NEW born \in [Ids -> Paths], CloudOK(c, born), NEW j \in Ids,
         NEW d \in Clouds, CloudOK(d, born), \A x \in Ids : Exists(d, x) => d[x] = c[x]
  PROVE  \A i \in Under(c, j) : Exists(d, i) => i \in Under(d, j)
<1>. DEFINE X == {x \in Ids : Exists(d, x) => x \in Under(d, j)}
<1>1. /\ j \in Under(d, j)
      /\ \A x \in Under(d, j) : Children(d, x) \subseteq Under(d, j)
  BY UnderFacts
<1>2. ASSUME NEW x \in X, NEW y \in Children(c, x)
      PROVE  y \in X
  <2>. SUFFICES ASSUME Exists(d, y)
                PROVE  y \in Under(d, j)
    BY DEF Children
  <2>1. y \in Ids \ {RootId} /\ d[y].parent = x
    BY <1>2 DEF Children
  <2>2. Exists(d, x)
    BY <2>1 DEF CloudOK
  <2>3. x \in Under(d, j) /\ y \in Children(d, x)
    BY <2>1, <2>2 DEF Children
  <2>. QED
    BY <1>1, <2>3
<1>3. Under(c, j) \subseteq X
  <2>1. j \in X /\ X \in SUBSET Ids /\ \A x \in X : Children(c, x) \subseteq X
    BY <1>1, <1>2
  <2>. HIDE DEF X
  <2>. QED
    BY <2>1, UnderLeast
<1>. QED
  BY <1>3

\* y is an entry of the j-th node of s, and all before it have gone.
Frees(r, s, j, y) ==
  Has(r.heap, s[j], y) /\ \A i \in 1..j-1 : Exists(r.cloud, r.heap[s[i]].id)

\* The node n is done in x: its entries, its file and what was below it have gone.
Done(r, x, n) ==
  /\ x.heap[n].next = <<>> /\ n \notin DOMAIN x.pathOf
  /\ \A y \in Nodes : Has(r.heap, n, y) => x.heap[y] = Free
  /\ Exists(r.cloud, r.heap[n].id) /\ \A i \in Under(r.cloud, r.heap[n].id) : ~Exists(x.cloud, i)

\* No request is to fail, and the files of s are there when their turn comes.
Smooth(r, s) ==
  /\ r.ok /\ r.fuel < 0
  /\ \A k \in 1..Len(s) :
       /\ Exists(r.cloud, r.heap[s[k]].id)
       /\ \A j \in 1..k-1 : r.heap[s[k]].id \notin Under(r.cloud, r.heap[s[j]].id)

\* What the first k turns of removeNodes over s have made of r.
Removes(r, x, s, k) ==
  /\ x.root = r.root
  /\ \A y \in Nodes : \/ Drained(r.heap, x.heap, y)
                      \/ x.heap[y] = Free /\ \E j \in 1..k : Frees(r, s, j, y)
  /\ \A y \in Nodes : (\A j \in 1..k : s[j] # y) => x.heap[y] = r.heap[y]
  /\ \A i \in Ids : \/ x.cloud[i] = r.cloud[i]
                    \/ /\ x.cloud[i] = Gone
                       /\ \E j \in 1..k : /\ Exists(r.cloud, r.heap[s[j]].id)
                                          /\ i \in Under(r.cloud, r.heap[s[j]].id)
  /\ x.ok => \A j \in 1..k : Done(r, x, s[j])
  /\ Smooth(r, s) => x.ok /\ x.fuel < 0

\* s has entries first, once, and not the root.
Ordered(h, s) ==
  /\ EntriesFirst(h, s) /\ Once(s)
  /\ \A k \in 1..Len(s) : h[s[k]].kind # "free" /\ h[s[k]].id # RootId

\* One turn.
LEMMA RemoveTurn ==
  ASSUME NEW r, NEW born, Sane(r, born), r.root # NoNode, NEW s \in Seq(Nodes),
         Ordered(r.heap, s), NEW k \in 1..Len(s), NEW x, Sane(x, born), Removes(r, x, s, k - 1)
  PROVE  LET t == RemoveOne(x, s[k]) IN Sane(t, born) /\ Removes(r, t, s, k)
<1>1. PICK n \in Nodes : n = s[k]
  OBVIOUS
<1>2. PICK h \in Heaps : h = r.heap
  BY DEF Sane, Handlers
<1>3. /\ h[n].kind # "free" /\ h[n].id # RootId /\ h[n].id \in Ids
      /\ x.heap \in Heaps /\ x.root = r.root
  <2>1. h[n] \in NodeRecords
    BY DEF Heaps
  <2>. QED
    BY <1>1, <1>2, <2>1 DEF Ordered, Sane, Handlers, Removes, NodeRecords
<1>4. \A j \in 1..k-1 : j \in 1..Len(s) /\ s[j] # n
  BY <1>1, <1>2 DEF Ordered, Once
<1>5. x.heap[n] = h[n] /\ \A y : Has(x.heap, n, y) <=> Has(h, n, y)
  BY <1>2, <1>4 DEF Removes, Has
<1>6. \A y : Has(h, n, y) => \E i \in 1..k-1 : s[i] = y
  BY <1>1, <1>2 DEF Has, Ordered, EntriesFirst
<1>7. x.ok => \A j \in 1..Len(x.heap[n].next) :
                /\ x.heap[x.heap[n].next[j]].next = <<>>
                /\ x.heap[n].next[j] \notin DOMAIN x.pathOf
  <2>. SUFFICES ASSUME x.ok, NEW j \in 1..Len(x.heap[n].next)
                PROVE  /\ x.heap[x.heap[n].next[j]].next = <<>>
                       /\ x.heap[n].next[j] \notin DOMAIN x.pathOf
    OBVIOUS
  <2>1. PICK y : y = x.heap[n].next[j]
    OBVIOUS
  <2>2. Has(h, n, y)
    BY <1>5, <2>1 DEF Has
  <2>3. PICK i \in 1..k-1 : s[i] = y
    BY <1>6, <2>2
  <2>. QED
    BY <2>1, <2>3 DEF Removes, Done
<1>8. PICK t : t = RemoveOne(x, n)
  OBVIOUS
<1>9. Sane(t, born) /\ Shrinks(x, t, n)
  BY <1>3, <1>5, <1>7, <1>8, RemoveOneKeeps
<1>10. PICK c \in Clouds, d \in Clouds : c = r.cloud /\ d = x.cloud
  BY DEF Sane, Handlers
<1>11. /\ born \in [Ids -> Paths] /\ CloudOK(c, born) /\ CloudOK(d, born)
       /\ \A i \in Ids : Exists(d, i) => d[i] = c[i]
  <2>1. born \in [Ids -> Paths] /\ CloudOK(c, born) /\ CloudOK(d, born)
    BY <1>10 DEF Sane, Sound
  <2>2. \A i \in Ids : d[i] = c[i] \/ d[i] = Gone
    BY <1>10 DEF Removes
  <2>. QED
    BY <2>1, <2>2 DEF Exists, Gone, Kinds
<1>12. PICK f \in Ids : f = h[n].id
  BY <1>3
<1>13. \/ t.cloud = d /\ (x.ok => ~t.ok)
       \/ t.cloud = Delete(d, f) /\ Exists(d, f)
  BY <1>5, <1>9, <1>10, <1>12 DEF Shrinks
<1>14. t.root = r.root
  BY <1>3, <1>9 DEF Shrinks
<1>15. ASSUME NEW y \in Nodes
       PROVE  \/ Drained(h, t.heap, y)
              \/ t.heap[y] = Free /\ \E j \in 1..k : Frees(r, s, j, y)
  <2>1. \/ Drained(h, x.heap, y)
        \/ x.heap[y] = Free /\ \E j \in 1..k : Frees(r, s, j, y)
    BY <1>2 DEF Removes
  <2>2. CASE y = n
    BY <1>5, <1>9, <2>2 DEF Shrinks, Drained
  <2>3. CASE y # n /\ ~Has(x.heap, n, y)
    <3>1. t.heap[y] = x.heap[y]
      BY <1>9, <2>3 DEF Shrinks
    <3>. QED
      BY <2>1, <3>1 DEF Drained
  <2>4. CASE Has(x.heap, n, y) /\ t.heap[y] = x.heap[y]
    BY <2>1, <2>4 DEF Drained
  <2>5. CASE Has(x.heap, n, y) /\ t.heap[y] # x.heap[y]
    <3>1. t.heap[y] = Free /\ x.ok
      BY <1>9, <2>5 DEF Shrinks
    <3>2. \A i \in 1..k-1 : Exists(r.cloud, r.heap[s[i]].id)
      BY <3>1 DEF Removes, Done
    <3>3. Frees(r, s, k, y)
      BY <1>1, <1>2, <1>5, <2>5, <3>2 DEF Frees
    <3>. QED
      BY <3>1, <3>3
  <2>. QED
    BY <2>2, <2>3, <2>4, <2>5
<1>16. ASSUME NEW y \in Nodes, \A j \in 1..k : s[j] # y
       PROVE  t.heap[y] = h[y]
  <2>0. k \in 1..k /\ \A j \in 1..k-1 : j \in 1..k
    OBVIOUS
  <2>1. y # n /\ ~Has(x.heap, n, y)
    BY <1>1, <1>5, <1>6, <1>16, <2>0
  <2>2. t.heap[y] = x.heap[y]
    BY <1>9, <2>1 DEF Shrinks
  <2>. QED
    BY <1>2, <1>16, <2>0, <2>2 DEF Removes
<1>17. ASSUME NEW i \in Ids
       PROVE  \/ t.cloud[i] = c[i]
              \/ /\ t.cloud[i] = Gone
                 /\ \E j \in 1..k : Exists(c, h[s[j]].id) /\ i \in Under(c, h[s[j]].id)
  <2>1. \/ d[i] = c[i]
        \/ /\ d[i] = Gone
           /\ \E j \in 1..k : Exists(c, h[s[j]].id) /\ i \in Under(c, h[s[j]].id)
    BY <1>2, <1>10 DEF Removes
  <2>2. CASE t.cloud[i] = d[i]
    BY <2>1, <2>2
  <2>3. CASE t.cloud[i] # d[i]
    <3>1. t.cloud = Delete(d, f) /\ Exists(d, f)
      BY <1>13, <2>3
    <3>2. t.cloud[i] = Gone /\ i \in Under(d, f)
      BY <2>3, <3>1 DEF Delete
    <3>3. f \in Under(c, f)
      BY <1>11, UnderFacts
    <3>4. Under(d, f) \subseteq Under(c, f)
      BY <1>11, <3>3, UnderBelow
    <3>5. Exists(c, f)
      BY <1>11, <3>1 DEF Exists
    <3>. QED
      BY <1>1, <1>12, <3>2, <3>4, <3>5
  <2>. QED
    BY <2>2, <2>3
<1>18. ASSUME t.ok, NEW j \in 1..k
       PROVE  Done(r, t, s[j])
  <2>1. x.ok
    BY <1>9, <1>18 DEF Shrinks
  <2>2. t.cloud = Delete(d, f) /\ Exists(d, f)
    BY <1>13, <1>18, <2>1
  <2>3. CASE j = k
    <3>1. t.heap[n].next = <<>> /\ n \notin DOMAIN t.pathOf
      BY <1>9, <1>18 DEF Shrinks
    <3>2. \A y \in Nodes : Has(h, n, y) => t.heap[y] = Free
      BY <1>5, <1>9, <1>18 DEF Shrinks
    <3>3. Exists(c, f)
      BY <1>11, <2>2 DEF Exists
    <3>4. ASSUME NEW i \in Under(c, f)
          PROVE  ~Exists(t.cloud, i)
      <4>1. i \in Ids
        BY <1>11, UnderFacts
      <4>2. Exists(d, i) => i \in Under(d, f)
        BY <1>11, <3>4, UnderStays
      <4>. QED
        BY <2>2, <4>1, <4>2 DEF Delete, Exists, Gone, Kinds
    <3>. QED
      BY <1>1, <1>2, <1>10, <1>12, <2>3, <3>1, <3>2, <3>3, <3>4 DEF Done
  <2>4. CASE j # k
    <3>1. PICK m \in Nodes : m = s[j] /\ m # n /\ Done(r, x, m)
      <4>1. j \in 1..k-1
        BY <2>4
      <4>. QED
        BY <1>4, <2>1, <4>1 DEF Removes
    <3>2. ASSUME NEW y \in Nodes, y # n
          PROVE  t.heap[y] \in {x.heap[y], Free}
      BY <1>9, <3>2 DEF Shrinks
    <3>3. t.heap[m].next = <<>> /\ m \notin DOMAIN t.pathOf
      BY <1>9, <3>1, <3>2 DEF Done, Shrinks, Free
    <3>4. ASSUME NEW y \in Nodes, Has(h, m, y)
          PROVE  t.heap[y] = Free
      <4>1. x.heap[y] = Free
        BY <1>2, <3>1, <3>4 DEF Done
      <4>2. y # n
        BY <1>3, <1>5, <4>1 DEF Free
      <4>. QED
        BY <3>2, <4>1, <4>2
    <3>5. \A i \in Ids : Exists(t.cloud, i) => Exists(d, i)
      BY <2>2 DEF Delete, Exists, Gone, Kinds
    <3>6. h[m].id \in Ids
      BY DEF Heaps, NodeRecords
    <3>7. Exists(c, h[m].id) /\ \A i \in Under(c, h[m].id) : ~Exists(t.cloud, i)
      BY <1>2, <1>10, <1>11, <3>1, <3>5, <3>6, UnderFacts DEF Done
    <3>. QED
      BY <1>2, <1>10, <3>1, <3>3, <3>4, <3>7 DEF Done
  <2>. QED
    BY <2>3, <2>4
<1>19. ASSUME Smooth(r, s)
       PROVE  t.ok /\ t.fuel < 0
  <2>1. x.ok /\ x.fuel < 0
    BY <1>19 DEF Removes
  <2>2. Exists(c, f) /\ \A j \in 1..k-1 : f \notin Under(c, h[s[j]].id)
    BY <1>1, <1>2, <1>10, <1>12, <1>19 DEF Smooth
  <2>3. d[f] = c[f]
    BY <1>2, <1>10, <2>2 DEF Removes
  <2>4. Exists(d, f)
    BY <2>2, <2>3 DEF Exists
  <2>. QED
    BY <1>5, <1>9, <1>10, <1>12, <2>1, <2>4 DEF Shrinks
<1>20. Removes(r, t, s, k)
  BY <1>2, <1>10, <1>14, <1>15, <1>16, <1>17, <1>18, <1>19 DEF Removes
<1>. QED
  BY <1>1, <1>8, <1>9, <1>20

\* The nodes of a sequence that has entries first go one after the other, up to
\* the request that fails.
LEMMA RemoveAllKeeps ==
  ASSUME NEW r, NEW born, Sane(r, born), r.root # NoNode, NEW s \in Seq(Nodes),
         Ordered(r.heap, s)
  PROVE  Sane(RemoveAll(r, s), born) /\ Removes(r, RemoveAll(r, s), s, Len(s))
<1>. DEFINE L == Len(s)
            Turn(x, k) == RemoveOne(x, s[k])
            S == [k \in 0..L |-> {x \in Handlers : Sane(x, born) /\ Removes(r, x, s, k)}]
            F == [x \in Handlers \X (1..L) |-> Turn(x[1], x[2])]
            Eq(g) == g = [k \in 0..L |-> IF k = 0 THEN r ELSE Turn(g[k-1], k)]
<1>1. L \in Nat /\ \A k \in 1..L : s[k] \in Nodes
  OBVIOUS
<1>2. ASSUME NEW k \in 1..L, NEW x \in S[k-1]
      PROVE  x \in Handlers /\ Turn(x, k) \in S[k]
  <2>1. k - 1 \in 0..L /\ k \in 0..L
    BY <1>1
  <2>2. x \in Handlers /\ Sane(x, born) /\ Removes(r, x, s, k - 1)
    BY <1>2, <2>1
  <2>3. PICK t : t = RemoveOne(x, s[k])
    OBVIOUS
  <2>4. Sane(t, born) /\ Removes(r, t, s, k)
    BY <2>2, <2>3, RemoveTurn
  <2>5. t \in Handlers
    BY <2>4 DEF Sane
  <2>. QED
    BY <2>1, <2>2, <2>3, <2>4, <2>5
<1>3. r \in S[0]
  <2>1. Removes(r, r, s, 0) /\ r \in Handlers
    <3>1. \A y \in Nodes : Drained(r.heap, r.heap, y)
      BY DEF Drained
    <3>2. \A j : j \notin 1..0
      OBVIOUS
    <3>. QED
      BY <3>1, <3>2 DEF Removes, Sane, Smooth
  <2>. QED
    BY <1>1, <2>1
<1>4. PICK g : Eq(g)
  <2>1. \A k \in 1..L : \A x \in S[k-1] : F[<<x, k>>] \in S[k]
    BY <1>2
  <2>2. Runs(L, S, r, F) # {}
    <3>. HIDE DEF F, S, L
    <3>. QED
      BY <1>1, <1>3, <2>1, LoopRuns
  <2>3. PICK g \in [0..L -> UNION {S[k] : k \in 0..L}] :
           /\ g[0] = r /\ \A k \in 1..L : g[k] = F[<<g[k-1], k>>]
           /\ \A k \in 0..L : g[k] \in S[k]
    BY <2>2 DEF Runs
  <2>4. ASSUME NEW k \in 1..L
        PROVE  g[k] = Turn(g[k-1], k)
    <3>1. k - 1 \in 0..L
      BY <1>1
    <3>2. g[k-1] \in Handlers
      BY <1>2, <2>3, <3>1
    <3>. QED
      BY <2>3, <3>2
  <2>5. 0 \notin 1..L /\ 0..L = {0} \cup (1..L)
    BY <1>1, ZeroFirst
  <2>. HIDE DEF Turn
  <2>6. Eq(g)
    BY <2>3, <2>4, <2>5
  <2>. QED
    BY <2>6
<1>. DEFINE at == CHOOSE f : Eq(f)
<1>5. Eq(at)
  BY <1>4
<1>6. at[0] = r /\ \A k \in 1..L : at[k] = Turn(at[k-1], k)
  <2>. HIDE DEF at, Turn
  <2>. QED
    BY <1>1, <1>5
<1>7. at[L] \in S[L]
  <2>1. ASSUME NEW k \in 1..L, at[k-1] \in S[k-1]
        PROVE  at[k] \in S[k]
    <3>. HIDE DEF S, Turn, at
    <3>. QED
      BY <2>1, <1>2, <1>6
  <2>. HIDE DEF S, L, at
  <2>2. \A k \in 0..L : at[k] \in S[k]
    BY <1>1, <1>3, <1>6, <2>1, LoopStays
  <2>. QED
    BY <1>1, <2>2
<1>8. RemoveAll(r, s) = at[L]
  BY DEF RemoveAll, Loop, Turns
<1>. HIDE DEF at, Turn
<1>9. L \in 0..L
  BY <1>1
<1>. QED
  BY <1>7, <1>8, <1>9

\* A list of what is below a node of the tree that is not its root has an order.
LEMMA ListsOrdered ==
  ASSUME NEW r, NEW born, Sane(r, born), NEW m \in Nodes, m # r.root,
         NEW l, Lists(r.heap, born, m, l)
  PROVE  Ordered(r.heap, l) /\ r.root # NoNode
<1>1. PICK h \in Heaps, rt \in Nodes \cup {NoNode}, c \in Clouds :
             h = r.heap /\ rt = r.root /\ c = r.cloud
  BY DEF Sane, Handlers
<1>2. /\ born \in [Ids -> Paths] /\ TreeOK(h, rt, born) /\ NodesOK(h, rt, c) /\ CloudOK(c, born)
  BY <1>1 DEF Sane, Sound
<1>3. /\ l \in Seq(Nodes) /\ Len(l) >= 1 /\ l[Len(l)] = m /\ Of(l) \subseteq Nodes
      /\ EntriesFirst(h, l) /\ Once(l) /\ Branch(h, born, m, Of(l))
  BY <1>1 DEF Lists, Branch
<1>4. h[m].kind # "free"
  BY <1>3 DEF Branch
<1>5. PICK z \in Nodes : Has(h, z, m)
  BY <1>1, <1>2, <1>4 DEF TreeOK, ListedOK, Has
<1>6. ASSUME NEW y \in Of(l)
      PROVE  h[y].kind # "free" /\ h[y].id # RootId
  <2>1. h[y].kind # "free" /\ y \in Nodes
    BY <1>3 DEF Branch
  <2>2. \E u \in Nodes : Has(h, u, y)
    BY <1>3, <1>5 DEF Branch
  <2>. QED
    BY <1>2, <2>1, <2>2, EntryFile
<1>7. Ordered(h, l)
  BY <1>3, <1>6 DEF Ordered, Of
<1>8. rt # NoNode
  BY <1>2, <1>4 DEF NodesOK
<1>. QED
  BY <1>1, <1>7, <1>8

\* removeNodes of what: over the list l, to s, and then its entry, to t.
Strikes(r, what, l, s, t, born) ==
  /\ Lists(r.heap, born, what, l) /\ Ordered(r.heap, l)
  /\ Sane(s, born) /\ Removes(r, s, l, Len(l))
  /\ ~s.ok => t = s
  /\ s.ok => t = [s EXCEPT !.heap = Erased(s.heap, r.heap[what].parent, what)]

\* From r to s nodes have gone: what is marked as read was.
Removed(r, s, born) ==
  Sane(s, born) /\ \A y \in Nodes : s.heap[y].filled => r.heap[y].filled

\* removeNodes of a node that is not the root.
LEMMA RemoveNodesKeeps ==
  ASSUME NEW r, NEW born, Sane(r, born), r.ok, NEW what \in Nodes,
         r.heap[what].kind # "free", what # r.root
  PROVE  LET t == RemoveNodes(r, what)
         IN Removed(r, t, born) /\ \E l, s : Strikes(r, what, l, s, t, born)
<1>1. PICK h \in Heaps, rt \in Nodes : h = r.heap /\ rt = r.root
  BY DEF Sane, Handlers, Sound, NodesOK
<1>2. born \in [Ids -> Paths] /\ TreeOK(h, rt, born) /\ rt # NoNode
  BY <1>1, NodesAssumption DEF Sane, Sound
<1>3. PICK l : l = PostOrder(h, what)
  OBVIOUS
<1>4. Lists(h, born, what, l)
  BY <1>1, <1>2, <1>3, PostOrderLists
<1>5. /\ l \in Seq(Nodes) /\ Len(l) \in Nat /\ Len(l) \in 1..Len(l) /\ l[Len(l)] = what
      /\ Ordered(h, l)
  BY <1>1, <1>4, ListsOrdered DEF Lists
<1>6. PICK s : s = RemoveAll(r, l)
  OBVIOUS
<1>7. Sane(s, born) /\ Removes(r, s, l, Len(l))
  BY <1>1, <1>2, <1>5, <1>6, RemoveAllKeeps
<1>8. PICK f \in Heaps, c \in Clouds : f = s.heap /\ c = s.cloud
  BY <1>7 DEF Sane, Handlers
<1>9. \A y \in Nodes : f[y].filled => h[y].filled
  <2>. TAKE y \in Nodes
  <2>1. Drained(h, f, y) \/ f[y] = Free
    BY <1>1, <1>7, <1>8 DEF Removes
  <2>2. h[y] \in NodeRecords
    BY DEF Heaps
  <2>. QED
    BY <2>1, <2>2 DEF Drained, Free, NodeRecords
<1>10. CASE ~s.ok
  <2>1. RemoveNodes(r, what) = s
    BY <1>1, <1>3, <1>6, <1>10 DEF RemoveNodes
  <2>2. Strikes(r, what, l, s, s, born)
    BY <1>1, <1>4, <1>5, <1>7, <1>10 DEF Strikes
  <2>3. Removed(r, s, born)
    BY <1>1, <1>7, <1>8, <1>9 DEF Removed
  <2>. QED
    BY <2>1, <2>2, <2>3
<1>11. CASE s.ok
  <2>1. /\ NodesOK(f, rt, c) /\ TreeOK(f, rt, born) /\ CacheOK(f, rt, s.byPath, s.pathOf)
        /\ Exists(c, RootId) /\ s.root = rt /\ s.byPath \in PathMaps /\ s \in Handlers
    BY <1>1, <1>7, <1>8 DEF Sane, Sound, Handlers, Removes, CloudOK
  <2>2. f[what].next = <<>> /\ what \notin DOMAIN s.pathOf
    BY <1>5, <1>7, <1>8, <1>11 DEF Removes, Done
  <2>3. f[what].kind # "free" /\ f[what].parent = h[what].parent /\ what # rt
    <3>1. Drained(h, f, what)
      <4>. SUFFICES ASSUME NEW j \in 1..Len(l), Frees(r, l, j, what)
                    PROVE  FALSE
        BY <1>1, <1>7, <1>8 DEF Removes
      <4>1. Len(l) < j
        BY <1>1, <1>5, EntryBefore DEF Frees, Ordered
      <4>. QED
        BY <1>5, <4>1
    <3>2. h[what] \in NodeRecords
      BY DEF Heaps
    <3>. QED
      BY <1>1, <3>1, <3>2 DEF Drained, NodeRecords
  <2>4. PICK n \in Nodes : n = f[what].parent
    BY <2>1, <2>3 DEF TreeOK, ListedOK
  <2>5. PICK i \in 1..Len(f[n].next) : what = f[n].next[i]
    BY <2>1, <2>3, <2>4 DEF TreeOK, ListedOK
  <2>6. PICK g : g = Erased(f, n, what)
    OBVIOUS
  <2>7. Pruned(f, g, n, {what}) /\ Left(f, g, n, {what})
    BY <1>2, <2>1, <2>2, <2>5, <2>6, ErasedPrunes
  <2>8. g \in Heaps
    BY <2>7 DEF Pruned
  <2>9. NodesOK(g, rt, c) /\ TreeOK(g, rt, born)
    BY <2>1, <2>7, PrunedTree
  <2>10. CacheOK(g, rt, s.byPath, s.pathOf)
    BY <2>1, <2>2, <2>7, PrunedCache
  <2>11. PICK t : t = [s EXCEPT !.heap = g]
    OBVIOUS
  <2>12. /\ t \in Handlers /\ t.heap = g /\ t.cloud = c /\ t.root = rt /\ t.byPath = s.byPath
         /\ t.pathOf = s.pathOf /\ t.ok = s.ok /\ t.res = s.res
    BY <1>8, <2>1, <2>8, <2>11 DEF Handlers
  <2>13. Sane(t, born)
    BY <1>7, <1>8, <2>1, <2>9, <2>10, <2>12 DEF Sane, Sound
  <2>14. RemoveNodes(r, what) = t
    BY <1>1, <1>3, <1>6, <1>8, <1>11, <2>3, <2>4, <2>6, <2>11 DEF RemoveNodes
  <2>15. ASSUME NEW y \in Nodes, g[y].filled
         PROVE  f[y].filled
    <3>1. CASE y = what
      BY <2>7, <2>15, <3>1 DEF Pruned, Free
    <3>2. CASE y = n
      BY <2>7, <2>15, <3>2 DEF Pruned
    <3>3. CASE y \notin {what} \cup {n}
      BY <2>7, <2>15, <3>3 DEF Pruned
    <3>. QED
      BY <3>1, <3>2, <3>3
  <2>16. Removed(r, t, born)
    BY <1>1, <1>9, <2>12, <2>13, <2>15 DEF Removed
  <2>17. Strikes(r, what, l, s, t, born)
    BY <1>1, <1>4, <1>5, <1>7, <1>8, <1>11, <2>3, <2>4, <2>6, <2>11 DEF Strikes
  <2>. QED
    BY <2>14, <2>16, <2>17
<1>. QED
  BY <1>10, <1>11


\* What is below a file that has gone has gone.
LEMMA UnderExists ==
  ASSUME NEW c \in Clouds, NEW born \in [Ids -> Paths], CloudOK(c, born), NEW i \in Ids,
         NEW x \in Under(c, i), Exists(c, x)
  PROVE  Exists(c, i)
<1>. SUFFICES ASSUME ~Exists(c, i)
              PROVE  FALSE
  OBVIOUS
<1>1. Children(c, i) = {}
  BY DEF Children, CloudOK
<1>2. Under(c, i) \subseteq {i}
  <2>1. {i} \in SUBSET Ids /\ i \in {i} /\ \A j \in {i} : Children(c, j) \subseteq {i}
    BY <1>1
  <2>. QED
    BY <2>1, UnderLeast
<1>. QED
  BY <1>2

\* removeNodes of what deletes what is below its file.
LEMMA StrikeCloud ==
  ASSUME NEW r, NEW born, Sane(r, born), NEW what \in Nodes,
         NEW l, NEW s, NEW t, Strikes(r, what, l, s, t, born)
  PROVE  \A i \in Ids : t.cloud[i] = r.cloud[i] \/ i \in Under(r.cloud, r.heap[what].id)
<1>. TAKE i \in Ids
<1>1. PICK h \in Heaps, c \in Clouds : h = r.heap /\ c = r.cloud
  BY DEF Sane, Handlers
<1>2. /\ born \in [Ids -> Paths] /\ CloudOK(c, born) /\ NodesOK(h, r.root, c)
      /\ TreeOK(h, r.root, born)
  BY <1>1 DEF Sane, Sound
<1>3. t.cloud = s.cloud
  BY DEF Strikes, Sane, Handlers
<1>4. CASE s.cloud[i] = c[i]
  BY <1>1, <1>3, <1>4
<1>5. CASE s.cloud[i] # c[i]
  <2>1. PICK j \in 1..Len(l) : Exists(c, h[l[j]].id) /\ i \in Under(c, h[l[j]].id)
    BY <1>1, <1>5 DEF Strikes, Removes
  <2>2. Branch(h, born, what, Of(l)) /\ l[j] \in Of(l)
    BY <1>1 DEF Strikes, Lists, Of
  <2>3. h[l[j]].id \in Under(c, h[what].id)
    BY <1>2, <2>1, <2>2, BranchUnder
  <2>4. h[what].id \in Ids
    BY DEF Heaps, NodeRecords
  <2>5. Under(c, h[l[j]].id) \subseteq Under(c, h[what].id)
    BY <1>2, <2>3, <2>4, UnderBelow
  <2>. QED
    BY <1>1, <2>1, <2>5
<1>. QED
  BY <1>4, <1>5

\* removeNodes of a directory without files, or of a file, frees no node but what,
\* and that one only when it does not fail.
LEMMA StrikeNodes ==
  ASSUME NEW r, NEW born, Sane(r, born), NEW what \in Nodes,
         NEW l, NEW s, NEW t, Strikes(r, what, l, s, t, born),
         Children(r.cloud, r.heap[what].id) = {},
         NEW y \in Nodes, r.heap[y].kind # "free", y = what => ~t.ok
  PROVE  t.heap[y].kind = r.heap[y].kind /\ t.heap[y].id = r.heap[y].id
<1>1. PICK h \in Heaps, c \in Clouds : h = r.heap /\ c = r.cloud
  BY DEF Sane, Handlers
<1>2. /\ born \in [Ids -> Paths] /\ CloudOK(c, born) /\ NodesOK(h, r.root, c)
      /\ TreeOK(h, r.root, born)
  BY <1>1 DEF Sane, Sound
<1>3. /\ s.heap \in Heaps /\ (s.ok => t.ok)
      /\ s.ok => t.heap = Erased(s.heap, h[what].parent, what)
      /\ ~s.ok => t.heap = s.heap
  BY <1>1 DEF Strikes, Sane, Handlers
<1>4. Drained(h, s.heap, y)
  <2>. SUFFICES ASSUME NEW j \in 1..Len(l), Frees(r, l, j, y)
                PROVE  FALSE
    BY <1>1 DEF Strikes, Removes
  <2>1. PICK k \in 1..Len(h[l[j]].next) : h[l[j]].next[k] = y
    BY <1>1 DEF Frees, Has
  <2>2. PICK i \in 1..j-1 : l[i] = y
    BY <1>1, <2>1 DEF Strikes, Lists, EntriesFirst
  <2>3. l \in Seq(Nodes) /\ Len(l) \in Nat /\ i \in 1..Len(l)
    BY <2>2 DEF Strikes, Lists
  <2>4. Exists(c, h[y].id)
    BY <1>1, <2>2 DEF Frees
  <2>5. Branch(h, born, what, Of(l)) /\ y \in Of(l) /\ l[j] \in Of(l) /\ l[j] \in Nodes
    BY <1>1, <2>2, <2>3 DEF Strikes, Lists, Of
  <2>6. h[y].id \in Under(c, h[what].id)
    BY <1>2, <2>4, <2>5, BranchUnder
  <2>7. h[what].id \in Ids
    BY DEF Heaps, NodeRecords
  <2>8. h[y].id = h[what].id
    <3>1. Children(c, h[what].id) = {}
      BY <1>1
    <3>2. PICK X \in SUBSET Ids : X = {h[what].id}
      BY <2>7
    <3>3. h[what].id \in X /\ \A x \in X : Children(c, x) \subseteq X
      BY <3>1, <3>2
    <3>4. Under(c, h[what].id) \subseteq X
      BY <2>7, <3>3, UnderLeast
    <3>. QED
      BY <2>6, <3>2, <3>4
  <2>9. Has(h, l[j], y)
    BY <1>1 DEF Frees
  <2>10. Len(born[h[y].id]) = Len(born[h[l[j]].id]) + 1
    BY <1>2, <2>5, <2>9, EntryFile
  <2>11. /\ Len(born[h[l[j]].id]) \in Nat /\ Len(born[h[what].id]) \in Nat
         /\ Len(born[h[l[j]].id]) >= Len(born[h[what].id])
    BY <1>2, <2>5, BranchLevel
  <2>. QED
    BY <2>8, <2>10, <2>11
<1>5. s.heap[y].kind = h[y].kind /\ s.heap[y].id = h[y].id
  BY <1>4 DEF Drained, Heaps, NodeRecords
<1>6. CASE ~s.ok
  BY <1>1, <1>3, <1>5, <1>6
<1>7. CASE s.ok
  <2>1. y # what
    BY <1>3, <1>7
  <2>2. t.heap[y].kind = s.heap[y].kind /\ t.heap[y].id = s.heap[y].id
    BY <1>3, <1>7, <2>1 DEF Erased, Heaps, NodeRecords
  <2>. QED
    BY <1>1, <1>5, <2>2
<1>. QED
  BY <1>6, <1>7
-----------------------------------------------------------------------------
(* The drive at first. *)

\* The files of the name x in the folders at.
EntriesNamed(c, at, x) == {j \in UNION {Children(c, i) : i \in at} : c[j].name = x}

\* CloudAt is what is found name by name.
LEMMA CloudRun ==
  ASSUME NEW c, NEW p \in Seq(Names)
  PROVE  \E g : /\ g[0] = {RootId} /\ \A d \in 1..Len(p) : g[d] = EntriesNamed(c, g[d-1], p[d])
                /\ CloudAt(c, p) = g[Len(p)] /\ \A d \in 0..Len(p) : g[d] \subseteq Ids
<1>. DEFINE L == Len(p)
            S == [k \in 0..L |-> SUBSET Ids]
            F == [x \in (SUBSET Ids) \X (1..L) |-> EntriesNamed(c, x[1], p[x[2]])]
            Eq(g) == g = [d \in 0..L |-> IF d = 0 THEN {RootId}
                            ELSE {j \in UNION {Children(c, i) : i \in g[d-1]} : c[j].name = p[d]}]
<1>1. L \in Nat
  OBVIOUS
<1>2. \A at, x : EntriesNamed(c, at, x) \in SUBSET Ids
  BY DEF EntriesNamed, Children
<1>3. PICK g : Eq(g)
  <2>1. {RootId} \in S[0]
    BY <1>1, IdsAssumption
  <2>2. ASSUME NEW k \in 1..L, NEW x \in S[k-1]
        PROVE  F[<<x, k>>] \in S[k] /\ x \in SUBSET Ids
    <3>1. k - 1 \in 0..L /\ k \in 0..L
      BY <1>1
    <3>2. x \in SUBSET Ids
      BY <2>2, <3>1
    <3>. QED
      BY <1>2, <3>1, <3>2
  <2>3. Runs(L, S, {RootId}, F) # {}
    <3>. HIDE DEF F, S, L
    <3>. QED
      BY <1>1, <2>1, <2>2, LoopRuns
  <2>4. PICK g \in [0..L -> UNION {S[k] : k \in 0..L}] :
           /\ g[0] = {RootId} /\ \A k \in 1..L : g[k] = F[<<g[k-1], k>>]
           /\ \A k \in 0..L : g[k] \in S[k]
    BY <2>3 DEF Runs
  <2>. HIDE DEF S
  <2>5. ASSUME NEW k \in 1..L
        PROVE  g[k] = {j \in UNION {Children(c, i) : i \in g[k-1]} : c[j].name = p[k]}
    <3>1. k - 1 \in 0..L
      BY <1>1
    <3>2. PICK x \in S[k-1] : x = g[k-1]
      BY <2>4, <3>1
    <3>3. g[k-1] \in SUBSET Ids
      BY <2>2, <3>2
    <3>. QED
      BY <2>4, <3>3 DEF EntriesNamed
  <2>6. 0 \notin 1..L /\ 0..L = {0} \cup (1..L)
    BY <1>1, ZeroFirst
  <2>. HIDE DEF L
  <2>7. Eq(g)
    BY <2>4, <2>5, <2>6
  <2>. QED
    BY <2>7
<1>. DEFINE at == CHOOSE f : Eq(f)
<1>4. Eq(at)
  BY <1>3
<1>5. CloudAt(c, p) = at[L]
  BY DEF CloudAt, Loop, Turns
<1>6. at[0] = {RootId} /\ \A d \in 1..L : at[d] = EntriesNamed(c, at[d-1], p[d])
  <2>. HIDE DEF at
  <2>1. 0 \in 0..L /\ \A k \in 1..L : k \in 0..L /\ k # 0
    BY <1>1
  <2>2. at = [d \in 0..L |-> IF d = 0 THEN {RootId}
               ELSE {j \in UNION {Children(c, i) : i \in at[d-1]} : c[j].name = p[d]}]
    BY <1>4
  <2>. HIDE DEF L
  <2>. QED
    BY <2>1, <2>2 DEF EntriesNamed
<1>7. ASSUME NEW d \in 0..L
      PROVE  at[d] \subseteq Ids
  <2>. HIDE DEF at
  <2>1. CASE d = 0
    BY <1>6, <2>1, IdsAssumption
  <2>2. CASE d # 0
    <3>1. d \in 1..L
      BY <1>1, <2>2
    <3>. QED
      BY <1>2, <1>6, <3>1
  <2>. QED
    BY <2>1, <2>2
<1>. HIDE DEF at
<1>. QED
  BY <1>5, <1>6, <1>7

\* The files in the folders X.
LEMMA InFolders ==
  ASSUME NEW c, NEW X, NEW i
  PROVE  i \in UNION {Children(c, e) : e \in X} <=> \E e \in X : i \in Children(c, e)
BY Zenon

\* The files at a path are those of its last name in the folders at the path
\* before.
LEMMA CloudStep ==
  ASSUME NEW c
  PROVE  /\ CloudAt(c, <<>>) = {RootId}
         /\ \A p \in Seq(Names), x \in Names :
              CloudAt(c, Append(p, x)) = EntriesNamed(c, CloudAt(c, p), x)
<1>1. CloudAt(c, <<>>) = {RootId}
  <2>1. <<>> \in Seq(Names) /\ Len(<<>>) = 0
    OBVIOUS
  <2>. QED
    BY <2>1, CloudRun
<1>2. ASSUME NEW p \in Seq(Names), NEW x \in Names
      PROVE  CloudAt(c, Append(p, x)) = EntriesNamed(c, CloudAt(c, p), x)
  <2>0. Append(p, x) \in Seq(Names)
    OBVIOUS
  <2>1. PICK q \in Seq(Names) : q = Append(p, x)
    BY <2>0
  <2>2. PICK L \in Nat : L = Len(p)
    OBVIOUS
  <2>3. Len(q) = L + 1 /\ q[L + 1] = x /\ \A d \in 1..L : q[d] = p[d]
    BY <2>1, <2>2
  <2>4. PICK g : /\ g[0] = {RootId} /\ \A d \in 1..L : g[d] = EntriesNamed(c, g[d-1], p[d])
                 /\ CloudAt(c, p) = g[L]
    <3>1. PICK g : /\ g[0] = {RootId} /\ \A d \in 1..Len(p) : g[d] = EntriesNamed(c, g[d-1], p[d])
                   /\ CloudAt(c, p) = g[Len(p)]
      BY CloudRun
    <3>. QED
      BY <2>2, <3>1, Zenon
  <2>5. PICK f : /\ f[0] = {RootId} /\ \A d \in 1..L+1 : f[d] = EntriesNamed(c, f[d-1], q[d])
                 /\ CloudAt(c, q) = f[L + 1]
    <3>1. Len(q) = L + 1
      BY <2>3
    <3>2. PICK f : /\ f[0] = {RootId} /\ \A d \in 1..Len(q) : f[d] = EntriesNamed(c, f[d-1], q[d])
                   /\ CloudAt(c, q) = f[Len(q)]
      BY CloudRun
    <3>. QED
      BY <3>1, <3>2
  <2>6. PICK S : S = [k \in 0..L |-> {g[k]}]
    OBVIOUS
  <2>7. f[0] \in S[0]
    BY <2>4, <2>5, <2>6
  <2>8. ASSUME NEW k \in 1..L, f[k-1] \in S[k-1]
        PROVE  f[k] \in S[k]
    <3>1. k - 1 \in 0..L /\ k \in 0..L /\ k \in 1..L+1
      OBVIOUS
    <3>2. f[k-1] = g[k-1]
      BY <2>6, <2>8, <3>1
    <3>3. f[k] = EntriesNamed(c, f[k-1], p[k])
      BY <2>3, <2>5, <3>1
    <3>4. g[k] = EntriesNamed(c, g[k-1], p[k])
      BY <2>4
    <3>. QED
      BY <2>6, <3>1, <3>2, <3>3, <3>4
  <2>9. \A k \in 0..L : f[k] \in S[k]
    BY <2>7, <2>8, LoopStays
  <2>10. f[L] = g[L]
    BY <2>6, <2>9
  <2>11. f[L + 1] = EntriesNamed(c, f[L], x)
    <3>1. L + 1 \in 1..L+1 /\ (L + 1) - 1 = L
      OBVIOUS
    <3>. QED
      BY <2>3, <2>5, <3>1
  <2>. QED
    BY <2>1, <2>4, <2>5, <2>10, <2>11
<1>. QED
  BY <1>1, <1>2

\* A path that is not empty is a path and a name.
LEMMA LastName ==
  ASSUME NEW p \in Seq(Names), p # <<>>
  PROVE  \E q \in Seq(Names), x \in Names :
           p = Append(q, x) /\ Len(p) = Len(q) + 1 /\ Len(q) \in Nat
<1>1. Len(p) \in Nat /\ Len(p) >= 1
  OBVIOUS
<1>2. PICK d \in Nat : Len(p) = d + 1
  BY <1>1
<1>3. PICK x \in Names : x = p[d + 1]
  BY <1>2
<1>5. PICK q : q = SubSeq(p, 1, d)
  OBVIOUS
<1>6. q \in Seq(Names) /\ Len(q) = d /\ \A k \in 1..d : q[k] = p[k]
  BY <1>2, <1>5
<1>4. p = Append(q, x)
  <2>1. Append(q, x) \in Seq(Names) /\ Len(Append(q, x)) = Len(p)
    BY <1>2, <1>6
  <2>2. \A k \in 1..Len(p) : Append(q, x)[k] = p[k]
    BY <1>2, <1>3, <1>6
  <2>. QED
    BY <2>1, <2>2
<1>. QED
  BY <1>2, <1>4, <1>6

\* A file at a path that is not empty has its last name, and its parent is at
\* the path before.
LEMMA NameOf ==
  ASSUME NEW c, NEW p \in Seq(Names), NEW i \in CloudAt(c, p)
  PROVE  IF p = <<>> THEN i = RootId
         ELSE /\ i \in Ids \ {RootId} /\ Exists(c, i)
              /\ \E q \in Seq(Names), x \in Names :
                   /\ p = Append(q, x) /\ Len(p) = Len(q) + 1 /\ Len(q) \in Nat
                   /\ c[i].parent \in CloudAt(c, q) /\ x = c[i].name
<1>1. CASE p = <<>>
  BY <1>1, CloudStep
<1>2. CASE p # <<>>
  <2>1. PICK q \in Seq(Names), x \in Names :
           p = Append(q, x) /\ Len(p) = Len(q) + 1 /\ Len(q) \in Nat
    BY <1>2, LastName
  <2>2. i \in EntriesNamed(c, CloudAt(c, q), x)
    BY <2>1, CloudStep
  <2>3. PICK f \in CloudAt(c, q) : i \in Children(c, f) /\ c[i].name = x
    BY <2>2 DEF EntriesNamed
  <2>. QED
    BY <1>2, <2>1, <2>3 DEF Children
<1>. QED
  BY <1>1, <1>2

\* A file has one path.
LEMMA OnePath ==
  ASSUME NEW c
  PROVE  \A p, q \in Seq(Names) : \A i \in CloudAt(c, p) : i \in CloudAt(c, q) => p = q
<1>. DEFINE A == {n \in Nat : \A p, q \in Seq(Names) : Len(p) = n =>
                                \A i \in CloudAt(c, p) : i \in CloudAt(c, q) => p = q}
<1>1. 0 \in A
  <2>. SUFFICES ASSUME NEW p \in Seq(Names), NEW q \in Seq(Names), Len(p) = 0,
                       NEW i \in CloudAt(c, p), i \in CloudAt(c, q)
                PROVE  p = q
    OBVIOUS
  <2>1. p = <<>>
    OBVIOUS
  <2>2. i = RootId
    BY <2>1, NameOf
  <2>. QED
    BY <2>1, <2>2, NameOf
<1>2. ASSUME NEW n \in A
      PROVE  n + 1 \in A
  <2>. SUFFICES ASSUME NEW p \in Seq(Names), NEW q \in Seq(Names), Len(p) = n + 1,
                       NEW i \in CloudAt(c, p), i \in CloudAt(c, q)
                PROVE  p = q
    OBVIOUS
  <2>1. p # <<>>
    <3>1. Len(<<>>) = 0 /\ n + 1 # 0
      OBVIOUS
    <3>. QED
      BY <3>1
  <2>2. i # RootId
    BY <2>1, NameOf
  <2>3. q # <<>>
    BY <2>2, NameOf
  <2>4. PICK u \in Seq(Names), x \in Names :
           /\ p = Append(u, x) /\ Len(p) = Len(u) + 1 /\ Len(u) \in Nat
           /\ c[i].parent \in CloudAt(c, u) /\ x = c[i].name
    BY <2>1, NameOf
  <2>5. PICK v \in Seq(Names), y \in Names :
           /\ q = Append(v, y) /\ c[i].parent \in CloudAt(c, v) /\ y = c[i].name
    BY <2>3, NameOf
  <2>6. Len(u) = n
    BY <2>4
  <2>7. u = v
    BY <2>4, <2>5, <2>6
  <2>. QED
    BY <2>4, <2>5, <2>7
<1>3. A = Nat
  <2>. HIDE DEF A
  <2>. QED
    BY <1>1, <1>2, Induction DEF A
<1>4. \A p \in Seq(Names) : Len(p) \in A
  <2>. HIDE DEF A
  <2>. QED
    BY <1>3
<1>. QED
  BY <1>4

\* Each file of the drive has a path, and it is where its parent is.
LEMMA DriveBorn ==
  ASSUME NEW c \in Drives, TreeOf(c)
  PROVE  c \in Clouds /\ \E born \in [Ids -> Paths] : CloudOK(c, born)
<1>1. PICK e \in [Ids \ {RootId} -> First] :
        c = [i \in Ids |-> IF i = RootId THEN [Unborn EXCEPT !.kind = "dir"] ELSE e[i]]
  BY DEF Drives
<1>2. RootId \in Ids /\ c[RootId].kind = "dir" /\ c[RootId] \in Entry
  BY <1>1, IdsAssumption DEF Unborn, Entry, Kinds
<1>3. c \in Clouds
  <2>1. ASSUME NEW i \in Ids
        PROVE  c[i] \in Entry
    <3>1. CASE i = RootId
      BY <1>2, <3>1
    <3>2. CASE i # RootId
      <4>1. c[i] \in First
        BY <1>1, <3>2
      <4>. QED
        BY <4>1, IdsAssumption DEF First, Unborn, Entry
    <3>. QED
      BY <3>1, <3>2
  <2>. QED
    BY <1>1, <2>1 DEF Clouds
<1>4. \A i \in Ids \ {RootId} : Exists(c, i) => /\ c[c[i].parent].kind = "dir"
                                               /\ \E p \in Paths : CloudAt(c, p) = {i}
  BY DEF TreeOf
<1>. DEFINE At(i, p) == p \in Paths /\ i \in CloudAt(c, p)
            born == [i \in Ids |-> IF \E p : At(i, p) THEN CHOOSE p : At(i, p) ELSE <<>>]
<1>5. born \in [Ids -> Paths]
  BY PathFacts
<1>6. \A i \in Ids : \A p : At(i, p) => born[i] = p
  <2>. SUFFICES ASSUME NEW i \in Ids, NEW p, At(i, p)
                PROVE  born[i] = p
    OBVIOUS
  <2>1. At(i, born[i])
    OBVIOUS
  <2>. HIDE DEF born
  <2>. QED
    BY <2>1, PathFacts, OnePath
<1>7. born[RootId] = <<>>
  BY <1>2, <1>6, PathFacts, CloudStep
<1>. HIDE DEF born
<1>8. ASSUME NEW i \in Ids \ {RootId}, Exists(c, i)
      PROVE  Exists(c, c[i].parent) /\ born[i] = Append(born[c[i].parent], c[i].name)
  <2>1. PICK p \in Paths : CloudAt(c, p) = {i}
    BY <1>4, <1>8
  <2>2. p \in Seq(Names) /\ Len(p) <= MaxDepth /\ i \in CloudAt(c, p)
    BY <2>1, PathFacts
  <2>3. p # <<>>
    BY <2>2, NameOf
  <2>4. PICK q \in Seq(Names), x \in Names :
           /\ p = Append(q, x) /\ Len(p) = Len(q) + 1 /\ Len(q) \in Nat
           /\ c[i].parent \in CloudAt(c, q) /\ x = c[i].name
    BY <2>2, <2>3, NameOf
  <2>5. q \in Paths
    BY <2>2, <2>4, PathFacts, DepthAssumption
  <2>6. c[i].parent \in Ids
    BY <1>3 DEF Clouds, Entry
  <2>7. born[i] = p /\ born[c[i].parent] = q
    BY <1>6, <2>2, <2>4, <2>5, <2>6
  <2>. QED
    BY <1>4, <1>8, <2>4, <2>7 DEF Exists, Kinds
<1>9. CloudOK(c, born)
  BY <1>2, <1>7, <1>8 DEF CloudOK, Exists, Kinds
<1>. QED
  BY <1>3, <1>5, <1>9

\* The file at a path is the one that came into being there.
LEMMA DriveAt ==
  ASSUME NEW c \in Clouds, NEW born \in [Ids -> Paths], CloudOK(c, born)
  PROVE  \A p \in Seq(Names), i \in Ids : i \in CloudAt(c, p) <=> Exists(c, i) /\ born[i] = p
<1>. DEFINE A == {n \in Nat : \A p \in Seq(Names), i \in Ids :
                    Len(p) = n => (i \in CloudAt(c, p) <=> Exists(c, i) /\ born[i] = p)}
<1>1. /\ RootId \in Ids /\ Exists(c, RootId) /\ born[RootId] = <<>>
      /\ \A i \in Ids : born[i] \in Seq(Names) /\ c[i].parent \in Ids
  BY IdsAssumption, PathFacts DEF CloudOK, Clouds, Entry
<1>2. \A i \in Ids \ {RootId} : Exists(c, i) =>
         /\ Exists(c, c[i].parent) /\ born[i] = Append(born[c[i].parent], c[i].name)
         /\ born[i] # <<>>
  <2>. SUFFICES ASSUME NEW i \in Ids \ {RootId}, Exists(c, i)
                PROVE  /\ Exists(c, c[i].parent)
                       /\ born[i] = Append(born[c[i].parent], c[i].name) /\ born[i] # <<>>
    OBVIOUS
  <2>1. Exists(c, c[i].parent) /\ born[i] = Append(born[c[i].parent], c[i].name)
    BY DEF CloudOK
  <2>2. PICK q \in Seq(Names) : q = born[c[i].parent]
    BY <1>1
  <2>3. Len(Append(q, c[i].name)) = Len(q) + 1 /\ Len(q) \in Nat /\ Len(<<>>) = 0
    OBVIOUS
  <2>. QED
    BY <2>1, <2>2, <2>3
<1>3. 0 \in A
  <2>. SUFFICES ASSUME NEW p \in Seq(Names), NEW i \in Ids, Len(p) = 0
                PROVE  i \in CloudAt(c, p) <=> Exists(c, i) /\ born[i] = p
    OBVIOUS
  <2>1. p = <<>>
    OBVIOUS
  <2>2. i \in CloudAt(c, p) <=> i = RootId
    BY <2>1, CloudStep
  <2>. QED
    BY <1>1, <1>2, <2>1, <2>2
<1>4. ASSUME NEW n \in A
      PROVE  n + 1 \in A
  <2>. SUFFICES ASSUME NEW p \in Seq(Names), NEW i \in Ids, Len(p) = n + 1
                PROVE  i \in CloudAt(c, p) <=> Exists(c, i) /\ born[i] = p
    OBVIOUS
  <2>1. p # <<>>
    <3>1. Len(<<>>) = 0 /\ n + 1 # 0
      OBVIOUS
    <3>. QED
      BY <3>1
  <2>2. PICK q \in Seq(Names), x \in Names :
           p = Append(q, x) /\ Len(p) = Len(q) + 1 /\ Len(q) \in Nat
    BY <2>1, LastName
  <2>3. Len(q) = n
    BY <2>2
  <2>4. \A f \in Ids : f \in CloudAt(c, q) <=> Exists(c, f) /\ born[f] = q
    BY <2>3
  <2>5. i \in CloudAt(c, p) <=> \E f \in CloudAt(c, q) : i \in Children(c, f) /\ c[i].name = x
    <3>1. CloudAt(c, p) = EntriesNamed(c, CloudAt(c, q), x)
      BY <2>2, CloudStep
    <3>2. PICK at : at = CloudAt(c, q)
      OBVIOUS
    <3>3. i \in EntriesNamed(c, at, x) <=>
            i \in UNION {Children(c, e) : e \in at} /\ c[i].name = x
      BY Zenon DEF EntriesNamed
    <3>4. i \in UNION {Children(c, e) : e \in at} <=> \E e \in at : i \in Children(c, e)
      BY InFolders
    <3>. QED
      BY <3>1, <3>2, <3>3, <3>4, Zenon
  <2>6. ASSUME i \in CloudAt(c, p)
        PROVE  Exists(c, i) /\ born[i] = p
    <3>1. PICK f \in CloudAt(c, q) : i \in Children(c, f) /\ c[i].name = x
      BY <2>5, <2>6
    <3>2. i \in Ids \ {RootId} /\ Exists(c, i) /\ f = c[i].parent /\ f \in Ids
      BY <1>1, <3>1 DEF Children
    <3>. QED
      BY <1>2, <2>2, <2>4, <3>1, <3>2
  <2>7. ASSUME Exists(c, i), born[i] = p
        PROVE  i \in CloudAt(c, p)
    <3>1. i # RootId
      BY <1>1, <2>1, <2>7
    <3>2. PICK f \in Ids : f = c[i].parent
      BY <1>1
    <3>3. Exists(c, f) /\ p = Append(born[f], c[i].name) /\ i \in Children(c, f)
      BY <1>2, <2>7, <3>1, <3>2 DEF Children
    <3>4. born[f] = q /\ c[i].name = x
      <4>1. PICK u \in Seq(Names) : u = born[f]
        BY <1>1
      <4>2. Append(u, c[i].name) = Append(q, x)
        BY <2>2, <3>3, <4>1
      <4>3. /\ Len(Append(u, c[i].name)) = Len(u) + 1 /\ Len(u) \in Nat
            /\ Append(u, c[i].name)[Len(u) + 1] = c[i].name
            /\ \A k \in 1..Len(u) : Append(u, c[i].name)[k] = u[k]
        OBVIOUS
      <4>4. Append(q, x)[Len(q) + 1] = x /\ \A k \in 1..Len(q) : Append(q, x)[k] = q[k]
        OBVIOUS
      <4>5. Len(u) = Len(q)
        BY <2>2, <4>2, <4>3
      <4>6. c[i].name = x
        BY <4>2, <4>3, <4>4, <4>5
      <4>7. \A k \in 1..Len(u) : u[k] = q[k]
        BY <4>2, <4>3, <4>4, <4>5
      <4>8. u = q
        BY <4>5, <4>7
      <4>. QED
        BY <4>1, <4>6, <4>8
    <3>. QED
      BY <2>4, <2>5, <3>3, <3>4
  <2>. QED
    BY <2>6, <2>7
<1>5. A = Nat
  <2>. HIDE DEF A
  <2>. QED
    BY <1>3, <1>4, Induction DEF A
<1>. SUFFICES ASSUME NEW p \in Seq(Names), NEW i \in Ids
              PROVE  i \in CloudAt(c, p) <=> Exists(c, i) /\ born[i] = p
  OBVIOUS
<1>6. Len(p) \in A
  <2>. HIDE DEF A
  <2>. QED
    BY <1>5
<1>. QED
  BY <1>6

-----------------------------------------------------------------------------
(* The requests. *)

\* The inductive invariant: there is a path for every file, and the drive, the
\* tree and the cache agree with it.
TreeInv ==
  /\ \E born : Sound(cloud, heap, root, byPath, pathOf, born)
  /\ cloud \in Clouds /\ heap \in Heaps /\ root \in Nodes \cup {NoNode}
  /\ byPath \in PathMaps /\ pathOf \in NodeMaps
  /\ fh \in [Handles -> [node : Nodes, id : Ids] \cup {Closed}]

\* Nothing goes but what is at the path of an unlink or rmdir, and below.
Cuts ==
  \E p \in Paths, f \in Writes :
    /\ Unlink(p, f)
    /\ \A i \in Ids : Exists(cloud, i) /\ ~Exists(cloud', i) =>
                        \E j \in CloudAt(cloud, p) : i \in Under(cloud, j)

\* What a step is to do.
StepOK ==
  /\ TreeInv' /\ Fills(cloud, heap, heap')
  /\ Lives(cloud, cloud') \/ Cuts
  /\ ~RmFull /\ HandlesValid => HandlesValid'

\* What a handler is given to spend is a number.
LEMMA BudgetFacts ==
  ASSUME NEW f \in Reads \cup Writes
  PROVE  f.fuel \in Int /\ f.late \in BOOLEAN
<1>2. NoLimit \in Int
  BY DEF NoLimit
<1>3. CASE f = Well
  BY <1>2, <1>3 DEF Well
<1>4. CASE f \in [fuel : FailAt, late : BOOLEAN]
  <2>1. f.fuel \in Nat /\ f.late \in BOOLEAN
    BY <1>4, BudgetAssumption
  <2>. QED
    BY <2>1
<1>5. CASE f \in [fuel : FailAt, late : {FALSE}]
  <2>1. f.fuel \in Nat /\ f.late = FALSE
    BY <1>5, BudgetAssumption
  <2>2. f.fuel \in Int
    BY <2>1
  <2>. QED
    BY <2>1, <2>2, Zenon
<1>. QED
  BY <1>3, <1>4, <1>5 DEF Reads, Writes

\* A handler begins with the variables.
LEMMA BeginSane ==
  ASSUME TreeInv, NEW born, Sound(cloud, heap, root, byPath, pathOf, born),
         NEW f \in Reads \cup Writes
  PROVE  /\ Sane(Begin(f), born) /\ Begin(f).cloud = cloud /\ Begin(f).heap = heap
         /\ Begin(f).root = root /\ Begin(f).byPath = byPath /\ Begin(f).pathOf = pathOf
         /\ Begin(f).ok
<1>1. f.fuel \in Int /\ f.late \in BOOLEAN
  BY BudgetFacts
<1>2. Begin(f) \in Handlers
  BY <1>1 DEF Begin, Handlers, TreeInv
<1>. QED
  BY <1>2 DEF Begin, Sane

\* The next handler goes on with what the last one left.
LEMMA ThenLooks ==
  ASSUME NEW r, NEW born, Sane(r, born), NEW f \in Reads \cup Writes
  PROVE  Looks(r, Then(r, f), born) /\ Sane(Then(r, f), born)
<1>1. PICK s : s = Then(r, f)
  OBVIOUS
<1>2. f.fuel \in Int /\ f.late \in BOOLEAN
  BY BudgetFacts
<1>3. /\ s \in Handlers /\ s.heap = r.heap /\ s.cloud = r.cloud /\ s.root = r.root
      /\ s.byPath = r.byPath /\ s.pathOf = r.pathOf /\ s.ok
  BY <1>1, <1>2 DEF Then, Sane, Handlers
<1>4. Sane(s, born)
  BY <1>3 DEF Sane
<1>5. Looks(r, r, born)
  BY LooksRefl
<1>. QED
  BY <1>1, <1>3, <1>4, <1>5 DEF Looks

\* A handle that has changed is closed, or points to a node.
Points(r) ==
  /\ fh' \in [Handles -> [node : Nodes, id : Ids] \cup {Closed}]
  /\ \A h \in Handles :
       \/ fh'[h] \in {fh[h], Closed}
       \/ r.heap[fh'[h].node].kind # "free" /\ r.heap[fh'[h].node].id = fh'[h].id

\* The handles are left alone.
LEMMA SamePoints ==
  ASSUME TreeInv, UNCHANGED fh, NEW r
  PROVE  Points(r)
BY DEF TreeInv, Points

\* A handler that only looks is fine.
LEMMA LooksFine ==
  ASSUME NEW r, NEW s, NEW born, Looks(r, s, born)
  PROVE  Fine(r, s)
BY DEF Looks, Fine, Lives

\* A handler that is fine makes a good step.
LEMMA CommitKeeps ==
  ASSUME TreeInv, NEW born, Sound(cloud, heap, root, byPath, pathOf, born),
         NEW f \in Reads \cup Writes, NEW r, Fine(Begin(f), r), Commit(r),
         Points(r)
  PROVE  StepOK
<1>1. Begin(f).cloud = cloud /\ Begin(f).heap = heap
  BY DEF Begin
<1>2. PICK b : Sane(r, b)
  BY DEF Fine
<1>3. r \in Handlers /\ Sound(r.cloud, r.heap, r.root, r.byPath, r.pathOf, b)
  BY <1>2 DEF Sane
<1>4. Fills(cloud, heap, heap')
  BY <1>1 DEF Fine, Commit
<1>5. \E c : Sound(cloud', heap', root', byPath', pathOf', c)
  BY <1>3 DEF Commit
<1>6. TreeInv'
  BY <1>3, <1>5 DEF Commit, Handlers, TreeInv, Points
<1>7. Lives(cloud, cloud') /\ Kept(heap, heap')
  BY <1>1 DEF Fine, Commit
<1>8. ASSUME HandlesValid
      PROVE  HandlesValid'
  <2>. SUFFICES ASSUME NEW h \in Handles, fh'[h] # Closed
                PROVE  heap'[fh'[h].node].kind # "free" /\ heap'[fh'[h].node].id = fh'[h].id
    BY DEF HandlesValid, Valid
  <2>1. CASE fh'[h] = fh[h]
    <3>1. PICK n \in Nodes : n = fh[h].node
      BY <2>1 DEF TreeInv
    <3>2. heap[n].kind # "free" /\ heap[n].id = fh[h].id
      BY <1>8, <2>1, <3>1 DEF HandlesValid, Valid
    <3>3. heap'[n].kind = heap[n].kind /\ heap'[n].id = heap[n].id
      BY <1>7, <3>2 DEF Kept, KeptNode
    <3>. QED
      BY <2>1, <3>1, <3>2, <3>3
  <2>2. CASE fh'[h] # fh[h]
    <3>1. r.heap[fh'[h].node].kind # "free" /\ r.heap[fh'[h].node].id = fh'[h].id
      BY <2>2 DEF Points
    <3>. QED
      BY <3>1 DEF Commit
  <2>. QED
    BY <2>1, <2>2
<1>. QED
  BY <1>4, <1>6, <1>7, <1>8 DEF StepOK

\* A process that starts has no nodes.
LEMMA EmptyTree ==
  ASSUME NEW c \in Clouds, NEW born \in [Ids -> Paths], CloudOK(c, born)
  PROVE  LET h == [n \in Nodes |-> Free]
         IN /\ h \in Heaps /\ Sound(c, h, NoNode, <<>>, <<>>, born)
            /\ <<>> \in PathMaps /\ <<>> \in NodeMaps
            /\ [k \in Handles |-> Closed] \in [Handles -> [node : Nodes, id : Ids] \cup {Closed}]
<1>1. PICK h : h = [n \in Nodes |-> Free]
  OBVIOUS
<1>2. Free.kind = "free" /\ Free.id = RootId /\ Free.next = <<>> /\ Free \in NodeRecords
  BY IdsAssumption DEF Free, NodeRecords
<1>3. h \in Heaps /\ \A n \in Nodes : h[n] = Free
  BY <1>1, <1>2 DEF Heaps
<1>4. NodesOK(h, NoNode, c)
  BY <1>2, <1>3 DEF NodesOK, Filed, CloudOK, Exists, Kinds
<1>5. TreeOK(h, NoNode, born)
  <2>1. Len(<<>>) = 0
    OBVIOUS
  <2>2. \A k : k \notin 1..0
    OBVIOUS
  <2>. QED
    BY <1>2, <1>3, <2>1, <2>2 DEF TreeOK, ListedOK, ListOK
<1>6. DOMAIN <<>> = {}
  OBVIOUS
<1>7. CacheOK(h, NoNode, <<>>, <<>>)
  BY <1>6 DEF CacheOK
<1>8. <<>> \in [{} -> Nodes] /\ <<>> \in [{} -> Paths]
  OBVIOUS
<1>9. <<>> \in PathMaps /\ <<>> \in NodeMaps
  BY <1>8 DEF PathMaps, NodeMaps
<1>10. Sound(c, h, NoNode, <<>>, <<>>, born)
  BY <1>4, <1>5, <1>7 DEF Sound
<1>. QED
  BY <1>1, <1>3, <1>9, <1>10

\* A process that starts again makes a good step.
LEMMA FreshKeeps ==
  ASSUME TreeInv, Fresh(cloud)
  PROVE  StepOK
<1>1. PICK born : Sound(cloud, heap, root, byPath, pathOf, born)
  BY DEF TreeInv
<1>2. cloud \in Clouds /\ born \in [Ids -> Paths] /\ CloudOK(cloud, born)
  BY <1>1 DEF TreeInv, Sound
<1>3. /\ heap' \in Heaps /\ Sound(cloud', heap', root', byPath', pathOf', born)
      /\ byPath' \in PathMaps /\ pathOf' \in NodeMaps /\ cloud' \in Clouds
      /\ root' \in Nodes \cup {NoNode}
      /\ fh' \in [Handles -> [node : Nodes, id : Ids] \cup {Closed}]
  BY <1>2, EmptyTree DEF Fresh
<1>4. TreeInv'
  BY <1>3 DEF TreeInv
<1>5. \A n \in Nodes : ~heap'[n].filled
  BY DEF Fresh, Free
<1>6. Lives(cloud, cloud') /\ HandlesValid'
  BY DEF Fresh, Lives, HandlesValid
<1>. QED
  BY <1>4, <1>5, <1>6 DEF StepOK, Fills

\* At first the invariant holds.
LEMMA InitInv == Init => TreeInv
<1>. SUFFICES ASSUME Init
              PROVE  TreeInv
  OBVIOUS
<1>1. cloud \in Clouds /\ \E born \in [Ids -> Paths] : CloudOK(cloud, born)
  BY DriveBorn DEF Init
<1>2. PICK born \in [Ids -> Paths] : CloudOK(cloud, born)
  BY <1>1
<1>3. /\ heap \in Heaps /\ Sound(cloud, heap, root, byPath, pathOf, born)
      /\ byPath \in PathMaps /\ pathOf \in NodeMaps
      /\ fh \in [Handles -> [node : Nodes, id : Ids] \cup {Closed}]
      /\ root \in Nodes \cup {NoNode}
  BY <1>1, <1>2, EmptyTree DEF Init
<1>. QED
  BY <1>1, <1>3 DEF TreeInv

\* The node that get() returns is one of the tree.
LEMMA FoundLive ==
  ASSUME NEW r, NEW born, Sane(r, born), NEW p \in Paths, Found(r, p, Len(p)), r.res # NoNode
  PROVE  /\ r.ok /\ r.root # NoNode /\ r.res \in Nodes /\ r.heap[r.res].kind # "free"
         /\ born[r.heap[r.res].id] = p
<1>1. r.ok /\ r.root # NoNode /\ Walk(r.heap, r.root, p)[Len(p)] = r.res
  BY DEF Found, Sane
<1>2. /\ r.heap \in Heaps /\ r.root \in Nodes /\ r.res \in Nodes /\ born \in [Ids -> Paths]
      /\ born[RootId] = <<>> /\ NodesOK(r.heap, r.root, r.cloud) /\ TreeOK(r.heap, r.root, born)
  BY <1>1 DEF Sane, Sound, Handlers, CloudOK
<1>3. p \in Seq(Names)
  BY PathFacts
<1>4. Len(p) \in 0..Len(p) /\ SubSeq(p, 1, Len(p)) = p
  BY <1>3
<1>5. /\ r.heap[r.res].kind # "free" /\ born[r.heap[r.res].id] = SubSeq(p, 1, Len(p))
  BY <1>1, <1>2, <1>3, <1>4, WalkPaths
<1>. QED
  BY <1>1, <1>2, <1>4, <1>5

\* readdir of a node that is there.
LEMMA ReadDirKeeps ==
  ASSUME NEW r, NEW born, Sane(r, born), r.res # NoNode => r.heap[r.res].kind # "free"
  PROVE  Looks(r, ReadDir(r), born)
<1>1. CASE r.res = NoNode \/ r.heap[r.res].filled
  BY <1>1, LooksRefl DEF ReadDir
<1>2. CASE ~(r.res = NoNode \/ r.heap[r.res].filled)
  <2>1. r.res \in Nodes /\ r.heap[r.res].kind # "free"
    BY <1>2 DEF Sane, Handlers
  <2>2. r.root # NoNode
    BY <2>1 DEF Sane, Sound, NodesOK
  <2>3. Scans(r, FillDir(r, r.res), born)
    BY <2>1, <2>2, FillDirKeeps
  <2>. QED
    BY <1>2, <2>3 DEF ReadDir, Scans
<1>. QED
  BY <1>1, <1>2

\* The directory of a path is a path.
LEMMA FrontPath ==
  ASSUME NEW p \in Paths, p # <<>>
  PROVE  Front(p) \in Paths
<1>1. p \in Seq(Names)
  BY PathFacts
<1>2. Len(p) \in Nat /\ Len(p) # 0
  BY <1>1
<1>3. PICK d \in Nat : d = Len(p) - 1 /\ d <= Len(p)
  BY <1>2
<1>4. d \in 0..Len(p) /\ Len(p) <= MaxDepth
  BY <1>1, <1>2, <1>3, PathFacts
<1>5. PICK q : q = SubSeq(p, 1, d)
  OBVIOUS
<1>6. q \in Seq(Names) /\ Len(q) = d
  BY <1>1, <1>3, <1>5
<1>7. q \in Paths
  BY <1>2, <1>3, <1>4, <1>6, PathFacts, DepthAssumption
<1>. QED
  BY <1>3, <1>5, <1>7 DEF Front

\* What getattr would find without a request get() finds, and changes nothing but
\* the cache.
LEMMA HeldIs ==
  ASSUME TreeInv, NEW born, Sound(cloud, heap, root, byPath, pathOf, born),
         NEW f \in Reads \cup Writes, NEW p \in Paths, p # <<>>, Held(p) # NoNode
  PROVE  LET r == Get(Begin(f), p)
         IN /\ Sane(r, born) /\ Looks(Begin(f), r, born) /\ r.ok /\ r.heap = heap
            /\ r.cloud = cloud /\ r.res \in Nodes /\ r.heap[r.res].kind # "free"
            /\ r.res # r.root /\ born[r.heap[r.res].id] = p
<1>1. PICK b : b = Begin(f)
  OBVIOUS
<1>2. /\ Sane(b, born) /\ b.ok /\ b.cloud = cloud /\ b.heap = heap /\ b.root = root
      /\ b.byPath = byPath /\ b.pathOf = pathOf
  BY <1>1, BeginSane
<1>3. PICK r : r = Get(b, p)
  OBVIOUS
<1>4. root # NoNode /\ Walk(heap, root, p)[Len(p)] # NoNode
  <2>1. CASE p \in DOMAIN byPath
    <3>1. byPath[p] \in Nodes /\ CacheOK(heap, root, byPath, pathOf)
      BY <2>1 DEF TreeInv, PathMaps, Sound
    <3>. QED
      BY <2>1, <3>1, NodesAssumption DEF CacheOK
  <2>2. CASE p \notin DOMAIN byPath
    <3>1. Held(p) = IF root = NoNode THEN NoNode ELSE Walk(heap, root, p)[Len(p)]
      BY <2>2 DEF Held
    <3>. QED
      BY <3>1
  <2>. QED
    BY <2>1, <2>2
<1>5. Looks(b, r, born) /\ Found(r, p, Len(p)) /\ Holds(b, r, Walk(heap, root, p)[Len(p)])
  BY <1>2, <1>3, <1>4, GetKeeps
<1>6. Sane(r, born) /\ r.res # NoNode
  BY <1>4, <1>5 DEF Looks, Holds
<1>7. /\ r.ok /\ r.root # NoNode /\ r.res \in Nodes /\ r.heap[r.res].kind # "free"
      /\ born[r.heap[r.res].id] = p
  BY <1>5, <1>6, FoundLive
<1>8. r.res # r.root
  BY <1>6, <1>7 DEF Sane, Sound, NodesOK, CloudOK
<1>. QED
  BY <1>1, <1>2, <1>3, <1>5, <1>6, <1>7, <1>8 DEF Holds, Looks

\* getattr.
LEMMA LookupKeeps ==
  ASSUME TreeInv, NEW p \in Paths, NEW f \in Reads, Lookup(p, f)
  PROVE  StepOK
<1>1. PICK born : Sound(cloud, heap, root, byPath, pathOf, born)
  BY DEF TreeInv
<1>2. Sane(Begin(f), born)
  BY <1>1, BeginSane
<1>3. Fine(Begin(f), Get(Begin(f), p))
  BY <1>2, GetKeeps, LooksFine
<1>4. Commit(Get(Begin(f), p)) /\ Points(Get(Begin(f), p))
  BY SamePoints DEF Lookup
<1>. QED
  BY <1>1, <1>3, <1>4, CommitKeeps

\* opendir and readdir: what is thrown ends the process.
LEMMA ListKeeps ==
  ASSUME TreeInv, NEW p \in Paths, NEW f \in Reads, List(p, f)
  PROVE  StepOK
<1>1. PICK born : Sound(cloud, heap, root, byPath, pathOf, born)
  BY DEF TreeInv
<1>2. Sane(Begin(f), born)
  BY <1>1, BeginSane
<1>3. PICK r : r = Get(Begin(f), p)
  OBVIOUS
<1>4. Looks(Begin(f), r, born) /\ Found(r, p, Len(p))
  BY <1>2, <1>3, GetKeeps
<1>5. Sane(r, born)
  BY <1>4 DEF Looks
<1>6. Looks(r, ReadDir(r), born)
  BY <1>4, <1>5, FoundLive, ReadDirKeeps
<1>7. Fine(Begin(f), ReadDir(r))
  BY <1>2, <1>4, <1>6, LooksTrans, LooksFine
<1>8. CASE ReadDir(r).ok
  <2>1. Commit(ReadDir(r)) /\ Points(ReadDir(r))
    BY <1>3, <1>8, SamePoints DEF List
  <2>. QED
    BY <1>1, <1>7, <2>1, CommitKeeps
<1>9. CASE ~ReadDir(r).ok
  BY <1>3, <1>9, FreshKeeps DEF List
<1>. QED
  BY <1>8, <1>9

\* open: the handle gets a node.
LEMMA OpenKeeps ==
  ASSUME TreeInv, NEW h \in Handles, NEW p \in Paths, NEW f \in Reads, Open(h, p, f)
  PROVE  StepOK
<1>1. PICK born : Sound(cloud, heap, root, byPath, pathOf, born)
  BY DEF TreeInv
<1>2. p # <<>> /\ Held(p) # NoNode
  BY DEF Open, Known
<1>3. PICK r : r = Get(Begin(f), p)
  OBVIOUS
<1>4. /\ Looks(Begin(f), r, born) /\ r.res \in Nodes
      /\ r.heap = heap /\ r.heap[r.res].kind # "free"
  BY <1>1, <1>2, <1>3, HeldIs
<1>5. heap[r.res].id \in Ids
  BY <1>4 DEF TreeInv, Heaps, NodeRecords
<1>6. Commit(r) /\ fh' = [fh EXCEPT ![h] = [node |-> r.res, id |-> heap[r.res].id]]
  BY <1>3 DEF Open
<1>7. Points(r)
  <2>1. fh' \in [Handles -> [node : Nodes, id : Ids] \cup {Closed}]
    BY <1>4, <1>5, <1>6 DEF TreeInv
  <2>2. \A k \in Handles : k # h => fh'[k] = fh[k]
    BY <1>6 DEF TreeInv
  <2>3. fh'[h].node = r.res /\ fh'[h].id = r.heap[r.res].id
    BY <1>4, <1>6 DEF TreeInv
  <2>. QED
    BY <1>4, <2>1, <2>2, <2>3 DEF Points
<1>. QED
  BY <1>1, <1>4, <1>6, <1>7, LooksFine, CommitKeeps

\* readdir of a handle.
LEMMA ListOpenKeeps ==
  ASSUME TreeInv, NEW h \in Handles, NEW f \in Reads, ListOpen(h, f)
  PROVE  StepOK
<1>1. PICK born : Sound(cloud, heap, root, byPath, pathOf, born)
  BY DEF TreeInv
<1>2. PICK b : b = Begin(f)
  OBVIOUS
<1>3. Sane(b, born) /\ b.heap = heap /\ b.ok
  BY <1>1, <1>2, BeginSane
<1>4. PICK n \in Nodes : n = fh[h].node
  BY DEF ListOpen, TreeInv
<1>5. heap[n].kind # "free"
  BY <1>4 DEF ListOpen, Valid
<1>6. PICK r : r = [b EXCEPT !.res = n]
  OBVIOUS
<1>7. Looks(b, r, born) /\ r.heap = heap /\ r.res = n
  <2>1. Answer(r, b, n) /\ n \in Nodes \cup {NoNode}
    BY <1>6 DEF Answer
  <2>. QED
    BY <1>3, <2>1, ResKeeps
<1>8. Sane(r, born)
  BY <1>7 DEF Looks
<1>9. Looks(r, ReadDir(r), born)
  BY <1>5, <1>7, <1>8, ReadDirKeeps
<1>10. Fine(b, ReadDir(r))
  BY <1>3, <1>7, <1>9, LooksTrans, LooksFine
<1>11. CASE ReadDir(r).ok
  <2>1. Commit(ReadDir(r)) /\ Points(ReadDir(r))
    BY <1>2, <1>4, <1>6, <1>11, SamePoints DEF ListOpen
  <2>. QED
    BY <1>1, <1>2, <1>10, <2>1, CommitKeeps
<1>12. CASE ~ReadDir(r).ok
  BY <1>2, <1>4, <1>6, <1>12, FreshKeeps DEF ListOpen
<1>. QED
  BY <1>11, <1>12

\* release.
LEMMA CloseKeeps ==
  ASSUME TreeInv, NEW h \in Handles, Close(h)
  PROVE  StepOK
<1>1. fh' \in [Handles -> [node : Nodes, id : Ids] \cup {Closed}]
  BY DEF Close, TreeInv
<1>2. /\ cloud' = cloud /\ heap' = heap /\ root' = root /\ byPath' = byPath /\ pathOf' = pathOf
  BY DEF Close
<1>3. TreeInv'
  BY <1>1, <1>2 DEF TreeInv
<1>4. HandlesValid => HandlesValid'
  BY <1>2 DEF Close, HandlesValid, Valid, TreeInv
<1>. QED
  BY <1>2, <1>3, <1>4 DEF StepOK, Fills, Lives

\* mkdir, after its lookup.
LEMMA MakeDirKeeps ==
  ASSUME TreeInv, NEW p \in Paths, NEW e \in Reads, NEW f \in Writes, MakeDir(p, e, f)
  PROVE  StepOK
<1>1. PICK born : Sound(cloud, heap, root, byPath, pathOf, born)
  BY DEF TreeInv
<1>2. Sane(Begin(e), born)
  BY <1>1, BeginSane
<1>3. PICK r : r = Get(Begin(e), p)
  OBVIOUS
<1>4. Looks(Begin(e), r, born) /\ Sane(r, born)
  BY <1>2, <1>3, GetKeeps DEF Looks
<1>5. Looks(r, Then(r, f), born) /\ Sane(Then(r, f), born)
  BY <1>4, ThenLooks
<1>6. Makes(Then(r, f), CreateNode(Then(r, f), p, TRUE), born)
  BY <1>5, CreateNodeKeeps
<1>7. Makes(r, CreateNode(Then(r, f), p, TRUE), born)
  BY <1>4, <1>5, <1>6, MakesAfter
<1>8. Makes(Begin(e), CreateNode(Then(r, f), p, TRUE), born)
  BY <1>2, <1>4, <1>7, MakesAfter
<1>9. Fine(Begin(e), CreateNode(Then(r, f), p, TRUE))
  BY <1>2, <1>8, MakesFine
<1>10. Commit(CreateNode(Then(r, f), p, TRUE)) /\ Points(CreateNode(Then(r, f), p, TRUE))
  BY <1>3, SamePoints DEF MakeDir
<1>. QED
  BY <1>1, <1>9, <1>10, CommitKeeps

\* FuseGate::createFile.
LEMMA CreateFileKeeps ==
  ASSUME NEW r, NEW born, Sane(r, born), NEW p \in Paths, p # <<>>
  PROVE  Makes(r, CreateFile(r, p), born)
<1>1. CASE r.res = NoNode
  <2>1. PICK q \in Paths : q = Front(p)
    BY FrontPath
  <2>2. PICK s : s = Get(r, q)
    OBVIOUS
  <2>3. Looks(r, s, born) /\ Sane(s, born)
    BY <2>2, GetKeeps DEF Looks
  <2>4. Makes(s, CreateNode(s, p, FALSE), born)
    BY <2>3, CreateNodeKeeps
  <2>5. Makes(r, CreateNode(s, p, FALSE), born)
    BY <2>3, <2>4, MakesAfter
  <2>. QED
    BY <1>1, <2>1, <2>2, <2>5 DEF CreateFile
<1>2. CASE r.res # NoNode
  BY <1>2, LooksRefl, LooksMakes DEF CreateFile
<1>. QED
  BY <1>1, <1>2

\* create, after its lookup.
LEMMA MakeFileKeeps ==
  ASSUME TreeInv, NEW p \in Paths, NEW e \in Reads, NEW f \in Writes, MakeFile(p, e, f)
  PROVE  StepOK
<1>1. PICK born : Sound(cloud, heap, root, byPath, pathOf, born)
  BY DEF TreeInv
<1>2. Sane(Begin(e), born)
  BY <1>1, BeginSane
<1>3. PICK r : r = Get(Begin(e), p)
  OBVIOUS
<1>4. Looks(Begin(e), r, born) /\ Sane(r, born)
  BY <1>2, <1>3, GetKeeps DEF Looks
<1>5. Looks(r, Then(r, f), born) /\ Sane(Then(r, f), born)
  BY <1>4, ThenLooks
<1>6. PICK s : s = Get(Then(r, f), p)
  OBVIOUS
<1>7. Looks(Then(r, f), s, born) /\ Sane(s, born)
  BY <1>5, <1>6, GetKeeps DEF Looks
<1>8. Looks(Begin(e), s, born)
  BY <1>2, <1>4, <1>5, <1>7, LooksTrans
<1>9. Makes(s, CreateFile(s, p), born)
  BY <1>7, CreateFileKeeps DEF MakeFile
<1>10. Fine(Begin(e), CreateFile(s, p))
  BY <1>2, <1>8, <1>9, MakesAfter, MakesFine
<1>11. Commit(CreateFile(s, p)) /\ Points(CreateFile(s, p))
  BY <1>3, <1>6, SamePoints DEF MakeFile
<1>. QED
  BY <1>1, <1>10, <1>11, CommitKeeps

\* unlink and rmdir.
LEMMA UnlinkKeeps ==
  ASSUME TreeInv, NEW p \in Paths, NEW f \in Writes, Unlink(p, f)
  PROVE  StepOK
<1>1. PICK born : Sound(cloud, heap, root, byPath, pathOf, born)
  BY DEF TreeInv
<1>2. p # <<>> /\ Held(p) # NoNode
  BY DEF Unlink, Known
<1>3. PICK r : r = Get(Begin(f), p)
  OBVIOUS
<1>4. PICK what \in Nodes : what = r.res
  BY <1>1, <1>2, <1>3, HeldIs
<1>5. /\ Sane(r, born) /\ r.ok /\ r.heap = heap /\ r.cloud = cloud
      /\ heap[what].kind # "free" /\ what # r.root /\ born[heap[what].id] = p
  BY <1>1, <1>2, <1>3, <1>4, HeldIs
<1>6. PICK t : t = RemoveNodes(r, what)
  OBVIOUS
<1>7. Removed(r, t, born) /\ \E l, s : Strikes(r, what, l, s, t, born)
  BY <1>5, <1>6, RemoveNodesKeeps
<1>8. PICK l, s : Strikes(r, what, l, s, t, born)
  BY <1>7
<1>9. /\ Commit(t) /\ Removable(r, what)
      /\ fh' = [h \in Handles |-> IF t.ok /\ fh[h].node = what THEN Closed ELSE fh[h]]
  BY <1>3, <1>4, <1>6 DEF Unlink, CommitRemoval
<1>10. t \in Handlers /\ Sane(t, born)
  BY <1>7 DEF Removed, Sane
<1>11. TreeInv'
  <2>1. fh' \in [Handles -> [node : Nodes, id : Ids] \cup {Closed}]
    BY <1>9 DEF TreeInv
  <2>2. Sound(cloud', heap', root', byPath', pathOf', born)
    BY <1>9, <1>10 DEF Commit, Sane
  <2>. QED
    BY <1>9, <1>10, <2>1, <2>2 DEF Commit, Handlers, TreeInv
<1>12. Fills(cloud, heap, heap')
  BY <1>5, <1>7, <1>9 DEF Removed, Fills, Commit
<1>13. Cuts
  <2>. SUFFICES ASSUME NEW i \in Ids, Exists(cloud, i), ~Exists(cloud', i)
                PROVE  \E j \in CloudAt(cloud, p) : i \in Under(cloud, j)
    BY DEF Cuts
  <2>1. cloud'[i] # cloud[i]
    BY DEF Exists
  <2>2. PICK j \in Ids : j = heap[what].id
    BY DEF TreeInv, Heaps, NodeRecords
  <2>3. i \in Under(cloud, j)
    BY <1>5, <1>8, <1>9, <2>1, <2>2, StrikeCloud DEF Commit
  <2>4. cloud \in Clouds /\ born \in [Ids -> Paths] /\ CloudOK(cloud, born) /\ p \in Seq(Names)
    BY <1>1, PathFacts DEF TreeInv, Sound
  <2>5. Exists(cloud, j)
    BY <2>3, <2>4, UnderExists
  <2>6. j \in CloudAt(cloud, p)
    BY <1>5, <2>2, <2>4, <2>5, DriveAt
  <2>. QED
    BY <2>3, <2>6
<1>14. ASSUME ~RmFull, HandlesValid
       PROVE  HandlesValid'
  <2>1. Children(r.cloud, r.heap[what].id) = {}
    BY <1>9, <1>14 DEF Removable
  <2>. SUFFICES ASSUME NEW h \in Handles, fh'[h] # Closed
                PROVE  heap'[fh'[h].node].kind # "free" /\ heap'[fh'[h].node].id = fh'[h].id
    BY DEF HandlesValid, Valid
  <2>2. fh'[h] = fh[h] /\ (fh[h].node = what => ~t.ok)
    BY <1>9
  <2>3. PICK y \in Nodes : y = fh[h].node
    BY <2>2 DEF TreeInv
  <2>4. heap[y].kind # "free" /\ heap[y].id = fh[h].id
    BY <1>14, <2>2, <2>3 DEF HandlesValid, Valid
  <2>5. t.heap[y].kind = r.heap[y].kind /\ t.heap[y].id = r.heap[y].id
    BY <1>5, <1>8, <2>1, <2>2, <2>3, <2>4, StrikeNodes
  <2>. QED
    BY <1>5, <1>9, <2>2, <2>3, <2>4, <2>5 DEF Commit
<1>. QED
  BY <1>11, <1>12, <1>13, <1>14 DEF StepOK

\* Every step but a rename keeps the invariant and marks only whole directories as read.
LEMMA StepKeeps ==
  ASSUME TreeInv, [Next]_vars,
         \A p, q \in Paths, e \in Reads, f \in Writes : ~Rename(p, q, e, f)
  PROVE  StepOK
<1>1. CASE UNCHANGED vars
  <2>1. TreeInv' /\ (HandlesValid => HandlesValid')
    BY <1>1 DEF TreeInv, vars, HandlesValid, Valid
  <2>. QED
    BY <1>1, <2>1 DEF StepOK, Fills, Lives, vars
<1>2. ASSUME NEW p \in Paths, NEW f \in Reads, Lookup(p, f) \/ List(p, f)
      PROVE  StepOK
  BY <1>2, LookupKeeps, ListKeeps
<1>3. ASSUME NEW h \in Handles, Close(h)
      PROVE  StepOK
  BY <1>3, CloseKeeps
<1>4. ASSUME NEW h \in Handles, NEW f \in Reads, ListOpen(h, f)
      PROVE  StepOK
  BY <1>4, ListOpenKeeps
<1>5. ASSUME NEW h \in Handles, NEW f \in Reads, NEW p \in Paths, Open(h, p, f)
      PROVE  StepOK
  BY <1>5, OpenKeeps
<1>6. ASSUME NEW p \in Paths, NEW f \in Writes, Unlink(p, f)
      PROVE  StepOK
  BY <1>6, UnlinkKeeps
<1>7. ASSUME NEW p \in Paths, NEW f \in Writes, NEW e \in Reads,
             MakeDir(p, e, f) \/ MakeFile(p, e, f)
      PROVE  StepOK
  BY <1>7, MakeDirKeeps, MakeFileKeeps
<1>8. CASE Remount
  BY <1>8, FreshKeeps DEF Remount
<1>9. CASE Next
  <2>1. CASE \E p \in Paths, f \in Reads : Lookup(p, f) \/ List(p, f)
    BY <1>2, <2>1
  <2>2. CASE \E h \in Handles :
               \/ Close(h)
               \/ \E f \in Reads : ListOpen(h, f) \/ \E p \in Paths : Open(h, p, f)
    BY <1>3, <1>4, <1>5, <2>2
  <2>3. CASE \E p \in Paths, f \in Writes :
               \/ Unlink(p, f)
               \/ \E e \in {w \in Reads : w = Well \/ f = Well} :
                    \/ MakeDir(p, e, f) \/ MakeFile(p, e, f)
                    \/ \E q \in Paths : Rename(p, q, e, f)
    BY <1>6, <1>7, <2>3
  <2>. QED
    BY <1>8, <1>9, <2>1, <2>2, <2>3 DEF Next
<1>. QED
  BY <1>1, <1>9

\* So does every step when nothing is renamed.
LEMMA NextKeeps ==
  ASSUME Renames = "none", TreeInv, [Next]_vars
  PROVE  StepOK
BY StepKeeps DEF Rename

-----------------------------------------------------------------------------
(* What it implies. *)

\* The invariant gives the variables their types.
LEMMA InvTypes == TreeInv => TypeOK
BY DEF TreeInv, TypeOK, Clouds, Heaps, NodeRecords, PathMaps, NodeMaps

\* The invariant makes the nodes a tree: positions in lists are counted.
LEMMA InvShape == TreeInv => TreeShape
<1>. SUFFICES ASSUME TreeInv
              PROVE  TreeShape
  OBVIOUS
<1>1. PICK born : Sound(cloud, heap, root, byPath, pathOf, born)
  BY DEF TreeInv
<1>2. /\ heap \in Heaps /\ born \in [Ids -> Paths] /\ TreeOK(heap, root, born)
      /\ NodesOK(heap, root, cloud)
  BY <1>1 DEF TreeInv, Sound
<1>3. \A m \in Nodes : DOMAIN heap[m].next = 1..Len(heap[m].next)
  BY <1>2 DEF Heaps, NodeRecords
<1>4. ASSUME NEW n \in Live \ {root}
      PROVE  /\ heap[n].parent \in Live
             /\ \A m \in Nodes : Cardinality({k \in DOMAIN heap[m].next : heap[m].next[k] = n})
                                 = IF m = heap[n].parent THEN 1 ELSE 0
  <2>1. n \in Nodes /\ heap[n].kind # "free" /\ n # root
    BY <1>4 DEF Live
  <2>2. PICK a \in Nodes : a = heap[n].parent
    BY <1>2, <2>1 DEF TreeOK, ListedOK
  <2>3. PICK i \in 1..Len(heap[a].next) : heap[a].next[i] = n
    BY <1>2, <2>1, <2>2 DEF TreeOK, ListedOK
  <2>4. heap[a].kind # "free"
    <3>. SUFFICES ASSUME heap[a].kind = "free"
                  PROVE  FALSE
      OBVIOUS
    <3>1. heap[a].next = <<>>
      BY <1>2 DEF NodesOK, Free
    <3>2. Len(heap[a].next) = 0
      BY <3>1
    <3>. QED
      BY <2>3, <3>2
  <2>5. ASSUME NEW m \in Nodes
        PROVE  Cardinality({k \in DOMAIN heap[m].next : heap[m].next[k] = n})
               = IF m = a THEN 1 ELSE 0
    <3>1. CASE m = a
      <4>1. \A k \in 1..Len(heap[a].next) : heap[a].next[k] = n => k = i
        BY <1>2, <2>3 DEF TreeOK, ListOK
      <4>2. {k \in DOMAIN heap[m].next : heap[m].next[k] = n} = {i}
        BY <1>3, <2>3, <3>1, <4>1
      <4>3. Cardinality({i}) = 1
        BY FS_Singleton
      <4>. QED
        BY <3>1, <4>2, <4>3
    <3>2. CASE m # a
      <4>1. {k \in DOMAIN heap[m].next : heap[m].next[k] = n} = {}
        BY <1>2, <1>3, <2>3, <3>2, OneList
      <4>2. Cardinality({}) = 0
        BY FS_EmptySet
      <4>. QED
        BY <3>2, <4>1, <4>2
    <3>. QED
      BY <3>1, <3>2
  <2>. QED
    BY <2>2, <2>4, <2>5 DEF Live
<1>5. ASSUME NEW n \in Live
      PROVE  ToSet(heap[n].next) \subseteq Live
  <2>1. n \in Nodes
    BY DEF Live
  <2>2. \A k \in 1..Len(heap[n].next) : heap[n].next[k] \in Nodes
    BY <1>2, <2>1 DEF Heaps, NodeRecords
  <2>3. \A k \in 1..Len(heap[n].next) : heap[heap[n].next[k]].kind # "free"
    BY <1>2, <2>1 DEF TreeOK, ListOK, Entered
  <2>. QED
    BY <1>3, <2>1, <2>2, <2>3 DEF ToSet, Live
<1>. QED
  BY <1>4, <1>5 DEF TreeShape

\* The invariant makes the cache agree with the tree.
LEMMA InvCache == TreeInv => CacheAgrees
BY DEF TreeInv, Sound, CacheOK, CacheAgrees

\* Without renames the variables keep their types, whatever fails: what a failed
\* handler leaves behind is a tree and a cache still.
THEOREM TypesHold ==
  ASSUME Renames = "none"
  PROVE  Spec => []TypeOK
<1>1. TreeInv /\ [Next]_vars => TreeInv'
  BY NextKeeps DEF StepOK
<1>. QED
  BY <1>1, InitInv, InvTypes, PTL DEF Spec

\* Without renames nothing is freed while the tree points to it, and every node
\* but the root is in one list, once, whatever fails: fillDir, addNext,
\* createNode and the recursion of removeNodes keep the tree a tree.
THEOREM ShapeHolds ==
  ASSUME Renames = "none"
  PROVE  Spec => []TreeShape
<1>1. TreeInv /\ [Next]_vars => TreeInv'
  BY NextKeeps DEF StepOK
<1>. QED
  BY <1>1, InitInv, InvShape, PTL DEF Spec

\* Without renames a cached path leads to the node that the tree has for it,
\* whatever fails: each node that removeNodes frees has left the cache before.
THEOREM CacheHolds ==
  ASSUME Renames = "none"
  PROVE  Spec => []CacheAgrees
<1>1. TreeInv /\ [Next]_vars => TreeInv'
  BY NextKeeps DEF StepOK
<1>. QED
  BY <1>1, InitInv, InvCache, PTL DEF Spec

\* Without renames a directory is marked as read only when all that the drive has
\* there is in it: a fillDir that fails half-way leaves it unmarked.
THEOREM FilledHolds ==
  ASSUME Renames = "none"
  PROVE  Spec => FilledWhenComplete
<1>. DEFINE Complete == \A n \in Nodes : ~heap[n].filled /\ heap'[n].filled =>
               Children(cloud, heap'[n].id) \subseteq {heap'[m].id : m \in ToSet(heap'[n].next)}
<1>1. TreeInv /\ [Next]_vars => TreeInv'
  BY NextKeeps DEF StepOK
<1>2. TreeInv /\ [Next]_vars => [Complete]_vars
  <2>. SUFFICES ASSUME TreeInv, [Next]_vars, NEW n \in Nodes, ~heap[n].filled, heap'[n].filled
                PROVE  Children(cloud, heap'[n].id)
                         \subseteq {heap'[m].id : m \in ToSet(heap'[n].next)}
    OBVIOUS
  <2>1. StepOK
    BY NextKeeps
  <2>2. Whole(cloud, heap', n)
    BY <2>1 DEF StepOK, Fills
  <2>3. heap' \in Heaps
    BY <2>1 DEF StepOK, TreeInv
  <2>4. DOMAIN heap'[n].next = 1..Len(heap'[n].next)
    BY <2>3 DEF Heaps, NodeRecords
  <2>5. IdsIn(heap', n) \subseteq {heap'[m].id : m \in ToSet(heap'[n].next)}
    BY <2>4 DEF IdsIn, ToSet
  <2>. QED
    BY <2>2, <2>5 DEF Whole
<1>. QED
  BY <1>1, <1>2, InitInv, PTL DEF Spec, FilledWhenComplete

\* Without renames, and when rm(1) removes empty directories only, a handle that is
\* open points to the node that was opened, whatever fails: removeNodes of a file
\* or an empty directory frees no other node, and that one is in no handle.
THEOREM HandlesHold ==
  ASSUME Renames = "none", RmFull = FALSE
  PROVE  Spec => []HandlesValid
<1>. DEFINE I == TreeInv /\ HandlesValid
<1>1. Init => I
  BY InitInv DEF Init, HandlesValid
<1>2. I /\ [Next]_vars => I'
  BY NextKeeps DEF StepOK
<1>. QED
  BY <1>1, <1>2, PTL DEF Spec

\* Without renames nothing goes from the drive but what is at the path of an unlink
\* or rmdir, and below, whatever fails: the node that get() answers for the path is
\* the one of the file there, and removeNodes goes to what is below it only.
THEOREM RemovesHold ==
  ASSUME Renames = "none"
  PROVE  Spec => RemovesOnlyNamed
<1>. DEFINE died == {i \in Ids : Exists(cloud, i) /\ ~Exists(cloud', i)}
            below(p) == UNION {Under(cloud, i) : i \in CloudAt(cloud, p)}
            Asked == died # {} =>
                       \E p \in Paths, f \in Writes :
                         /\ died \subseteq below(p)
                         /\ Unlink(p, f) \/ \E q \in Paths, e \in Reads : Rename(q, p, e, f)
<1>1. TreeInv /\ [Next]_vars => TreeInv'
  BY NextKeeps DEF StepOK
<1>2. TreeInv /\ [Next]_vars => [Asked]_vars
  <2>. SUFFICES ASSUME TreeInv, [Next]_vars
                PROVE  Asked
    OBVIOUS
  <2>1. StepOK
    BY NextKeeps
  <2>2. CASE Lives(cloud, cloud')
    BY <2>2 DEF Lives, Exists
  <2>3. CASE Cuts
    <3>1. PICK p \in Paths, f \in Writes :
             /\ Unlink(p, f)
             /\ \A i \in Ids : Exists(cloud, i) /\ ~Exists(cloud', i) =>
                                 \E j \in CloudAt(cloud, p) : i \in Under(cloud, j)
      BY <2>3 DEF Cuts
    <3>2. died \subseteq below(p)
      BY <3>1
    <3>. HIDE DEF died, below
    <3>. QED
      BY <3>1, <3>2
  <2>. QED
    BY <2>1, <2>2, <2>3 DEF StepOK
<1>. QED
  BY <1>1, <1>2, InitInv, PTL DEF Spec, RemovesOnlyNamed
=============================================================================
