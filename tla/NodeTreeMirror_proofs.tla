----------------------- MODULE NodeTreeMirror_proofs -----------------------
(***************************************************************************)
(* Proofs about NodeTree when no request fails, and nothing is renamed but *)
(* files, with assertions compiled in: what has been read of the drive is  *)
(* in the tree as it is on the drive, and a lookup answers what the drive  *)
(* has.  The inductive invariant adds Mirrors to the one of                *)
(* NodeTree_proofs; it is proved of what a handler holds after each call   *)
(* it makes.  A rename gives the file i another path, born[i]: the tree    *)
(* without it fits the paths before and after.  So the drive is at every   *)
(* moment a tree of paths, and NodeTree implements Namespace.              *)
(***************************************************************************)
EXTENDS NodeTree_proofs

\* The node n shows the file it was made of, which is there.
Shows(c, h, rt, n) ==
  h[n].kind # "free" =>
    /\ Exists(c, h[n].id) /\ c[h[n].id].kind = h[n].kind
    /\ n # rt => c[h[n].id].name = h[n].name

\* No file has two nodes.
OneNode(h) ==
  \A m, n \in Nodes : h[m].kind # "free" /\ h[n].kind # "free" /\ h[m].id = h[n].id => m = n

\* The node n is a directory that has been read and is whole, or it is empty.
ReadOrEmpty(c, h, n) ==
  IF h[n].filled THEN h[n].kind = "dir" /\ Whole(c, h, n) ELSE h[n].next = <<>>

\* Files are in folders.
Folders(c) ==
  /\ c[RootId].kind = "dir"
  /\ \A i \in Ids \ {RootId} : Exists(c, i) => c[c[i].parent].kind = "dir"

\* Files are in folders, and no two at one path.
DriveTree(c, born) ==
  /\ Folders(c)
  /\ \A i, j \in Ids : Exists(c, i) /\ Exists(c, j) /\ born[i] = born[j] => i = j

\* The tree shows the drive c: what has been read is what c has.
Mirrored(c, h, rt) ==
  OneNode(h) /\ \A n \in Nodes : Shows(c, h, rt, n) /\ ReadOrEmpty(c, h, n)

\* The drive is a tree of paths, which the tree shows.
Mirrors(c, h, rt, born) == DriveTree(c, born) /\ Mirrored(c, h, rt)

\* There are more addresses than files.
Roomy == Cardinality(Nodes) > Cardinality(Ids)

\* A tree that has one node for a file at most leaves an address for a new one.
LEMMA RoomyVacant ==
  ASSUME Roomy, NEW h \in Heaps, OneNode(h), NEW rt, NEW c, NodesOK(h, rt, c)
  PROVE  Vacant(h) # {}
<1>. SUFFICES ASSUME Vacant(h) = {} PROVE FALSE
  OBVIOUS
<1>1. \A n \in Nodes : h[n].kind # "free" /\ h[n].id \in Ids
  BY DEF Vacant, NodesOK, Heaps, NodeRecords
<1>. DEFINE f == [n \in Nodes |-> h[n].id]
<1>2. f \in Injection(Nodes, Ids)
  BY <1>1 DEF Injection, IsInjective, OneNode
<1>3. IsFiniteSet(Nodes) /\ IsFiniteSet(Ids)
  BY NodesAssumption, IdsAssumption
<1>4. Cardinality(Nodes) <= Cardinality(Ids)
  <2>. HIDE DEF f
  <2>. QED
    BY <1>2, <1>3, FS_Injection
<1>. QED
  BY <1>3, <1>4, FS_CardinalityType DEF Roomy

\* Addresses enough are free only if there are more addresses than files.
LEMMA RoomRoomy ==
  ASSUME Room
  PROVE  Roomy
<1>. DEFINE V == {n \in Nodes : heap[n] = Free}
<1>1. IsFiniteSet(Nodes) /\ IsFiniteSet(Ids)
  BY NodesAssumption, IdsAssumption
<1>2. V \subseteq Nodes
  OBVIOUS
<1>3. Cardinality(V) >= Cardinality(Ids) + 1
  BY DEF Room
<1>. HIDE DEF V
<1>4. Cardinality(V) <= Cardinality(Nodes) /\ Cardinality(V) \in Nat
  BY <1>1, <1>2, FS_Subset, FS_CardinalityType
<1>. QED
  BY <1>1, <1>3, <1>4, FS_CardinalityType DEF Roomy

\* The list of a node with one more entry at its end.
LEMMA AppendIs ==
  ASSUME NEW s \in Seq(Nodes), NEW m \in Nodes
  PROVE  /\ Len(Append(s, m)) = Len(s) + 1 /\ Len(s) \in Nat
         /\ Append(s, m)[Len(s) + 1] = m
         /\ \A k \in 1..Len(s) : Append(s, m)[k] = s[k] /\ s[k] \in Nodes
         /\ \A k \in 1..Len(Append(s, m)) : k \in 1..Len(s) \/ k = Len(s) + 1
OBVIOUS

\* The files of the entries of a node.
LEMMA InIds ==
  \A h, n, i : i \in IdsIn(h, n) <=> \E k \in 1..Len(h[n].next) : i = h[h[n].next[k]].id
BY Zenon DEF IdsIn

\* What one more node m, of the record node, in the list of n changes of the heap h.
LinkedAs(h, g, n, m, node) ==
  /\ IdsIn(g, n) = IdsIn(h, n) \cup {node.id}
  /\ \A y \in Nodes \ {n, m} : IdsIn(g, y) = IdsIn(h, y)
  /\ g[m] = node /\ \A y \in Nodes \ {n, m} : g[y] = h[y]
  /\ g[n] = [h[n] EXCEPT !.next = Append(h[n].next, m)]
  /\ \A y \in Nodes : \A k \in 1..Len(h[y].next) :
       h[y].next[k] \in Nodes \ {m} /\ g[h[y].next[k]].id = h[h[y].next[k]].id

\* The files of a directory that has got one more entry, and of the others.
LEMMA LinkedIds ==
  ASSUME NEW h \in Heaps, NEW rt, NEW born, TreeOK(h, rt, born), NEW n \in Nodes, NEW m \in Nodes,
         h[m] = Free, h[n].kind # "free", NEW node, NEW g \in Heaps, g = Linked(h, n, m, node)
  PROVE  LinkedAs(h, g, n, m, node)
<1>1. m # n
  BY DEF Free
<1>2. g = [x \in Nodes |-> IF x = m THEN node
                           ELSE IF x = n THEN [h[n] EXCEPT !.next = Append(h[n].next, m)]
                           ELSE h[x]]
  BY <1>1, LinkedIs
<1>3. /\ g[m] = node /\ \A y \in Nodes \ {n, m} : g[y] = h[y]
      /\ g[n] = [h[n] EXCEPT !.next = Append(h[n].next, m)]
  BY <1>1, <1>2
<1>4. \A y \in Nodes : \A k \in 1..Len(h[y].next) : h[y].next[k] \in Nodes \ {m}
  <2>1. \A y \in Nodes : h[y].next \in Seq(Nodes)
    BY DEF Heaps, NodeRecords
  <2>2. \A y \in Nodes : \A k \in 1..Len(h[y].next) : h[h[y].next[k]].kind # "free"
    BY DEF TreeOK, ListOK, Entered
  <2>. QED
    BY <2>1, <2>2 DEF Free
<1>5. h[n] \in NodeRecords
  BY DEF Heaps
<1>6. \A y \in Nodes \ {m} : g[y].id = h[y].id
  BY <1>3, <1>5 DEF NodeRecords
<1>7. \A y \in Nodes : \A k \in 1..Len(h[y].next) : g[h[y].next[k]].id = h[h[y].next[k]].id
  BY <1>4, <1>6
<1>8. \A y \in Nodes \ {n, m} : IdsIn(g, y) = IdsIn(h, y)
  BY <1>3, <1>7 DEF IdsIn
<1>9. IdsIn(g, n) = IdsIn(h, n) \cup {node.id}
  <2>1. g[n].next = Append(h[n].next, m) /\ h[n].next \in Seq(Nodes)
    BY <1>3, <1>5 DEF NodeRecords
  <2>2. /\ Len(g[n].next) = Len(h[n].next) + 1 /\ Len(h[n].next) \in Nat
        /\ g[n].next[Len(h[n].next) + 1] = m
        /\ \A k \in 1..Len(h[n].next) : g[n].next[k] = h[n].next[k]
        /\ \A k \in 1..Len(g[n].next) : k \in 1..Len(h[n].next) \/ k = Len(h[n].next) + 1
    BY <2>1, AppendIs
  <2>3. \A k \in 1..Len(h[n].next) : g[g[n].next[k]].id = h[h[n].next[k]].id
    BY <1>7, <2>2
  <2>4. g[g[n].next[Len(h[n].next) + 1]].id = node.id
    BY <1>3, <2>2
  <2>5. Len(h[n].next) + 1 \in 1..Len(g[n].next) /\ 1..Len(h[n].next) \subseteq 1..Len(g[n].next)
    BY <2>2
  <2>6. ASSUME NEW i \in IdsIn(g, n) PROVE i \in IdsIn(h, n) \cup {node.id}
    <3>1. PICK k \in 1..Len(g[n].next) : i = g[g[n].next[k]].id
      BY <2>6, InIds
    <3>2. CASE k \in 1..Len(h[n].next)
      <4>1. i = h[h[n].next[k]].id
        BY <2>3, <3>1, <3>2
      <4>. QED
        BY <3>2, <4>1, InIds
    <3>3. CASE k = Len(h[n].next) + 1
      BY <2>4, <3>1, <3>3
    <3>. QED
      BY <2>2, <3>1, <3>2, <3>3
  <2>7. ASSUME NEW i \in IdsIn(h, n) PROVE i \in IdsIn(g, n)
    <3>1. PICK k \in 1..Len(h[n].next) : i = h[h[n].next[k]].id
      BY <2>7, InIds
    <3>2. k \in 1..Len(g[n].next) /\ i = g[g[n].next[k]].id
      BY <2>2, <2>3, <2>5, <3>1
    <3>. QED
      BY <3>2, InIds
  <2>8. node.id \in IdsIn(g, n)
    <3>1. Len(h[n].next) + 1 \in 1..Len(g[n].next) /\ node.id = g[g[n].next[Len(h[n].next) + 1]].id
      BY <2>4, <2>5
    <3>. QED
      BY <3>1, InIds
  <2>. QED
    BY <2>6, <2>7, <2>8
<1>. QED
  BY <1>3, <1>4, <1>7, <1>8, <1>9 DEF LinkedAs

\* A node but the root is in the list of its parent, which is the node of the
\* folder that its file is in.
LEMMA ParentIs ==
  ASSUME NEW h \in Heaps, NEW rt, NEW c, NEW born, NodesOK(h, rt, c), TreeOK(h, rt, born),
         NEW b \in Nodes, h[b].kind # "free", b # rt
  PROVE  /\ h[b].parent \in Nodes /\ h[h[b].parent].kind # "free" /\ Has(h, h[b].parent, b)
         /\ Exists(c, h[b].id) => c[h[b].id].parent = h[h[b].parent].id
<1>1. h[b].parent \in Nodes /\ Has(h, h[b].parent, b)
  BY DEF TreeOK, ListedOK, Has
<1>2. h[h[b].parent].kind # "free"
  <2>1. SUFFICES ASSUME h[h[b].parent].kind = "free" PROVE FALSE
    OBVIOUS
  <2>2. h[h[b].parent] = Free
    BY <1>1, <2>1 DEF NodesOK
  <2>. QED
    BY <1>1, <2>2 DEF Has, Free
<1>. QED
  BY <1>1, <1>2 DEF NodesOK, Filed

\* The node of a file of the directory n is in the list of n, when no file has two
\* nodes.
LEMMA ChildListed ==
  ASSUME NEW h \in Heaps, NEW rt, NEW c, NEW born, NodesOK(h, rt, c), TreeOK(h, rt, born),
         OneNode(h), NEW n \in Nodes, h[n].kind # "free", NEW b \in Nodes, h[b].kind # "free",
         h[b].id \in Children(c, h[n].id)
  PROVE  Has(h, n, b) /\ h[b].id \in IdsIn(h, n)
<1>1. b # rt /\ Exists(c, h[b].id) /\ c[h[b].id].parent = h[n].id
  BY DEF NodesOK, Children
<1>2. h[b].parent \in Nodes /\ h[h[b].parent].kind # "free" /\ Has(h, h[b].parent, b)
  BY <1>1, ParentIs
<1>3. h[h[b].parent].id = h[n].id
  BY <1>1, ParentIs
<1>4. h[b].parent = n
  BY <1>2, <1>3 DEF OneNode
<1>. QED
  BY <1>2, <1>4 DEF Has, IdsIn

-----------------------------------------------------------------------------
(* fillDir. *)

\* No exception has been thrown, and no request is to fail.
Good(r) == r.ok /\ r.fuel < 0

\* The directory n has been read up to the files I, and no entry of it has been
\* read; all else is as on the drive.
Partly(r, born, n, I) ==
  /\ Sane(r, born) /\ Good(r) /\ r.root # NoNode
  /\ DriveTree(r.cloud, born) /\ OneNode(r.heap)
  /\ \A m \in Nodes : /\ Shows(r.cloud, r.heap, r.root, m)
                      /\ m # n => ReadOrEmpty(r.cloud, r.heap, m)
  /\ r.heap[n].kind # "free" /\ ~r.heap[n].filled /\ IdsIn(r.heap, n) = I
  /\ \A k \in 1..Len(r.heap[n].next) : ~r.heap[r.heap[n].next[k]].filled

\* The tree after one more file of n has got a node.
LEMMA LinkedPartly ==
  ASSUME NEW h \in Heaps, NEW g \in Heaps, NEW rt \in Nodes, NEW c \in Clouds, NEW born,
         NodesOK(h, rt, c), TreeOK(h, rt, born), OneNode(h),
         NEW n \in Nodes, h[n].kind # "free", NEW m \in Nodes, h[m] = Free,
         NEW i, i \in Children(c, h[n].id), i \notin IdsIn(h, n),
         g = Linked(h, n, m, NodeOf(c, i, n)), ~h[n].filled,
         \A y \in Nodes : Shows(c, h, rt, y) /\ (y # n => ReadOrEmpty(c, h, y)),
         \A k \in 1..Len(h[n].next) : ~h[h[n].next[k]].filled
  PROVE  /\ OneNode(g)
         /\ \A y \in Nodes : Shows(c, g, rt, y) /\ (y # n => ReadOrEmpty(c, g, y))
         /\ g[n].kind # "free" /\ ~g[n].filled /\ IdsIn(g, n) = IdsIn(h, n) \cup {i}
         /\ \A k \in 1..Len(g[n].next) : ~g[g[n].next[k]].filled
<1>1. PICK node : node = NodeOf(c, i, n)
  OBVIOUS
<1>2. /\ IdsIn(g, n) = IdsIn(h, n) \cup {node.id}
      /\ \A y \in Nodes \ {n, m} : IdsIn(g, y) = IdsIn(h, y)
      /\ g[m] = node /\ \A y \in Nodes \ {n, m} : g[y] = h[y]
      /\ g[n] = [h[n] EXCEPT !.next = Append(h[n].next, m)]
      /\ \A y \in Nodes : \A k \in 1..Len(h[y].next) :
           h[y].next[k] \in Nodes \ {m} /\ g[h[y].next[k]].id = h[h[y].next[k]].id
  <2>1. g = Linked(h, n, m, node)
    BY <1>1
  <2>2. LinkedAs(h, g, n, m, node)
    BY <2>1, LinkedIds
  <2>. QED
    BY <2>2 DEF LinkedAs
<1>3. /\ node.id = i /\ node.kind = c[i].kind /\ node.name = c[i].name /\ ~node.filled
      /\ node.next = <<>>
  BY <1>1 DEF NodeOf
<1>4. i \in Ids \ {RootId} /\ Exists(c, i)
  BY DEF Children
<1>5. /\ g[n].kind = h[n].kind /\ g[n].id = h[n].id /\ g[n].name = h[n].name
      /\ g[n].filled = h[n].filled /\ g[n].next = Append(h[n].next, m)
      /\ h[n].next \in Seq(Nodes) /\ m # n /\ m # rt
  BY <1>2 DEF Heaps, NodeRecords, Free, NodesOK
<1>6. \A y \in Nodes \ {m} : g[y].kind = h[y].kind /\ g[y].id = h[y].id /\ g[y].name = h[y].name
  BY <1>2, <1>5
<1>7. OneNode(g)
  <2>1. ASSUME NEW b \in Nodes \ {m}, g[b].kind # "free", g[b].id = i
        PROVE  FALSE
    <3>1. h[b].kind # "free" /\ h[b].id = i
      BY <1>6, <2>1
    <3>. QED
      BY <3>1, ChildListed
  <2>2. ASSUME NEW a \in Nodes, NEW b \in Nodes, g[a].kind # "free", g[b].kind # "free",
               g[a].id = g[b].id
        PROVE  a = b
    <3>1. CASE a = m \/ b = m
      BY <1>2, <1>3, <2>1, <2>2, <3>1
    <3>2. CASE a # m /\ b # m
      BY <1>6, <2>2, <3>2 DEF OneNode
    <3>. QED
      BY <3>1, <3>2
  <2>. QED
    BY <2>2 DEF OneNode
<1>8. ASSUME NEW y \in Nodes PROVE Shows(c, g, rt, y)
  <2>1. CASE y = m
    BY <1>2, <1>3, <1>4, <2>1 DEF Shows
  <2>2. CASE y # m
    BY <1>6, <2>2 DEF Shows
  <2>. QED
    BY <2>1, <2>2
<1>9. ASSUME NEW y \in Nodes, y # n PROVE ReadOrEmpty(c, g, y)
  <2>1. CASE y = m
    BY <1>2, <1>3, <2>1 DEF ReadOrEmpty
  <2>2. CASE y # m
    BY <1>2, <1>9, <2>2 DEF ReadOrEmpty, Whole
  <2>. QED
    BY <2>1, <2>2
<1>10. ASSUME NEW k \in 1..Len(g[n].next) PROVE ~g[g[n].next[k]].filled
  <2>1. /\ g[n].next[Len(h[n].next) + 1] = m
        /\ \A j \in 1..Len(h[n].next) : g[n].next[j] = h[n].next[j]
        /\ k \in 1..Len(h[n].next) \/ k = Len(h[n].next) + 1
    BY <1>5, AppendIs
  <2>2. CASE k = Len(h[n].next) + 1
    BY <1>2, <1>3, <2>1, <2>2
  <2>3. CASE k \in 1..Len(h[n].next)
    <3>1. h[n].next[k] \in Nodes \ {m}
      BY <1>2, <2>3
    <3>2. g[h[n].next[k]].filled = h[h[n].next[k]].filled
      BY <1>2, <1>5, <3>1
    <3>. QED
      BY <2>1, <2>3, <3>2
  <2>. QED
    BY <2>1, <2>2, <2>3
<1>. QED
  BY <1>2, <1>3, <1>5, <1>7, <1>8, <1>9, <1>10

\* One turn of fillDir's loop.
LEMMA FetchChildGood ==
  ASSUME Roomy, NEW r, NEW born, NEW n \in Nodes, NEW I, Partly(r, born, n, I),
         NEW i, i \in Children(r.cloud, r.heap[n].id), i \notin I
  PROVE  LET s == FetchChild(r, n, i)
         IN Fetches(r, s, born) /\ Partly(s, born, n, I \cup {i})
<1>0. /\ Sane(r, born) /\ r.ok /\ r.fuel < 0 /\ r.fuel \in Int /\ r.root \in Nodes /\ r.root # NoNode
      /\ r.heap \in Heaps /\ r.cloud \in Clouds /\ r \in Handlers
      /\ NodesOK(r.heap, r.root, r.cloud) /\ TreeOK(r.heap, r.root, born) /\ OneNode(r.heap)
      /\ r.heap[n].kind # "free"
  BY DEF Partly, Good, Sane, Sound, Handlers
<1>1. Vacant(r.heap) # {} /\ ~Fails(r, i)
  BY <1>0, RoomyVacant DEF Fails, Children
<1>2. PICK m \in Nodes : m = NewNode(r.heap) /\ r.heap[m] = Free
  BY <1>0, <1>1, NewNodeFacts
<1>3. PICK t : t = Spend(r)
  OBVIOUS
<1>4. t.heap = r.heap /\ t.cloud = r.cloud /\ t.ok /\ t.fuel < 0 /\ t.root = r.root /\ t \in Handlers
  BY <1>0, <1>3 DEF Spend, Handlers
<1>5. PICK g : g = Linked(r.heap, n, m, NodeOf(r.cloud, i, n))
  OBVIOUS
<1>6. PICK s : s = [t EXCEPT !.heap = g]
  OBVIOUS
<1>7. FetchChild(r, n, i) = s
  BY <1>0, <1>1, <1>2, <1>3, <1>4, <1>5, <1>6 DEF FetchChild, AddNext
<1>8. s.heap = g /\ s.cloud = r.cloud /\ s.ok /\ s.fuel < 0 /\ s.root = r.root
  BY <1>4, <1>6 DEF Handlers
<1>9. Fetches(r, s, born)
  BY <1>0, <1>7, FetchChildKeeps
<1>10. Sane(s, born) /\ g \in Heaps
  BY <1>8, <1>9 DEF Fetches, Looks, Sane, Handlers
<1>11. /\ OneNode(g)
       /\ \A y \in Nodes : /\ Shows(r.cloud, g, r.root, y)
                           /\ (y # n => ReadOrEmpty(r.cloud, g, y))
       /\ g[n].kind # "free" /\ ~g[n].filled /\ IdsIn(g, n) = I \cup {i}
       /\ \A k \in 1..Len(g[n].next) : ~g[g[n].next[k]].filled
  <2>1. /\ i \notin IdsIn(r.heap, n) /\ ~r.heap[n].filled /\ IdsIn(r.heap, n) = I
        /\ \A y \in Nodes : /\ Shows(r.cloud, r.heap, r.root, y)
                            /\ (y # n => ReadOrEmpty(r.cloud, r.heap, y))
        /\ \A k \in 1..Len(r.heap[n].next) : ~r.heap[r.heap[n].next[k]].filled
    BY DEF Partly
  <2>. QED
    BY <1>0, <1>2, <1>5, <1>10, <2>1, LinkedPartly, SMTT(20)
<1>12. DriveTree(r.cloud, born)
  BY DEF Partly
<1>. QED
  BY <1>0, <1>7, <1>8, <1>9, <1>10, <1>11, <1>12 DEF Partly, Good

\* SetToSeq lists each member of a finite set once.
LEMMA SetToSeqOnce ==
  ASSUME NEW C, IsFiniteSet(C)
  PROVE  Once(SetToSeq(C))
<1>1. Cardinality(C) \in Nat /\ ExistsBijection(1..Cardinality(C), C)
  BY FS_CardinalityType
<1>2. PICK f \in [1..Cardinality(C) -> C] : IsInjective(f)
  <2>1. PICK f : f \in Bijection(1..Cardinality(C), C)
    BY <1>1 DEF ExistsBijection
  <2>. QED
    BY <2>1 DEF Bijection, Injection
<1>3. SetToSeq(C) \in [1..Cardinality(C) -> C] /\ IsInjective(SetToSeq(C))
  BY <1>2 DEF SetToSeq
<1>4. Len(SetToSeq(C)) = Cardinality(C) /\ DOMAIN SetToSeq(C) = 1..Cardinality(C)
  BY <1>1, <1>3
<1>. QED
  BY <1>3, <1>4 DEF IsInjective, Once

\* fillDir's loop gives a directory that is empty what the drive has there.
LEMMA FetchChildrenGood ==
  ASSUME Roomy, NEW r, NEW born, NEW n \in Nodes, Partly(r, born, n, {})
  PROVE  LET s == FetchChildren(r, n)
         IN Fetches(r, s, born) /\ Partly(s, born, n, Children(r.cloud, r.heap[n].id))
<1>. DEFINE C == Children(r.cloud, r.heap[n].id)
<1>1. PICK ids : ids = SetToSeq(C)
  OBVIOUS
<1>2. ids \in Seq(C) /\ Once(ids) /\ \A i \in C : \E k \in 1..Len(ids) : ids[k] = i
  <2>1. IsFiniteSet(C)
    BY IdsAssumption, FS_Subset DEF Children
  <2>. HIDE DEF C
  <2>. QED
    BY <1>1, <2>1, SetToSeqLists, SetToSeqOnce
<1>. DEFINE L == Len(ids)
            I(k) == {ids[j] : j \in 1..k}
            Turn(x, k) == FetchChild(x, n, ids[k])
            S == [k \in 0..L |->
                    {x \in Handlers : Fetches(r, x, born) /\ Partly(x, born, n, I(k))}]
            F == [x \in Handlers \X (1..L) |-> Turn(x[1], x[2])]
            Eq(g) == g = [k \in 0..L |-> IF k = 0 THEN r ELSE Turn(g[k-1], k)]
<1>3. L \in Nat /\ \A k \in 1..L : ids[k] \in C
  BY <1>2
<1>4. ASSUME NEW k \in 1..L, NEW x \in S[k-1]
      PROVE  x \in Handlers /\ Turn(x, k) \in S[k]
  <2>1. k - 1 \in 0..L /\ k \in 0..L
    BY <1>3
  <2>2. x \in Handlers /\ Fetches(r, x, born) /\ Partly(x, born, n, I(k-1))
    BY <1>4, <2>1
  <2>3. Sane(r, born) /\ r.heap[n].kind # "free"
    BY DEF Partly
  <2>4. x.heap[n].id = r.heap[n].id /\ x.cloud = r.cloud
    BY <2>2, <2>3 DEF Fetches, Looks, Kept, KeptNode
  <2>5. ids[k] \notin I(k-1) /\ I(k) = I(k-1) \cup {ids[k]}
    <3>1. \A j \in 1..k-1 : j \in 1..L /\ j # k /\ j \in 1..k
      BY <1>3
    <3>2. \A j \in 1..k : j = k \/ j \in 1..k-1
      BY <1>3
    <3>3. k \in 1..k
      BY <1>3
    <3>4. ids[k] \notin I(k-1)
      BY <1>2, <3>1 DEF Once
    <3>5. I(k) \subseteq I(k-1) \cup {ids[k]}
      BY <3>2
    <3>6. I(k-1) \cup {ids[k]} \subseteq I(k)
      BY <3>1, <3>3
    <3>. QED
      BY <3>4, <3>5, <3>6
  <2>6. PICK s : s = FetchChild(x, n, ids[k])
    OBVIOUS
  <2>7. Fetches(x, s, born) /\ Partly(s, born, n, I(k))
    <3>. HIDE DEF I
    <3>1. ids[k] \in Children(x.cloud, x.heap[n].id)
      BY <1>3, <2>4
    <3>. QED
      BY <2>2, <2>5, <2>6, <3>1, FetchChildGood
  <2>8. Fetches(r, s, born) /\ s \in Handlers
    BY <2>2, <2>3, <2>7, FetchesTrans DEF Fetches, Looks, Sane
  <2>. QED
    BY <2>1, <2>2, <2>6, <2>7, <2>8
<1>5. r \in S[0]
  <2>1. Sane(r, born)
    BY DEF Partly
  <2>2. Fetches(r, r, born) /\ r \in Handlers
    BY <2>1, LooksRefl DEF Fetches, Sane
  <2>3. I(0) = {}
    OBVIOUS
  <2>. QED
    BY <1>3, <2>2, <2>3
<1>6. PICK g : Eq(g)
  <2>1. \A k \in 1..L : \A x \in S[k-1] : F[<<x, k>>] \in S[k]
    BY <1>4
  <2>2. Runs(L, S, r, F) # {}
    <3>. HIDE DEF F, S, L
    <3>. QED
      BY <1>3, <1>5, <2>1, LoopRuns
  <2>3. PICK g \in [0..L -> UNION {S[k] : k \in 0..L}] :
           /\ g[0] = r /\ \A k \in 1..L : g[k] = F[<<g[k-1], k>>]
           /\ \A k \in 0..L : g[k] \in S[k]
    BY <2>2 DEF Runs
  <2>4. ASSUME NEW k \in 1..L
        PROVE  g[k] = Turn(g[k-1], k)
    <3>1. k - 1 \in 0..L
      BY <1>3
    <3>2. g[k-1] \in Handlers
      BY <1>4, <2>3, <3>1
    <3>. QED
      BY <2>3, <3>2
  <2>. QED
    BY <1>3, <2>3, <2>4
<1>. DEFINE at == CHOOSE f : Eq(f)
<1>8. Eq(at)
  BY <1>6
<1>9. at[0] = r /\ \A k \in 1..L : at[k] = Turn(at[k-1], k)
  <2>. HIDE DEF at, Turn
  <2>. QED
    BY <1>3, <1>8
<1>10. at[L] \in S[L]
  <2>1. \A k \in 1..L : at[k-1] \in S[k-1] => at[k] \in S[k]
    BY <1>4, <1>9
  <2>. HIDE DEF S, L, at
  <2>2. \A k \in 0..L : at[k] \in S[k]
    BY <1>3, <1>5, <1>9, <2>1, LoopStays
  <2>. QED
    BY <1>3, <2>2
<1>11. FetchChildren(r, n) = at[L]
  BY <1>1 DEF FetchChildren, Loop, Turns
<1>12. I(L) = C
  <2>1. I(L) \subseteq C
    BY <1>3
  <2>2. C \subseteq I(L)
    BY <1>2
  <2>. QED
    BY <2>1, <2>2
<1>. HIDE DEF at, Turn, I
<1>13. L \in 0..L
  BY <1>3
<1>14. Fetches(r, at[L], born) /\ Partly(at[L], born, n, I(L))
  BY <1>10, <1>13
<1>. QED
  BY <1>11, <1>12, <1>14

\* No request is to fail, and what has been read is what the drive has.
Ready(r, born) == Sane(r, born) /\ Good(r) /\ Mirrors(r.cloud, r.heap, r.root, born)

\* The node n is no directory, or one that has been read.
Settled(h, n) == h[n].kind # "dir" \/ h[n].filled

\* No entry of the node n has been read.
NewEntries(h, n) == \A k \in 1..Len(h[n].next) : ~h[h[n].next[k]].filled

\* fillDir reads a directory as it is on the drive, and does nothing for a file.
LEMMA FillDirGood ==
  ASSUME Roomy, NEW r, NEW born, Ready(r, born), r.root # NoNode,
         NEW n \in Nodes, r.heap[n].kind # "free", ~r.heap[n].filled
  PROVE  LET s == FillDir(r, n)
         IN Ready(s, born) /\ Settled(s.heap, n) /\ NewEntries(s.heap, n)
<1>0. /\ Sane(r, born) /\ r.ok /\ r.fuel < 0 /\ r.fuel \in Int /\ r \in Handlers
      /\ r.heap \in Heaps /\ r.cloud \in Clouds
      /\ DriveTree(r.cloud, born) /\ OneNode(r.heap) /\ r.heap[n].next = <<>>
      /\ \A y \in Nodes : Shows(r.cloud, r.heap, r.root, y) /\ ReadOrEmpty(r.cloud, r.heap, y)
  BY DEF Ready, Good, Sane, Handlers, Mirrors, Mirrored, ReadOrEmpty
<1>1. CASE r.heap[n].kind # "dir"
  <2>1. FillDir(r, n) = r
    BY <1>1 DEF FillDir
  <2>. QED
    BY <1>0, <1>1, <2>1 DEF Settled, NewEntries
<1>2. CASE r.heap[n].kind = "dir"
  <2>1. ~Fails(r, r.heap[n].id)
    BY <1>0 DEF Fails, Shows
  <2>2. PICK t : t = Spend(r)
    OBVIOUS
  <2>3. t.heap = r.heap /\ t.cloud = r.cloud /\ t.ok /\ t.fuel < 0 /\ t.root = r.root
    BY <1>0, <2>2 DEF Spend, Handlers
  <2>4. Sane(t, born)
    BY <1>0, <2>2, SpendKeeps
  <2>5. Partly(t, born, n, {})
    <3>1. IdsIn(r.heap, n) = {}
      BY <1>0 DEF IdsIn
    <3>2. \A k \in 1..Len(r.heap[n].next) : ~r.heap[r.heap[n].next[k]].filled
      BY <1>0
    <3>. QED
      BY <1>0, <2>3, <2>4, <3>1, <3>2 DEF Partly, Good
  <2>6. PICK s : s = FetchChildren(t, n)
    OBVIOUS
  <2>7. Fetches(t, s, born) /\ Partly(s, born, n, Children(r.cloud, r.heap[n].id))
    BY <2>3, <2>5, <2>6, FetchChildrenGood
  <2>8. /\ Sane(s, born) /\ s.ok /\ s.fuel < 0 /\ s.root = r.root /\ s.cloud = r.cloud
        /\ s.heap[n].kind = "dir" /\ s.heap[n].id = r.heap[n].id /\ s.heap \in Heaps /\ s \in Handlers
        /\ IdsIn(s.heap, n) = Children(r.cloud, r.heap[n].id) /\ OneNode(s.heap)
        /\ \A y \in Nodes : /\ Shows(r.cloud, s.heap, r.root, y)
                            /\ (y # n => ReadOrEmpty(r.cloud, s.heap, y))
        /\ \A k \in 1..Len(s.heap[n].next) : ~s.heap[s.heap[n].next[k]].filled
    BY <1>2, <2>3, <2>7 DEF Partly, Good, Fetches, Looks, Kept, KeptNode, Sane, Handlers
  <2>9. PICK g : g = Filled(s.heap, n)
    OBVIOUS
  <2>10. PICK u : u = [s EXCEPT !.heap = g]
    OBVIOUS
  <2>11. FillDir(r, n) = u
    BY <1>0, <1>2, <2>1, <2>2, <2>6, <2>8, <2>9, <2>10 DEF FillDir
  <2>12. u.heap = g /\ u.cloud = r.cloud /\ u.ok /\ u.fuel < 0 /\ u.root = r.root
    BY <2>8, <2>10 DEF Handlers
  <2>13. Sane(u, born)
    BY <1>0, <2>11, FillDirKeeps DEF Scans, Looks
  <2>14. /\ \A y \in Nodes : /\ g[y].next = s.heap[y].next /\ g[y].id = s.heap[y].id
                             /\ g[y].kind = s.heap[y].kind /\ g[y].name = s.heap[y].name
         /\ \A y \in Nodes \ {n} : g[y].filled = s.heap[y].filled
         /\ g[n].filled
    BY <2>8, <2>9 DEF Filled, Heaps, NodeRecords
  <2>15. \A y \in Nodes : IdsIn(g, y) = IdsIn(s.heap, y)
    <3>1. \A y \in Nodes : \A k \in 1..Len(s.heap[y].next) : s.heap[y].next[k] \in Nodes
      BY <2>8 DEF Heaps, NodeRecords
    <3>2. ASSUME NEW y \in Nodes PROVE IdsIn(g, y) = IdsIn(s.heap, y)
      <4>1. g[y].next = s.heap[y].next
        BY <2>14
      <4>2. \A k \in 1..Len(s.heap[y].next) : g[s.heap[y].next[k]].id = s.heap[s.heap[y].next[k]].id
        BY <2>14, <3>1
      <4>3. \A i \in IdsIn(g, y) : i \in IdsIn(s.heap, y)
        BY <4>1, <4>2 DEF IdsIn
      <4>4. \A i \in IdsIn(s.heap, y) : i \in IdsIn(g, y)
        BY <4>1, <4>2 DEF IdsIn
      <4>. QED
        BY <4>3, <4>4
    <3>. QED
      BY <3>2
  <2>16. Settled(g, n)
    BY <2>14 DEF Settled
  <2>17. NewEntries(g, n)
    <3>1. SUFFICES ASSUME NEW k \in 1..Len(s.heap[n].next) PROVE ~g[s.heap[n].next[k]].filled
      BY <2>14 DEF NewEntries
    <3>2. s.heap[n].next[k] \in Nodes /\ ~s.heap[s.heap[n].next[k]].filled
      BY <2>8 DEF Heaps, NodeRecords
    <3>3. s.heap[n].next[k] # n
      <4>1. Has(s.heap, n, s.heap[n].next[k]) /\ TreeOK(s.heap, s.root, born)
        BY <2>8 DEF Has, Sane, Sound
      <4>2. born \in [Ids -> Paths]
        BY <2>8 DEF Sane, Sound
      <4>3. /\ Len(born[s.heap[n].id]) \in Nat
            /\ Len(born[s.heap[s.heap[n].next[k]].id]) = Len(born[s.heap[n].id]) + 1
        BY <2>8, <4>1, <4>2, Levels
      <4>. QED
        BY <4>3, SMTT(20)
    <3>. QED
      BY <2>14, <3>2, <3>3
  <2>18. \A y \in Nodes : Shows(r.cloud, g, r.root, y)
    BY <2>8, <2>14 DEF Shows
  <2>19. \A y \in Nodes : ReadOrEmpty(r.cloud, g, y)
    <3>1. g[n].kind = "dir" /\ Whole(r.cloud, g, n)
      BY <2>8, <2>14, <2>15 DEF Whole
    <3>2. \A y \in Nodes \ {n} : ReadOrEmpty(r.cloud, g, y)
      BY <2>8, <2>14, <2>15 DEF ReadOrEmpty, Whole
    <3>. QED
      BY <2>14, <3>1, <3>2 DEF ReadOrEmpty
  <2>20. OneNode(g)
    BY <2>8, <2>14 DEF OneNode
  <2>21. Ready(u, born)
    BY <1>0, <2>12, <2>13, <2>18, <2>19, <2>20 DEF Ready, Good, Mirrors, Mirrored
  <2>. QED
    BY <2>11, <2>12, <2>16, <2>17, <2>21
<1>. QED
  BY <1>1, <1>2

-----------------------------------------------------------------------------
(* get. *)

\* The way along p ends at a node that has no entry of the next name, and that is
\* no directory or has been read.
Misses(h, rt, p) ==
  \E e \in 0..Len(p) - 1 :
    /\ Walk(h, rt, p)[e] \in Nodes /\ Walk(h, rt, p)[e + 1] = NoNode
    /\ Settled(h, Walk(h, rt, p)[e])

\* getRoot makes the root as it is on the drive.
LEMMA GetRootGood ==
  ASSUME Roomy, NEW r, NEW born, Ready(r, born)
  PROVE  LET s == GetRoot(r) IN Ready(s, born) /\ s.root # NoNode
<1>0. /\ Sane(r, born) /\ r.ok /\ r.fuel < 0 /\ r.fuel \in Int /\ r \in Handlers
      /\ r.heap \in Heaps /\ r.cloud \in Clouds /\ NodesOK(r.heap, r.root, r.cloud)
      /\ DriveTree(r.cloud, born) /\ OneNode(r.heap) /\ Exists(r.cloud, RootId)
  BY DEF Ready, Good, Sane, Sound, CloudOK, Handlers, Mirrors, Mirrored
<1>1. CASE r.root # NoNode
  BY <1>1 DEF GetRoot
<1>2. CASE r.root = NoNode
  <2>1. Vacant(r.heap) # {} /\ ~Fails(r, RootId)
    BY <1>0, RoomyVacant DEF Fails
  <2>2. PICK n \in Nodes : n = NewNode(r.heap)
    BY <1>0, <2>1, NewNodeFacts
  <2>3. PICK g : g = [r.heap EXCEPT ![n] = [Free EXCEPT !.kind = "dir"]]
    OBVIOUS
  <2>4. PICK s : s = [r EXCEPT !.root = n, !.heap = g]
    OBVIOUS
  <2>5. GetRoot(r) = Spend(s)
    BY <1>2, <2>1, <2>2, <2>3, <2>4 DEF GetRoot
  <2>6. PICK t : t = Spend(s)
    OBVIOUS
  <2>7. t.heap = g /\ t.cloud = r.cloud /\ t.root = n /\ t.ok /\ t.fuel < 0
    BY <1>0, <2>4, <2>6 DEF Spend, Handlers
  <2>8. Sane(t, born)
    BY <1>0, <2>5, <2>6, GetRootKeeps DEF Looks
  <2>9. /\ \A y \in Nodes \ {n} : g[y] = Free
        /\ g[n].kind = "dir" /\ g[n].id = RootId /\ ~g[n].filled /\ g[n].next = <<>>
    BY <1>0, <1>2, <2>3 DEF NodesOK, Heaps, Free
  <2>10. OneNode(g)
    BY <2>9 DEF OneNode, Free
  <2>11. \A y \in Nodes : Shows(r.cloud, g, n, y)
    BY <1>0, <2>9 DEF Shows, Free, DriveTree, Folders
  <2>12. \A y \in Nodes : ReadOrEmpty(r.cloud, g, y)
    BY <2>9 DEF ReadOrEmpty, Free
  <2>13. Ready(t, born)
    BY <1>0, <2>7, <2>8, <2>10, <2>11, <2>12 DEF Ready, Good, Mirrors, Mirrored
  <2>. QED
    BY <2>5, <2>6, <2>7, <2>13, NodesAssumption
<1>. QED
  BY <1>1, <1>2

\* Only what get() answers, and the cache, are changed.
LEMMA SameReady ==
  ASSUME NEW r, NEW born, Ready(r, born), NEW s, Looks(r, s, born), s.heap = r.heap,
         s.root = r.root, s.ok, s.fuel < 0
  PROVE  Ready(s, born)
BY DEF Ready, Good, Looks

\* Cache::insert.
LEMMA InsertGood ==
  ASSUME NEW r, NEW born, Ready(r, born), r.root # NoNode, NEW p \in Paths,
         NEW n \in Nodes, Walk(r.heap, r.root, p)[Len(p)] = n
  PROVE  LET s == Insert(r, p, n)
         IN Ready(s, born) /\ s.res = n /\ s.heap = r.heap /\ s.root = r.root
<1>1. PICK s : s = Insert(r, p, n)
  OBVIOUS
<1>2. Looks(r, s, born) /\ s.ok /\ s.res = n /\ s.heap = r.heap /\ s.root = r.root
  BY <1>1, InsertKeeps DEF Ready, Good
<1>3. s.fuel < 0
  BY <1>1 DEF Insert, Ready, Good, Sane, Handlers
<1>4. Ready(s, born)
  BY <1>2, <1>3, SameReady
<1>. QED
  BY <1>1, <1>2, <1>4

\* What get() answers is set.
LEMMA ResGood ==
  ASSUME NEW r, NEW born, Ready(r, born), NEW n \in Nodes \cup {NoNode}
  PROVE  LET s == [r EXCEPT !.res = n]
         IN Ready(s, born) /\ s.res = n /\ s.heap = r.heap /\ s.root = r.root
<1>1. PICK s : s = [r EXCEPT !.res = n]
  OBVIOUS
<1>2. Looks(r, s, born) /\ s.ok /\ s.res = n /\ s.heap = r.heap /\ s.root = r.root
  <2>1. Answer(s, r, n)
    BY <1>1 DEF Answer
  <2>. QED
    BY <2>1, ResKeeps DEF Ready, Good
<1>3. s.fuel < 0
  BY <1>1 DEF Ready, Good, Sane, Handlers
<1>4. Ready(s, born)
  BY <1>2, <1>3, SameReady
<1>. QED
  BY <1>1, <1>2, <1>4

\* After the first d names of p the handler is at a node that has not been read,
\* or has found that there is no way along p.
Going(r, born, p, d) ==
  /\ Ready(r, born) /\ r.root # NoNode /\ Found(r, p, d)
  /\ IF r.res = NoNode THEN Misses(r.heap, r.root, p) ELSE ~r.heap[r.res].filled

\* One turn of get's loop.
LEMMA DescendGood ==
  ASSUME Roomy, NEW r, NEW born, NEW p \in Paths, NEW d \in 1..Len(p), Going(r, born, p, d - 1)
  PROVE  Going(Descend(r, p, d), born, p, d)
<1>0. /\ Sane(r, born) /\ r.ok /\ r.root # NoNode /\ Ready(r, born) /\ Found(r, p, d - 1)
      /\ (r.res = NoNode => Misses(r.heap, r.root, p))
      /\ (r.res # NoNode => ~r.heap[r.res].filled)
  BY DEF Going, Ready, Good
<1>1. CASE r.res = NoNode
  BY <1>0, <1>1 DEF Descend, Going, Found
<1>2. CASE r.res # NoNode
  <2>0. /\ p \in Seq(Names) /\ r.heap \in Heaps /\ r.root \in Nodes /\ r.res \in Nodes
        /\ born \in [Ids -> Paths] /\ born[RootId] = <<>>
        /\ NodesOK(r.heap, r.root, r.cloud) /\ TreeOK(r.heap, r.root, born)
    BY <1>0, <1>2, PathFacts DEF Sane, Sound, Handlers, CloudOK
  <2>1. PICK n \in Nodes : n = r.res /\ Walk(r.heap, r.root, p)[d-1] = n
    BY <1>0, <1>2, <2>0 DEF Found
  <2>2. d \in 0..Len(p) /\ d - 1 \in 0..Len(p) - 1 /\ d - 1 \in 0..Len(p) /\ n # NoNode
        /\ (d - 1) + 1 = d
    BY <2>0, NodesAssumption
  <2>3. r.heap[n].kind # "free"
    BY <1>0, <2>0, <2>1, <2>2, WalkPaths
  <2>4. PICK s : s = FillDir(r, n)
    OBVIOUS
  <2>5. Scans(r, s, born) /\ Ready(s, born) /\ Settled(s.heap, n) /\ NewEntries(s.heap, n)
    BY <1>0, <1>2, <2>1, <2>3, <2>4, FillDirKeeps, FillDirGood
  <2>6. PICK q : q = SubSeq(p, 1, d)
    OBVIOUS
  <2>7. Descend(r, p, d) = Follow(s, n, q)
    BY <1>0, <1>2, <2>1, <2>4, <2>6 DEF Descend
  <2>8. /\ Sane(s, born) /\ s.root = r.root /\ s.heap \in Heaps /\ Kept(r.heap, s.heap)
        /\ s.ok
    BY <2>5 DEF Scans, Looks, Sane, Handlers, Ready, Good
  <2>9. Walk(s.heap, s.root, p)[d-1] = n
    BY <2>0, <2>1, <2>2, <2>8, KeptWalk
  <2>10. PICK m : m = ChildNamed(s.heap, n, p[d])
    OBVIOUS
  <2>11. Walk(s.heap, s.root, p)[d] = m
    BY <2>0, <2>2, <2>8, <2>9, <2>10, WalkRun
  <2>12. /\ q \in Paths /\ Len(q) = d /\ q[d] = p[d]
         /\ Walk(s.heap, s.root, q)[d] = Walk(s.heap, s.root, p)[d]
    <3>1. d \in 1..d
      BY <2>2
    <3>. QED
      BY <2>0, <2>2, <2>6, <2>8, <3>1, PrefixFacts
  <2>13. Last(q) = p[d]
    BY <2>12 DEF Last
  <2>14. CASE m = NoNode
    <3>1. Follow(s, n, q) = [s EXCEPT !.res = NoNode]
      BY <2>8, <2>10, <2>13, <2>14 DEF Follow
    <3>2. PICK t : t = [s EXCEPT !.res = NoNode]
      OBVIOUS
    <3>3. Ready(t, born) /\ t.res = NoNode /\ t.heap = s.heap /\ t.root = s.root
      BY <2>5, <3>2, ResGood
    <3>4. Misses(t.heap, t.root, p)
      BY <2>2, <2>5, <2>9, <2>11, <2>14, <3>3 DEF Misses
    <3>. QED
      BY <1>0, <2>7, <2>8, <3>1, <3>2, <3>3, <3>4 DEF Going, Found
  <2>15. CASE m # NoNode
    <3>1. m \in Nodes
      BY <2>8, <2>10, <2>15, ChildFacts
    <3>2. Follow(s, n, q) = Insert(s, q, m)
      BY <2>8, <2>10, <2>13, <2>15 DEF Follow
    <3>3. PICK t : t = Insert(s, q, m)
      OBVIOUS
    <3>4. Ready(t, born) /\ t.res = m /\ t.heap = s.heap /\ t.root = s.root
      BY <1>0, <2>5, <2>8, <2>11, <2>12, <3>1, <3>3, InsertGood
    <3>5. ~s.heap[m].filled
      <4>1. IsFirst(s.heap, n, p[d], m)
        BY <2>8, <2>10, <3>1, ChildFacts
      <4>. QED
        BY <2>5, <4>1 DEF IsFirst, NewEntries
    <3>. QED
      BY <1>0, <2>7, <2>8, <2>11, <2>15, <3>2, <3>3, <3>4, <3>5 DEF Going, Found
  <2>. QED
    BY <2>14, <2>15
<1>. QED
  BY <1>1, <1>2

\* get's way down.
LEMMA DescentGood ==
  ASSUME Roomy, NEW r, NEW born, NEW p \in Paths, NEW d \in 0..Len(p), Going(r, born, p, d)
  PROVE  Going(Loop(LAMBDA x, k : Descend(x, p, d + k), r, Len(p) - d), born, p, Len(p))
<1>. DEFINE L == Len(p) - d
            Turn(x, k) == Descend(x, p, d + k)
            S == [k \in 0..L |-> {x \in Handlers : Going(x, born, p, d + k)}]
            F == [x \in Handlers \X (1..L) |-> Turn(x[1], x[2])]
            Eq(g) == g = [k \in 0..L |-> IF k = 0 THEN r ELSE Turn(g[k-1], k)]
<1>1. Len(p) \in Nat /\ L \in Nat /\ d \in Nat /\ d + L = Len(p)
  BY PathFacts
<1>2. ASSUME NEW k \in 1..L, NEW x \in S[k-1]
      PROVE  x \in Handlers /\ Turn(x, k) \in S[k]
  <2>1. k - 1 \in 0..L /\ k \in 0..L /\ d + k \in 1..Len(p) /\ d + (k - 1) = (d + k) - 1
    BY <1>1
  <2>2. x \in Handlers /\ Going(x, born, p, (d + k) - 1)
    BY <1>2, <2>1
  <2>3. PICK s : s = Descend(x, p, d + k)
    OBVIOUS
  <2>4. Going(s, born, p, d + k)
    BY <2>1, <2>2, <2>3, DescendGood
  <2>5. s \in Handlers
    BY <2>4 DEF Going, Ready, Sane
  <2>. QED
    BY <2>1, <2>2, <2>3, <2>4, <2>5
<1>3. r \in S[0]
  <2>1. r \in Handlers /\ d + 0 = d /\ 0 \in 0..L
    BY <1>1 DEF Going, Ready, Sane
  <2>. QED
    BY <2>1
<1>4. PICK g : Eq(g)
  <2>1. \A k \in 1..L : \A x \in S[k-1] : F[<<x, k>>] \in S[k]
    BY <1>2
  <2>2. Runs(L, S, r, F) # {}
    <3>. HIDE DEF F, S, L
    <3>. QED
      BY <1>1, <1>3, <2>1, LoopRuns
  <2>3. PICK g \in [0..L -> UNION {S[k] : k \in 0..L}] :
           /\ g[0] = r /\ \A k \in 1..L : g[k] = F[<<g[k-1], k>>]
           /\ \A k \in 0..L : g[k] \in S[k]
    BY <2>2 DEF Runs
  <2>4. ASSUME NEW k \in 1..L
        PROVE  g[k] = Turn(g[k-1], k)
    <3>1. k - 1 \in 0..L
      BY <1>1
    <3>2. g[k-1] \in Handlers
      BY <1>2, <2>3, <3>1
    <3>. QED
      BY <2>3, <3>2
  <2>5. 0 \notin 1..L /\ 0..L = {0} \cup (1..L)
    BY <1>1
  <2>. HIDE DEF Turn
  <2>6. Eq(g)
    BY <2>3, <2>4, <2>5
  <2>. QED
    BY <2>6
<1>. DEFINE at == CHOOSE f : Eq(f)
<1>5. Eq(at)
  BY <1>4
<1>6. at[0] = r /\ \A k \in 1..L : at[k] = Turn(at[k-1], k)
  <2>. HIDE DEF at, Turn
  <2>. QED
    BY <1>1, <1>5
<1>7. at[L] \in S[L]
  <2>1. \A k \in 1..L : at[k-1] \in S[k-1] => at[k] \in S[k]
    BY <1>2, <1>6
  <2>. HIDE DEF S, L, at
  <2>2. \A k \in 0..L : at[k] \in S[k]
    BY <1>1, <1>3, <1>6, <2>1, LoopStays
  <2>. QED
    BY <1>1, <2>2
<1>8. Loop(LAMBDA x, k : Descend(x, p, d + k), r, Len(p) - d) = at[L]
  BY DEF Loop, Turns
<1>. HIDE DEF at, Turn
<1>9. L \in 0..L
  BY <1>1
<1>. QED
  BY <1>1, <1>7, <1>8, <1>9

\* get() has answered: the node of p, or that there is no way to it.
Answers(r, born, p) ==
  /\ Ready(r, born) /\ r.root # NoNode /\ Found(r, p, Len(p))
  /\ r.res = NoNode => Misses(r.heap, r.root, p)

\* get() of a path that is not cached.
LEMMA SearchGood ==
  ASSUME Roomy, NEW r, NEW born, Ready(r, born), r.root # NoNode, NEW p \in Paths
  PROVE  Answers(Search(r, p), born, p)
<1>0. /\ Sane(r, born) /\ r.ok /\ r.heap \in Heaps /\ r.root \in Nodes /\ p \in Seq(Names)
      /\ Len(p) \in Nat
  BY PathFacts DEF Ready, Good, Sane, Handlers
<1>1. PICK d : d = Depth(r.heap, r.root, p)
  OBVIOUS
<1>2. PICK n : n = Walk(r.heap, r.root, p)[d]
  OBVIOUS
<1>3. /\ d \in 0..Len(p) /\ n \in Nodes /\ n # NoNode
      /\ d < Len(p) => Walk(r.heap, r.root, p)[d + 1] = NoNode
  BY <1>0, <1>1, <1>2, DepthFacts, NodesAssumption
<1>4. CASE d = Len(p)
  <2>1. Search(r, p) = Insert(r, p, n)
    BY <1>1, <1>2, <1>4 DEF Search
  <2>2. PICK s : s = Insert(r, p, n)
    OBVIOUS
  <2>3. Ready(s, born) /\ s.res = n /\ s.heap = r.heap /\ s.root = r.root
    BY <1>2, <1>3, <1>4, <2>2, InsertGood
  <2>. QED
    BY <1>2, <1>3, <1>4, <2>1, <2>2, <2>3 DEF Found, Answers
<1>5. CASE d # Len(p) /\ r.heap[n].filled
  <2>1. Search(r, p) = [r EXCEPT !.res = NoNode]
    BY <1>1, <1>2, <1>5 DEF Search
  <2>2. PICK s : s = [r EXCEPT !.res = NoNode]
    OBVIOUS
  <2>3. Ready(s, born) /\ s.res = NoNode /\ s.heap = r.heap /\ s.root = r.root
    BY <2>2, ResGood
  <2>4. Misses(r.heap, r.root, p)
    <3>1. d \in 0..Len(p) - 1 /\ d < Len(p)
      BY <1>0, <1>3, <1>5
    <3>. QED
      BY <1>2, <1>3, <1>5, <3>1 DEF Misses, Settled
  <2>. QED
    BY <2>1, <2>2, <2>3, <2>4 DEF Found, Answers
<1>6. CASE d # Len(p) /\ ~r.heap[n].filled
  <2>1. PICK t : t = [r EXCEPT !.res = n]
    OBVIOUS
  <2>2. Ready(t, born) /\ t.res = n /\ t.heap = r.heap /\ t.root = r.root
    BY <1>3, <2>1, ResGood
  <2>3. PICK s : s = Loop(LAMBDA x, k : Descend(x, p, d + k), t, Len(p) - d)
    OBVIOUS
  <2>4. Search(r, p) = s
    BY <1>1, <1>2, <1>6, <2>1, <2>3 DEF Search, Loop, Turns
  <2>5. Going(t, born, p, d)
    BY <1>2, <1>3, <1>6, <2>2 DEF Found, Going
  <2>6. Going(s, born, p, Len(p))
    BY <1>3, <2>3, <2>5, DescentGood DEF Loop, Turns
  <2>. QED
    BY <2>4, <2>6 DEF Going, Answers
<1>. QED
  BY <1>4, <1>5, <1>6

\* get() finds the node that there is for a path, or that there is none.
LEMMA GetGood ==
  ASSUME Roomy, NEW r, NEW born, Ready(r, born), NEW p \in Paths
  PROVE  Answers(Get(r, p), born, p)
<1>0. r.ok /\ Sane(r, born) /\ Found(Get(r, p), p, Len(p))
  BY GetKeeps DEF Ready, Good
<1>1. CASE p \in DOMAIN r.byPath
  <2>1. PICK n \in Nodes : n = r.byPath[p]
    BY <1>0, <1>1 DEF Sane, Handlers, PathMaps
  <2>2. PICK s : s = [r EXCEPT !.res = n]
    OBVIOUS
  <2>3. Get(r, p) = s
    BY <1>0, <1>1, <2>1, <2>2 DEF Get
  <2>4. Ready(s, born) /\ s.res = n /\ s.heap = r.heap /\ s.root = r.root
    <3>1. n \in Nodes \cup {NoNode}
      BY <2>1
    <3>. QED
      BY <2>2, <3>1, ResGood
  <2>5. r.root # NoNode
    BY <1>0, <1>1 DEF Sane, Sound, CacheOK
  <2>. QED
    BY <1>0, <2>1, <2>3, <2>4, <2>5, NodesAssumption DEF Answers
<1>2. CASE p \notin DOMAIN r.byPath
  <2>1. PICK s : s = GetRoot(r)
    OBVIOUS
  <2>2. Ready(s, born) /\ s.root # NoNode /\ s.ok
    BY <2>1, GetRootGood DEF Ready, Good
  <2>3. CASE p = <<>>
    <3>1. PICK t : t = [s EXCEPT !.res = s.root]
      OBVIOUS
    <3>2. Get(r, p) = t
      BY <1>0, <1>2, <2>1, <2>2, <2>3, <3>1 DEF Get
    <3>3. s.root \in Nodes \cup {NoNode}
      BY <2>2 DEF Ready, Sane, Handlers
    <3>4. Ready(t, born) /\ t.res = s.root /\ t.heap = s.heap /\ t.root = s.root
      BY <2>2, <3>1, <3>3, ResGood
    <3>. QED
      BY <1>0, <2>2, <3>2, <3>4 DEF Answers
  <2>4. CASE p # <<>>
    <3>1. Get(r, p) = Search(s, p)
      BY <1>0, <1>2, <2>1, <2>2, <2>4 DEF Get
    <3>. QED
      BY <2>2, <3>1, SearchGood
  <2>. QED
    BY <2>3, <2>4
<1>. QED
  BY <1>1, <1>2

-----------------------------------------------------------------------------
(* What is not there. *)

\* A path that is a path and a name.
LEMMA AppendPrefix ==
  ASSUME NEW s \in Seq(Names), NEW p \in Seq(Names), NEW d \in 1..Len(p), NEW x,
         Append(s, x) = SubSeq(p, 1, d)
  PROVE  s = SubSeq(p, 1, d - 1) /\ x = p[d]
<1>1. Len(p) \in Nat /\ d \in Nat /\ d >= 1 /\ d <= Len(p) /\ d - 1 \in 0..Len(p)
  OBVIOUS
<1>2. /\ Len(SubSeq(p, 1, d)) = d /\ \A e \in 1..d : SubSeq(p, 1, d)[e] = p[e]
      /\ Len(SubSeq(p, 1, d - 1)) = d - 1 /\ \A e \in 1..d-1 : SubSeq(p, 1, d - 1)[e] = p[e]
      /\ SubSeq(p, 1, d - 1) \in Seq(Names)
  BY <1>1
<1>3. /\ Len(Append(s, x)) = Len(s) + 1 /\ Len(s) \in Nat /\ Append(s, x)[Len(s) + 1] = x
      /\ \A e \in 1..Len(s) : Append(s, x)[e] = s[e]
  OBVIOUS
<1>4. Len(s) = d - 1
  BY <1>1, <1>2, <1>3
<1>5. x = p[d]
  BY <1>1, <1>2, <1>3, <1>4
<1>6. \A e \in 1..d-1 : s[e] = p[e]
  BY <1>1, <1>2, <1>3, <1>4
<1>. QED
  BY <1>1, <1>2, <1>4, <1>5, <1>6

\* The folders on the way to a file are there.
LEMMA Ancestors ==
  ASSUME NEW c \in Clouds, NEW born \in [Ids -> Paths], CloudOK(c, born), NEW i \in Ids,
         Exists(c, i), NEW d \in 0..Len(born[i])
  PROVE  \E j \in Ids : Exists(c, j) /\ born[j] = SubSeq(born[i], 1, d)
<1>. DEFINE p == born[i]
            At(k) == \E j \in Ids : Exists(c, j) /\ born[j] = SubSeq(p, 1, Len(p) - k)
            A == {k \in Nat : k <= Len(p) => At(k)}
<1>1. p \in Seq(Names) /\ Len(p) \in Nat
  BY PathFacts
<1>2. 0 \in A
  BY <1>1
<1>3. ASSUME NEW k \in A PROVE k + 1 \in A
  <2>1. SUFFICES ASSUME k + 1 <= Len(p) PROVE At(k + 1)
    OBVIOUS
  <2>2. k \in Nat /\ k <= Len(p) /\ Len(p) - k \in 1..Len(p) /\ (Len(p) - k) - 1 = Len(p) - (k + 1)
    BY <1>1, <2>1
  <2>3. PICK j \in Ids : Exists(c, j) /\ born[j] = SubSeq(p, 1, Len(p) - k)
    BY <2>2
  <2>4. j # RootId
    <3>1. Len(SubSeq(p, 1, Len(p) - k)) = Len(p) - k
      BY <1>1, <2>2
    <3>. QED
      BY <2>2, <2>3, <3>1 DEF CloudOK
  <2>5. PICK f \in Ids : f = c[j].parent
    BY DEF Clouds, Entry
  <2>6. Exists(c, f) /\ born[j] = Append(born[f], c[j].name)
    BY <2>3, <2>4, <2>5 DEF CloudOK
  <2>7. born[f] = SubSeq(p, 1, Len(p) - (k + 1))
    <3>. DEFINE e == Len(p) - k
    <3>1. e \in 1..Len(p) /\ born[f] \in Seq(Names) /\ Append(born[f], c[j].name) = SubSeq(p, 1, e)
      BY <2>2, <2>3, <2>6, PathFacts
    <3>. HIDE DEF e
    <3>2. born[f] = SubSeq(p, 1, e - 1)
      BY <1>1, <3>1, AppendPrefix
    <3>. QED
      BY <2>2, <3>2 DEF e
  <2>. QED
    BY <2>6, <2>7
<1>4. A = Nat
  <2>. HIDE DEF A
  <2>1. A \in SUBSET Nat
    BY DEF A
  <2>. QED
    BY <1>2, <1>3, <2>1, Induction
<1>5. Len(p) - d \in Nat /\ Len(p) - d <= Len(p) /\ Len(p) - (Len(p) - d) = d
  BY <1>1
<1>. QED
  BY <1>4, <1>5

\* Where get() finds no way the drive has no file.
LEMMA MissNoFile ==
  ASSUME NEW r, NEW born, Ready(r, born), r.root # NoNode, NEW p \in Paths,
         Misses(r.heap, r.root, p), NEW i \in Ids, Exists(r.cloud, i)
  PROVE  born[i] # p
<1>. SUFFICES ASSUME born[i] = p PROVE FALSE
  OBVIOUS
<1>0. /\ r.heap \in Heaps /\ r.root \in Nodes /\ r.cloud \in Clouds /\ born \in [Ids -> Paths]
      /\ CloudOK(r.cloud, born) /\ NodesOK(r.heap, r.root, r.cloud) /\ TreeOK(r.heap, r.root, born)
      /\ born[RootId] = <<>> /\ p \in Seq(Names) /\ Len(p) \in Nat
      /\ DriveTree(r.cloud, born) /\ OneNode(r.heap)
      /\ \A y \in Nodes : Shows(r.cloud, r.heap, r.root, y) /\ ReadOrEmpty(r.cloud, r.heap, y)
  BY PathFacts DEF Ready, Sane, Sound, Handlers, CloudOK, Mirrors, Mirrored
<1>1. PICK e \in 0..Len(p) - 1 :
         /\ Walk(r.heap, r.root, p)[e] \in Nodes /\ Walk(r.heap, r.root, p)[e + 1] = NoNode
         /\ Settled(r.heap, Walk(r.heap, r.root, p)[e])
  BY Zenon DEF Misses
<1>2. PICK n \in Nodes : n = Walk(r.heap, r.root, p)[e]
  BY <1>1
<1>3. e \in 0..Len(p) /\ e + 1 \in 1..Len(p) /\ e + 1 \in 0..Len(p) /\ (e + 1) - 1 = e /\ n # NoNode
  BY <1>0, <1>1, NodesAssumption
<1>4. r.heap[n].kind # "free" /\ born[r.heap[n].id] = SubSeq(p, 1, e)
  BY <1>0, <1>2, <1>3, WalkPaths
<1>5. PICK j \in Ids : Exists(r.cloud, j) /\ born[j] = SubSeq(p, 1, e + 1)
  BY <1>0, <1>3, Ancestors
<1>6. j # RootId
  <2>1. Len(SubSeq(p, 1, e + 1)) = e + 1 /\ e + 1 # 0
    BY <1>0, <1>3
  <2>. QED
    BY <1>0, <1>5, <2>1
<1>7. PICK f \in Ids : f = r.cloud[j].parent
  BY <1>0 DEF Clouds, Entry
<1>8. Exists(r.cloud, f) /\ born[j] = Append(born[f], r.cloud[j].name)
  BY <1>0, <1>5, <1>6, <1>7 DEF CloudOK
<1>9. born[f] = SubSeq(p, 1, e) /\ r.cloud[j].name = p[e + 1]
  <2>1. born[f] \in Seq(Names) /\ Append(born[f], r.cloud[j].name) = SubSeq(p, 1, e + 1)
    BY <1>5, <1>8, <1>0, PathFacts
  <2>2. born[f] = SubSeq(p, 1, (e + 1) - 1) /\ r.cloud[j].name = p[e + 1]
    BY <1>0, <1>3, <2>1, AppendPrefix
  <2>. QED
    BY <1>3, <2>2
<1>10. f = r.heap[n].id
  <2>1. r.heap[n].id \in Ids /\ Exists(r.cloud, r.heap[n].id)
    BY <1>0, <1>4 DEF Heaps, NodeRecords, Shows
  <2>. QED
    BY <1>0, <1>4, <1>8, <1>9, <2>1 DEF DriveTree, Folders
<1>11. r.heap[n].filled
  <2>1. r.cloud[f].kind = "dir"
    BY <1>0, <1>5, <1>6, <1>7 DEF DriveTree, Folders
  <2>2. r.heap[n].kind = "dir"
    BY <1>0, <1>4, <1>10, <2>1 DEF Shows
  <2>. QED
    BY <1>1, <1>2, <2>2 DEF Settled
<1>12. j \in IdsIn(r.heap, n)
  <2>1. j \in Children(r.cloud, r.heap[n].id)
    BY <1>5, <1>6, <1>7, <1>10 DEF Children
  <2>. QED
    BY <1>0, <1>11, <2>1 DEF ReadOrEmpty, Whole
<1>13. PICK k \in 1..Len(r.heap[n].next) : r.heap[r.heap[n].next[k]].id = j
  BY <1>12 DEF IdsIn
<1>14. r.heap[r.heap[n].next[k]].name = p[e + 1]
  <2>1. PICK y \in Nodes : y = r.heap[n].next[k]
    BY <1>0, <1>13 DEF Heaps, NodeRecords
  <2>2. r.heap[y].kind # "free" /\ y # r.root
    BY <1>0, <1>13, <2>1 DEF TreeOK, ListOK, Entered
  <2>. QED
    BY <1>0, <1>9, <1>13, <2>1, <2>2 DEF Shows
<1>15. ChildNamed(r.heap, n, p[e + 1]) = NoNode
  <2>1. r.root \in Nodes \cup {NoNode}
    BY <1>0
  <2>2. Walk(r.heap, r.root, p)[e + 1] = IF Walk(r.heap, r.root, p)[(e + 1) - 1] = NoNode THEN NoNode
                                     ELSE ChildNamed(r.heap, Walk(r.heap, r.root, p)[(e + 1) - 1], p[e + 1])
    BY <1>0, <1>3, <2>1, WalkRun
  <2>. QED
    BY <1>1, <1>2, <1>3, <2>2
<1>. QED
  BY <1>0, <1>14, <1>15, ChildFacts

\* When the directory of p is in the tree, find() stops at it.
LEMMA MissAt ==
  ASSUME NEW h \in Heaps, NEW rt \in Nodes, NEW p \in Seq(Names), p # <<>>, Misses(h, rt, p),
         Walk(h, rt, p)[Len(p) - 1] \in Nodes
  PROVE  Settled(h, Walk(h, rt, p)[Len(p) - 1]) /\ Depth(h, rt, p) = Len(p) - 1
<1>0. Len(p) \in Nat /\ Len(p) >= 1 /\ Len(p) - 1 \in 0..Len(p) /\ rt \in Nodes \cup {NoNode}
  OBVIOUS
<1>1. \A x \in 0..Len(p) - 1 : Walk(h, rt, p)[x] \in Nodes
  BY <1>0, WalkLost, NodesAssumption
<1>2. PICK e \in 0..Len(p) - 1 :
         /\ Walk(h, rt, p)[e] \in Nodes /\ Walk(h, rt, p)[e + 1] = NoNode
         /\ Settled(h, Walk(h, rt, p)[e])
  BY DEF Misses
<1>3. e = Len(p) - 1
  <2>1. e + 1 \notin 0..Len(p) - 1
    BY <1>1, <1>2, NodesAssumption
  <2>. QED
    BY <1>0, <2>1
<1>4. PICK d : d = Depth(h, rt, p)
  OBVIOUS
<1>5. /\ d \in 0..Len(p) /\ Walk(h, rt, p)[d] \in Nodes
      /\ d < Len(p) => Walk(h, rt, p)[d + 1] = NoNode
  BY <1>4, DepthFacts
<1>6. d # Len(p)
  BY <1>0, <1>2, <1>3, <1>5, NodesAssumption
<1>7. d + 1 \notin 0..Len(p) - 1
  BY <1>0, <1>1, <1>5, <1>6, NodesAssumption
<1>8. d = Len(p) - 1
  BY <1>0, <1>5, <1>6, <1>7
<1>. QED
  BY <1>2, <1>3, <1>4, <1>8

-----------------------------------------------------------------------------
(* createNode. *)

\* What is on the drive has one path.
LEMMA BornSame ==
  ASSUME NEW c \in Clouds, NEW a \in [Ids -> Paths], NEW b \in [Ids -> Paths],
         CloudOK(c, a), CloudOK(c, b), NEW i \in Ids, Exists(c, i)
  PROVE  a[i] = b[i]
<1>1. a[i] \in Seq(Names)
  BY PathFacts
<1>2. i \in CloudAt(c, a[i])
  BY <1>1, DriveAt
<1>. QED
  BY <1>1, <1>2, DriveAt

\* From c to d a file has come into being at the path p.
Begets(c, born, d, b, p) ==
  \E i, f \in Ids, kind \in Kinds :
    /\ c[i] = Unborn /\ Exists(c, f) /\ c[f].kind = "dir" /\ born[f] = SubSeq(p, 1, Len(p) - 1)
    /\ d = Birth(c, i, kind, p[Len(p)], f)
    /\ b[i] = p /\ \A j \in Ids : Exists(c, j) => b[j] = born[j] /\ born[j] # p

\* The drive after a birth at a path where nothing is.
LEMMA BirthTree ==
  ASSUME NEW c \in Clouds, NEW born \in [Ids -> Paths], CloudOK(c, born), DriveTree(c, born),
         NEW i \in Ids, c[i] = Unborn, NEW f \in Ids, Exists(c, f), c[f].kind = "dir",
         NEW kind \in Kinds, NEW p \in Paths, p # <<>>, born[f] = SubSeq(p, 1, Len(p) - 1),
         \A j \in Ids : Exists(c, j) => born[j] # p,
         NEW d \in Clouds, d = Birth(c, i, kind, p[Len(p)], f), NEW b \in [Ids -> Paths], CloudOK(d, b)
  PROVE  DriveTree(d, b) /\ Begets(c, born, d, b, p)
<1>0. /\ c \in [Ids -> [kind : Kinds \cup {"unborn", "gone"}, name : Names \cup {NoName},
                        parent : Ids]]
      /\ ~Exists(c, i) /\ i # RootId /\ i # f
  BY DEF Clouds, Entry, Unborn, Exists, Kinds, CloudOK
<1>1. d = [j \in Ids |-> IF j = i THEN [kind |-> kind, name |-> p[Len(p)], parent |-> f] ELSE c[j]]
  BY <1>0 DEF Birth
<1>2. /\ d[i].kind = kind /\ d[i].name = p[Len(p)] /\ d[i].parent = f
      /\ \A j \in Ids : j # i => d[j] = c[j]
  BY <1>1
<1>3. Exists(d, i) /\ \A j \in Ids : j # i => (Exists(d, j) <=> Exists(c, j))
  BY <1>2 DEF Exists
<1>4. \A j \in Ids \ {RootId} : Exists(c, j) => Exists(c, c[j].parent) /\ c[j].parent \in Ids \ {i}
  <2>. SUFFICES ASSUME NEW j \in Ids \ {RootId}, Exists(c, j)
                PROVE  Exists(c, c[j].parent) /\ c[j].parent \in Ids \ {i}
    OBVIOUS
  <2>1. c[j].parent \in Ids /\ Exists(c, c[j].parent)
    BY <1>0 DEF CloudOK
  <2>. QED
    BY <1>0, <2>1
<1>5. CloudOK(c, b)
  <2>1. b[RootId] = <<>> /\ Exists(c, RootId)
    BY DEF CloudOK
  <2>2. ASSUME NEW j \in Ids \ {RootId}, Exists(c, j)
        PROVE  b[j] = Append(b[c[j].parent], c[j].name)
    <3>1. j # i /\ d[j] = c[j] /\ Exists(d, j)
      BY <1>0, <1>2, <1>3, <2>2
    <3>. QED
      BY <3>1 DEF CloudOK
  <2>. QED
    BY <1>4, <2>1, <2>2 DEF CloudOK
<1>6. \A j \in Ids : Exists(c, j) => b[j] = born[j]
  BY <1>5, BornSame
<1>7. b[i] = p
  <2>1. b[i] = Append(b[f], p[Len(p)])
    BY <1>0, <1>2, <1>3 DEF CloudOK
  <2>2. b[f] = SubSeq(p, 1, Len(p) - 1)
    BY <1>6
  <2>3. p \in Seq(Names) /\ Len(p) \in 1..Len(p)
    BY PathFacts
  <2>4. Append(SubSeq(p, 1, Len(p) - 1), p[Len(p)]) = p
    BY <2>3
  <2>. QED
    BY <2>1, <2>2, <2>4
<1>8. DriveTree(d, b)
  <2>1. d[RootId].kind = "dir"
    BY <1>0, <1>2, IdsAssumption DEF DriveTree, Folders
  <2>2. ASSUME NEW j \in Ids \ {RootId}, Exists(d, j) PROVE d[d[j].parent].kind = "dir"
    <3>1. CASE j = i
      BY <1>0, <1>2, <3>1
    <3>2. CASE j # i
      <4>1. Exists(c, j) /\ d[j] = c[j]
        BY <1>2, <1>3, <2>2, <3>2
      <4>2. c[c[j].parent].kind = "dir" /\ c[j].parent \in Ids \ {i}
        BY <1>4, <4>1 DEF DriveTree, Folders
      <4>. QED
        BY <1>2, <4>1, <4>2
    <3>. QED
      BY <3>1, <3>2
  <2>3. ASSUME NEW j \in Ids, NEW k \in Ids, Exists(d, j), Exists(d, k), b[j] = b[k]
        PROVE  j = k
    <3>1. CASE j = i /\ k = i
      BY <3>1
    <3>2. CASE j = i /\ k # i
      BY <1>3, <1>6, <1>7, <2>3, <3>2
    <3>3. CASE j # i /\ k = i
      BY <1>3, <1>6, <1>7, <2>3, <3>3
    <3>4. CASE j # i /\ k # i
      BY <1>3, <1>6, <2>3, <3>4 DEF DriveTree, Folders
    <3>. QED
      BY <3>1, <3>2, <3>3, <3>4
  <2>. QED
    BY <2>1, <2>2, <2>3 DEF DriveTree, Folders
<1>. QED
  BY <1>6, <1>7, <1>8 DEF Begets

\* The tree after a birth shows the file, and all others.
LEMMA BirthShown ==
  ASSUME NEW h \in Heaps, NEW g \in Heaps, NEW rt \in Nodes, NEW c \in Clouds, NEW born,
         NodesOK(h, rt, c), TreeOK(h, rt, born), OneNode(h),
         \A y \in Nodes : Shows(c, h, rt, y) /\ ReadOrEmpty(c, h, y),
         NEW n \in Nodes, h[n].kind # "free", h[n].filled, NEW m \in Nodes, h[m] = Free,
         NEW i \in Ids, c[i] = Unborn, NEW kind \in Kinds, NEW x,
         NEW d, d = Birth(c, i, kind, x, h[n].id), g = Linked(h, n, m, NodeOf(d, i, n))
  PROVE  OneNode(g) /\ \A y \in Nodes : Shows(d, g, rt, y) /\ ReadOrEmpty(d, g, y)
<1>1. PICK node : node = NodeOf(d, i, n)
  OBVIOUS
<1>2. /\ IdsIn(g, n) = IdsIn(h, n) \cup {node.id}
      /\ \A y \in Nodes \ {n, m} : IdsIn(g, y) = IdsIn(h, y)
      /\ g[m] = node /\ \A y \in Nodes \ {n, m} : g[y] = h[y]
      /\ g[n] = [h[n] EXCEPT !.next = Append(h[n].next, m)]
      /\ \A y \in Nodes : \A k \in 1..Len(h[y].next) :
           h[y].next[k] \in Nodes \ {m} /\ g[h[y].next[k]].id = h[h[y].next[k]].id
  <2>1. g = Linked(h, n, m, node)
    BY <1>1
  <2>2. LinkedAs(h, g, n, m, node)
    BY <2>1, LinkedIds
  <2>. QED
    BY <2>2 DEF LinkedAs
<1>3. /\ d[i].kind = kind /\ d[i].name = x /\ d[i].parent = h[n].id
      /\ \A j \in Ids : j # i => d[j] = c[j]
  BY DEF Birth, Clouds
<1>4. /\ node.id = i /\ node.kind = d[i].kind /\ node.name = d[i].name /\ ~node.filled
      /\ node.next = <<>>
  BY <1>1 DEF NodeOf
<1>5. /\ g[n].kind = h[n].kind /\ g[n].id = h[n].id /\ g[n].name = h[n].name
      /\ g[n].filled = h[n].filled /\ m # n /\ m # rt
  <2>1. h[n] \in NodeRecords
    BY DEF Heaps
  <2>2. m # n /\ m # rt
    BY NodesAssumption DEF Free, NodesOK
  <2>. QED
    BY <1>2, <2>1, <2>2 DEF NodeRecords
<1>6. \A y \in Nodes \ {m} : g[y].kind = h[y].kind /\ g[y].id = h[y].id /\ g[y].name = h[y].name
  BY <1>2, <1>5
<1>7. \A y \in Nodes : h[y].kind # "free" => h[y].id \in Ids /\ h[y].id # i
  BY DEF Shows, Exists, Unborn, Kinds, Heaps, NodeRecords
<1>8. OneNode(g)
  BY <1>2, <1>4, <1>6, <1>7 DEF OneNode
<1>9. ASSUME NEW y \in Nodes PROVE Shows(d, g, rt, y)
  <2>1. CASE y = m
    BY <1>2, <1>3, <1>4, <2>1 DEF Shows, Exists
  <2>2. CASE y # m
    <3>1. SUFFICES ASSUME g[y].kind # "free"
                   PROVE  /\ Exists(d, g[y].id) /\ d[g[y].id].kind = g[y].kind
                          /\ y # rt => d[g[y].id].name = g[y].name
      BY DEF Shows
    <3>2. h[y].kind # "free" /\ g[y].kind = h[y].kind /\ g[y].id = h[y].id /\ g[y].name = h[y].name
      BY <1>6, <2>2, <3>1
    <3>3. h[y].id \in Ids /\ d[h[y].id] = c[h[y].id]
      BY <1>3, <1>7, <3>2
    <3>4. /\ Exists(c, h[y].id) /\ c[h[y].id].kind = h[y].kind
          /\ y # rt => c[h[y].id].name = h[y].name
      BY <3>2 DEF Shows
    <3>. QED
      BY <3>2, <3>3, <3>4 DEF Exists
  <2>. QED
    BY <2>1, <2>2
<1>10. ASSUME NEW y \in Nodes PROVE ReadOrEmpty(d, g, y)
  <2>1. CASE y = m
    BY <1>2, <1>4, <2>1 DEF ReadOrEmpty
  <2>2. CASE y = n
    <3>1. Children(d, h[n].id) \subseteq Children(c, h[n].id) \cup {i}
      BY <1>3 DEF Children, Exists
    <3>2. Children(c, h[n].id) \subseteq IdsIn(h, n)
      BY DEF ReadOrEmpty, Whole
    <3>. QED
      BY <1>2, <1>4, <1>5, <2>2, <3>1, <3>2 DEF ReadOrEmpty, Whole
  <2>3. CASE y # m /\ y # n /\ ~h[y].filled
    BY <1>2, <2>3 DEF ReadOrEmpty
  <2>4. CASE y # m /\ y # n /\ h[y].filled
    <3>1. h[y].kind # "free"
      BY <2>4 DEF NodesOK, Free
    <3>2. h[y].id # h[n].id
      BY <2>4, <3>1 DEF OneNode
    <3>3. Children(d, h[y].id) \subseteq Children(c, h[y].id)
      BY <1>3, <3>2 DEF Children, Exists
    <3>. QED
      BY <1>2, <2>4, <3>3 DEF ReadOrEmpty, Whole
  <2>. QED
    BY <2>1, <2>2, <2>3, <2>4
<1>. QED
  BY <1>8, <1>9, <1>10

\* The directory of p is in the tree and has been read, and the drive has no file
\* at p.
Awaits(r, born, p) ==
  /\ Ready(r, born) /\ r.root # NoNode /\ r.res \in Nodes
  /\ r.heap[r.res].kind = "dir" /\ r.heap[r.res].filled
  /\ born[r.heap[r.res].id] = SubSeq(p, 1, Len(p) - 1)
  /\ \A j \in Ids : Exists(r.cloud, j) => born[j] # p

\* createNode makes the file of p on the drive and in the tree.
LEMMA CreateEntryGood ==
  ASSUME Roomy, NEW r, NEW born, NEW p \in Paths, p # <<>>, Awaits(r, born, p),
         Unused(r.cloud) # {}, NEW dir
  PROVE  LET u == CreateEntry(r, p, Len(p), dir)
         IN \E b : Ready(u, b) /\ Begets(r.cloud, born, u.cloud, b, p)
<1>0. /\ Sane(r, born) /\ r.ok /\ r.fuel < 0 /\ r.fuel \in Int /\ r \in Handlers /\ r.root \in Nodes
      /\ r.heap \in Heaps /\ r.cloud \in Clouds /\ born \in [Ids -> Paths] /\ CloudOK(r.cloud, born)
      /\ NodesOK(r.heap, r.root, r.cloud) /\ TreeOK(r.heap, r.root, born)
      /\ DriveTree(r.cloud, born) /\ OneNode(r.heap)
      /\ \A y \in Nodes : Shows(r.cloud, r.heap, r.root, y) /\ ReadOrEmpty(r.cloud, r.heap, y)
  BY DEF Awaits, Ready, Good, Sane, Sound, Handlers, Mirrors, Mirrored
<1>1. PICK n \in Nodes : n = r.res
  BY DEF Awaits
<1>2. PICK i \in Ids : i = FreshId(r.cloud) /\ r.cloud[i] = Unborn
  BY DEF FreshId, Unused
<1>3. PICK kind \in Kinds : kind = IF Len(p) = Len(p) /\ ~dir THEN "file" ELSE "dir"
  BY DEF Kinds
<1>4. PICK f \in Ids : f = r.heap[n].id
  BY <1>0 DEF Heaps, NodeRecords
<1>5. PICK c : c = Birth(r.cloud, i, kind, p[Len(p)], f)
  OBVIOUS
<1>6. /\ r.heap[n].kind # "free" /\ r.heap[n].filled /\ Exists(r.cloud, f) /\ r.cloud[f].kind = "dir"
      /\ born[f] = SubSeq(p, 1, Len(p) - 1) /\ \A j \in Ids : Exists(r.cloud, j) => born[j] # p
  BY <1>0, <1>1, <1>4 DEF Awaits, Shows
<1>7. PICK s : s = Update(r, f, c)
  OBVIOUS
<1>8. s.heap = r.heap /\ s.cloud = c /\ s.ok /\ s.fuel < 0 /\ s.root = r.root /\ s \in Handlers
  <2>1. ~Fails(r, f)
    BY <1>0, <1>6 DEF Fails
  <2>2. s = [Spend(r) EXCEPT !.cloud = c]
    BY <1>7, <2>1 DEF Update
  <2>3. c \in Clouds
    <3>1. r.cloud \in [Ids -> Entry]
      BY <1>0 DEF Clouds
    <3>2. p[Len(p)] \in Names
      BY PathFacts
    <3>3. [kind |-> kind, name |-> p[Len(p)], parent |-> f] \in Entry
      BY <3>2 DEF Entry
    <3>. QED
      BY <1>5, <3>1, <3>3 DEF Birth, Clouds
  <2>4. r.fuel - 1 \in Int /\ r.fuel - 1 < 0
    BY <1>0
  <2>. QED
    BY <1>0, <2>2, <2>3, <2>4 DEF Spend, Handlers
<1>9. PICK m \in Nodes : m = NewNode(r.heap) /\ r.heap[m] = Free
  BY <1>0, RoomyVacant, NewNodeFacts
<1>10. PICK g : g = Linked(r.heap, n, m, NodeOf(c, i, n))
  OBVIOUS
<1>11. PICK t : t = [s EXCEPT !.res = m]
  OBVIOUS
<1>12. PICK u : u = [t EXCEPT !.heap = g]
  OBVIOUS
<1>13. CreateEntry(r, p, Len(p), dir) = u
  <2>1. Vacant(r.heap) # {}
    BY <1>0, RoomyVacant
  <2>2. t.heap = r.heap
    BY <1>8, <1>11 DEF Handlers
  <2>3. CreateEntry(r, p, Len(p), dir) = AddNext([s EXCEPT !.res = NewNode(s.heap)], n, NodeOf(c, i, n))
    BY <1>0, <1>1, <1>2, <1>3, <1>4, <1>5, <1>7, <1>8, <2>1 DEF CreateEntry, Birth
  <2>4. [s EXCEPT !.res = NewNode(s.heap)] = t
    BY <1>8, <1>9, <1>11
  <2>. QED
    BY <1>9, <1>10, <1>12, <2>2, <2>3, <2>4 DEF AddNext
<1>14. u.heap = g /\ u.cloud = c /\ u.ok /\ u.fuel < 0 /\ u.root = r.root
  BY <1>8, <1>11, <1>12 DEF Handlers
<1>15. PICK b : Sane(u, b)
  <2>1. On(r, p, Len(p) - 1, born)
    BY <1>1, <1>4, <1>6, NodesAssumption DEF On, Awaits
  <2>2. Len(p) \in 1..Len(p)
    BY PathFacts
  <2>. QED
    BY <1>0, <1>13, <2>1, <2>2, CreateEntryKeeps
<1>16. g \in Heaps /\ c \in Clouds /\ b \in [Ids -> Paths] /\ CloudOK(c, b)
  BY <1>14, <1>15 DEF Sane, Sound, Handlers
<1>17. DriveTree(c, b) /\ Begets(r.cloud, born, c, b, p)
  BY <1>0, <1>2, <1>5, <1>6, <1>16, BirthTree
<1>18. OneNode(g) /\ \A y \in Nodes : Shows(c, g, r.root, y) /\ ReadOrEmpty(c, g, y)
  <2>1. c = Birth(r.cloud, i, kind, p[Len(p)], r.heap[n].id)
    BY <1>4, <1>5
  <2>2. /\ NodesOK(r.heap, r.root, r.cloud) /\ TreeOK(r.heap, r.root, born) /\ OneNode(r.heap)
        /\ r.heap[n].kind # "free" /\ r.heap[n].filled /\ r.heap[m] = Free /\ r.cloud[i] = Unborn
        /\ \A y \in Nodes : Shows(r.cloud, r.heap, r.root, y) /\ ReadOrEmpty(r.cloud, r.heap, y)
    BY <1>0, <1>2, <1>6, <1>9
  <2>. QED
    BY <1>0, <1>10, <1>16, <2>1, <2>2, BirthShown
<1>19. Ready(u, b)
  BY <1>14, <1>15, <1>17, <1>18 DEF Ready, Good, Mirrors, Mirrored
<1>. QED
  BY <1>13, <1>14, <1>17, <1>19

\* One entry is made when only the last name of p is missing.
LEMMA CreationOnce ==
  ASSUME NEW r, NEW p \in Paths, p # <<>>, NEW dir
  PROVE  Creation(r, p, Len(p) - 1, dir) = CreateEntry(r, p, Len(p), dir)
<1>. DEFINE d == Len(p) - 1
            L == Len(p) - d
            Turn(x, k) == CreateEntry(x, p, d + k, dir)
            Eq(g) == g = [k \in 0..L |-> IF k = 0 THEN r ELSE Turn(g[k-1], k)]
            at == CHOOSE f : Eq(f)
<1>1. L = 1 /\ d + 1 = Len(p)
  BY PathFacts
<1>2. \E g : Eq(g)
  <2>1. PICK g : g = [k \in 0..1 |-> IF k = 0 THEN r ELSE Turn(r, k)]
    OBVIOUS
  <2>. HIDE DEF Turn
  <2>2. \A k \in 0..1 : k # 0 => k = 1 /\ k - 1 = 0
    OBVIOUS
  <2>3. g = [k \in 0..1 |-> IF k = 0 THEN r ELSE Turn(g[k-1], k)]
    BY <2>1, <2>2
  <2>. QED
    BY <1>1, <2>3
<1>3. Eq(at)
  BY <1>2
<1>4. at[L] = Turn(r, 1)
  <2>. HIDE DEF at, Turn
  <2>1. 0 \in 0..L /\ 1 \in 0..L /\ 1 - 1 = 0
    BY <1>1
  <2>2. at[0] = r
    BY <1>3, <2>1
  <2>3. at[1] = Turn(at[1-1], 1)
    BY <1>3, <2>1
  <2>. QED
    BY <1>1, <2>1, <2>2, <2>3
<1>5. Creation(r, p, d, dir) = at[L]
  BY DEF Creation, Loop, Turns
<1>. HIDE DEF at
<1>. QED
  BY <1>1, <1>4, <1>5

\* createNode where the tree in memory has a root.
LEMMA CreationIs ==
  ASSUME NEW r, r.ok, r.root # NoNode, NEW p, NEW d, d = Depth(r.heap, r.root, p),
         NEW n, n = Walk(r.heap, r.root, p)[d], NEW t, t = [r EXCEPT !.res = n], NEW dir
  PROVE  CreateNode(r, p, dir) = Creation(t, p, d, dir)
<1>1. PICK s : s = GetRoot(r)
  OBVIOUS
<1>2. s = r
  BY <1>1 DEF GetRoot
<1>3. /\ r.ok /\ s.ok /\ d = Depth(s.heap, s.root, p) /\ n = Walk(s.heap, s.root, p)[d]
      /\ t = [s EXCEPT !.res = n]
  BY <1>2
<1>4. PICK u : u = Creation(t, p, d, dir)
  OBVIOUS
<1>5. CreateNode(r, p, dir) = u
  BY <1>1, <1>3, <1>4 DEF CreateNode, Creation, Loop, Turns
<1>. QED
  BY <1>4, <1>5

\* createNode, when the directory of p is in the tree and get() has found nothing.
LEMMA CreateNodeGood ==
  ASSUME Roomy, NEW r, NEW born, Ready(r, born), r.root # NoNode, NEW p \in Paths, p # <<>>,
         Misses(r.heap, r.root, p), NEW n \in Nodes, Walk(r.heap, r.root, p)[Len(p) - 1] = n,
         r.heap[n].kind = "dir", Unused(r.cloud) # {}, NEW dir
  PROVE  LET u == CreateNode(r, p, dir)
         IN \E b : Ready(u, b) /\ Begets(r.cloud, born, u.cloud, b, p)
<1>0. /\ Sane(r, born) /\ r.ok /\ r.heap \in Heaps /\ r.root \in Nodes /\ born \in [Ids -> Paths]
      /\ NodesOK(r.heap, r.root, r.cloud) /\ TreeOK(r.heap, r.root, born) /\ born[RootId] = <<>>
      /\ p \in Seq(Names) /\ Len(p) - 1 \in 0..Len(p) /\ n # NoNode
  BY PathFacts, NodesAssumption DEF Ready, Good, Sane, Sound, Handlers, CloudOK
<1>1. Settled(r.heap, n) /\ Depth(r.heap, r.root, p) = Len(p) - 1
  BY <1>0, MissAt
<1>2. PICK t : t = [r EXCEPT !.res = n]
  OBVIOUS
<1>3. Ready(t, born) /\ t.res = n /\ t.heap = r.heap /\ t.root = r.root /\ t.cloud = r.cloud
  <2>1. n \in Nodes \cup {NoNode}
    OBVIOUS
  <2>2. Ready(t, born) /\ t.res = n /\ t.heap = r.heap /\ t.root = r.root
    BY <1>2, <2>1, ResGood
  <2>3. t.cloud = r.cloud
    BY <1>0, <1>2 DEF Sane, Handlers
  <2>. QED
    BY <2>2, <2>3
<1>4. CreateNode(r, p, dir) = Creation(t, p, Len(p) - 1, dir)
  <2>1. PICK d : d = Len(p) - 1
    OBVIOUS
  <2>2. d = Depth(r.heap, r.root, p) /\ n = Walk(r.heap, r.root, p)[d]
    BY <1>1, <2>1
  <2>3. CreateNode(r, p, dir) = Creation(t, p, d, dir)
    BY <1>0, <1>2, <2>2, CreationIs
  <2>. QED
    BY <2>1, <2>3
<1>5. CreateNode(r, p, dir) = CreateEntry(t, p, Len(p), dir)
  BY <1>4, CreationOnce
<1>6. born[r.heap[n].id] = SubSeq(p, 1, Len(p) - 1)
  BY <1>0, WalkPaths
<1>7. \A j \in Ids : Exists(r.cloud, j) => born[j] # p
  BY MissNoFile
<1>8. Awaits(t, born, p)
  BY <1>0, <1>1, <1>3, <1>6, <1>7 DEF Awaits, Settled
<1>. QED
  BY <1>3, <1>5, <1>8, CreateEntryGood

-----------------------------------------------------------------------------
(* removeNodes. *)

\* No request is to fail, and the tree shows the drive, which may have two files at
\* a path: a rename is on its way.
Calm(r, born) ==
  Sane(r, born) /\ Good(r) /\ Folders(r.cloud) /\ Mirrored(r.cloud, r.heap, r.root)

\* A node is in the list of one directory.
LEMMA OneDirectory ==
  ASSUME NEW h \in Heaps, NEW rt, NEW born, TreeOK(h, rt, born), NEW a \in Nodes, NEW b \in Nodes,
         NEW y, Has(h, a, y), Has(h, b, y)
  PROVE  a = b
<1>1. PICK j \in 1..Len(h[a].next) : h[a].next[j] = y
  BY DEF Has
<1>2. PICK k \in 1..Len(h[b].next) : h[b].next[k] = y
  BY DEF Has
<1>3. h[a].next[j] = h[b].next[k]
  BY <1>1, <1>2
<1>. QED
  BY <1>3, OneList

\* Every file that removeNodes asks to delete is there: none of it goes before its
\* turn, since no file of an earlier node is above it.
LEMMA StrikeSmooth ==
  ASSUME NEW r, NEW born, Calm(r, born), NEW what \in Nodes,
         NEW l, Lists(r.heap, born, what, l), Ordered(r.heap, l)
  PROVE  Smooth(r, l)
<1>0. PICK h \in Heaps, c \in Clouds : h = r.heap /\ c = r.cloud
  BY DEF Calm, Sane, Handlers
<1>1. /\ born \in [Ids -> Paths] /\ CloudOK(c, born) /\ NodesOK(h, r.root, c) /\ r.root \in Nodes \cup {NoNode}
      /\ TreeOK(h, r.root, born) /\ OneNode(h) /\ r.ok /\ r.fuel < 0
      /\ \A y \in Nodes : Shows(c, h, r.root, y)
  BY <1>0 DEF Calm, Good, Sane, Sound, Mirrored, Handlers
<1>2. /\ l \in Seq(Nodes) /\ Len(l) \in Nat /\ Len(l) \in 1..Len(l) /\ l[Len(l)] = what
      /\ EntriesFirst(h, l) /\ Once(l) /\ Branch(h, born, what, Of(l))
  BY <1>0 DEF Lists
<1>3. \A k \in 1..Len(l) : /\ l[k] \in Nodes /\ l[k] \in Of(l) /\ h[l[k]].kind # "free"
                           /\ h[l[k]].id \in Ids /\ h[l[k]].id # RootId
  BY <1>0, <1>2 DEF Ordered, Of, Heaps, NodeRecords
<1>4. ASSUME NEW k \in 1..Len(l), NEW j \in 1..k-1
      PROVE  h[l[k]].id \notin Under(c, h[l[j]].id)
  <2>1. PICK b \in Ids : b = h[l[j]].id
    BY <1>2, <1>3
  <2>2. j \in 1..Len(l)
    BY <1>2
  <2>3. PICK X \in SUBSET Ids :
          X = {x \in Ids : /\ Len(born[x]) >= Len(born[b])
                           /\ \A i \in 1..Len(l) : h[l[i]].id = x => i <= j}
    OBVIOUS
  <2>4. b \in X
    <3>1. \A i \in 1..Len(l) : h[l[i]].id = b => i = j
      BY <1>1, <1>2, <1>3, <2>1, <2>2 DEF OneNode, Once
    <3>2. Len(born[b]) >= Len(born[b])
      BY <1>0, <1>1, FileLevel
    <3>. QED
      BY <2>2, <2>3, <3>1, <3>2
  <2>5. \A x \in X : Children(c, x) \subseteq X
    <3>. SUFFICES ASSUME NEW x \in X, NEW y \in Children(c, x)
                  PROVE  y \in X
      OBVIOUS
    <3>1. x \in Ids /\ y \in Ids \ {RootId} /\ Exists(c, y) /\ c[y].parent = x
      BY <2>3 DEF Children
    <3>2. /\ Len(born[y]) = Len(born[x]) + 1 /\ Len(born[x]) \in Nat /\ Len(born[b]) \in Nat
          /\ Len(born[x]) >= Len(born[b]) /\ \A i \in 1..Len(l) : h[l[i]].id = x => i <= j
      BY <1>0, <1>1, <2>3, <3>1, FileLevel
    <3>3. ASSUME NEW i \in 1..Len(l), h[l[i]].id = y
          PROVE  i <= j
      <4>1. l[i] \in Nodes /\ h[l[i]].kind # "free" /\ l[i] # r.root
        BY <1>1, <1>3, <3>1, <3>3, NodesAssumption DEF NodesOK
      <4>2. PICK P \in Nodes : P = h[l[i]].parent /\ Has(h, P, l[i]) /\ h[P].id = x
        BY <1>0, <1>1, <3>1, <3>3, <4>1, ParentIs
      <4>3. l[i] # what
        <5>. SUFFICES ASSUME l[i] = what PROVE FALSE
          OBVIOUS
        <5>1. Len(born[h[l[j]].id]) >= Len(born[h[what].id])
          BY <1>1, <1>2, <1>3, <2>2, BranchLevel
        <5>2. Len(born[b]) >= Len(born[y])
          BY <2>1, <3>3, <5>1
        <5>. QED
          BY <3>2, <5>2
      <4>4. PICK q \in 1..Len(l) : Has(h, l[q], l[i])
        BY <1>2, <1>3, <4>3 DEF Branch, Of
      <4>5. l[q] = P
        <5>1. PICK Q \in Nodes : Q = l[q]
          BY <1>3
        <5>2. Has(h, Q, l[i])
          BY <4>4, <5>1
        <5>3. P = Q
          BY <1>1, <4>2, <5>2, OneDirectory
        <5>. QED
          BY <5>1, <5>3
      <4>6. q <= j
        BY <3>2, <4>2, <4>5
      <4>7. i < q
        BY <1>0, <1>2, <4>4, EntryBefore
      <4>. QED
        BY <2>2, <4>6, <4>7
    <3>. QED
      BY <2>3, <3>1, <3>2, <3>3
  <2>6. Under(c, b) \subseteq X
    BY <2>4, <2>5, UnderLeast
  <2>7. h[l[k]].id \notin X
    BY <1>2, <2>3
  <2>. QED
    BY <2>1, <2>6, <2>7
<1>5. \A k \in 1..Len(l) : Exists(c, h[l[k]].id)
  BY <1>1, <1>3 DEF Shows
<1>. QED
  BY <1>0, <1>1, <1>4, <1>5 DEF Smooth

\* A node that shows a file below the one of what is among those of removeNodes.
LEMMA StrikeReach ==
  ASSUME NEW r, NEW born, Calm(r, born), NEW what \in Nodes, r.heap[what].kind # "free",
         NEW l, Lists(r.heap, born, what, l),
         NEW y \in Nodes, r.heap[y].kind # "free", r.heap[y].id \in Under(r.cloud, r.heap[what].id)
  PROVE  y \in Of(l)
<1>0. PICK h \in Heaps, c \in Clouds : h = r.heap /\ c = r.cloud
  BY DEF Calm, Sane, Handlers
<1>1. /\ born \in [Ids -> Paths] /\ CloudOK(c, born) /\ NodesOK(h, r.root, c) /\ r.root \in Nodes \cup {NoNode}
      /\ TreeOK(h, r.root, born) /\ OneNode(h)
  BY <1>0 DEF Calm, Good, Sane, Sound, Mirrored, Handlers
<1>2. EntriesFirst(h, l) /\ Branch(h, born, what, Of(l)) /\ l \in Seq(Nodes) /\ Len(l) \in Nat
  BY <1>0 DEF Lists
<1>3. PICK X \in SUBSET Ids :
        X = {x \in Ids : \A m \in Nodes : h[m].kind # "free" /\ h[m].id = x => m \in Of(l)}
  OBVIOUS
<1>4. PICK b \in Ids : b = h[what].id
  BY DEF Heaps, NodeRecords
<1>5. b \in X
  BY <1>0, <1>1, <1>2, <1>3, <1>4 DEF OneNode, Branch
<1>6. \A x \in X : Children(c, x) \subseteq X
  <2>. SUFFICES ASSUME NEW x \in X, NEW i \in Children(c, x), NEW m \in Nodes,
                       h[m].kind # "free", h[m].id = i
                PROVE  m \in Of(l)
    BY <1>3 DEF Children
  <2>1. x \in Ids /\ i \in Ids \ {RootId} /\ Exists(c, i) /\ c[i].parent = x
    BY <1>3 DEF Children
  <2>2. m # r.root
    BY <1>1, <2>1, NodesAssumption DEF NodesOK
  <2>3. PICK P \in Nodes : Has(h, P, m) /\ h[P].kind # "free" /\ h[P].id = x
    BY <1>0, <1>1, <2>1, <2>2, ParentIs
  <2>4. PICK k \in 1..Len(l) : l[k] = P
    BY <1>3, <2>3 DEF Of
  <2>5. PICK j \in 1..k-1 : l[j] = m
    BY <1>2, <2>3, <2>4 DEF EntriesFirst, Has
  <2>6. j \in 1..Len(l)
    BY <1>2
  <2>. QED
    BY <2>5, <2>6 DEF Of
<1>7. Under(c, b) \subseteq X
  BY <1>5, <1>6, UnderLeast
<1>. QED
  BY <1>0, <1>3, <1>4, <1>7

\* From c to d the file i has gone, with all that is below it.
Cut(c, i, d) ==
  /\ i \in Ids \ {RootId} /\ Exists(c, i)
  /\ \A j \in Ids : IF j \in Under(c, i) THEN ~Exists(d, j) ELSE d[j] = c[j]

\* The drive after a file has gone.
LEMMA CutFolders ==
  ASSUME NEW c \in Clouds, NEW born \in [Ids -> Paths], CloudOK(c, born), Folders(c),
         NEW i, NEW d, Cut(c, i, d)
  PROVE  Folders(d) /\ \A j \in Ids : Exists(d, j) => d[j] = c[j] /\ Exists(c, j)
<1>1. RootId \in Ids /\ RootId \notin Under(c, i)
  BY IdsAssumption, UnderFacts DEF Cut
<1>2. \A j \in Ids : Exists(d, j) => j \notin Under(c, i) /\ d[j] = c[j] /\ Exists(c, j)
  BY DEF Cut, Exists
<1>3. ASSUME NEW j \in Ids \ {RootId}, Exists(d, j)
      PROVE  d[d[j].parent].kind = "dir"
  <2>1. d[j] = c[j] /\ j \notin Under(c, i) /\ Exists(c, j) /\ c[j].parent \in Ids
    BY <1>2, <1>3 DEF Clouds, Entry
  <2>2. c[j].parent \notin Under(c, i)
    <3>. SUFFICES ASSUME c[j].parent \in Under(c, i) PROVE FALSE
      OBVIOUS
    <3>1. Children(c, c[j].parent) \subseteq Under(c, i)
      BY UnderFacts DEF Cut
    <3>2. j \in Children(c, c[j].parent)
      BY <2>1 DEF Children
    <3>. QED
      BY <2>1, <3>1, <3>2
  <2>. QED
    BY <2>1, <2>2 DEF Folders, Cut
<1>4. d[RootId].kind = "dir"
  BY <1>1 DEF Folders, Cut
<1>. QED
  BY <1>2, <1>3, <1>4 DEF Folders

\* What removeNodes leaves of the tree: the node what and all below it are freed,
\* the others are as they were, but for the entry of what.
Pares(h, g, l, P, what) ==
  /\ \A y \in Nodes : y \in Of(l) => g[y] = Free
  /\ \A y \in Nodes : y \notin Of(l) =>
       /\ g[y].kind = h[y].kind /\ g[y].id = h[y].id /\ g[y].name = h[y].name
       /\ g[y].filled = h[y].filled /\ (y # P => g[y].next = h[y].next)
  /\ P \in Nodes \ Of(l) /\ Has(h, P, what)
  /\ \A y \in Nodes : Has(h, P, y) => y = what \/ Has(g, P, y)

LEMMA StrikePares ==
  ASSUME NEW r, NEW born, Calm(r, born), NEW what \in Nodes, r.heap[what].kind # "free",
         what # r.root, NEW l, NEW s, NEW t, Strikes(r, what, l, s, t, born)
  PROVE  /\ t.ok /\ t.fuel < 0 /\ t.root = r.root /\ t.cloud = s.cloud
         /\ Cut(r.cloud, r.heap[what].id, t.cloud)
         /\ \E P \in Nodes : Pares(r.heap, t.heap, l, P, what)
<1>0. PICK h \in Heaps, c \in Clouds : h = r.heap /\ c = r.cloud
  BY DEF Calm, Sane, Handlers
<1>1. /\ born \in [Ids -> Paths] /\ CloudOK(c, born) /\ NodesOK(h, r.root, c)
      /\ TreeOK(h, r.root, born) /\ OneNode(h) /\ Sane(r, born)
  BY <1>0 DEF Calm, Sane, Sound, Mirrored
<1>2. /\ l \in Seq(Nodes) /\ Len(l) \in Nat /\ Len(l) \in 1..Len(l) /\ l[Len(l)] = what
      /\ EntriesFirst(h, l) /\ Once(l) /\ Branch(h, born, what, Of(l))
  BY <1>0 DEF Strikes, Lists
<1>3. Smooth(r, l)
  BY StrikeSmooth DEF Strikes
<1>4. /\ s.ok /\ s.fuel < 0 /\ s.root = r.root /\ Sane(s, born)
      /\ \A j \in 1..Len(l) : Done(r, s, l[j])
      /\ \A y \in Nodes : (\A j \in 1..Len(l) : l[j] # y) => s.heap[y] = h[y]
  BY <1>0, <1>3 DEF Strikes, Removes
<1>5. PICK g \in Heaps : g = s.heap
  BY <1>4 DEF Sane, Handlers
<1>6. PICK P \in Nodes : P = h[what].parent /\ h[P].kind # "free" /\ Has(h, P, what)
  BY <1>0, <1>1, ParentIs
<1>7. P \notin Of(l)
  <2>. SUFFICES ASSUME P \in Of(l) PROVE FALSE
    OBVIOUS
  <2>1. P = what \/ Len(born[h[P].id]) > Len(born[h[what].id])
    BY <1>2 DEF Branch
  <2>2. /\ h[what].kind # "free" /\ what # r.root /\ h[what].parent = P /\ h[what].id \in Ids \ {RootId}
        /\ Len(born[h[what].id]) = Len(born[h[P].id]) + 1 /\ Len(born[h[P].id]) \in Nat
    <3>1. Has(h, P, what) /\ NodesOK(h, r.root, c) /\ TreeOK(h, r.root, born) /\ CloudOK(c, born)
      BY <1>1, <1>6
    <3>. QED
      BY <1>1, <3>1, EntryFile
  <2>. QED
    BY <2>1, <2>2
<1>8. g[P] = h[P]
  BY <1>4, <1>5, <1>7 DEF Of
<1>9. PICK i \in 1..Len(g[P].next) : g[P].next[i] = what
  BY <1>6, <1>8 DEF Has
<1>10. g[what].next = <<>>
  BY <1>2, <1>4, <1>5 DEF Done
<1>11. PICK e : e = Erased(g, P, what)
  OBVIOUS
<1>12. Pruned(g, e, P, {what}) /\ Left(g, e, P, {what})
  <2>1. NodesOK(g, s.root, s.cloud) /\ TreeOK(g, s.root, born)
    BY <1>4, <1>5 DEF Sane, Sound
  <2>. QED
    BY <1>1, <1>9, <1>10, <1>11, <2>1, ErasedPrunes
<1>13. t.heap = e /\ t.ok /\ t.fuel < 0 /\ t.root = r.root /\ t.cloud = s.cloud
  <2>1. t = [s EXCEPT !.heap = Erased(s.heap, P, what)] /\ s \in Handlers
    BY <1>0, <1>4, <1>6 DEF Strikes, Sane
  <2>. QED
    BY <1>4, <1>5, <1>11, <2>1 DEF Handlers
<1>14. ASSUME NEW y \in Nodes, y \in Of(l) PROVE e[y] = Free
  <2>1. CASE y = what
    BY <1>12, <2>1 DEF Pruned
  <2>2. CASE y # what
    <3>1. PICK j \in 1..Len(l) : Has(h, l[j], y)
      BY <1>2, <1>14, <2>2 DEF Branch, Of
    <3>2. g[y] = Free
      BY <1>0, <1>4, <1>5, <3>1 DEF Done
    <3>. QED
      BY <1>7, <1>12, <1>14, <2>2, <3>2 DEF Pruned
  <2>. QED
    BY <2>1, <2>2
<1>15. ASSUME NEW y \in Nodes, y \notin Of(l)
       PROVE  /\ e[y].kind = h[y].kind /\ e[y].id = h[y].id /\ e[y].name = h[y].name
              /\ e[y].filled = h[y].filled /\ (y # P => e[y].next = h[y].next)
  <2>1. g[y] = h[y] /\ y # what
    BY <1>2, <1>4, <1>5, <1>15 DEF Of
  <2>2. CASE y = P
    BY <1>12, <2>1, <2>2 DEF Pruned
  <2>3. CASE y # P
    BY <1>12, <2>1, <2>3 DEF Pruned
  <2>. QED
    BY <2>2, <2>3
<1>16. \A y \in Nodes : Has(h, P, y) => y = what \/ Has(e, P, y)
  <2>. SUFFICES ASSUME NEW y \in Nodes, NEW j \in 1..Len(g[P].next), g[P].next[j] = y, y # what
                PROVE  Has(e, P, y)
    BY <1>8 DEF Has
  <2>1. \E k \in 1..Len(e[P].next) : e[P].next[k] = g[P].next[j]
    BY <1>12 DEF Left
  <2>. QED
    BY <2>1 DEF Has
<1>17. Pares(h, e, l, P, what)
  BY <1>6, <1>7, <1>14, <1>15, <1>16 DEF Pares
<1>18. Cut(c, h[what].id, t.cloud)
  <2>1. h[what].id \in Ids \ {RootId} /\ Exists(c, h[what].id)
    BY <1>0, <1>1, <1>2, <1>3, <1>6, EntryFile DEF Smooth
  <2>2. \A x \in Under(c, h[what].id) : ~Exists(t.cloud, x)
    BY <1>0, <1>2, <1>4, <1>13 DEF Done
  <2>3. \A x \in Ids : t.cloud[x] = c[x] \/ x \in Under(c, h[what].id)
    BY <1>0, <1>1, StrikeCloud
  <2>. QED
    BY <2>1, <2>2, <2>3 DEF Cut
<1>. QED
  BY <1>0, <1>13, <1>17, <1>18

\* removeNodes takes a file and all below it from the drive, from the tree and from
\* the cache.
LEMMA RemoveNodesCalm ==
  ASSUME NEW r, NEW born, Calm(r, born), NEW what \in Nodes, r.heap[what].kind # "free",
         what # r.root
  PROVE  LET t == RemoveNodes(r, what)
         IN Calm(t, born) /\ Cut(r.cloud, r.heap[what].id, t.cloud)
<1>0. PICK h \in Heaps, c \in Clouds : h = r.heap /\ c = r.cloud
  BY DEF Calm, Sane, Handlers
<1>1. /\ born \in [Ids -> Paths] /\ CloudOK(c, born) /\ NodesOK(h, r.root, c) /\ r.ok
      /\ TreeOK(h, r.root, born) /\ OneNode(h) /\ Sane(r, born) /\ Folders(c)
      /\ \A y \in Nodes : Shows(c, h, r.root, y) /\ ReadOrEmpty(c, h, y)
  BY <1>0 DEF Calm, Good, Sane, Sound, Mirrored
<1>2. PICK t : t = RemoveNodes(r, what)
  OBVIOUS
<1>3. Sane(t, born) /\ \E l, s : Strikes(r, what, l, s, t, born)
  BY <1>1, <1>2, RemoveNodesKeeps DEF Removed
<1>4. PICK l, s : Strikes(r, what, l, s, t, born)
  BY <1>3
<1>5. /\ t.ok /\ t.fuel < 0 /\ t.root = r.root /\ Cut(c, h[what].id, t.cloud)
      /\ \E P \in Nodes : Pares(h, t.heap, l, P, what)
  BY <1>0, <1>4, StrikePares
<1>6. PICK g \in Heaps, d \in Clouds : g = t.heap /\ d = t.cloud
  BY <1>3 DEF Sane, Handlers
<1>7. PICK P \in Nodes : Pares(h, g, l, P, what)
  BY <1>5, <1>6
<1>8. PICK b \in Ids : b = h[what].id
  BY DEF Heaps, NodeRecords
<1>9. Folders(d)
  BY <1>1, <1>5, <1>6, CutFolders
<1>10. \A y \in Nodes : y \in Of(l) => g[y] = Free
  BY <1>7 DEF Pares
<1>11. \A y \in Nodes : y \notin Of(l) =>
         /\ g[y].kind = h[y].kind /\ g[y].id = h[y].id /\ g[y].name = h[y].name
         /\ g[y].filled = h[y].filled /\ (y # P => g[y].next = h[y].next)
  BY <1>7 DEF Pares
<1>12. \A y \in Nodes : y \notin Of(l) /\ h[y].kind # "free" => d[h[y].id] = c[h[y].id]
  <2>. SUFFICES ASSUME NEW y \in Nodes, y \notin Of(l), h[y].kind # "free"
                PROVE  d[h[y].id] = c[h[y].id]
    OBVIOUS
  <2>1. h[y].id \notin Under(c, h[what].id)
    BY <1>0, <1>4, StrikeReach DEF Strikes
  <2>2. h[y].id \in Ids
    BY DEF Heaps, NodeRecords
  <2>. QED
    BY <1>5, <1>6, <2>1, <2>2 DEF Cut
<1>13. OneNode(g)
  BY <1>1, <1>10, <1>11 DEF OneNode, Free
<1>14. \A y \in Nodes : Shows(d, g, r.root, y)
  <2>. SUFFICES ASSUME NEW y \in Nodes, g[y].kind # "free"
                PROVE  Shows(d, g, r.root, y)
    BY DEF Shows
  <2>1. y \notin Of(l)
    BY <1>10 DEF Free
  <2>. QED
    BY <1>1, <1>11, <1>12, <2>1 DEF Shows, Exists
<1>15. ASSUME NEW y \in Nodes, g[y].filled PROVE Whole(d, g, y)
  <2>1. y \notin Of(l)
    BY <1>10, <1>15 DEF Free
  <2>2. g[y].id = h[y].id /\ h[y].filled /\ (y # P => g[y].next = h[y].next)
    BY <1>11, <1>15, <2>1
  <2>3. Whole(c, h, y)
    BY <1>1, <2>2 DEF ReadOrEmpty
  <2>. SUFFICES ASSUME NEW i \in Children(d, g[y].id)
                PROVE  i \in IdsIn(g, y)
    BY DEF Whole
  <2>4. i \in Ids \ {RootId} /\ Exists(d, i) /\ d[i].parent = g[y].id
    BY DEF Children
  <2>5. i \notin Under(c, b) /\ d[i] = c[i]
    BY <1>5, <1>6, <1>8, <2>4 DEF Cut
  <2>6. i \in Children(c, h[y].id)
    BY <2>2, <2>4, <2>5 DEF Children, Exists
  <2>7. PICK k \in 1..Len(h[y].next) : h[h[y].next[k]].id = i
    BY <2>3, <2>6 DEF Whole, IdsIn
  <2>8. PICK m \in Nodes : m = h[y].next[k]
    BY DEF Heaps, NodeRecords
  <2>9. m \notin Of(l)
    <3>. SUFFICES ASSUME m \in Of(l) PROVE FALSE
      OBVIOUS
    <3>1. Branch(h, born, what, Of(l)) /\ Exists(c, h[m].id)
      BY <1>0, <1>4, <2>6, <2>7, <2>8 DEF Strikes, Lists, Children
    <3>2. h[m].id \in Under(c, h[what].id)
      BY <1>1, <3>1, BranchUnder
    <3>. QED
      BY <1>8, <2>5, <2>7, <2>8, <3>2
  <2>10. g[m].id = i /\ m # what
    <3>1. what \in Of(l)
      BY <1>4 DEF Strikes, Lists, Branch
    <3>. QED
      BY <1>11, <2>7, <2>8, <2>9, <3>1
  <2>11. Has(g, y, m)
    <3>1. Has(h, y, m)
      BY <2>7, <2>8 DEF Has
    <3>. QED
      BY <1>7, <2>2, <2>10, <3>1 DEF Has, Pares
  <2>. QED
    BY <2>10, <2>11 DEF Has, IdsIn
<1>16. ASSUME NEW y \in Nodes, ~g[y].filled PROVE g[y].next = <<>>
  <2>1. CASE y \in Of(l)
    BY <1>10, <2>1 DEF Free
  <2>2. CASE y \notin Of(l)
    <3>1. h[y].next = <<>>
      BY <1>1, <1>11, <1>16, <2>2 DEF ReadOrEmpty
    <3>2. y # P
      BY <1>7, <3>1 DEF Has, Pares
    <3>. QED
      BY <1>11, <2>2, <3>1, <3>2
  <2>. QED
    BY <2>1, <2>2
<1>17. ASSUME NEW y \in Nodes, g[y].filled PROVE g[y].kind = "dir"
  <2>1. y \notin Of(l)
    BY <1>10, <1>17 DEF Free
  <2>2. g[y].kind = h[y].kind /\ h[y].filled
    BY <1>11, <1>17, <2>1
  <2>. QED
    BY <1>1, <2>2 DEF ReadOrEmpty
<1>18. \A y \in Nodes : ReadOrEmpty(d, g, y)
  BY <1>15, <1>16, <1>17 DEF ReadOrEmpty
<1>. QED
  BY <1>0, <1>2, <1>3, <1>5, <1>6, <1>9, <1>13, <1>14, <1>18 DEF Calm, Good, Mirrored

\* So what removeNodes leaves is a tree of paths again, when it was one.
LEMMA RemoveNodesGood ==
  ASSUME NEW r, NEW born, Ready(r, born), NEW what \in Nodes, r.heap[what].kind # "free",
         what # r.root
  PROVE  LET t == RemoveNodes(r, what)
         IN Ready(t, born) /\ Cut(r.cloud, r.heap[what].id, t.cloud)
<1>1. PICK t : t = RemoveNodes(r, what)
  OBVIOUS
<1>2. Calm(r, born) /\ DriveTree(r.cloud, born)
  BY DEF Ready, Calm, Mirrors, DriveTree
<1>3. Calm(t, born) /\ Cut(r.cloud, r.heap[what].id, t.cloud)
  BY <1>1, <1>2, RemoveNodesCalm
<1>4. r.cloud \in Clouds /\ born \in [Ids -> Paths] /\ CloudOK(r.cloud, born)
  BY <1>2 DEF Calm, Sane, Sound, Handlers
<1>5. \A j \in Ids : Exists(t.cloud, j) => Exists(r.cloud, j)
  BY <1>2, <1>3, <1>4, CutFolders DEF Calm
<1>6. DriveTree(t.cloud, born)
  BY <1>2, <1>3, <1>5 DEF DriveTree, Calm
<1>. QED
  BY <1>1, <1>3, <1>6 DEF Ready, Calm, Mirrors
-----------------------------------------------------------------------------
(* renameNode. *)

\* The drive after the file i has become the entry x of the folder k.
Shift(c, i, x, k) == [c EXCEPT ![i].name = x, ![i].parent = k]

\* Of the files, and their paths, only i has changed.
Else(c, born, i, d, b) == \A j \in Ids \ {i} : d[j] = c[j] /\ b[j] = born[j]

\* d and b are the drive and the paths after that.
Shifts(c, born, i, x, k, d, b) ==
  d = Shift(c, i, x, k) /\ b = [born EXCEPT ![i] = Append(born[k], x)]

\* A file that is no folder takes its path with it, and nothing else's.
LEMMA ShiftTree ==
  ASSUME NEW c \in Clouds, NEW born \in [Ids -> Paths], CloudOK(c, born), Folders(c),
         NEW i \in Ids, c[i].kind = "file", NEW k \in Ids, c[k].kind = "dir", NEW x \in Names,
         Append(born[k], x) \in Paths, NEW d, NEW b, Shifts(c, born, i, x, k, d, b)
  PROVE  /\ d \in Clouds /\ b \in [Ids -> Paths] /\ CloudOK(d, b) /\ Folders(d)
         /\ d[i].kind = "file" /\ d[i].name = x /\ d[i].parent = k
         /\ b[i] = Append(born[k], x) /\ Else(c, born, i, d, b)
<1>1. c \in [Ids -> [kind : Kinds \cup {"unborn", "gone"}, name : Names \cup {NoName},
                     parent : Ids]]
  BY DEF Clouds, Entry
<1>2. /\ d[i].kind = "file" /\ d[i].name = x /\ d[i].parent = k
      /\ \A j \in Ids \ {i} : d[j] = c[j]
  BY <1>1 DEF Shifts, Shift
<1>3. d \in Clouds
  BY <1>1 DEF Shifts, Shift, Clouds, Entry
<1>4. /\ b \in [Ids -> Paths] /\ b[i] = Append(born[k], x)
      /\ \A j \in Ids \ {i} : b[j] = born[j]
  BY DEF Shifts
<1>5. i # RootId /\ i # k
  BY DEF Folders
<1>6. \A j \in Ids : Exists(d, j) <=> Exists(c, j)
  BY <1>2 DEF Exists
<1>7. \A j \in Ids \ {RootId, i} : Exists(c, j) => c[j].parent \in Ids \ {i}
  BY <1>1 DEF Folders
<1>8. CloudOK(d, b)
  <2>1. b[RootId] = <<>> /\ Exists(d, RootId)
    BY <1>4, <1>5, <1>6, IdsAssumption DEF CloudOK
  <2>2. ASSUME NEW j \in Ids \ {RootId}, Exists(d, j)
        PROVE  Exists(d, d[j].parent) /\ b[j] = Append(b[d[j].parent], d[j].name)
    <3>1. CASE j = i
      BY <1>2, <1>4, <1>5, <1>6, <3>1 DEF Exists, Kinds
    <3>2. CASE j # i
      <4>1. d[j] = c[j] /\ b[j] = born[j] /\ Exists(c, j) /\ c[j].parent \in Ids \ {i}
        BY <1>2, <1>4, <1>6, <1>7, <2>2, <3>2
      <4>2. Exists(c, c[j].parent) /\ born[j] = Append(born[c[j].parent], c[j].name)
        BY <4>1 DEF CloudOK
      <4>. QED
        BY <1>4, <1>6, <4>1, <4>2
    <3>. QED
      BY <3>1, <3>2
  <2>. QED
    BY <2>1, <2>2 DEF CloudOK
<1>9. Folders(d)
  <2>1. d[RootId].kind = "dir"
    BY <1>2, <1>5, IdsAssumption DEF Folders
  <2>2. ASSUME NEW j \in Ids \ {RootId}, Exists(d, j) PROVE d[d[j].parent].kind = "dir"
    <3>1. CASE j = i
      BY <1>2, <1>5, <3>1
    <3>2. CASE j # i
      <4>1. d[j] = c[j] /\ Exists(c, j) /\ c[j].parent \in Ids \ {i}
        BY <1>2, <1>6, <1>7, <2>2, <3>2
      <4>. QED
        BY <1>2, <4>1 DEF Folders
    <3>. QED
      BY <3>1, <3>2
  <2>. QED
    BY <2>1, <2>2 DEF Folders
<1>. QED
  BY <1>2, <1>3, <1>4, <1>8, <1>9 DEF Else

\* The node n, which has no entries, can leave the tree h.
Leaf(h, rt, c, born, n) ==
  /\ h \in Heaps /\ rt \in Nodes /\ born \in [Ids -> Paths] /\ Exists(c, RootId)
  /\ NodesOK(h, rt, c) /\ TreeOK(h, rt, born) /\ OneNode(h)
  /\ n \in Nodes /\ h[n].kind # "free" /\ n # rt /\ h[n].next = <<>> /\ ~h[n].filled

\* e is the tree h without the entry n of P, its parent.
Parted(h, e, P, n) == P = h[n].parent /\ e = Erased(h, P, n)

\* The tree without the node n fits the drive wherever n's file has gone.
LEMMA ErasedFits ==
  ASSUME NEW h, NEW rt, NEW c, NEW born, NEW n, Leaf(h, rt, c, born, n),
         NEW d, NEW b, Else(c, born, h[n].id, d, b), NEW P, NEW e, Parted(h, e, P, n)
  PROVE  /\ P \in Nodes /\ P # n /\ Has(h, P, n) /\ e \in Heaps
         /\ Pruned(h, e, P, {n}) /\ Left(h, e, P, {n})
         /\ NodesOK(e, rt, d) /\ TreeOK(e, rt, b)
<1>. /\ h \in Heaps /\ rt \in Nodes /\ born \in [Ids -> Paths] /\ Exists(c, RootId)
     /\ NodesOK(h, rt, c) /\ TreeOK(h, rt, born) /\ OneNode(h)
     /\ n \in Nodes /\ h[n].kind # "free" /\ n # rt /\ h[n].next = <<>>
  BY DEF Leaf
<1>1. P \in Nodes /\ h[P].kind # "free" /\ Has(h, P, n)
  BY ParentIs DEF Parted
<1>2. PICK i \in 1..Len(h[P].next) : h[P].next[i] = n
  BY <1>1 DEF Has
<1>3. Pruned(h, Erased(h, P, n), P, {n}) /\ Left(h, Erased(h, P, n), P, {n})
  BY <1>1, <1>2, ErasedPrunes
<1>4. Pruned(h, e, P, {n}) /\ Left(h, e, P, {n})
  BY <1>3 DEF Parted
<1>5. NodesOK(e, rt, c) /\ TreeOK(e, rt, born)
  BY <1>4, PrunedTree
<1>6. e \in Heaps /\ P # n /\ \A y \in Nodes \ {n} : e[y].id = h[y].id /\ e[y].kind = h[y].kind
  BY <1>4 DEF Pruned
<1>7. h[n].id # RootId /\ e[n] = Free
  <2>1. h[rt].kind # "free" /\ h[rt].id = RootId
    BY NodesAssumption DEF NodesOK
  <2>. QED
    BY <1>4, <2>1 DEF OneNode, Pruned
<1>8. \A y \in Nodes : e[y].id \in Ids \ {h[n].id}
  <2>. SUFFICES ASSUME NEW y \in Nodes PROVE e[y].id \in Ids \ {h[n].id}
    OBVIOUS
  <2>1. e[y].id \in Ids
    BY <1>6 DEF Heaps, NodeRecords
  <2>2. e[y].kind = "free" => e[y].id = RootId
    BY <1>5 DEF NodesOK, Free
  <2>3. e[y].kind # "free" => y # n /\ e[y].id = h[y].id /\ h[y].kind # "free"
    BY <1>6, <1>7 DEF Free
  <2>. QED
    BY <1>7, <2>1, <2>2, <2>3 DEF OneNode
<1>9. NodesOK(e, rt, d)
  BY <1>5, <1>8 DEF NodesOK, Filed, Exists, Else
<1>10. TreeOK(e, rt, b)
  <2>1. ASSUME NEW y \in Nodes, NEW k \in 1..Len(e[y].next)
        PROVE  Entered(e, rt, b, y, e[y].next[k])
    <3>1. Entered(e, rt, born, y, e[y].next[k])
      BY <1>5 DEF TreeOK, ListOK
    <3>2. e[y].next[k] \in Nodes
      BY <1>6 DEF Heaps, NodeRecords
    <3>. QED
      BY <1>8, <3>1, <3>2 DEF Entered, Else
  <2>. QED
    BY <1>5, <2>1 DEF TreeOK, ListOK
<1>. QED
  BY <1>1, <1>4, <1>6, <1>9, <1>10
\* The node as the entry x of the directory k.
As(node, x, k) == [node EXCEPT !.name = x, !.parent = k]

\* To detach a node and attach it elsewhere is to take it from the tree and to link it
\* again.
LEMMA MoveIs ==
  ASSUME AssertsOn, NEW h \in Heaps, NEW rt, NEW born, TreeOK(h, rt, born), NEW n \in Nodes,
         NEW P \in Nodes, P # n, NEW e \in Heaps, Parted(h, e, P, n), Has(h, P, n),
         Left(h, e, P, {n}), NEW m \in Nodes, m # n, NEW x
  PROVE  Attach(Detach(h, n), n, m, x) = Linked(e, m, n, As(h[n], x, m))
<1>. DEFINE node == As(h[n], x, m)
<1>1. PICK l, o : l = RemoveFirst(h[P].next, n) /\ o = IF m = P THEN l ELSE h[m].next
  OBVIOUS
<1>2. h \in [Nodes -> [kind : Kinds \cup {"free"}, id : Ids, name : Names \cup {NoName},
                       parent : Nodes \cup {NoNode}, filled : BOOLEAN, next : Seq(Nodes)]]
  BY DEF Heaps, NodeRecords
<1>3. PICK D : D = [y \in Nodes |-> IF y = P THEN [h[P] EXCEPT !.next = l] ELSE h[y]]
  OBVIOUS
<1>4. Detach(h, n) = D
  BY <1>1, <1>2, <1>3 DEF Detach, Parted
<1>5. PICK G : G = [y \in Nodes |-> IF y = n THEN [h[n] EXCEPT !.name = x] ELSE D[y]]
  OBVIOUS
<1>6. [D EXCEPT ![n].name = x] = G
  BY <1>3, <1>5
<1>7. G[m].next = o
  BY <1>1, <1>2, <1>3, <1>5
<1>8. e[P].next = l
  BY <1>1, <1>2 DEF Erased, Parted
<1>9. ~Contains(o, n)
  <2>1. CASE m = P
    <3>1. \A k \in 1..Len(e[P].next) : e[P].next[k] # n
      BY DEF Left
    <3>. QED
      BY <1>1, <1>8, <2>1, <3>1 DEF Contains
  <2>2. CASE m # P
    <3>. SUFFICES ASSUME NEW k \in 1..Len(h[m].next), h[m].next[k] = n PROVE FALSE
      BY <1>1, <2>2 DEF Contains
    <3>1. PICK j \in 1..Len(h[P].next) : h[P].next[j] = n
      BY DEF Has
    <3>. QED
      BY <2>2, <3>1, OneList
  <2>. QED
    BY <2>1, <2>2
<1>10. Attach(Detach(h, n), n, m, x) = [G EXCEPT ![n].parent = m, ![m].next = Append(@, n)]
  BY <1>4, <1>6, <1>7, <1>9 DEF Attach
<1>11. PICK F : F = [y \in Nodes |-> IF y = n THEN node
                                    ELSE IF y = m THEN [D[m] EXCEPT !.next = Append(o, n)]
                                    ELSE D[y]]
  OBVIOUS
<1>12. [G EXCEPT ![n].parent = m, ![m].next = Append(@, n)] = F
  <2>1. [G[n] EXCEPT !.parent = m] = node
    BY <1>2, <1>5 DEF As
  <2>2. [G[m] EXCEPT !.next = Append(@, n)] = [D[m] EXCEPT !.next = Append(o, n)]
    BY <1>5, <1>7
  <2>. QED
    BY <1>5, <1>11, <2>1, <2>2
<1>13. e = [y \in Nodes |-> IF y = n THEN Free ELSE D[y]]
  BY <1>1, <1>2, <1>3 DEF Erased, Parted
<1>14. Linked(e, m, n, As(h[n], x, m)) = F
  <2>1. D[m].next = o
    BY <1>1, <1>2, <1>3
  <2>2. e[m] = D[m] /\ \A y \in Nodes \ {n} : e[y] = D[y]
    BY <1>13
  <2>. QED
    BY <1>11, <1>13, <2>1, <2>2 DEF Linked
<1>. QED
  BY <1>10, <1>12, <1>14

\* What a move leaves of the tree: all nodes, with what they hold, but for the entry
\* n, which is in another list.
Moved(h, g, n, m, x) ==
  /\ \A y \in Nodes : g[y].kind = h[y].kind /\ g[y].id = h[y].id /\ g[y].filled = h[y].filled
  /\ \A y \in Nodes \ {n} : g[y].name = h[y].name /\ g[y].parent = h[y].parent
  /\ g[n].name = x /\ Has(g, m, n) /\ g[n].next = <<>> /\ g[n].parent = m
  /\ \A y \in Nodes : \A w \in Nodes \ {n} : Has(h, y, w) => Has(g, y, w)
  /\ \A y \in Nodes : h[y].next = <<>> /\ y # m => g[y].next = <<>>

\* A tree with one more entry in the list of m, field by field.
LEMMA LinkedFields ==
  ASSUME NEW e \in Heaps, NEW m \in Nodes, NEW n \in Nodes, m # n, NEW node,
         NEW g, g = Linked(e, m, n, node)
  PROVE  /\ g[n] = node /\ \A y \in Nodes \ {n, m} : g[y] = e[y]
         /\ g[m].kind = e[m].kind /\ g[m].id = e[m].id /\ g[m].filled = e[m].filled
         /\ g[m].name = e[m].name /\ g[m].parent = e[m].parent
         /\ Has(g, m, n) /\ \A w : Has(e, m, w) => Has(g, m, w)
<1>1. g = [y \in Nodes |-> IF y = n THEN node
                          ELSE IF y = m THEN [e[m] EXCEPT !.next = Append(e[m].next, n)]
                          ELSE e[y]]
  BY LinkedIs
<1>2. /\ g[n] = node /\ \A y \in Nodes \ {n, m} : g[y] = e[y]
      /\ g[m] = [e[m] EXCEPT !.next = Append(e[m].next, n)]
  BY <1>1
<1>3. e[m] \in [kind : Kinds \cup {"free"}, id : Ids, name : Names \cup {NoName},
                parent : Nodes \cup {NoNode}, filled : BOOLEAN, next : Seq(Nodes)]
  BY DEF Heaps, NodeRecords
<1>4. /\ g[m].next = Append(e[m].next, n) /\ e[m].next \in Seq(Nodes)
      /\ g[m].kind = e[m].kind /\ g[m].id = e[m].id /\ g[m].filled = e[m].filled
      /\ g[m].name = e[m].name /\ g[m].parent = e[m].parent
  BY <1>2, <1>3
<1>5. Has(g, m, n) /\ \A w : Has(e, m, w) => Has(g, m, w)
  <2>1. /\ Len(g[m].next) = Len(e[m].next) + 1 /\ Len(e[m].next) \in Nat
        /\ g[m].next[Len(e[m].next) + 1] = n
        /\ \A k \in 1..Len(e[m].next) : g[m].next[k] = e[m].next[k]
    BY <1>4, AppendIs
  <2>2. /\ Len(e[m].next) + 1 \in 1..Len(g[m].next)
        /\ \A k \in 1..Len(e[m].next) : k \in 1..Len(g[m].next)
    BY <2>1
  <2>. QED
    BY <2>1, <2>2 DEF Has
<1>. QED
  BY <1>2, <1>4, <1>5

\* g is the tree e with the node n, as node, at the end of the list of m.
Relinked(e, g, m, n, node) == g = Linked(e, m, n, node)

\* A node without entries that has been taken from the tree is linked again, as the
\* node of the same file.
LEMMA RelinkKeeps ==
  ASSUME NEW h \in Heaps, NEW rt \in Nodes, NEW c, NEW born \in [Ids -> Paths],
         NodesOK(h, rt, c), TreeOK(h, rt, born), OneNode(h), born[RootId] = <<>>,
         NEW n \in Nodes, h[n].kind # "free", h[n].next = <<>>, ~h[n].filled, NEW P \in Nodes,
         P # n, Has(h, P, n), NEW e \in Heaps, Pruned(h, e, P, {n}), Left(h, e, P, {n}),
         NEW m \in Nodes, m # n, h[m].kind # "free", NEW x,
         NEW d, NEW b \in [Ids -> Paths], NodesOK(e, rt, d), TreeOK(e, rt, b), b[RootId] = <<>>,
         b[h[m].id] = born[h[m].id], d[h[n].id].kind # "unborn", d[h[n].id].parent = h[m].id,
         b[h[n].id] = Append(born[h[m].id], x), NEW node, NewChild(node, h[n].id, x, m),
         node.kind = h[n].kind,
         NEW bp \in PathMaps, NEW po, CacheOK(h, rt, bp, po), n \notin DOMAIN po,
         NEW g, Relinked(e, g, m, n, node)
  PROVE  /\ g \in Heaps /\ NodesOK(g, rt, d) /\ TreeOK(g, rt, b) /\ CacheOK(g, rt, bp, po)
         /\ Moved(h, g, n, m, x)
<1>1. /\ e[n] = Free /\ \A y \in Nodes \ {n, P} : e[y] = h[y]
      /\ e[P].kind = h[P].kind /\ e[P].id = h[P].id /\ e[P].name = h[P].name
      /\ e[P].parent = h[P].parent /\ e[P].filled = h[P].filled
  BY DEF Pruned
<1>2. e[m].kind # "free" /\ e[m].id = h[m].id /\ h[n].id \in Ids
  <2>1. e[m].kind = h[m].kind /\ e[m].id = h[m].id
    BY <1>1
  <2>. QED
    BY <2>1 DEF Heaps, NodeRecords
<1>3. Grown(e, rt, d, b, m, n, node, g)
  <2>1. /\ e[m].kind # "free" /\ e[n] = Free /\ d[h[n].id].parent = e[m].id
        /\ b[h[n].id] = Append(b[e[m].id], x)
    BY <1>1, <1>2
  <2>. QED
    BY <1>2, <2>1, LinkedKeeps DEF Relinked
<1>4. CacheOK(g, rt, bp, po)
  <2>1. CacheOK(e, rt, bp, po)
    BY PrunedCache
  <2>. QED
    BY <1>3, <2>1, KeptCache DEF Grown
<1>5. /\ g[n] = node /\ \A y \in Nodes \ {n, m} : g[y] = e[y]
      /\ g[m].kind = e[m].kind /\ g[m].id = e[m].id /\ g[m].filled = e[m].filled
      /\ g[m].name = e[m].name /\ g[m].parent = e[m].parent
      /\ Has(g, m, n) /\ \A w : Has(e, m, w) => Has(g, m, w)
  BY LinkedFields DEF Relinked
<1>6. \A y \in Nodes : g[y].kind = h[y].kind /\ g[y].id = h[y].id /\ g[y].filled = h[y].filled
  <2>1. g[n].kind = h[n].kind /\ g[n].id = h[n].id /\ g[n].filled = h[n].filled
    BY <1>5 DEF NewChild, Heaps, NodeRecords
  <2>. QED
    BY <1>1, <1>5, <2>1
<1>7. ASSUME NEW y \in Nodes \ {n} PROVE g[y].name = h[y].name /\ g[y].parent = h[y].parent
  <2>1. e[y].name = h[y].name /\ e[y].parent = h[y].parent
    BY <1>1
  <2>. QED
    BY <1>5, <2>1
<1>8. ASSUME NEW y \in Nodes, NEW w \in Nodes \ {n}, Has(h, y, w) PROVE Has(g, y, w)
  <2>1. y # n
    BY <1>8 DEF Has
  <2>2. Has(e, y, w)
    <3>1. CASE y = P
      <4>1. PICK j \in 1..Len(h[P].next) : h[P].next[j] = w
        BY <1>8, <3>1 DEF Has
      <4>2. \E k \in 1..Len(e[P].next) : e[P].next[k] = h[P].next[j]
        BY <4>1 DEF Left
      <4>. QED
        BY <3>1, <4>1, <4>2 DEF Has
    <3>2. CASE y # P
      BY <1>1, <1>8, <2>1, <3>2 DEF Has
    <3>. QED
      BY <3>1, <3>2
  <2>. QED
    <3>1. CASE y = m
      BY <1>5, <2>2, <3>1
    <3>2. CASE y # m
      BY <1>5, <2>1, <2>2, <3>2 DEF Has
    <3>. QED
      BY <3>1, <3>2
<1>9. ASSUME NEW y \in Nodes, h[y].next = <<>>, y # m PROVE g[y].next = <<>>
  <2>1. y # P
    BY <1>9 DEF Has
  <2>2. CASE y = n
    BY <1>5, <2>2 DEF NewChild
  <2>3. CASE y # n
    BY <1>1, <1>5, <1>9, <2>1, <2>3
  <2>. QED
    BY <2>2, <2>3
<1>10. Moved(h, g, n, m, x)
  BY <1>5, <1>6, <1>7, <1>8, <1>9, SMTT(20) DEF Moved, NewChild
<1>. QED
  BY <1>3, <1>4, <1>10 DEF Grown

\* g is the tree h with the node n as the entry x of m.
Replaced(h, g, n, m, x) == g = Attach(Detach(h, n), n, m, x)

\* Its file has become the entry x of the file of m.
Goes(h, c, born, n, m, x, d, b) ==
  /\ m \in Nodes /\ m # n /\ h[m].kind # "free" /\ x \in Names
  /\ b \in [Ids -> Paths] /\ b[RootId] = <<>> /\ Else(c, born, h[n].id, d, b)
  /\ d[h[n].id].kind # "unborn" /\ d[h[n].id].parent = h[m].id
  /\ b[h[n].id] = Append(born[h[m].id], x)

\* So it goes there in the tree, which becomes g; it is not in the cache.
Relocates(h, rt, c, born, n, m, x, d, b, bp, po, g) ==
  /\ Leaf(h, rt, c, born, n) /\ Goes(h, c, born, n, m, x, d, b) /\ Replaced(h, g, n, m, x)
  /\ bp \in PathMaps /\ CacheOK(h, rt, bp, po) /\ n \notin DOMAIN po

\* A node without entries goes from one directory to another.
LEMMA MoveTree ==
  ASSUME AssertsOn, NEW h, NEW rt, NEW c, NEW born, NEW n, NEW m, NEW x, NEW d, NEW b,
         NEW bp, NEW po, NEW g, Relocates(h, rt, c, born, n, m, x, d, b, bp, po, g)
  PROVE  /\ g \in Heaps /\ NodesOK(g, rt, d) /\ TreeOK(g, rt, b) /\ CacheOK(g, rt, bp, po)
         /\ Moved(h, g, n, m, x)
<1>. /\ bp \in PathMaps /\ CacheOK(h, rt, bp, po) /\ n \notin DOMAIN po
     /\ Replaced(h, g, n, m, x)
  BY DEF Relocates
<1>. /\ h \in Heaps /\ rt \in Nodes /\ born \in [Ids -> Paths] /\ Exists(c, RootId)
     /\ NodesOK(h, rt, c) /\ TreeOK(h, rt, born) /\ OneNode(h)
     /\ n \in Nodes /\ h[n].kind # "free" /\ n # rt /\ h[n].next = <<>> /\ ~h[n].filled
  BY DEF Relocates, Leaf
<1>. /\ m \in Nodes /\ m # n /\ h[m].kind # "free" /\ x \in Names
     /\ b \in [Ids -> Paths] /\ b[RootId] = <<>> /\ Else(c, born, h[n].id, d, b)
     /\ d[h[n].id].kind # "unborn" /\ d[h[n].id].parent = h[m].id
     /\ b[h[n].id] = Append(born[h[m].id], x)
  BY DEF Relocates, Goes
<1>0. PICK P, e : Parted(h, e, P, n)
  BY DEF Parted
<1>1. /\ P \in Nodes /\ P # n /\ e \in Heaps /\ Has(h, P, n)
      /\ Pruned(h, e, P, {n}) /\ Left(h, e, P, {n}) /\ NodesOK(e, rt, d) /\ TreeOK(e, rt, b)
  <2>1. Leaf(h, rt, c, born, n)
    BY DEF Relocates
  <2>. QED
    BY <1>0, <2>1, ErasedFits
<1>2. g = Linked(e, m, n, As(h[n], x, m))
  BY <1>0, <1>1, MoveIs DEF Replaced
<1>3. h[n].id \in Ids
  BY DEF Heaps, NodeRecords
<1>4. PICK node : Relinked(e, g, m, n, node) /\ NewChild(node, h[n].id, x, m) /\ node.kind = h[n].kind
  <2>. DEFINE node == As(h[n], x, m)
  <2>1. h[n] \in [kind : Kinds \cup {"free"}, id : Ids, name : Names \cup {NoName},
                  parent : Nodes \cup {NoNode}, filled : BOOLEAN, next : Seq(Nodes)]
    BY DEF Heaps, NodeRecords
  <2>2. /\ node.kind = h[n].kind /\ node.id = h[n].id /\ node.name = x /\ node.parent = m
        /\ ~node.filled /\ node.next = <<>>
    BY <1>3, <2>1 DEF As
  <2>3. node \in NodeRecords
    BY <2>1 DEF NodeRecords, As
  <2>. QED
    BY <1>2, <2>2, <2>3 DEF NewChild, Relinked
<1>5. born[RootId] = <<>> /\ b[h[m].id] = born[h[m].id] /\ h[m].id # h[n].id
  <2>1. h[rt].id = RootId /\ h[rt].kind # "free"
    BY NodesAssumption DEF NodesOK
  <2>2. h[m].id # h[n].id /\ h[m].id \in Ids /\ h[n].id # RootId
    BY <1>3, <2>1 DEF OneNode, Heaps, NodeRecords
  <2>. QED
    BY <1>3, <2>2, IdsAssumption DEF Else
<1>. QED
  BY <1>1, <1>3, <1>4, <1>5, RelinkKeeps

\* The moved file is shown where it is now: its old directory has an entry less, the
\* new one an entry more.
LEMMA MoveShown ==
  ASSUME NEW h \in Heaps, NEW g \in Heaps, NEW rt \in Nodes, NEW c, Mirrored(c, h, rt),
         NEW n \in Nodes, n # rt, h[n].kind = "file",
         NEW m \in Nodes, h[m].kind = "dir", h[m].filled, NEW x, Moved(h, g, n, m, x),
         NEW d, d[h[n].id].kind = "file", d[h[n].id].name = x, d[h[n].id].parent = h[m].id,
         \A j \in Ids \ {h[n].id} : d[j] = c[j]
  PROVE  Mirrored(d, g, rt)
<1>1. /\ \A y \in Nodes : g[y].kind = h[y].kind /\ g[y].id = h[y].id /\ g[y].filled = h[y].filled
      /\ \A y \in Nodes \ {n} : g[y].name = h[y].name
      /\ g[n].name = x /\ Has(g, m, n)
      /\ \A y \in Nodes : \A w \in Nodes \ {n} : Has(h, y, w) => Has(g, y, w)
      /\ \A y \in Nodes : h[y].next = <<>> /\ y # m => g[y].next = <<>>
  BY DEF Moved
<1>2. OneNode(h) /\ \A y \in Nodes : Shows(c, h, rt, y) /\ ReadOrEmpty(c, h, y)
  BY DEF Mirrored
<1>3. \A y \in Nodes : h[y].id \in Ids
  BY DEF Heaps, NodeRecords
<1>4. OneNode(g)
  BY <1>1, <1>2 DEF OneNode
<1>5. ASSUME NEW y \in Nodes PROVE Shows(d, g, rt, y)
  <2>1. CASE y = n
    BY <1>1, <2>1 DEF Shows, Exists, Kinds
  <2>2. CASE y # n
    <3>. SUFFICES ASSUME g[y].kind # "free" PROVE Shows(d, g, rt, y)
      BY DEF Shows
    <3>1. d[h[y].id] = c[h[y].id]
      BY <1>1, <1>2, <1>3, <2>2 DEF OneNode
    <3>. QED
      BY <1>1, <1>2, <2>2, <3>1 DEF Shows, Exists
  <2>. QED
    BY <2>1, <2>2
<1>6. ASSUME NEW y \in Nodes, h[y].filled, NEW j \in Children(d, h[y].id)
      PROVE  j \in IdsIn(g, y)
  <2>0. h[y].kind = "dir" /\ Whole(c, h, y)
    BY <1>2, <1>6 DEF ReadOrEmpty
  <2>1. j \in Ids \ {RootId} /\ Exists(d, j) /\ d[j].parent = h[y].id
    BY DEF Children
  <2>2. CASE j = h[n].id
    <3>1. y = m
      BY <1>2, <2>0, <2>1, <2>2 DEF OneNode
    <3>. QED
      BY <1>1, <2>2, <3>1 DEF Has, IdsIn
  <2>3. CASE j # h[n].id
    <3>1. j \in Children(c, h[y].id)
      BY <2>1, <2>3 DEF Children, Exists
    <3>2. PICK k \in 1..Len(h[y].next) : h[h[y].next[k]].id = j
      BY <2>0, <3>1 DEF Whole, IdsIn
    <3>3. PICK w \in Nodes \ {n} : w = h[y].next[k]
      BY <2>3, <3>2 DEF Heaps, NodeRecords
    <3>4. Has(h, y, w)
      BY <3>3 DEF Has
    <3>5. Has(g, y, w) /\ g[w].id = j
      BY <1>1, <3>2, <3>3, <3>4
    <3>. QED
      BY <3>5 DEF Has, IdsIn
  <2>. QED
    BY <2>2, <2>3
<1>7. ASSUME NEW y \in Nodes PROVE ReadOrEmpty(d, g, y)
  <2>1. CASE h[y].filled
    <3>1. g[y].filled /\ g[y].kind = "dir" /\ g[y].id = h[y].id
      BY <1>1, <1>2, <2>1 DEF ReadOrEmpty
    <3>. QED
      BY <1>6, <2>1, <3>1 DEF ReadOrEmpty, Whole
  <2>2. CASE ~h[y].filled
    <3>1. h[y].next = <<>> /\ y # m /\ ~g[y].filled
      BY <1>1, <1>2, <2>2 DEF ReadOrEmpty
    <3>. QED
      BY <1>1, <3>1 DEF ReadOrEmpty
  <2>. QED
    BY <2>1, <2>2
<1>. QED
  BY <1>4, <1>5, <1>7 DEF Mirrored

\* s is r after the request for the drive d, on behalf of the file i, when the tree is g,
\* and u after the node n has been evicted as well.
Requests(r, g, i, d, n, s, u) == s = Update([r EXCEPT !.heap = g], i, d) /\ u = Evict(s, n)

\* The request for a move succeeds, and the cache is what it would have become without
\* it.
LEMMA UpdateIs ==
  ASSUME NEW r \in Handlers, r.ok, r.fuel < 0, NEW g \in Heaps, NEW n \in Nodes, NEW d \in Clouds,
         NEW i, Exists(r.cloud, i), NEW s, NEW u, Requests(r, g, i, d, n, s, u),
         NEW v \in Handlers, v.ok, v = Evict(r, n)
  PROVE  /\ s.ok /\ u \in Handlers /\ u.heap = g /\ u.cloud = d /\ u.root = r.root
         /\ u.byPath = v.byPath /\ u.pathOf = v.pathOf /\ u.ok /\ u.fuel < 0
<1>. DEFINE R == [cloud : Clouds, heap : Heaps, root : Nodes \cup {NoNode}, byPath : PathMaps,
                  pathOf : NodeMaps, fuel : Int, late : BOOLEAN, ok : BOOLEAN,
                  res : Nodes \cup {NoNode}]
<1>1. PICK q : q = [r EXCEPT !.heap = g]
  OBVIOUS
<1>2. ~Fails(q, i)
  <2>1. q.fuel = r.fuel /\ q.cloud = r.cloud
    BY <1>1 DEF Handlers
  <2>. QED
    BY <2>1 DEF Fails, Handlers
<1>3. s = [Spend(q) EXCEPT !.cloud = d]
  BY <1>1, <1>2 DEF Requests, Update
<1>4. s = [r EXCEPT !.heap = g, !.cloud = d, !.fuel = r.fuel - 1]
  BY <1>1, <1>3 DEF Spend, Handlers
<1>5. r \in R /\ v \in R /\ r.fuel - 1 \in Int /\ r.fuel - 1 < 0
  BY DEF Handlers
<1>6. /\ s \in R /\ s.heap = g /\ s.cloud = d /\ s.root = r.root /\ s.fuel < 0 /\ s.ok
      /\ s.pathOf = r.pathOf /\ s.byPath = r.byPath
  BY <1>4, <1>5
<1>7. CASE n \notin DOMAIN r.pathOf
  <2>1. u = s /\ v = r
    BY <1>6, <1>7 DEF Requests, Evict
  <2>. QED
    BY <1>6, <2>1 DEF Handlers
<1>8. CASE n \in DOMAIN r.pathOf
  <2>1. PICK bp, po : /\ bp = Restrict(r.byPath, DOMAIN r.byPath \ {r.pathOf[n]})
                      /\ po = Restrict(r.pathOf, DOMAIN r.pathOf \ {n})
    OBVIOUS
  <2>2. u = [s EXCEPT !.byPath = bp, !.pathOf = po] /\ v = [r EXCEPT !.byPath = bp, !.pathOf = po]
    BY <1>6, <1>8, <2>1 DEF Requests, Evict
  <2>3. v.byPath = bp /\ v.pathOf = po /\ bp \in PathMaps /\ po \in NodeMaps
    BY <1>5, <2>2
  <2>. QED
    BY <1>6, <2>2, <2>3 DEF Handlers
<1>. QED
  BY <1>7, <1>8

\* renameNode's move of the node n to the entry x of the directory m: up to the request
\* it makes, to s, and after the eviction, to u; born becomes b.
Transfers(r, born, n, m, x, s, u, b) ==
  /\ s = UpdateNode([r EXCEPT !.heap = Attach(Detach(r.heap, n), n, m, x)], n)
  /\ u = Evict(s, n)
  /\ b = [born EXCEPT ![r.heap[n].id] = Append(born[r.heap[m].id], x)]

\* The move of the node of a file into a directory that has been read: it is
\* in the tree and on the drive where it is to be, and out of the cache.  What has been
\* at the new path is there still.
LEMMA MoveGood ==
  ASSUME AssertsOn, NEW r, NEW born, Calm(r, born), r.root # NoNode,
         NEW n \in Nodes, r.heap[n].kind = "file",
         NEW m \in Nodes, r.heap[m].kind = "dir", r.heap[m].filled,
         NEW x \in Names, Append(born[r.heap[m].id], x) \in Paths,
         NEW s, NEW u, NEW b, Transfers(r, born, n, m, x, s, u, b)
  PROVE  /\ s.ok /\ Calm(u, b) /\ u.root = r.root
         /\ Shifts(r.cloud, born, r.heap[n].id, x, r.heap[m].id, u.cloud, b)
         /\ Moved(r.heap, u.heap, n, m, x)
<1>0. PICK h \in Heaps, c \in Clouds, rt \in Nodes : h = r.heap /\ c = r.cloud /\ rt = r.root
  BY DEF Calm, Sane, Handlers
<1>1. /\ born \in [Ids -> Paths] /\ CloudOK(c, born) /\ Folders(c) /\ Mirrored(c, h, rt)
      /\ NodesOK(h, rt, c) /\ TreeOK(h, rt, born) /\ r \in Handlers /\ r.ok /\ r.fuel < 0
      /\ Sane(r, born)
  BY <1>0 DEF Calm, Sane, Sound, Good
<1>2. PICK i \in Ids, k \in Ids : i = h[n].id /\ k = h[m].id
  BY DEF Heaps, NodeRecords
<1>3. Exists(c, i) /\ c[i].kind = "file" /\ c[k].kind = "dir" /\ OneNode(h)
  BY <1>0, <1>1, <1>2 DEF Mirrored, Shows
<1>4. h[n].next = <<>> /\ ~h[n].filled /\ m # n
  BY <1>0, <1>1 DEF Mirrored, ReadOrEmpty
<1>5. n # rt
  BY <1>1, <1>2, <1>3, NodesAssumption DEF NodesOK, Folders
<1>6. Exists(c, RootId) /\ born[RootId] = <<>>
  BY <1>1 DEF CloudOK
<1>7. PICK v : v = Evict(r, n)
  OBVIOUS
<1>8. /\ Sane(v, born) /\ v.heap = h /\ v.cloud = c /\ v.root = rt /\ v.ok
      /\ v.res = r.res /\ n \notin DOMAIN v.pathOf
  BY <1>0, <1>1, <1>7, EvictKeeps
<1>9. CacheOK(h, rt, v.byPath, v.pathOf) /\ v \in Handlers /\ v.byPath \in PathMaps
  BY <1>8 DEF Sane, Sound, Handlers
<1>10. PICK d : Shifts(c, born, i, x, k, d, b)
  BY <1>0, <1>2 DEF Transfers, Shifts
<1>a. Append(born[k], x) \in Paths
  BY <1>0, <1>2
<1>b. PICK g : Replaced(h, g, n, m, x)
  BY DEF Replaced
<1>c. s = UpdateNode([r EXCEPT !.heap = g], n) /\ u = Evict(s, n)
  BY <1>0, <1>b DEF Transfers, Replaced
<1>d. r.heap = h /\ r.cloud = c /\ r.root = rt /\ h[n].id = i /\ h[m].id = k /\ h[m].kind = "dir"
      /\ h[n].kind = "file" /\ h[m].filled
  BY <1>0, <1>2
<1>11. /\ d \in Clouds /\ b \in [Ids -> Paths] /\ CloudOK(d, b) /\ Folders(d)
       /\ d[i].kind = "file" /\ d[i].name = x /\ d[i].parent = k
       /\ b[i] = Append(born[k], x) /\ Else(c, born, i, d, b)
  BY <1>1, <1>3, <1>10, <1>a, ShiftTree
<1>12. b[RootId] = <<>>
  BY <1>11 DEF CloudOK
<1>13. /\ g \in Heaps /\ NodesOK(g, rt, d) /\ TreeOK(g, rt, b)
       /\ CacheOK(g, rt, v.byPath, v.pathOf) /\ Moved(h, g, n, m, x)
  <2>1. Goes(h, c, born, n, m, x, d, b)
    <3>1. /\ h[n].kind # "free" /\ h[m].kind # "free" /\ Else(c, born, h[n].id, d, b)
          /\ d[h[n].id].kind # "unborn" /\ d[h[n].id].parent = h[m].id
          /\ b[h[n].id] = Append(born[h[m].id], x) /\ b \in [Ids -> Paths]
      BY <1>11, <1>d
    <3>. QED
      BY <1>4, <1>12, <3>1 DEF Goes
  <2>2. Leaf(h, rt, c, born, n)
    <3>1. h[n].kind # "free"
      BY <1>d
    <3>. QED
      BY <1>1, <1>3, <1>4, <1>5, <1>6, <3>1 DEF Leaf
  <2>3. Relocates(h, rt, c, born, n, m, x, d, b, v.byPath, v.pathOf, g)
    <3>1. CacheOK(h, rt, v.byPath, v.pathOf) /\ v.byPath \in PathMaps /\ n \notin DOMAIN v.pathOf
      BY <1>8, <1>9, SMTT(20)
    <3>. QED
      BY <1>b, <2>1, <2>2, <3>1 DEF Relocates
  <2>. QED
    BY <2>3, MoveTree
<1>14. Requests(r, g, i, d, n, s, u)
  <2>1. [r EXCEPT !.heap = g].heap = g /\ [r EXCEPT !.heap = g].cloud = c
    BY <1>0, <1>1 DEF Handlers
  <2>2. g[n].id = i /\ g[n].name = x /\ g[n].parent = m /\ g[m].id = k
    BY <1>2, <1>13 DEF Moved
  <2>. QED
    BY <1>10, <1>c, <2>1, <2>2 DEF UpdateNode, Shift, Shifts, Requests
<1>16. /\ s.ok /\ u \in Handlers /\ u.heap = g /\ u.cloud = d /\ u.root = rt
       /\ u.byPath = v.byPath /\ u.pathOf = v.pathOf /\ u.ok /\ u.fuel < 0
  <2>1. Exists(r.cloud, i) /\ r.root = rt
    BY <1>0, <1>3
  <2>. QED
    BY <1>1, <1>7, <1>8, <1>9, <1>11, <1>13, <1>14, <2>1, UpdateIs
<1>17. Mirrored(d, g, rt)
  <2>1. \A j \in Ids \ {h[n].id} : d[j] = c[j]
    BY <1>2, <1>11 DEF Else
  <2>. QED
    BY <1>1, <1>5, <1>11, <1>13, <1>d, <2>1, MoveShown
<1>18. Calm(u, b)
  BY <1>11, <1>13, <1>16, <1>17 DEF Calm, Sane, Sound, Good
<1>. QED
  BY <1>0, <1>2, <1>10, <1>13, <1>16, <1>18

\* From c to d the file i, which is no folder, has become q, and the files that were at q
\* have gone.
Renamed(c, born, d, b, i, q) ==
  /\ i \in Ids /\ c[i].kind = "file" /\ ~IsPrefix(born[i], q) /\ q \in Paths
  /\ \E k \in Ids : /\ c[k].kind = "dir" /\ q = Append(born[k], Last(q))
                    /\ Shift(c, i, Last(q), k) \in Clouds
                    /\ \A j \in Ids : IF Exists(c, j) /\ born[j] = q
                                      THEN c[j].kind = "file" /\ ~Exists(d, j)
                                      ELSE d[j] = Shift(c, i, Last(q), k)[j]
  /\ b = [born EXCEPT ![i] = q]

\* What has been renamed is there, with all files but those that have been at q.
LEMMA RenamedIs ==
  ASSUME NEW c \in Clouds, NEW born \in [Ids -> Paths], NEW d, NEW b, NEW i, NEW q,
         Renamed(c, born, d, b, i, q)
  PROVE  /\ i \in Ids /\ b[i] = q /\ born[i] # q /\ Exists(c, i)
         /\ \A j \in Ids \ {i} : b[j] = born[j]
         /\ \A j \in Ids : Exists(d, j) <=> Exists(c, j) /\ born[j] # q
         /\ \A j \in Ids : Exists(d, j) => d[j].kind = c[j].kind
<1>1. i \in Ids /\ c[i].kind = "file" /\ ~IsPrefix(born[i], q) /\ b = [born EXCEPT ![i] = q]
  BY DEF Renamed
<1>2. born[i] # q
  <2>1. born[i] \in Seq(Names)
    BY <1>1, PathFacts
  <2>. QED
    BY <1>1, <2>1 DEF IsPrefix
<1>3. PICK k \in Ids : \A j \in Ids : IF Exists(c, j) /\ born[j] = q
                                      THEN c[j].kind = "file" /\ ~Exists(d, j)
                                      ELSE d[j] = Shift(c, i, Last(q), k)[j]
  BY DEF Renamed
<1>4. \A j \in Ids : Shift(c, i, Last(q), k)[j].kind = c[j].kind
  BY <1>1 DEF Shift, Clouds, Entry
<1>. QED
  BY <1>1, <1>2, <1>3, <1>4 DEF Exists, Kinds

\* So no two files are at one path afterwards.
LEMMA RenamedTree ==
  ASSUME NEW c \in Clouds, NEW born \in [Ids -> Paths], DriveTree(c, born), NEW d, Folders(d),
         NEW b, NEW i, NEW q, Renamed(c, born, d, b, i, q)
  PROVE  DriveTree(d, b)
<1>1. /\ i \in Ids /\ b[i] = q /\ \A j \in Ids \ {i} : b[j] = born[j]
      /\ \A j \in Ids : Exists(d, j) => Exists(c, j) /\ born[j] # q
  BY RenamedIs
<1>2. ASSUME NEW j \in Ids, NEW l \in Ids, Exists(d, j), Exists(d, l), b[j] = b[l]
      PROVE  j = l
  BY <1>1, <1>2 DEF DriveTree
<1>. QED
  BY <1>2 DEF DriveTree

\* The nodes of h but t are in g, for the same files.
Outlives(h, g, t) ==
  \A y \in Nodes \ {t} : h[y].kind # "free" => g[y].kind = h[y].kind /\ g[y].id = h[y].id

\* The node n of a file may become the entry at q of the directory m.
Movable(r, born, n, m, q) ==
  /\ Ready(r, born) /\ r.root # NoNode
  /\ n \in Nodes /\ r.heap[n].kind = "file" /\ ~IsPrefix(born[r.heap[n].id], q)
  /\ m \in Nodes /\ r.heap[m].kind = "dir" /\ r.heap[m].filled
  /\ q \in Paths /\ q # <<>> /\ q = Append(born[r.heap[m].id], Last(q))

\* The move for a rename, whatever is at the new path.
LEMMA MovableGood ==
  ASSUME AssertsOn, NEW r, NEW born, NEW n, NEW m, NEW q, Movable(r, born, n, m, q),
         NEW s, NEW u, NEW b, Transfers(r, born, n, m, Last(q), s, u, b)
  PROVE  /\ s.ok /\ Calm(u, b) /\ u.root = r.root /\ Moved(r.heap, u.heap, n, m, Last(q))
         /\ Shifts(r.cloud, born, r.heap[n].id, Last(q), r.heap[m].id, u.cloud, b)
<1>1. /\ Calm(r, born) /\ n \in Nodes /\ m \in Nodes /\ r.root # NoNode /\ r.heap[n].kind = "file"
      /\ r.heap[m].kind = "dir" /\ r.heap[m].filled
  BY DEF Movable, Ready, Calm, Mirrors, DriveTree
<1>2. Last(q) \in Names /\ Append(born[r.heap[m].id], Last(q)) \in Paths
  <2>1. q \in Seq(Names) /\ q # <<>> /\ q \in Paths /\ q = Append(born[r.heap[m].id], Last(q))
    BY PathFacts DEF Movable
  <2>2. Last(q) \in Names
    BY <2>1, SMTT(20) DEF Last
  <2>. QED
    BY <2>1, <2>2
<1>. QED
  BY <1>1, <1>2, MoveGood

\* What becomes of the drive: the file has moved, and what goes after that is what was at
\* the new path.
LEMMA ShiftRenamed ==
  ASSUME NEW r, NEW born, NEW n, NEW m, NEW q, Movable(r, born, n, m, q), NEW d \in Clouds, NEW b,
         Shifts(r.cloud, born, r.heap[n].id, Last(q), r.heap[m].id, d, b), NEW e,
         \A j \in Ids : IF Exists(r.cloud, j) /\ born[j] = q
                        THEN r.cloud[j].kind = "file" /\ ~Exists(e, j) ELSE e[j] = d[j]
  PROVE  Renamed(r.cloud, born, e, b, r.heap[n].id, q)
<1>1. /\ r.heap[n].id \in Ids /\ r.heap[m].id \in Ids
      /\ r.cloud[r.heap[n].id].kind = "file" /\ r.cloud[r.heap[m].id].kind = "dir"
  <2>1. r.heap \in Heaps /\ n \in Nodes /\ m \in Nodes /\ r.heap[n].kind = "file" /\ r.heap[m].kind = "dir"
    BY DEF Movable, Ready, Sane, Handlers
  <2>2. Shows(r.cloud, r.heap, r.root, n) /\ Shows(r.cloud, r.heap, r.root, m)
    BY <2>1 DEF Movable, Ready, Mirrors, Mirrored
  <2>. QED
    BY <2>1, <2>2 DEF Shows, Heaps, NodeRecords
<1>2. q \in Paths /\ q = Append(born[r.heap[m].id], Last(q)) /\ ~IsPrefix(born[r.heap[n].id], q)
  BY SMTT(20) DEF Movable
<1>3. d = Shift(r.cloud, r.heap[n].id, Last(q), r.heap[m].id) /\ b = [born EXCEPT ![r.heap[n].id] = q]
  BY <1>2 DEF Shifts
<1>. QED
  BY <1>1, <1>2, <1>3 DEF Renamed

\* When nothing is at the new path, that is all.
LEMMA EnterGood ==
  ASSUME AssertsOn, NEW r, NEW born, NEW n, NEW m, NEW q, Movable(r, born, n, m, q),
         \A j \in Ids : Exists(r.cloud, j) => born[j] # q,
         NEW u, u = Move(r, n, m, NoNode, Last(q))
  PROVE  \E b : /\ Ready(u, b) /\ Renamed(r.cloud, born, u.cloud, b, r.heap[n].id, q)
                /\ Outlives(r.heap, u.heap, NoNode)
<1>1. PICK s, v, b : Transfers(r, born, n, m, Last(q), s, v, b)
  BY DEF Transfers
<1>2. /\ s.ok /\ Calm(v, b) /\ v.root = r.root /\ Moved(r.heap, v.heap, n, m, Last(q))
      /\ Shifts(r.cloud, born, r.heap[n].id, Last(q), r.heap[m].id, v.cloud, b)
  BY <1>1, MovableGood
<1>3. u = v
  <2>1. r \in Handlers
    BY DEF Movable, Ready, Sane
  <2>2. u = Settle(s, n, NoNode)
    BY <1>1, <2>1 DEF Move, Transfers
  <2>. QED
    BY <1>1, <1>2, <2>2 DEF Settle, Transfers
<1>4. Renamed(r.cloud, born, v.cloud, b, r.heap[n].id, q)
  <2>1. v.cloud \in Clouds
    BY <1>2 DEF Calm, Sane, Handlers
  <2>. QED
    BY <1>2, <2>1, ShiftRenamed
<1>5. Ready(v, b)
  <2>1. r.cloud \in Clouds /\ born \in [Ids -> Paths] /\ DriveTree(r.cloud, born)
    BY DEF Movable, Ready, Sane, Sound, Handlers, Mirrors
  <2>2. DriveTree(v.cloud, b)
    BY <1>2, <1>4, <2>1, RenamedTree DEF Calm
  <2>. QED
    BY <1>2, <2>2 DEF Calm, Ready, Mirrors
<1>. QED
  BY <1>2, <1>3, <1>4, <1>5 DEF Outlives, Moved

\* A node that shows a file is not the root, and nothing is below its file.
LEMMA FileNode ==
  ASSUME NEW r, NEW born, Calm(r, born), NEW n \in Nodes, r.heap[n].kind = "file"
  PROVE  /\ n # r.root /\ r.heap[n].id \in Ids /\ r.cloud[r.heap[n].id].kind = "file"
         /\ Exists(r.cloud, r.heap[n].id)
         /\ Children(r.cloud, r.heap[n].id) = {}
         /\ Under(r.cloud, r.heap[n].id) = {r.heap[n].id}
<1>1. /\ r.heap \in Heaps /\ r.cloud \in Clouds /\ NodesOK(r.heap, r.root, r.cloud)
      /\ Folders(r.cloud) /\ \A y \in Nodes : Shows(r.cloud, r.heap, r.root, y)
      /\ born \in [Ids -> Paths] /\ CloudOK(r.cloud, born) /\ r.root \in Nodes \cup {NoNode}
  BY DEF Calm, Sane, Sound, Mirrored, Handlers
<1>2. /\ r.heap[n].id \in Ids /\ r.cloud[r.heap[n].id].kind = "file"
      /\ Exists(r.cloud, r.heap[n].id)
  BY <1>1 DEF Shows, Heaps, NodeRecords
<1>3. n # r.root
  BY <1>1, <1>2, NodesAssumption DEF NodesOK, Folders
<1>4. Children(r.cloud, r.heap[n].id) = {}
  BY <1>1, <1>2 DEF Folders, Children
<1>5. Under(r.cloud, r.heap[n].id) \subseteq {r.heap[n].id}
  <2>1. PICK X : X = {r.heap[n].id}
    OBVIOUS
  <2>2. X \in SUBSET Ids /\ r.heap[n].id \in X /\ \A x \in X : Children(r.cloud, x) \subseteq X
    BY <1>2, <1>4, <2>1
  <2>3. Under(r.cloud, r.heap[n].id) \subseteq X
    BY <1>2, <2>2, UnderLeast
  <2>. QED
    BY <2>1, <2>3
<1>6. r.heap[n].id \in Under(r.cloud, r.heap[n].id)
  BY <1>1, <1>2, UnderFacts
<1>. QED
  BY <1>2, <1>3, <1>4, <1>5, <1>6

\* When a file is at the new path, it goes: from the tree, the cache and the drive.
LEMMA ReplaceGood ==
  ASSUME AssertsOn, NEW r, NEW born, NEW n, NEW m, NEW q, Movable(r, born, n, m, q),
         NEW t \in Nodes, r.heap[t].kind = "file", born[r.heap[t].id] = q,
         NEW u, u = Move(r, n, m, t, Last(q))
  PROVE  \E b : /\ Ready(u, b) /\ Renamed(r.cloud, born, u.cloud, b, r.heap[n].id, q)
                /\ Outlives(r.heap, u.heap, t)
<1>1. PICK s, v, b : Transfers(r, born, n, m, Last(q), s, v, b)
  BY DEF Transfers
<1>2. /\ s.ok /\ Calm(v, b) /\ v.root = r.root /\ Moved(r.heap, v.heap, n, m, Last(q))
      /\ Shifts(r.cloud, born, r.heap[n].id, Last(q), r.heap[m].id, v.cloud, b)
  BY <1>1, MovableGood
<1>3. u = RemoveNodes(v, t)
  <2>1. r \in Handlers
    BY DEF Movable, Ready, Sane
  <2>2. u = Settle(s, n, t)
    BY <1>1, <2>1 DEF Move, Transfers
  <2>. QED
    BY <1>1, <1>2, <2>2, NodesAssumption DEF Settle, Transfers
<1>4. v.heap[t].kind = "file" /\ v.heap[t].id = r.heap[t].id
  BY <1>2 DEF Moved
<1>5. PICK a \in Ids : a = r.heap[t].id
  BY <1>2, <1>4, FileNode
<1>6. t # v.root /\ Children(v.cloud, a) = {} /\ Under(v.cloud, a) = {a} /\ Exists(v.cloud, a)
  BY <1>2, <1>4, <1>5, FileNode, SMTT(20)
<1>7. Calm(u, b) /\ Cut(v.cloud, a, u.cloud)
  BY <1>2, <1>3, <1>4, <1>5, <1>6, RemoveNodesCalm
<1>8. Calm(r, born) /\ DriveTree(r.cloud, born) /\ r \in Handlers /\ born \in [Ids -> Paths]
  BY DEF Movable, Ready, Calm, Mirrors, DriveTree, Sane, Sound
<1>9. Exists(r.cloud, a) /\ r.cloud[a].kind = "file"
  BY <1>5, <1>8, FileNode
<1>10. Renamed(r.cloud, born, u.cloud, b, r.heap[n].id, q)
  <2>1. v.cloud \in Clouds
    BY <1>2 DEF Calm, Sane, Handlers
  <2>2. ASSUME NEW j \in Ids
        PROVE  IF Exists(r.cloud, j) /\ born[j] = q
               THEN r.cloud[j].kind = "file" /\ ~Exists(u.cloud, j)
               ELSE u.cloud[j] = v.cloud[j]
    <3>1. Exists(r.cloud, j) /\ born[j] = q <=> j = a
      BY <1>5, <1>8, <1>9 DEF DriveTree
    <3>. QED
      BY <1>6, <1>7, <1>9, <3>1 DEF Cut
  <2>. QED
    BY <1>2, <2>1, <2>2, ShiftRenamed
<1>11. Ready(u, b)
  <2>1. DriveTree(u.cloud, b)
    BY <1>7, <1>8, <1>10, RenamedTree DEF Calm, Handlers
  <2>. QED
    BY <1>7, <2>1 DEF Calm, Ready, Mirrors
<1>12. Outlives(r.heap, u.heap, t)
  <2>1. Sane(v, b) /\ v.ok /\ v.heap[t].kind # "free"
    BY <1>2, <1>4 DEF Calm, Good
  <2>2. PICK l, x : Strikes(v, t, l, x, u, b)
    BY <1>3, <1>6, <2>1, RemoveNodesKeeps
  <2>3. ASSUME NEW y \in Nodes \ {t}, r.heap[y].kind # "free"
        PROVE  u.heap[y].kind = r.heap[y].kind /\ u.heap[y].id = r.heap[y].id
    <3>1. v.heap[y].kind = r.heap[y].kind /\ v.heap[y].id = r.heap[y].id
      BY <1>2 DEF Moved
    <3>2. Children(v.cloud, v.heap[t].id) = {}
      BY <1>4, <1>5, <1>6
    <3>. QED
      BY <2>1, <2>2, <2>3, <3>1, <3>2, StrikeNodes
  <2>. QED
    BY <2>3 DEF Outlives
<1>. QED
  BY <1>10, <1>11, <1>12
-----------------------------------------------------------------------------
(* The handlers. *)

\* The paths born of the files are those of the drive, and the tree mirrors it.
Now(born) ==
  Sound(cloud, heap, root, byPath, pathOf, born) /\ Mirrors(cloud, heap, root, born)

\* The invariant.
MirrorInv == TreeInv /\ \E born : Now(born)

\* From c to d nothing has changed, a file has come into being, one has gone with all
\* that is below it, or one has been renamed.
Moves(c, born, d, b) ==
  \/ d = c /\ b = born
  \/ \E p \in Paths : p # <<>> /\ Begets(c, born, d, b, p)
  \/ b = born /\ \E i \in Ids : Cut(c, i, d)
  \/ \E i, q : Renamed(c, born, d, b, i, q)

\* A handler's step.
MirrorStep(born) ==
  \E b : /\ Sound(cloud', heap', root', byPath', pathOf', b) /\ Mirrors(cloud', heap', root', b)
         /\ Moves(cloud, born, cloud', b)

\* Without failures every handler starts with requests that succeed.
LEMMA BeginReady ==
  ASSUME FailAt = {}, TreeInv, NEW born, Now(born), NEW f \in Reads \cup Writes
  PROVE  /\ Ready(Begin(f), born) /\ Begin(f).cloud = cloud /\ Begin(f).heap = heap
         /\ Begin(f).root = root /\ Begin(f).byPath = byPath /\ f = Well
<1>1. f = Well /\ f.fuel = -1
  <2>1. Reads = {Well} /\ Writes = {Well}
    <3>1. [fuel : {}, late : {FALSE}] = {} /\ [fuel : {}, late : BOOLEAN] = {}
      OBVIOUS
    <3>. QED
      BY <3>1 DEF Reads, Writes
  <2>. QED
    BY <2>1 DEF Well, NoLimit
<1>2. PICK r : r = Begin(f)
  OBVIOUS
<1>3. /\ Sane(r, born) /\ r.cloud = cloud /\ r.heap = heap /\ r.root = root /\ r.ok
      /\ r.byPath = byPath
  BY <1>2, BeginSane DEF Now
<1>4. r.fuel < 0
  <2>1. r.fuel = f.fuel
    BY <1>2 DEF Begin
  <2>. QED
    BY <1>1, <2>1
<1>. QED
  BY <1>1, <1>2, <1>3, <1>4 DEF Ready, Good, Now

\* So does the next handler of the call.
LEMMA ThenReady ==
  ASSUME NEW r, NEW born, Ready(r, born)
  PROVE  LET s == Then(r, Well)
         IN Ready(s, born) /\ s.heap = r.heap /\ s.root = r.root /\ s.cloud = r.cloud
<1>1. PICK s : s = Then(r, Well)
  OBVIOUS
<1>2. Sane(s, born)
  <2>1. Well \in Reads \cup Writes
    BY DEF Reads
  <2>. QED
    BY <1>1, <2>1, ThenLooks DEF Ready
<1>3. s.heap = r.heap /\ s.root = r.root /\ s.cloud = r.cloud /\ s.ok /\ s.fuel < 0
  <2>1. r \in Handlers
    BY DEF Ready, Sane
  <2>2. s.fuel = -1
    BY <1>1, <2>1 DEF Then, Well, NoLimit, Handlers
  <2>3. s.heap = r.heap /\ s.root = r.root /\ s.cloud = r.cloud /\ s.ok
    BY <1>1, <2>1 DEF Then, Handlers
  <2>. QED
    BY <2>2, <2>3
<1>. QED
  BY <1>1, <1>2, <1>3 DEF Ready, Good

\* What a handler holds at its end is what the next one starts with.
LEMMA CommitMirrors ==
  ASSUME NEW born, NEW r, NEW b, Ready(r, b), Commit(r), Moves(cloud, born, r.cloud, b)
  PROVE  MirrorStep(born)
<1>1. Sound(r.cloud, r.heap, r.root, r.byPath, r.pathOf, b) /\ Mirrors(r.cloud, r.heap, r.root, b)
  BY DEF Ready, Sane
<1>. QED
  BY <1>1 DEF Commit, MirrorStep

\* A handler that only looks.
LEMMA LookMirrors ==
  ASSUME NEW born, NEW r, Ready(r, born), Commit(r), r.cloud = cloud
  PROVE  MirrorStep(born)
BY CommitMirrors DEF Moves

\* A process that starts has read nothing.
LEMMA FreshMirrors ==
  ASSUME TreeInv, NEW born, Now(born), Fresh(cloud)
  PROVE  MirrorStep(born)
<1>1. cloud \in Clouds /\ born \in [Ids -> Paths] /\ CloudOK(cloud, born) /\ DriveTree(cloud, born)
  BY DEF TreeInv, Now, Sound, Mirrors, Mirrored
<1>2. Sound(cloud', heap', root', byPath', pathOf', born)
  BY <1>1, EmptyTree DEF Fresh
<1>3. \A n \in Nodes : heap'[n] = Free
  BY DEF Fresh
<1>4. Mirrors(cloud', heap', root', born)
  BY <1>1, <1>3 DEF Fresh, Free, Mirrors, Mirrored, OneNode, Shows, ReadOrEmpty
<1>. QED
  BY <1>2, <1>4 DEF Fresh, MirrorStep, Moves

\* readdir reads what has not been read.
LEMMA ReadDirGood ==
  ASSUME Roomy, NEW r, NEW born, Ready(r, born), r.res # NoNode => r.heap[r.res].kind # "free"
  PROVE  Ready(ReadDir(r), born) /\ ReadDir(r).cloud = r.cloud
<1>1. Sane(r, born)
  BY DEF Ready
<1>2. ReadDir(r).cloud = r.cloud
  BY <1>1, ReadDirKeeps DEF Looks
<1>3. CASE r.res = NoNode \/ r.heap[r.res].filled
  BY <1>2, <1>3 DEF ReadDir
<1>4. CASE ~(r.res = NoNode \/ r.heap[r.res].filled)
  <2>1. r.res \in Nodes /\ r.heap[r.res].kind # "free" /\ ~r.heap[r.res].filled
    BY <1>1, <1>4 DEF Sane, Handlers
  <2>2. r.root # NoNode
    BY <1>1, <2>1 DEF Sane, Sound, NodesOK
  <2>3. Ready(FillDir(r, r.res), born)
    BY <2>1, <2>2, FillDirGood
  <2>. QED
    BY <1>2, <1>4, <2>3 DEF ReadDir
<1>. QED
  BY <1>3, <1>4

\* getattr.
LEMMA LookupMirrors ==
  ASSUME FailAt = {}, TreeInv, NEW born, Now(born), NEW p \in Paths, NEW f \in Reads, Lookup(p, f)
  PROVE  MirrorStep(born)
<1>1. PICK b : b = Begin(f)
  OBVIOUS
<1>2. Ready(b, born) /\ b.cloud = cloud /\ Sane(b, born)
  BY <1>1, BeginReady DEF Ready
<1>3. PICK r : r = Get(b, p)
  OBVIOUS
<1>4. Roomy
  BY RoomRoomy DEF Lookup
<1>5. Ready(r, born) /\ r.cloud = cloud
  BY <1>2, <1>3, <1>4, GetGood, GetKeeps DEF Answers, Looks
<1>6. Commit(r)
  BY <1>1, <1>3 DEF Lookup
<1>. QED
  BY <1>5, <1>6, LookMirrors

\* opendir and readdir.
LEMMA ListMirrors ==
  ASSUME FailAt = {}, TreeInv, NEW born, Now(born), NEW p \in Paths, NEW f \in Reads, List(p, f)
  PROVE  MirrorStep(born)
<1>1. PICK b : b = Begin(f)
  OBVIOUS
<1>2. Ready(b, born) /\ b.cloud = cloud /\ Sane(b, born)
  BY <1>1, BeginReady DEF Ready
<1>3. PICK r : r = Get(b, p)
  OBVIOUS
<1>4. Roomy
  BY RoomRoomy DEF List
<1>5. Ready(r, born) /\ r.cloud = cloud /\ Found(r, p, Len(p)) /\ Sane(r, born)
  BY <1>2, <1>3, <1>4, GetGood, GetKeeps DEF Answers, Looks
<1>6. r.res # NoNode => r.heap[r.res].kind # "free"
  BY <1>5, FoundLive
<1>7. Ready(ReadDir(r), born) /\ ReadDir(r).cloud = cloud
  BY <1>4, <1>5, <1>6, ReadDirGood
<1>8. Commit(ReadDir(r))
  BY <1>1, <1>3, <1>7 DEF List, Ready, Good
<1>. QED
  BY <1>7, <1>8, LookMirrors

\* readdir of a handle.
LEMMA ListOpenMirrors ==
  ASSUME FailAt = {}, TreeInv, NEW born, Now(born), NEW h \in Handles, NEW f \in Reads,
         ListOpen(h, f)
  PROVE  MirrorStep(born)
<1>1. PICK b : b = Begin(f)
  OBVIOUS
<1>2. Ready(b, born) /\ b.cloud = cloud /\ b.heap = heap /\ b \in Handlers
  BY <1>1, BeginReady DEF Ready, Sane
<1>3. PICK n \in Nodes : n = fh[h].node /\ heap[n].kind # "free"
  BY DEF ListOpen, TreeInv, Valid
<1>4. PICK r : r = [b EXCEPT !.res = n]
  OBVIOUS
<1>5. Ready(r, born) /\ r.res = n /\ r.heap = heap
  <2>1. n \in Nodes \cup {NoNode}
    OBVIOUS
  <2>. QED
    BY <1>2, <1>4, <2>1, ResGood
<1>6. r.cloud = cloud
  BY <1>2, <1>4 DEF Handlers
<1>7. Roomy
  BY RoomRoomy DEF ListOpen
<1>8. Ready(ReadDir(r), born) /\ ReadDir(r).cloud = cloud
  BY <1>3, <1>5, <1>6, <1>7, ReadDirGood
<1>9. Commit(ReadDir(r))
  BY <1>1, <1>3, <1>4, <1>8 DEF ListOpen, Ready, Good
<1>. QED
  BY <1>8, <1>9, LookMirrors

\* open.
LEMMA OpenMirrors ==
  ASSUME FailAt = {}, TreeInv, NEW born, Now(born), NEW h \in Handles, NEW p \in Paths,
         NEW f \in Reads, Open(h, p, f)
  PROVE  MirrorStep(born)
<1>1. PICK b : b = Begin(f)
  OBVIOUS
<1>2. Ready(b, born) /\ b.cloud = cloud /\ Sane(b, born)
  BY <1>1, BeginReady DEF Ready
<1>3. PICK r : r = Get(b, p)
  OBVIOUS
<1>4. Roomy
  BY RoomRoomy DEF Open
<1>5. Ready(r, born) /\ r.cloud = cloud
  BY <1>2, <1>3, <1>4, GetGood, GetKeeps DEF Answers, Looks
<1>6. Commit(r)
  BY <1>1, <1>3 DEF Open
<1>. QED
  BY <1>5, <1>6, LookMirrors
\* The node that getattr would find is where the tree has it.
LEMMA HeldWalk ==
  ASSUME TreeInv, NEW born, Now(born), NEW p \in Paths, Held(p) # NoNode
  PROVE  root \in Nodes /\ Held(p) \in Nodes /\ Walk(heap, root, p)[Len(p)] = Held(p)
<1>1. CASE p \in DOMAIN byPath
  <2>1. CacheOK(heap, root, byPath, pathOf) /\ byPath[p] \in Nodes
    BY <1>1 DEF Now, Sound, TreeInv, PathMaps
  <2>. QED
    BY <1>1, <2>1 DEF CacheOK, TreeInv, Held
<1>2. CASE p \notin DOMAIN byPath
  <2>1. Held(p) = IF root = NoNode THEN NoNode ELSE Walk(heap, root, p)[Len(p)]
    BY <1>2 DEF Held
  <2>2. root \in Nodes /\ Held(p) = Walk(heap, root, p)[Len(p)]
    BY <2>1 DEF TreeInv
  <2>3. Held(p) \in Nodes \cup {NoNode}
    BY <2>2, PathFacts, WalkRun DEF TreeInv
  <2>. QED
    BY <2>2, <2>3
<1>. QED
  BY <1>1, <1>2

\* A path is its directory and a name.
LEMMA FrontFacts ==
  ASSUME NEW p \in Paths, p # <<>>
  PROVE  /\ p \in Seq(Names) /\ Len(p) \in 1..Len(p) /\ Len(p) - 1 \in 0..Len(p)
         /\ Front(p) = SubSeq(p, 1, Len(p) - 1) /\ Front(p) \in Paths
         /\ Len(Front(p)) = Len(p) - 1
         /\ Len(p) - 1 # 0 => SubSeq(Front(p), 1, Len(p) - 1) = Front(p)
<1>1. p \in Seq(Names) /\ Len(p) \in Nat /\ Len(p) # 0
  BY PathFacts
<1>2. Front(p) = SubSeq(p, 1, Len(p) - 1) /\ Front(p) \in Paths
  BY FrontPath DEF Front
<1>3. PICK q \in Seq(Names) : q = Front(p) /\ Len(q) = Len(p) - 1
  BY <1>1, <1>2
<1>4. SubSeq(q, 1, Len(q)) = q
  BY <1>3
<1>. QED
  BY <1>1, <1>2, <1>3, <1>4

\* The directory that the kernel has resolved for p is in the tree, after what is
\* read as before.
LEMMA DirIs ==
  ASSUME TreeInv, NEW born, Now(born), NEW p \in Paths, p # <<>>, KnownDir(Front(p)),
         NEW b, b.heap = heap, b.root = root, NEW r, Ready(r, born), Looks(b, r, born),
         r.root # NoNode
  PROVE  \E n \in Nodes : /\ Walk(r.heap, r.root, p)[Len(p) - 1] = n /\ r.heap[n].kind = "dir"
                          /\ Walk(r.heap, r.root, Front(p))[Len(p) - 1] = n
<1>1. /\ p \in Seq(Names) /\ Len(p) \in 1..Len(p) /\ Len(p) - 1 \in 0..Len(p)
      /\ Front(p) = SubSeq(p, 1, Len(p) - 1) /\ Front(p) \in Paths
      /\ Len(Front(p)) = Len(p) - 1
      /\ Len(p) - 1 # 0 => SubSeq(Front(p), 1, Len(p) - 1) = Front(p)
  BY FrontFacts
<1>2. PICK q \in Paths : q = Front(p)
  BY <1>1
<1>3. PICK g \in Heaps, rt \in Nodes : g = r.heap /\ rt = r.root
  BY DEF Ready, Sane, Handlers
<1>4. Walk(g, rt, p)[Len(p) - 1] = Walk(g, rt, q)[Len(p) - 1]
  BY <1>1, <1>2, PrefixFacts
<1>5. \E n \in Nodes : Walk(g, rt, q)[Len(p) - 1] = n /\ g[n].kind = "dir"
  <2>1. CASE Len(p) - 1 = 0
    <3>1. Walk(g, rt, q)[0] = rt
      BY <1>2, PathFacts, WalkRun
    <3>2. g[rt].kind = "dir"
      <4>1. g[rt].kind # "free" /\ g[rt].id = RootId /\ Shows(r.cloud, g, rt, rt)
        BY <1>3, NodesAssumption DEF Ready, Sane, Sound, NodesOK, Mirrors, Mirrored
      <4>2. r.cloud[RootId].kind = "dir"
        BY DEF Ready, Mirrors, Mirrored, DriveTree, Folders
      <4>. QED
        BY <4>1, <4>2 DEF Shows
    <3>. QED
      BY <2>1, <3>1, <3>2
  <2>2. CASE Len(p) - 1 # 0
    <3>1. Held(q) # NoNode /\ heap[Held(q)].kind = "dir"
      <4>1. Len(p) - 1 \in 1..Len(q) /\ SubSeq(q, 1, Len(p) - 1) = q
        BY <1>1, <1>2, <2>2
      <4>. QED
        BY <1>2, <4>1 DEF KnownDir
    <3>2. root \in Nodes /\ Held(q) \in Nodes /\ Walk(heap, root, q)[Len(q)] = Held(q)
      BY <3>1, HeldWalk
    <3>3. rt = root /\ Kept(heap, g)
      BY <1>3, <3>2, NodesAssumption DEF Looks
    <3>4. /\ heap \in Heaps /\ born \in [Ids -> Paths] /\ born[RootId] = <<>>
          /\ NodesOK(heap, root, cloud) /\ TreeOK(heap, root, born)
      BY DEF TreeInv, Now, Sound, CloudOK
    <3>5. Walk(heap, root, q)[Len(p) - 1] # NoNode /\ q \in Seq(Names) /\ Len(p) - 1 \in 0..Len(q)
      BY <1>1, <1>2, <3>1, <3>2, PathFacts
    <3>6. Walk(g, root, q)[Len(p) - 1] = Walk(heap, root, q)[Len(p) - 1]
      BY <3>2, <3>3, <3>4, <3>5, KeptWalk
    <3>7. g[Held(q)].kind = "dir"
      BY <3>1, <3>2, <3>3 DEF Kept, KeptNode
    <3>. QED
      BY <1>1, <1>2, <3>2, <3>3, <3>6, <3>7
  <2>. QED
    BY <2>1, <2>2
<1>. QED
  BY <1>2, <1>3, <1>4, <1>5

\* mkdir.
LEMMA MakeDirMirrors ==
  ASSUME FailAt = {}, TreeInv, NEW born, Now(born), NEW p \in Paths, NEW e \in Reads,
         NEW f \in Writes, MakeDir(p, e, f)
  PROVE  MirrorStep(born)
<1>1. PICK b : b = Begin(e)
  OBVIOUS
<1>2. Ready(b, born) /\ b.cloud = cloud /\ b.heap = heap /\ b.root = root /\ Sane(b, born)
  BY <1>1, BeginReady DEF Ready
<1>3. PICK r : r = Get(b, p)
  OBVIOUS
<1>4. /\ Roomy /\ p # <<>> /\ KnownDir(Front(p)) /\ r.res = NoNode /\ Unused(cloud) # {}
      /\ Commit(CreateNode(Then(r, f), p, TRUE))
  BY <1>1, <1>3, RoomRoomy DEF MakeDir, Spare, Unused
<1>5. Answers(r, born, p) /\ Looks(b, r, born)
  BY <1>2, <1>3, <1>4, GetGood, GetKeeps
<1>6. /\ Ready(r, born) /\ r.root # NoNode /\ r.cloud = cloud /\ Sane(r, born)
      /\ Misses(r.heap, r.root, p)
  BY <1>2, <1>4, <1>5 DEF Answers, Ready, Looks
<1>7. f = Well
  BY BeginReady
<1>8. PICK t : t = Then(r, Well)
  OBVIOUS
<1>9. Ready(t, born) /\ t.heap = r.heap /\ t.root = r.root /\ t.cloud = cloud
  BY <1>6, <1>8, ThenReady
<1>10. PICK n \in Nodes : Walk(r.heap, r.root, p)[Len(p) - 1] = n /\ r.heap[n].kind = "dir"
  BY <1>2, <1>4, <1>5, <1>6, DirIs
<1>11. PICK u : u = CreateNode(t, p, TRUE)
  OBVIOUS
<1>12. PICK a : Ready(u, a) /\ Begets(cloud, born, u.cloud, a, p)
  <2>1. /\ Misses(t.heap, t.root, p) /\ Walk(t.heap, t.root, p)[Len(p) - 1] = n
        /\ t.heap[n].kind = "dir" /\ Unused(t.cloud) # {} /\ t.root # NoNode
    BY <1>4, <1>6, <1>9, <1>10
  <2>2. \E a : Ready(u, a) /\ Begets(t.cloud, born, u.cloud, a, p)
    BY <1>4, <1>9, <1>11, <2>1, CreateNodeGood
  <2>. QED
    BY <1>9, <2>2
<1>13. Commit(u) /\ Moves(cloud, born, u.cloud, a)
  BY <1>4, <1>7, <1>8, <1>11, <1>12 DEF Moves
<1>. QED
  BY <1>12, <1>13, CommitMirrors

\* createFile, after get() has found nothing.
LEMMA CreateFileGood ==
  ASSUME Roomy, TreeInv, NEW born, Now(born), NEW p \in Paths, p # <<>>, KnownDir(Front(p)),
         NEW b, b.heap = heap, b.root = root, NEW r, Answers(r, born, p), Looks(b, r, born),
         Unused(r.cloud) # {}, r.res = NoNode
  PROVE  LET u == CreateFile(r, p)
         IN \E a : Ready(u, a) /\ Begets(r.cloud, born, u.cloud, a, p)
<1>1. Ready(r, born) /\ r.root # NoNode /\ Misses(r.heap, r.root, p) /\ Sane(r, born) /\ r.ok
  BY DEF Answers, Ready, Good
<1>2. PICK n \in Nodes : /\ Walk(r.heap, r.root, p)[Len(p) - 1] = n /\ r.heap[n].kind = "dir"
                         /\ Walk(r.heap, r.root, Front(p))[Len(p) - 1] = n
  BY <1>1, DirIs
<1>3. PICK q \in Paths : q = Front(p) /\ Len(q) = Len(p) - 1
  BY FrontFacts
<1>4. PICK s : s = Get(r, q)
  OBVIOUS
<1>5. s.heap = r.heap /\ s.root = r.root /\ s.cloud = r.cloud
  <2>1. Walk(r.heap, r.root, q)[Len(q)] # NoNode
    BY <1>2, <1>3, NodesAssumption
  <2>2. Holds(r, s, Walk(r.heap, r.root, q)[Len(q)]) /\ Looks(r, s, born)
    BY <1>1, <1>4, <2>1, GetKeeps
  <2>. QED
    BY <2>2 DEF Holds, Looks
<1>6. Ready(s, born)
  BY <1>1, <1>4, GetGood DEF Answers
<1>7. PICK u : u = CreateNode(s, p, FALSE)
  OBVIOUS
<1>8. \E a : Ready(u, a) /\ Begets(s.cloud, born, u.cloud, a, p)
  <2>1. /\ Misses(s.heap, s.root, p) /\ Walk(s.heap, s.root, p)[Len(p) - 1] = n
        /\ s.heap[n].kind = "dir" /\ Unused(s.cloud) # {} /\ s.root # NoNode
    BY <1>1, <1>2, <1>5
  <2>. QED
    BY <1>6, <1>7, <2>1, CreateNodeGood
<1>9. CreateFile(r, p) = u
  BY <1>3, <1>4, <1>7 DEF CreateFile
<1>. QED
  BY <1>5, <1>8, <1>9

\* create.
LEMMA MakeFileMirrors ==
  ASSUME FailAt = {}, TreeInv, NEW born, Now(born), NEW p \in Paths, NEW e \in Reads,
         NEW f \in Writes, MakeFile(p, e, f)
  PROVE  MirrorStep(born)
<1>1. PICK b : b = Begin(e)
  OBVIOUS
<1>2. Ready(b, born) /\ b.cloud = cloud /\ b.heap = heap /\ b.root = root /\ Sane(b, born)
  BY <1>1, BeginReady DEF Ready
<1>3. PICK r : r = Get(b, p)
  OBVIOUS
<1>4. PICK t : t = Then(r, Well)
  OBVIOUS
<1>5. PICK s : s = Get(t, p)
  OBVIOUS
<1>6. f = Well
  BY BeginReady
<1>7. /\ Roomy /\ p # <<>> /\ KnownDir(Front(p)) /\ Unused(cloud) # {}
      /\ Commit(CreateFile(s, p))
  BY <1>1, <1>3, <1>4, <1>5, <1>6, RoomRoomy DEF MakeFile, Spare, Unused
<1>8. Ready(r, born) /\ Looks(b, r, born) /\ Sane(r, born)
  BY <1>2, <1>3, <1>7, GetGood, GetKeeps DEF Answers, Ready
<1>9. Ready(t, born) /\ Looks(r, t, born) /\ Sane(t, born)
  <2>1. Well \in Reads \cup Writes
    BY DEF Reads
  <2>. QED
    BY <1>4, <1>8, <2>1, ThenReady, ThenLooks DEF Ready
<1>10. Answers(s, born, p) /\ Looks(t, s, born)
  BY <1>5, <1>7, <1>9, GetGood, GetKeeps
<1>11. Looks(b, s, born)
  BY <1>2, <1>8, <1>9, <1>10, LooksTrans
<1>12. s.cloud = cloud
  BY <1>2, <1>11 DEF Looks
<1>13. CASE s.res # NoNode
  <2>1. CreateFile(s, p) = s
    BY <1>13 DEF CreateFile
  <2>. QED
    BY <1>7, <1>10, <1>12, <2>1, LookMirrors DEF Answers
<1>14. CASE s.res = NoNode
  <2>1. PICK u : u = CreateFile(s, p)
    OBVIOUS
  <2>2. \E a : Ready(u, a) /\ Begets(s.cloud, born, u.cloud, a, p)
    BY <1>2, <1>7, <1>10, <1>11, <1>12, <1>14, <2>1, CreateFileGood
  <2>3. PICK a : Ready(u, a) /\ Begets(cloud, born, u.cloud, a, p)
    BY <1>12, <2>2
  <2>4. Commit(u) /\ Moves(cloud, born, u.cloud, a)
    BY <1>7, <2>1, <2>3 DEF Moves
  <2>. QED
    BY <2>3, <2>4, CommitMirrors
<1>. QED
  BY <1>13, <1>14
\* get() makes no request for what is in the tree.
LEMMA HeldGood ==
  ASSUME FailAt = {}, TreeInv, NEW born, Now(born), NEW f \in Reads \cup Writes, NEW p \in Paths,
         p # <<>>, Held(p) # NoNode
  PROVE  LET r == Get(Begin(f), p) IN Ready(r, born) /\ r.heap = heap /\ r.cloud = cloud
<1>1. PICK b : b = Begin(f)
  OBVIOUS
<1>2. /\ Ready(b, born) /\ b.heap = heap /\ b.root = root /\ b.byPath = byPath /\ b.ok /\ b.fuel < 0
      /\ b \in Handlers /\ Sane(b, born)
  BY <1>1, BeginReady DEF Ready, Good, Sane
<1>3. root \in Nodes /\ Held(p) \in Nodes /\ Walk(heap, root, p)[Len(p)] = Held(p)
  BY HeldWalk
<1>4. PICK r : r = Get(b, p)
  OBVIOUS
<1>5. Looks(b, r, born) /\ Holds(b, r, Walk(b.heap, b.root, p)[Len(p)])
  BY <1>2, <1>3, <1>4, GetKeeps, NodesAssumption
<1>6. r.fuel < 0
  <2>1. CASE p \in DOMAIN byPath
    <3>1. r = [b EXCEPT !.res = b.byPath[p]]
      BY <1>2, <1>4, <2>1 DEF Get
    <3>. QED
      BY <1>2, <3>1 DEF Handlers
  <2>2. CASE p \notin DOMAIN byPath
    <3>1. GetRoot(b) = b
      BY <1>2, <1>3, NodesAssumption DEF GetRoot
    <3>2. Get(b, p) = Search(b, p)
      BY <1>2, <2>2, <3>1 DEF Get
    <3>3. Depth(b.heap, b.root, p) = Len(p)
      <4>1. heap \in Heaps /\ p \in Seq(Names)
        BY PathFacts DEF TreeInv
      <4>. QED
        BY <1>2, <1>3, <4>1, DepthFacts, NodesAssumption
    <3>4. r = Insert(b, p, Walk(b.heap, b.root, p)[Len(p)])
      BY <1>4, <3>2, <3>3 DEF Search
    <3>5. r.fuel = b.fuel
      BY <1>2, <3>4 DEF Insert, Handlers
    <3>. QED
      BY <1>2, <3>5
  <2>. QED
    BY <2>1, <2>2
<1>7. Ready(r, born)
  BY <1>2, <1>5, <1>6, SameReady DEF Holds
<1>. QED
  BY <1>1, <1>2, <1>4, <1>5, <1>7, BeginReady DEF Holds, Looks

\* unlink and rmdir.
LEMMA UnlinkMirrors ==
  ASSUME FailAt = {}, TreeInv, NEW born, Now(born), NEW p \in Paths, NEW f \in Writes, Unlink(p, f)
  PROVE  MirrorStep(born)
<1>1. p # <<>> /\ Held(p) # NoNode
  BY DEF Unlink, Known
<1>2. PICK r : r = Get(Begin(f), p)
  OBVIOUS
<1>3. r.res \in Nodes /\ r.heap[r.res].kind # "free" /\ r.res # r.root
  BY <1>1, <1>2, HeldIs DEF Now
<1>4. Ready(r, born) /\ r.heap = heap /\ r.cloud = cloud
  BY <1>1, <1>2, HeldGood
<1>5. PICK t : t = RemoveNodes(r, r.res)
  OBVIOUS
<1>6. Ready(t, born) /\ Cut(cloud, r.heap[r.res].id, t.cloud)
  BY <1>3, <1>4, <1>5, RemoveNodesGood
<1>7. Commit(t)
  BY <1>2, <1>5 DEF Unlink, CommitRemoval
<1>8. Moves(cloud, born, t.cloud, born)
  <2>1. r.heap[r.res].id \in Ids
    BY <1>6 DEF Cut
  <2>. QED
    BY <1>6, <2>1 DEF Moves
<1>. QED
  BY <1>6, <1>7, <1>8, CommitMirrors

\* The last name of a path that has got one more.
LEMMA LastAppended ==
  ASSUME NEW s \in Seq(Names \cup {NoName}), NEW x \in Names \cup {NoName}, NEW q, q = Append(s, x)
  PROVE  Last(q) = x
BY DEF Last

\* A path is its directory and its last name.
LEMMA LastFacts ==
  ASSUME NEW p \in Paths, p # <<>>
  PROVE  p = Append(Front(p), Last(p))
<1>1. p \in Seq(Names) /\ Front(p) = SubSeq(p, 1, Len(p) - 1)
  BY FrontFacts
<1>2. Last(p) = p[Len(p)]
  BY Zenon DEF Last
<1>. QED
  BY <1>1, <1>2

\* The node t of the tree, an entry of m, is the file of the path q.
FileAt(r, born, t, q, m) ==
  /\ Ready(r, born) /\ r.root # NoNode /\ t \in Nodes /\ r.heap[t].kind = "file"
  /\ q \in Paths /\ q # <<>> /\ born[r.heap[t].id] = q /\ m = r.heap[t].parent

\* The directory of a node that is there has been read, and is where the node's path says.
LEMMA ParentRead ==
  ASSUME NEW r, NEW born, NEW t, NEW q, NEW m, FileAt(r, born, t, q, m)
  PROVE  /\ m \in Nodes /\ r.heap[m].kind = "dir" /\ r.heap[m].filled
         /\ q = Append(born[r.heap[m].id], Last(q))
<1>. /\ Ready(r, born) /\ r.root # NoNode /\ t \in Nodes /\ r.heap[t].kind = "file"
     /\ q \in Paths /\ q # <<>> /\ born[r.heap[t].id] = q
     /\ m = r.heap[t].parent
  BY DEF FileAt
<1>0. PICK h \in Heaps, c \in Clouds, rt \in Nodes : h = r.heap /\ c = r.cloud /\ rt = r.root
  BY DEF Ready, Sane, Handlers
<1>1. /\ NodesOK(h, rt, c) /\ TreeOK(h, rt, born) /\ Mirrored(c, h, rt) /\ Calm(r, born)
      /\ born \in [Ids -> Paths]
  BY <1>0 DEF Ready, Sane, Sound, Mirrors, DriveTree, Calm
<1>2. t # rt
  BY <1>0, <1>1, FileNode
<1>3. m \in Nodes /\ Has(h, m, t)
  BY <1>0, <1>1, <1>2, ParentIs
<1>4. h[m].filled /\ h[m].kind = "dir"
  <2>1. ReadOrEmpty(c, h, m)
    BY <1>1, <1>3 DEF Mirrored
  <2>2. PICK k \in 1..Len(h[m].next) : h[m].next[k] = t
    BY <1>3 DEF Has
  <2>3. h[m].next # <<>>
    BY <2>2
  <2>. QED
    BY <2>1, <2>3, Zenon DEF ReadOrEmpty
<1>5. q = Append(born[h[m].id], h[t].name)
  <2>1. PICK k \in 1..Len(h[m].next) : h[m].next[k] = t
    BY <1>3 DEF Has
  <2>2. Entered(h, rt, born, m, t)
    BY <1>1, <1>3, <2>1 DEF TreeOK, ListOK
  <2>. QED
    BY <1>0, <2>2 DEF Entered
<1>6. PICK s \in Seq(Names \cup {NoName}), x \in Names \cup {NoName} :
        s = born[h[m].id] /\ x = h[t].name
  <2>1. h[m].id \in Ids /\ h[t].name \in Names \cup {NoName}
    BY <1>3 DEF Heaps, NodeRecords
  <2>2. born[h[m].id] \in Paths
    BY <1>1, <2>1
  <2>3. PICK s : s = born[h[m].id]
    OBVIOUS
  <2>4. s \in Seq(Names \cup {NoName})
    <3>1. s \in Seq(Names)
      BY <2>2, <2>3, PathFacts
    <3>. QED
      BY <3>1
  <2>. QED
    BY <2>1, <2>3, <2>4
<1>7. Last(q) = h[t].name
  <2>1. q = Append(s, x)
    BY <1>5, <1>6
  <2>2. Last(q) = x
    BY <2>1, LastAppended
  <2>. QED
    BY <1>6, <2>2, Zenon
<1>. QED
  BY <1>0, <1>3, <1>4, <1>5, <1>7

\* renameNode, after get() has found the node n of the old path, and what is at the new.
LEMMA PlaceGood ==
  ASSUME Roomy, AssertsOn, TreeInv, NEW born, Now(born), NEW q \in Paths, q # <<>>,
         KnownDir(Front(q)), NEW b, b.heap = heap, b.root = root,
         NEW r, Answers(r, born, q), Looks(b, r, born),
         NEW n \in Nodes, r.heap[n].kind = "file", ~IsPrefix(born[r.heap[n].id], q),
         r.res # NoNode => r.heap[r.res].kind = "file", NEW u, u = Place(r, n, q)
  PROVE  \E a : /\ Ready(u, a) /\ Renamed(r.cloud, born, u.cloud, a, r.heap[n].id, q)
                /\ Outlives(r.heap, u.heap, r.res)
<1>1. /\ Ready(r, born) /\ r.root # NoNode /\ Sane(r, born) /\ r.ok /\ r \in Handlers
      /\ Found(r, q, Len(q)) /\ (r.res = NoNode => Misses(r.heap, r.root, q))
  BY DEF Answers, Ready, Good, Sane
<1>2. CASE r.res # NoNode
  <2>1. PICK t \in Nodes : t = r.res
    BY <1>1, <1>2 DEF Handlers
  <2>2. r.heap[t].kind = "file" /\ born[r.heap[t].id] = q
    BY <1>1, <1>2, <2>1, FoundLive
  <2>3. PICK m : m = r.heap[t].parent
    OBVIOUS
  <2>4. Movable(r, born, n, m, q)
    <3>1. /\ m \in Nodes /\ r.heap[m].kind = "dir" /\ r.heap[m].filled
          /\ q = Append(born[r.heap[m].id], Last(q))
      <4>1. FileAt(r, born, t, q, m)
        BY <1>1, <2>2, <2>3 DEF FileAt
      <4>. QED
        BY <4>1, ParentRead
    <3>. QED
      BY <1>1, <3>1, Zenon DEF Movable
  <2>5. u = Move(r, n, m, t, Last(q))
    BY <1>2, <2>1, <2>3 DEF Place
  <2>6. \E a : /\ Ready(u, a) /\ Renamed(r.cloud, born, u.cloud, a, r.heap[n].id, q)
               /\ Outlives(r.heap, u.heap, t)
    BY <2>2, <2>4, <2>5, ReplaceGood
  <2>. QED
    BY <2>1, <2>6
<1>3. CASE r.res = NoNode
  <2>1. PICK m \in Nodes : /\ Walk(r.heap, r.root, q)[Len(q) - 1] = m /\ r.heap[m].kind = "dir"
                           /\ Walk(r.heap, r.root, Front(q))[Len(q) - 1] = m
    BY <1>1, DirIs
  <2>2. PICK f \in Paths : f = Front(q) /\ Len(f) = Len(q) - 1
    BY FrontFacts
  <2>3. PICK s : s = Get(r, f)
    OBVIOUS
  <2>4. Walk(r.heap, r.root, f)[Len(f)] = m /\ m # NoNode
    BY <2>1, <2>2, NodesAssumption
  <2>5. s.heap = r.heap /\ s.root = r.root /\ s.cloud = r.cloud /\ s.res = m
    <3>1. Holds(r, s, Walk(r.heap, r.root, f)[Len(f)]) /\ Looks(r, s, born)
      BY <1>1, <2>3, <2>4, GetKeeps
    <3>. QED
      BY <2>4, <3>1 DEF Holds, Looks
  <2>6. Ready(s, born)
    BY <1>1, <2>3, GetGood DEF Answers
  <2>7. r.heap[m].filled
    <3>1. r.heap \in Heaps /\ r.root \in Nodes /\ q \in Seq(Names)
      BY <1>1, PathFacts DEF Handlers
    <3>2. Settled(r.heap, m)
      BY <1>1, <1>3, <2>1, <3>1, MissAt
    <3>. QED
      BY <2>1, <3>2 DEF Settled
  <2>8. born[r.heap[m].id] = f
    <3>1. /\ r.heap \in Heaps /\ r.root \in Nodes /\ f \in Seq(Names) /\ born \in [Ids -> Paths]
          /\ born[RootId] = <<>> /\ NodesOK(r.heap, r.root, r.cloud) /\ TreeOK(r.heap, r.root, born)
      BY <1>1, PathFacts DEF Handlers, Sane, Sound, CloudOK
    <3>. QED
      BY <2>4, <3>1, WalkEnds
  <2>9. Movable(s, born, n, m, q)
    <3>1. q = Append(f, Last(q))
      BY <2>2, LastFacts
    <3>. QED
      BY <1>1, <2>1, <2>5, <2>6, <2>7, <2>8, <3>1 DEF Movable
  <2>10. \A j \in Ids : Exists(s.cloud, j) => born[j] # q
    BY <1>1, <1>3, <2>5, MissNoFile
  <2>11. u = Move(s, n, m, NoNode, Last(q))
    BY <1>3, <2>2, <2>3, <2>4, <2>5 DEF Place, Enter
  <2>12. \E a : /\ Ready(u, a) /\ Renamed(s.cloud, born, u.cloud, a, s.heap[n].id, q)
                /\ Outlives(s.heap, u.heap, NoNode)
    BY <2>9, <2>10, <2>11, EnterGood
  <2>. QED
    BY <1>3, <2>5, <2>12
<1>. QED
  BY <1>2, <1>3

\* get() answers what another get() has answered, when nothing has changed between them.
LEMMA SameAnswer ==
  ASSUME Roomy, NEW r, NEW born, NEW q \in Paths, Answers(r, born, q), NEW s, Ready(s, born),
         s.heap = r.heap, s.root = r.root, s.cloud = r.cloud, NEW v, v = Get(s, q)
  PROVE  v.res = r.res
<1>1. /\ Ready(r, born) /\ r.root # NoNode /\ Found(r, q, Len(q)) /\ r.ok /\ Sane(r, born)
      /\ (r.res = NoNode => Misses(r.heap, r.root, q))
  BY DEF Answers, Ready, Good
<1>2. Sane(s, born) /\ s.ok
  BY DEF Ready, Good
<1>3. CASE r.res # NoNode
  <2>1. Walk(s.heap, s.root, q)[Len(q)] = r.res
    BY <1>1, <1>3 DEF Found
  <2>2. Holds(s, v, Walk(s.heap, s.root, q)[Len(q)])
    BY <1>1, <1>2, <1>3, <2>1, GetKeeps
  <2>. QED
    BY <2>1, <2>2 DEF Holds
<1>4. CASE r.res = NoNode
  <2>. SUFFICES ASSUME v.res # NoNode PROVE FALSE
    BY <1>4
  <2>1. Answers(v, born, q) /\ Looks(s, v, born)
    BY <1>2, GetGood, GetKeeps
  <2>2. v.res \in Nodes /\ v.heap[v.res].kind # "free" /\ born[v.heap[v.res].id] = q
    BY <2>1, FoundLive DEF Answers, Ready
  <2>3. Exists(v.cloud, v.heap[v.res].id) /\ v.heap[v.res].id \in Ids
    <3>1. Shows(v.cloud, v.heap, v.root, v.res) /\ v.heap \in Heaps
      BY <2>1, <2>2 DEF Answers, Ready, Sane, Handlers, Mirrors, Mirrored
    <3>. QED
      BY <2>2, <3>1 DEF Shows, Heaps, NodeRecords
  <2>4. Exists(r.cloud, v.heap[v.res].id)
    BY <2>1, <2>3 DEF Looks
  <2>. QED
    BY <1>1, <1>4, <2>2, <2>3, <2>4, MissNoFile
<1>. QED
  BY <1>3, <1>4

\* What a rename to q does: the file has become q, the tree mirrors the drive, the handles
\* of what was at q, t, are closed, and every other node is there still.
Renaming(born, q) ==
  \E u, b, i, t :
    /\ Ready(u, b) /\ Commit(u) /\ Renamed(cloud, born, u.cloud, b, i, q)
    /\ Outlives(heap, u.heap, t)
    /\ fh' = [h \in Handles |-> IF fh[h].node = t THEN Closed ELSE fh[h]]

\* rename of a file, after the kernel's lookup of the new path.
LEMMA RenameGood ==
  ASSUME FailAt = {}, AssertsOn, Renames # "all", TreeInv, NEW born, Now(born),
         NEW p \in Paths, NEW q \in Paths, NEW e \in Reads, NEW f \in Writes, Rename(p, q, e, f)
  PROVE  Renaming(born, q)
<1>1. /\ p # <<>> /\ Held(p) # NoNode /\ ~IsPrefix(p, q) /\ q # <<>> /\ KnownDir(Front(q)) /\ Room
      /\ heap[Held(p)].kind # "dir"
  BY DEF Rename, Known
<1>2. Roomy
  BY <1>1, RoomRoomy
<1>3. PICK n \in Nodes : n = Held(p) /\ Walk(heap, root, p)[Len(p)] = n /\ root \in Nodes
  BY <1>1, HeldWalk
<1>4. /\ heap \in Heaps /\ born \in [Ids -> Paths] /\ born[RootId] = <<>>
      /\ NodesOK(heap, root, cloud) /\ TreeOK(heap, root, born) /\ p \in Seq(Names)
      /\ n # NoNode /\ root # NoNode
  BY <1>3, PathFacts, NodesAssumption DEF TreeInv, Now, Sound, CloudOK
<1>5. heap[n].kind = "file" /\ born[heap[n].id] = p
  <2>1. heap[n].kind # "free" /\ born[heap[n].id] = p
    BY <1>3, <1>4, WalkEnds
  <2>. QED
    BY <1>1, <1>3, <1>4, <2>1 DEF Heaps, NodeRecords, Kinds
<1>6. PICK a : a = Begin(e)
  OBVIOUS
<1>7. Ready(a, born) /\ a.cloud = cloud /\ a.heap = heap /\ a.root = root /\ f = Well
  BY <1>6, BeginReady
<1>8. PICK r : r = Get(a, q)
  OBVIOUS
<1>9. Answers(r, born, q) /\ Looks(a, r, born) /\ Ready(r, born) /\ Sane(a, born) /\ Sane(r, born)
  BY <1>2, <1>7, <1>8, GetGood, GetKeeps DEF Answers, Ready
<1>10. PICK t : t = Then(r, f)
  OBVIOUS
<1>11. Ready(t, born) /\ t.heap = r.heap /\ t.root = r.root /\ t.cloud = r.cloud
  BY <1>7, <1>9, <1>10, ThenReady
<1>12. r.root = root /\ r.cloud = cloud /\ Kept(heap, r.heap) /\ r.heap \in Heaps
  BY <1>4, <1>7, <1>9 DEF Looks, Sane, Handlers
<1>13. Walk(r.heap, root, p)[Len(p)] = n
  <2>1. Walk(r.heap, root, p)[Len(p)] = Walk(heap, root, p)[Len(p)]
    <3>1. Len(p) \in 0..Len(p)
      BY <1>4
    <3>. QED
      BY <1>3, <1>4, <1>12, <3>1, KeptWalk
  <2>. QED
    BY <1>3, <2>1
<1>14. PICK s : s = Get(t, p)
  OBVIOUS
<1>15. /\ Ready(s, born) /\ s.heap = r.heap /\ s.root = r.root /\ s.cloud = r.cloud /\ s.res = n
       /\ Looks(t, s, born)
  <2>1. Walk(t.heap, t.root, p)[Len(p)] = n
    BY <1>11, <1>12, <1>13
  <2>2. Sane(t, born) /\ t.ok /\ t.root # NoNode
    BY <1>4, <1>11, <1>12 DEF Ready, Good
  <2>3. Holds(t, s, Walk(t.heap, t.root, p)[Len(p)]) /\ Looks(t, s, born)
    BY <1>4, <1>14, <2>1, <2>2, GetKeeps
  <2>4. Ready(s, born)
    BY <1>2, <1>11, <1>14, GetGood DEF Answers
  <2>. QED
    BY <1>11, <2>1, <2>3, <2>4 DEF Holds, Looks
<1>16. PICK v : v = Get(s, q)
  OBVIOUS
<1>17. v.res = r.res
  BY <1>2, <1>9, <1>15, <1>16, SameAnswer
<1>18. Answers(v, born, q) /\ Looks(s, v, born)
  BY <1>2, <1>15, <1>16, GetGood, GetKeeps DEF Ready
<1>19. Looks(a, v, born) /\ v.heap \in Heaps
  <2>1. Looks(r, t, born)
    BY <1>7, <1>9, <1>10, ThenLooks
  <2>2. Looks(a, t, born)
    BY <1>9, <2>1, LooksTrans
  <2>3. Looks(a, s, born)
    BY <1>9, <1>15, <2>2, LooksTrans
  <2>. QED
    BY <1>9, <1>18, <2>3, LooksTrans DEF Looks, Sane, Handlers
<1>20. v.cloud = cloud /\ Kept(heap, v.heap) /\ v.heap[n].kind = "file" /\ v.heap[n].id = heap[n].id
  <2>1. v.cloud = cloud /\ Kept(heap, v.heap)
    BY <1>7, <1>19 DEF Looks
  <2>. QED
    BY <1>5, <2>1 DEF Kept, KeptNode
<1>21. v.res # NoNode => v.heap[v.res].kind = "file"
  <2>. SUFFICES ASSUME r.res # NoNode PROVE v.heap[r.res].kind = "file"
    BY <1>17
  <2>1. r.heap[r.res].kind = "file"
    BY <1>3, <1>5, <1>6, <1>8 DEF Rename
  <2>2. r.res \in Nodes
    BY <1>9 DEF Sane, Handlers
  <2>3. Kept(s.heap, v.heap)
    BY <1>18 DEF Looks
  <2>. QED
    BY <1>15, <2>1, <2>2, <2>3 DEF Kept, KeptNode
<1>22. PICK u : u = Place(v, n, q)
  OBVIOUS
<1>23. PICK b : /\ Ready(u, b) /\ Renamed(v.cloud, born, u.cloud, b, v.heap[n].id, q)
                /\ Outlives(v.heap, u.heap, v.res)
  <2>1. ~IsPrefix(born[v.heap[n].id], q)
    BY <1>1, <1>5, <1>20
  <2>2. KnownDir(Front(q)) /\ q # <<>> /\ a.heap = heap /\ a.root = root
    BY <1>1, <1>7
  <2>. QED
    BY <1>2, <1>18, <1>19, <1>20, <1>21, <1>22, <2>1, <2>2, PlaceGood
<1>24. CommitRemoval(u, r.res)
  <2>1. RenameNode(t, p, q) = u
    BY <1>4, <1>14, <1>15, <1>16, <1>22 DEF RenameNode
  <2>. QED
    BY <1>6, <1>8, <1>10, <2>1 DEF Rename
<1>25. fh' = [h \in Handles |-> IF fh[h].node = r.res THEN Closed ELSE fh[h]]
  <2>1. u.ok
    BY <1>23 DEF Ready, Good
  <2>. QED
    BY <1>24, <2>1 DEF CommitRemoval
<1>26. Outlives(heap, u.heap, r.res)
  BY <1>17, <1>20, <1>23 DEF Outlives, Kept, KeptNode
<1>. QED
  BY <1>20, <1>23, <1>24, <1>25, <1>26 DEF Renaming, CommitRemoval

\* Nothing is renamed but files, and only when assertions are compiled in.
FilesOnly == Renames # "all" /\ (AssertsOn \/ Renames = "none")

LEMMA FilesRenamed ==
  ASSUME FilesOnly, NEW p, NEW q, NEW e, NEW f, Rename(p, q, e, f)
  PROVE  AssertsOn /\ Renames # "all"
BY DEF FilesOnly, Rename

\* Every step keeps the tree a mirror of the drive.
LEMMA NextMirrors ==
  ASSUME FilesOnly, FailAt = {}, TreeInv, NEW born, Now(born), [Next]_vars
  PROVE  MirrorStep(born)
<1>1. CASE UNCHANGED vars
  BY <1>1 DEF vars, Now, MirrorStep, Moves
<1>2. ASSUME NEW p \in Paths, NEW f \in Reads, Lookup(p, f) \/ List(p, f)
      PROVE  MirrorStep(born)
  BY <1>2, LookupMirrors, ListMirrors
<1>3. ASSUME NEW h \in Handles, Close(h)
      PROVE  MirrorStep(born)
  BY <1>3 DEF Close, Now, MirrorStep, Moves
<1>4. ASSUME NEW h \in Handles, NEW f \in Reads, ListOpen(h, f)
      PROVE  MirrorStep(born)
  BY <1>4, ListOpenMirrors
<1>5. ASSUME NEW h \in Handles, NEW f \in Reads, NEW p \in Paths, Open(h, p, f)
      PROVE  MirrorStep(born)
  BY <1>5, OpenMirrors
<1>6. ASSUME NEW p \in Paths, NEW f \in Writes, Unlink(p, f)
      PROVE  MirrorStep(born)
  BY <1>6, UnlinkMirrors
<1>7. ASSUME NEW p \in Paths, NEW f \in Writes, NEW e \in Reads,
             MakeDir(p, e, f) \/ MakeFile(p, e, f)
      PROVE  MirrorStep(born)
  BY <1>7, MakeDirMirrors, MakeFileMirrors
<1>8. ASSUME NEW p \in Paths, NEW q \in Paths, NEW e \in Reads, NEW f \in Writes, Rename(p, q, e, f)
      PROVE  MirrorStep(born)
  <2>1. PICK u, b, i, t : Ready(u, b) /\ Commit(u) /\ Renamed(cloud, born, u.cloud, b, i, q)
    BY <1>8, FilesRenamed, RenameGood DEF Renaming
  <2>. QED
    BY <2>1, CommitMirrors DEF Moves
<1>9. CASE Remount
  BY <1>9, FreshMirrors DEF Remount
<1>10. CASE Next
  <2>1. CASE \E p \in Paths, f \in Reads : Lookup(p, f) \/ List(p, f)
    BY <1>2, <2>1
  <2>2. CASE \E h \in Handles :
               \/ Close(h)
               \/ \E f \in Reads : ListOpen(h, f) \/ \E p \in Paths : Open(h, p, f)
    BY <1>3, <1>4, <1>5, <2>2
  <2>3. CASE \E p \in Paths, f \in Writes :
               \/ Unlink(p, f)
               \/ \E e \in {w \in Reads : w = Well \/ f = Well} :
                    \/ MakeDir(p, e, f) \/ MakeFile(p, e, f)
                    \/ \E q \in Paths : Rename(p, q, e, f)
    BY <1>6, <1>7, <1>8, <2>3
  <2>. QED
    BY <1>9, <1>10, <2>1, <2>2, <2>3 DEF Next
<1>. QED
  BY <1>1, <1>10

\* What a rename of a file leaves of the types and of the handles, and what it takes from
\* the drive.
LEMMA RenamingKeeps ==
  ASSUME TreeInv, NEW born, Now(born), NEW q \in Paths, Renaming(born, q)
  PROVE  /\ TreeInv' /\ (HandlesValid => HandlesValid')
         /\ \A i \in Ids : Exists(cloud, i) /\ ~Exists(cloud', i) =>
                             \E j \in CloudAt(cloud, q) : i \in Under(cloud, j)
<1>1. PICK u, b, i, t : /\ Ready(u, b) /\ Commit(u) /\ Renamed(cloud, born, u.cloud, b, i, q)
                        /\ Outlives(heap, u.heap, t)
                        /\ fh' = [h \in Handles |-> IF fh[h].node = t THEN Closed ELSE fh[h]]
  BY DEF Renaming
<1>2. u \in Handlers /\ Sound(u.cloud, u.heap, u.root, u.byPath, u.pathOf, b)
  BY <1>1 DEF Ready, Sane
<1>3. TreeInv'
  <2>1. fh' \in [Handles -> [node : Nodes, id : Ids] \cup {Closed}]
    BY <1>1 DEF TreeInv
  <2>2. Sound(cloud', heap', root', byPath', pathOf', b)
    BY <1>1, <1>2 DEF Commit
  <2>. QED
    BY <1>1, <1>2, <2>1, <2>2 DEF Commit, Handlers, TreeInv
<1>4. ASSUME HandlesValid
      PROVE  HandlesValid'
  <2>. SUFFICES ASSUME NEW h \in Handles, fh'[h] # Closed
                PROVE  heap'[fh'[h].node].kind # "free" /\ heap'[fh'[h].node].id = fh'[h].id
    BY DEF HandlesValid, Valid
  <2>1. fh'[h] = fh[h] /\ fh[h].node # t
    BY <1>1
  <2>2. PICK y \in Nodes : y = fh[h].node
    BY <2>1 DEF TreeInv
  <2>3. heap[y].kind # "free" /\ heap[y].id = fh[h].id
    BY <1>4, <2>1, <2>2 DEF HandlesValid, Valid
  <2>4. u.heap[y].kind = heap[y].kind /\ u.heap[y].id = heap[y].id
    BY <1>1, <2>1, <2>2, <2>3 DEF Outlives
  <2>. QED
    BY <1>1, <2>1, <2>2, <2>3, <2>4 DEF Commit
<1>5. ASSUME NEW j \in Ids, Exists(cloud, j), ~Exists(cloud', j)
      PROVE  j \in CloudAt(cloud, q) /\ j \in Under(cloud, j)
  <2>1. /\ cloud \in Clouds /\ born \in [Ids -> Paths] /\ CloudOK(cloud, born)
        /\ q \in Seq(Names)
    BY PathFacts DEF TreeInv, Now, Sound
  <2>2. born[j] = q
    BY <1>1, <1>5, <2>1, RenamedIs DEF Commit
  <2>. QED
    BY <1>5, <2>1, <2>2, DriveAt, UnderFacts
<1>. QED
  BY <1>3, <1>4, <1>5

\* A step is a rename of a file, or one that StepKeeps is about.
LEMMA NextIs ==
  ASSUME FilesOnly, FailAt = {}, TreeInv, NEW born, Now(born), [Next]_vars
  PROVE  \/ StepOK
         \/ \E p, q \in Paths, e \in Reads, f \in Writes : Rename(p, q, e, f) /\ Renaming(born, q)
<1>1. CASE \E p, q \in Paths, e \in Reads, f \in Writes : Rename(p, q, e, f)
  BY <1>1, FilesRenamed, RenameGood
<1>2. CASE \A p, q \in Paths, e \in Reads, f \in Writes : ~Rename(p, q, e, f)
  BY <1>2, StepKeeps
<1>. QED
  BY <1>1, <1>2

\* The invariant is inductive.
LEMMA NextMirrorInv ==
  ASSUME FilesOnly, FailAt = {}, MirrorInv, [Next]_vars
  PROVE  MirrorInv'
<1>1. PICK born : Now(born)
  BY DEF MirrorInv
<1>2. TreeInv'
  BY <1>1, NextIs, RenamingKeeps DEF MirrorInv, StepOK
<1>3. PICK b : /\ Sound(cloud', heap', root', byPath', pathOf', b)
               /\ Mirrors(cloud', heap', root', b)
  BY <1>1, NextMirrors DEF MirrorInv, MirrorStep
<1>. QED
  BY <1>2, <1>3 DEF MirrorInv, Now

\* What the drive may hold at first is a tree.
LEMMA InitTree ==
  ASSUME NEW c \in Drives, TreeOf(c), NEW born \in [Ids -> Paths], CloudOK(c, born)
  PROVE  DriveTree(c, born)
<1>1. c \in Clouds
  BY DriveBorn
<1>2. c[RootId].kind = "dir"
  BY IdsAssumption DEF Drives, Unborn
<1>3. \A i \in Ids \ {RootId} : Exists(c, i) => c[c[i].parent].kind = "dir"
  BY DEF TreeOf
<1>4. ASSUME NEW i \in Ids, NEW j \in Ids, Exists(c, i), Exists(c, j), born[i] = born[j], i # RootId
      PROVE  i = j
  <2>1. PICK p \in Paths : CloudAt(c, p) = {i}
    BY <1>4 DEF TreeOf
  <2>2. p \in Seq(Names)
    BY PathFacts
  <2>3. born[i] = p
    BY <1>1, <2>1, <2>2, DriveAt
  <2>4. j \in CloudAt(c, p)
    BY <1>1, <1>4, <2>2, <2>3, DriveAt
  <2>. QED
    BY <2>1, <2>4
<1>. QED
  BY <1>2, <1>3, <1>4 DEF DriveTree, Folders

\* At first nothing has been read.
LEMMA InitMirrors == Init => MirrorInv
<1>. SUFFICES ASSUME Init
              PROVE  MirrorInv
  OBVIOUS
<1>1. TreeInv
  BY InitInv
<1>2. PICK born : Sound(cloud, heap, root, byPath, pathOf, born)
  BY <1>1 DEF TreeInv
<1>3. DriveTree(cloud, born)
  BY <1>2, InitTree DEF Init, Sound
<1>4. \A n \in Nodes : heap[n] = Free
  BY DEF Init
<1>5. Mirrors(cloud, heap, root, born)
  BY <1>3, <1>4 DEF Free, Mirrors, Mirrored, OneNode, Shows, ReadOrEmpty
<1>. QED
  BY <1>1, <1>2, <1>5 DEF MirrorInv, Now

-----------------------------------------------------------------------------
(* What it implies. *)

\* A list without repetitions of all of a set is as long as the set has members.
LEMMA LengthIs ==
  ASSUME NEW l \in Seq(Nodes), NEW C, NEW f \in [1..Len(l) -> C],
         \A j, k \in 1..Len(l) : f[j] = f[k] => j = k,
         \A i \in C : \E k \in 1..Len(l) : f[k] = i
  PROVE  Len(l) = Cardinality(C)
<1>1. Len(l) \in Nat
  OBVIOUS
<1>2. IsFiniteSet(1..Len(l)) /\ Cardinality(1..Len(l)) = Len(l)
  <2>1. PICK N \in Nat : N = Len(l)
    BY <1>1
  <2>2. IsFiniteSet(1..N) /\ Cardinality(1..N) = IF 1 > N THEN 0 ELSE N - 1 + 1
    BY FS_Interval
  <2>3. Cardinality(1..N) = N
    BY <2>2
  <2>. QED
    BY <2>1, <2>2, <2>3
<1>3. f \in Bijection(1..Len(l), C)
  BY DEF Bijection, Injection, Surjection, IsInjective
<1>4. ExistsBijection(1..Len(l), C)
  BY <1>3 DEF ExistsBijection
<1>. QED
  BY <1>2, <1>4, FS_Bijection

\* The invariant makes the tree mirror the drive: entries are counted.
LEMMA InvMirrors == MirrorInv => TreeMirrorsDrive
<1>. SUFFICES ASSUME MirrorInv, NEW n \in Live
              PROVE  LET next == heap[n].next IN
                       /\ ~heap[n].filled => next = <<>>
                       /\ heap[n].filled =>
                            /\ {heap[m].id : m \in ToSet(next)} = Children(cloud, heap[n].id)
                            /\ Len(next) = Cardinality(Children(cloud, heap[n].id))
                            /\ \A m \in ToSet(next) : LET i == heap[m].id IN
                                 heap[m].name = cloud[i].name /\ heap[m].kind = cloud[i].kind
  BY DEF TreeMirrorsDrive
<1>1. PICK born : Now(born)
  BY DEF MirrorInv
<1>2. /\ heap \in Heaps /\ cloud \in Clouds /\ born \in [Ids -> Paths] /\ CloudOK(cloud, born)
      /\ NodesOK(heap, root, cloud) /\ TreeOK(heap, root, born) /\ OneNode(heap)
      /\ \A y \in Nodes : Shows(cloud, heap, root, y) /\ ReadOrEmpty(cloud, heap, y)
      /\ n \in Nodes /\ heap[n].kind # "free"
  BY <1>1 DEF MirrorInv, TreeInv, Now, Sound, Mirrors, Mirrored, Live
<1>3. PICK l \in Seq(Nodes) : l = heap[n].next
  BY <1>2 DEF Heaps, NodeRecords
<1>4. PICK C : C = Children(cloud, heap[n].id)
  OBVIOUS
<1>5. ToSet(l) = {l[k] : k \in 1..Len(l)} /\ \A k \in 1..Len(l) : l[k] \in Nodes
  BY DEF ToSet
<1>6. ASSUME NEW k \in 1..Len(l)
      PROVE  /\ heap[l[k]].id \in C /\ heap[l[k]].kind # "free"
             /\ heap[l[k]].name = cloud[heap[l[k]].id].name
             /\ heap[l[k]].kind = cloud[heap[l[k]].id].kind
  <2>1. PICK m \in Nodes : m = l[k]
    BY <1>5
  <2>2. Has(heap, n, m)
    BY <1>3, <2>1 DEF Has
  <2>3. /\ heap[m].kind # "free" /\ m # root
        /\ Exists(cloud, heap[m].id) => heap[m].id \in Children(cloud, heap[n].id)
    BY <1>2, <2>2, EntryFile
  <2>4. Exists(cloud, heap[m].id) /\ cloud[heap[m].id].kind = heap[m].kind /\ cloud[heap[m].id].name = heap[m].name
    BY <1>2, <2>3 DEF Shows
  <2>. QED
    BY <1>4, <2>1, <2>3, <2>4
<1>7. \A j, k \in 1..Len(l) : heap[l[j]].id = heap[l[k]].id => j = k
  <2>. SUFFICES ASSUME NEW j \in 1..Len(l), NEW k \in 1..Len(l), heap[l[j]].id = heap[l[k]].id
                PROVE  j = k
    OBVIOUS
  <2>1. l[j] = l[k]
    BY <1>2, <1>5, <1>6 DEF OneNode
  <2>. QED
    BY <1>2, <1>3, <2>1 DEF TreeOK, ListOK
<1>8. ASSUME heap[n].filled
      PROVE  /\ {heap[m].id : m \in ToSet(l)} = C /\ Len(l) = Cardinality(C)
             /\ \A m \in ToSet(l) : heap[m].name = cloud[heap[m].id].name
                                    /\ heap[m].kind = cloud[heap[m].id].kind
  <2>1. \A i \in C : \E k \in 1..Len(l) : heap[l[k]].id = i
    BY <1>2, <1>3, <1>4, <1>8 DEF ReadOrEmpty, Whole, IdsIn
  <2>2. {heap[m].id : m \in ToSet(l)} = C
    BY <1>5, <1>6, <2>1
  <2>3. Len(l) = Cardinality(C)
    <3>1. PICK f : f = [k \in 1..Len(l) |-> heap[l[k]].id]
      OBVIOUS
    <3>2. f \in [1..Len(l) -> C]
      BY <1>6, <3>1
    <3>3. /\ \A j, k \in 1..Len(l) : f[j] = f[k] => j = k
          /\ \A i \in C : \E k \in 1..Len(l) : f[k] = i
      BY <1>7, <2>1, <3>1
    <3>. QED
      BY <3>2, <3>3, LengthIs
  <2>. QED
    BY <1>5, <1>6, <2>2, <2>3
<1>9. ~heap[n].filled => l = <<>>
  BY <1>2, <1>3 DEF ReadOrEmpty
<1>. QED
  BY <1>3, <1>4, <1>8, <1>9

\* The invariant makes a getattr answer what the drive has.
LEMMA InvAnswers ==
  ASSUME FailAt = {}
  PROVE  MirrorInv => LookupAnswersDrive
<1>. SUFFICES ASSUME MirrorInv, NEW p \in Paths, Room
              PROVE  LET r == Get(Begin(Well), p)
                     IN CloudAt(cloud, p) = IF r.res = NoNode THEN {} ELSE {r.heap[r.res].id}
  BY DEF LookupAnswersDrive
<1>1. PICK born : Now(born)
  BY DEF MirrorInv
<1>2. PICK b : b = Begin(Well)
  OBVIOUS
<1>3. Ready(b, born) /\ b.cloud = cloud /\ Sane(b, born)
  <2>1. Well \in Reads \cup Writes
    BY DEF Reads
  <2>. QED
    BY <1>1, <1>2, <2>1, BeginReady DEF MirrorInv, Ready
<1>4. PICK r : r = Get(b, p)
  OBVIOUS
<1>5. Answers(r, born, p) /\ r.cloud = cloud
  BY <1>3, <1>4, RoomRoomy, GetGood, GetKeeps DEF Looks
<1>6. Ready(r, born) /\ Sane(r, born) /\ r.root # NoNode /\ Found(r, p, Len(p))
  BY <1>5 DEF Answers, Ready
<1>7. /\ cloud \in Clouds /\ born \in [Ids -> Paths] /\ CloudOK(cloud, born) /\ p \in Seq(Names)
      /\ DriveTree(cloud, born)
  BY <1>1, PathFacts DEF MirrorInv, TreeInv, Now, Sound, Mirrors, Mirrored
<1>8. CloudAt(cloud, p) \subseteq Ids
  <2>1. PICK g : CloudAt(cloud, p) = g[Len(p)] /\ \A d \in 0..Len(p) : g[d] \subseteq Ids
    BY <1>7, CloudRun
  <2>2. Len(p) \in 0..Len(p)
    BY <1>7
  <2>. QED
    BY <2>1, <2>2
<1>9. \A i \in Ids : i \in CloudAt(cloud, p) <=> Exists(cloud, i) /\ born[i] = p
  BY <1>7, DriveAt
<1>10. CASE r.res = NoNode
  <2>1. \A i \in Ids : Exists(cloud, i) => born[i] # p
    BY <1>5, <1>6, <1>10, MissNoFile DEF Answers
  <2>2. CloudAt(cloud, p) = {}
    BY <1>8, <1>9, <2>1
  <2>. QED
    BY <1>2, <1>4, <1>10, <2>2
<1>11. CASE r.res # NoNode
  <2>1. r.res \in Nodes /\ r.heap[r.res].kind # "free" /\ born[r.heap[r.res].id] = p
    BY <1>6, <1>11, FoundLive
  <2>2. PICK i \in Ids : i = r.heap[r.res].id
    BY <1>6, <2>1 DEF Sane, Handlers, Heaps, NodeRecords
  <2>3. Exists(cloud, i) /\ born[i] = p
    BY <1>5, <1>6, <2>1, <2>2 DEF Ready, Mirrors, Mirrored, Shows
  <2>4. \A j \in Ids : Exists(cloud, j) /\ born[j] = p => j = i
    BY <1>7, <2>3 DEF DriveTree, Folders
  <2>5. CloudAt(cloud, p) = {i}
    BY <1>8, <1>9, <2>3, <2>4
  <2>. QED
    BY <1>2, <1>4, <1>11, <2>2, <2>5
<1>. QED
  BY <1>10, <1>11

\* When files at most are renamed, with assertions compiled in, and no request fails,
\* the variables keep their types: a rename leaves a tree and a cache.
THEOREM TypesHoldRenamed ==
  ASSUME Renames # "all", AssertsOn \/ Renames = "none", FailAt = {}
  PROVE  Spec => []TypeOK
<1>1. MirrorInv /\ [Next]_vars => MirrorInv'
  BY NextMirrorInv DEF FilesOnly
<1>2. MirrorInv => TypeOK
  BY InvTypes DEF MirrorInv
<1>. QED
  BY <1>1, <1>2, InitMirrors, PTL DEF Spec

\* So is every node but the root in one list, once, and what the tree points to is not
\* freed: detachNode takes a node that is renamed out of the list that it was in, and
\* removeNodes what it replaces.
THEOREM ShapeHoldsRenamed ==
  ASSUME Renames # "all", AssertsOn \/ Renames = "none", FailAt = {}
  PROVE  Spec => []TreeShape
<1>1. MirrorInv /\ [Next]_vars => MirrorInv'
  BY NextMirrorInv DEF FilesOnly
<1>2. MirrorInv => TreeShape
  BY InvShape DEF MirrorInv
<1>. QED
  BY <1>1, <1>2, InitMirrors, PTL DEF Spec

\* So does a cached path lead to the node that the tree has for it: slotNodeChanged
\* takes a file from the cache once renameNode has changed its path, and slotNodeRemoved
\* takes what it replaces.
THEOREM CacheHoldsRenamed ==
  ASSUME Renames # "all", AssertsOn \/ Renames = "none", FailAt = {}
  PROVE  Spec => []CacheAgrees
<1>1. MirrorInv /\ [Next]_vars => MirrorInv'
  BY NextMirrorInv DEF FilesOnly
<1>2. MirrorInv => CacheAgrees
  BY InvCache DEF MirrorInv
<1>. QED
  BY <1>1, <1>2, InitMirrors, PTL DEF Spec

\* So does an open handle point to the node that was opened, when rm(1) removes empty
\* directories only: a file that is renamed keeps its node, and the handles of what it
\* replaces are closed by then.
THEOREM HandlesHoldRenamed ==
  ASSUME Renames # "all", AssertsOn \/ Renames = "none", FailAt = {}, RmFull = FALSE
  PROVE  Spec => []HandlesValid
<1>. DEFINE I == MirrorInv /\ HandlesValid
<1>1. Init => I
  BY InitMirrors DEF Init, HandlesValid
<1>2. I /\ [Next]_vars => I'
  <2>. SUFFICES ASSUME MirrorInv, HandlesValid, [Next]_vars
                PROVE  MirrorInv' /\ HandlesValid'
    OBVIOUS
  <2>1. FilesOnly
    BY DEF FilesOnly
  <2>2. MirrorInv'
    BY <2>1, NextMirrorInv
  <2>3. PICK born : Now(born) /\ TreeInv
    BY DEF MirrorInv
  <2>4. StepOK \/ \E q \in Paths : Renaming(born, q)
    BY <2>1, <2>3, NextIs
  <2>5. HandlesValid'
    BY <2>3, <2>4, RenamingKeeps DEF StepOK
  <2>. QED
    BY <2>2, <2>5
<1>. QED
  BY <1>1, <1>2, PTL DEF Spec

\* So does nothing go from the drive but what is at the path of an unlink or rmdir, and
\* below, or at the new path of a rename.
THEOREM RemovesHoldRenamed ==
  ASSUME Renames # "all", AssertsOn \/ Renames = "none", FailAt = {}
  PROVE  Spec => RemovesOnlyNamed
<1>. DEFINE died == {i \in Ids : Exists(cloud, i) /\ ~Exists(cloud', i)}
            below(p) == UNION {Under(cloud, i) : i \in CloudAt(cloud, p)}
            Asked == died # {} =>
                       \E p \in Paths, f \in Writes :
                         /\ died \subseteq below(p)
                         /\ Unlink(p, f) \/ \E q \in Paths, e \in Reads : Rename(q, p, e, f)
<1>1. MirrorInv /\ [Next]_vars => MirrorInv'
  BY NextMirrorInv DEF FilesOnly
<1>2. MirrorInv /\ [Next]_vars => [Asked]_vars
  <2>. SUFFICES ASSUME MirrorInv, [Next]_vars
                PROVE  Asked
    OBVIOUS
  <2>1. PICK born : Now(born) /\ TreeInv
    BY DEF MirrorInv
  <2>2. FilesOnly
    BY DEF FilesOnly
  <2>3. CASE StepOK /\ Lives(cloud, cloud')
    BY <2>3 DEF Lives, Exists
  <2>4. ASSUME NEW p \in Paths, NEW f \in Writes,
               Unlink(p, f) \/ \E q \in Paths, e \in Reads : Rename(q, p, e, f),
               \A i \in Ids : Exists(cloud, i) /\ ~Exists(cloud', i) =>
                                \E j \in CloudAt(cloud, p) : i \in Under(cloud, j)
        PROVE  Asked
    <3>1. died \subseteq below(p)
      BY <2>4
    <3>. HIDE DEF died, below
    <3>. QED
      BY <2>4, <3>1
  <2>5. CASE StepOK /\ Cuts
    <3>. HIDE DEF Asked
    <3>. QED
      BY <2>4, <2>5 DEF Cuts
  <2>6. ASSUME NEW p \in Paths, NEW q \in Paths, NEW e \in Reads, NEW f \in Writes,
               Rename(p, q, e, f), Renaming(born, q)
        PROVE  Asked
    <3>1. \A i \in Ids : Exists(cloud, i) /\ ~Exists(cloud', i) =>
                           \E j \in CloudAt(cloud, q) : i \in Under(cloud, j)
      BY <2>1, <2>6, RenamingKeeps
    <3>. HIDE DEF Asked
    <3>. QED
      BY <2>4, <2>6, <3>1
  <2>. HIDE DEF Asked
  <2>7. StepOK \/ \E p, q \in Paths, e \in Reads, f \in Writes : Rename(p, q, e, f) /\ Renaming(born, q)
    BY <2>1, <2>2, NextIs
  <2>. QED
    BY <2>3, <2>5, <2>6, <2>7 DEF StepOK
<1>. QED
  BY <1>1, <1>2, InitMirrors, PTL DEF Spec, RemovesOnlyNamed

\* When files at most are renamed, with assertions compiled in, and no request fails,
\* a directory that has been read holds what the drive has there, once each, whatever
\* has been made, removed, renamed and listed since: fillDir, createNode, removeNodes
\* and renameNode change the tree as they change the drive.
THEOREM MirrorHolds ==
  ASSUME Renames # "all", AssertsOn \/ Renames = "none", FailAt = {}
  PROVE  Spec => []TreeMirrorsDrive
<1>1. MirrorInv /\ [Next]_vars => MirrorInv'
  BY NextMirrorInv DEF FilesOnly
<1>. QED
  BY <1>1, InitMirrors, InvMirrors, PTL DEF Spec

\* When files at most are renamed, with assertions compiled in, and no request fails,
\* get() answers, for every path, the file that the drive has there, and nothing when
\* there is none, whatever is in the cache and however much of the tree has been read.
THEOREM AnswersHold ==
  ASSUME Renames # "all", AssertsOn \/ Renames = "none", FailAt = {}
  PROVE  Spec => []LookupAnswersDrive
<1>1. MirrorInv /\ [Next]_vars => MirrorInv'
  BY NextMirrorInv DEF FilesOnly
<1>2. MirrorInv => LookupAnswersDrive
  BY InvAnswers
<1>. QED
  BY <1>1, <1>2, InitMirrors, PTL DEF Spec
-----------------------------------------------------------------------------
(* NodeTree implements Namespace. *)

\* The files of the drive c, and what it has at the paths born of them.
Living(c) == {i \in Ids : Exists(c, i)}

At(c, born, p) == LET i == CHOOSE j \in Living(c) : born[j] = p IN [id |-> i, kind |-> c[i].kind]

Space(c, born) == [p \in {born[i] : i \in Living(c)} |-> At(c, born, p)]

\* AbsFs of any drive.
SpaceOf(c) ==
  LET path[i \in Living(c)] == IF i = RootId THEN <<>> ELSE Append(path[c[i].parent], c[i].name)
  IN [p \in {path[i] : i \in Living(c)} |-> At(c, path, p)]

LEMMA AbsIsOf == AbsFs = SpaceOf(cloud) /\ AbsFs' = SpaceOf(cloud')
BY DEF AbsFs, SpaceOf, At, Living

\* What a path is made of: the names on the way from the root.
LEMMA SpaceOfIs ==
  ASSUME NEW c \in Clouds, NEW born \in [Ids -> Paths], CloudOK(c, born)
  PROVE  SpaceOf(c) = Space(c, born)
<1>. DEFINE live == Living(c)
            Eq(g) == g = [i \in live |-> IF i = RootId THEN <<>>
                                         ELSE Append(g[c[i].parent], c[i].name)]
            path == CHOOSE f : Eq(f)
<1>1. \A i \in live \ {RootId} : c[i].parent \in live /\ born[i] = Append(born[c[i].parent], c[i].name)
  BY DEF CloudOK, Living, Clouds, Entry
<1>2. RootId \in live /\ born[RootId] = <<>> /\ live \subseteq Ids
  BY IdsAssumption DEF CloudOK, Living
<1>3. \E g : Eq(g)
  <2>1. PICK g : g = [i \in live |-> born[i]]
    OBVIOUS
  <2>. HIDE DEF live
  <2>2. \A i \in live \ {RootId} : g[c[i].parent] = born[c[i].parent]
    BY <1>1, <2>1
  <2>3. \A i \in live : g[i] = IF i = RootId THEN <<>> ELSE Append(g[c[i].parent], c[i].name)
    BY <1>1, <1>2, <2>1, <2>2
  <2>4. g = [i \in live |-> g[i]]
    BY <2>1
  <2>. QED
    BY <2>3, <2>4
<1>4. Eq(path)
  BY <1>3
<1>. HIDE DEF path
<1>5. \A i \in live : path[i] = IF i = RootId THEN <<>> ELSE Append(path[c[i].parent], c[i].name)
  BY <1>4
<1>6. \A i \in live : path[i] = born[i]
  <2>. DEFINE A == {d \in Nat : \A i \in live : Len(born[i]) <= d => path[i] = born[i]}
  <2>. HIDE DEF live
  <2>1. \A i \in live : Len(born[i]) \in Nat /\ born[i] \in Seq(Names)
    BY <1>2, PathFacts
  <2>2. \A i \in live \ {RootId} : Len(born[i]) = Len(born[c[i].parent]) + 1
    BY <1>1, <2>1
  <2>3. 0 \in A
    BY <1>1, <1>2, <1>5, <2>1, <2>2
  <2>4. ASSUME NEW d \in A PROVE d + 1 \in A
    <3>. SUFFICES ASSUME NEW i \in live, Len(born[i]) <= d + 1
                  PROVE  path[i] = born[i]
      OBVIOUS
    <3>1. CASE i = RootId
      BY <1>2, <1>5, <3>1
    <3>2. CASE i # RootId
      <4>1. Len(born[c[i].parent]) <= d /\ c[i].parent \in live
        BY <1>1, <2>1, <2>2, <3>2
      <4>2. path[c[i].parent] = born[c[i].parent]
        BY <4>1
      <4>. QED
        BY <1>1, <1>5, <3>2, <4>2
    <3>. QED
      BY <3>1, <3>2
  <2>5. A = Nat
    <3>. HIDE DEF A
    <3>1. A \in SUBSET Nat
      BY DEF A
    <3>. QED
      BY <2>3, <2>4, <3>1, Induction
  <2>. QED
    BY <2>1, <2>5
<1>7. SpaceOf(c) = [p \in {path[i] : i \in live} |-> At(c, path, p)]
  BY DEF SpaceOf, path
<1>8. {path[i] : i \in live} = {born[i] : i \in live}
  BY <1>6
<1>9. \A p : At(c, path, p) = At(c, born, p)
  <2>1. \A p : \A i \in Living(c) : path[i] = p <=> born[i] = p
    BY <1>6
  <2>2. \A p : (CHOOSE j \in Living(c) : path[j] = p) = (CHOOSE j \in Living(c) : born[j] = p)
    BY <2>1
  <2>. QED
    BY <2>2 DEF At
<1>. QED
  BY <1>7, <1>8, <1>9 DEF Space

\* What a drive has at its paths.
LEMMA SpaceIs ==
  ASSUME NEW c, NEW born, DriveTree(c, born), NEW fs, fs = Space(c, born)
  PROVE  /\ DOMAIN fs = {born[i] : i \in Living(c)}
         /\ \A i \in Living(c) : fs[born[i]] = [id |-> i, kind |-> c[i].kind]
<1>1. ASSUME NEW i \in Living(c) PROVE At(c, born, born[i]) = [id |-> i, kind |-> c[i].kind]
  <2>1. PICK k : k = CHOOSE j \in Living(c) : born[j] = born[i]
    OBVIOUS
  <2>2. k \in Living(c) /\ born[k] = born[i]
    BY <2>1
  <2>3. k = i
    BY <2>2 DEF DriveTree, Folders, Living
  <2>. QED
    BY <2>1, <2>3 DEF At
<1>. QED
  BY <1>1 DEF Space
\* The path of a file is that of its directory with its name.
LEMMA FrontOf ==
  ASSUME NEW S, NEW s \in Seq(S), NEW x \in S
  PROVE  Append(s, x) # <<>> /\ Front(Append(s, x)) = s
<1>1. PICK t \in Seq(S) : t = Append(s, x)
  <2>1. Append(s, x) \in Seq(S)
    OBVIOUS
  <2>. QED
    BY <2>1
<1>2. Len(t) = Len(s) + 1 /\ \A n \in 1..Len(s) : t[n] = s[n]
  BY <1>1
<1>3. PICK u \in Seq(S) : u = SubSeq(t, 1, Len(t) - 1)
  BY <1>2
<1>4. Len(u) = Len(s) /\ \A n \in 1..Len(s) : u[n] = s[n]
  BY <1>2, <1>3
<1>5. u = s
  BY <1>4
<1>6. t # <<>>
  BY <1>2
<1>. QED
  BY <1>1, <1>3, <1>5, <1>6 DEF Front

\* Where a drive has files, and which.
LEMMA SpaceFacts ==
  ASSUME NEW c \in Clouds, NEW born \in [Ids -> Paths], CloudOK(c, born), DriveTree(c, born),
         NEW fs, fs = Space(c, born)
  PROVE  /\ \A i \in Living(c) : /\ born[i] \in DOMAIN fs /\ born[i] \in Paths
                                 /\ fs[born[i]].id = i /\ fs[born[i]].kind = c[i].kind
                                 /\ fs[born[i]] = [id |-> i, kind |-> c[i].kind]
         /\ \A p \in DOMAIN fs : \E i \in Living(c) : p = born[i]
         /\ \A i \in Living(c) \ {RootId} :
              /\ born[i] # <<>> /\ Front(born[i]) \in DOMAIN fs
              /\ fs[Front(born[i])].kind = "dir"
         /\ RootId \in Living(c) /\ born[RootId] = <<>> /\ c[RootId].kind = "dir"
<1>2. /\ DOMAIN fs = {born[i] : i \in Living(c)}
      /\ \A i \in Living(c) : fs[born[i]] = [id |-> i, kind |-> c[i].kind]
  BY SpaceIs
<1>3. RootId \in Living(c) /\ born[RootId] = <<>> /\ c[RootId].kind = "dir"
  BY IdsAssumption DEF CloudOK, DriveTree, Folders, Living
<1>4. ASSUME NEW i \in Living(c) \ {RootId}
      PROVE  /\ born[i] # <<>> /\ Front(born[i]) \in DOMAIN fs
             /\ fs[Front(born[i])].kind = "dir"
  <2>1. PICK f \in Living(c) : f = c[i].parent /\ c[f].kind = "dir" /\ born[i] = Append(born[f], c[i].name)
    BY DEF CloudOK, DriveTree, Folders, Living, Clouds, Entry
  <2>2. born[f] \in Seq(Names)
    BY PathFacts DEF Living
  <2>3. born[i] # <<>> /\ Front(born[i]) = born[f]
    <3>1. c[i].name \in Names
      BY PathFacts DEF CloudOK, DriveTree, Folders, Living, Clouds, Entry
    <3>. QED
      BY <2>1, <2>2, <3>1, FrontOf
  <2>4. f \in Living(c) /\ born[f] \in DOMAIN fs /\ fs[born[f]].kind = "dir"
    <3>1. f \in Living(c) /\ born[f] \in DOMAIN fs /\ fs[born[f]] = [id |-> f, kind |-> c[f].kind]
      BY <1>2
    <3>2. fs[born[f]].kind = c[f].kind
      BY <3>1
    <3>. QED
      BY <2>1, <3>1, <3>2
  <2>. QED
    BY <2>3, <2>4
<1>5. \A i \in Living(c) : born[i] \in Paths
  BY DEF Living
<1>. QED
  BY <1>2, <1>3, <1>4, <1>5

\* The drive that there is at first is a tree of paths.
LEMMA SpaceInit ==
  ASSUME TreeInv, NEW born, Now(born)
  PROVE  Abs!Init
<1>1. /\ cloud \in Clouds /\ born \in [Ids -> Paths] /\ CloudOK(cloud, born)
      /\ DriveTree(cloud, born)
  BY DEF TreeInv, Now, Sound, Mirrors, Mirrored
<1>2. PICK fs : fs = AbsFs
  OBVIOUS
<1>3. fs = Space(cloud, born)
  BY <1>1, <1>2, AbsIsOf, SpaceOfIs
<1>4. /\ \A i \in Living(cloud) : /\ born[i] \in DOMAIN fs /\ born[i] \in Paths
                                  /\ fs[born[i]].id = i /\ fs[born[i]].kind = cloud[i].kind
                                  /\ fs[born[i]] = [id |-> i, kind |-> cloud[i].kind]
      /\ \A p \in DOMAIN fs : \E i \in Living(cloud) : p = born[i]
      /\ \A i \in Living(cloud) \ {RootId} :
           /\ born[i] # <<>> /\ Front(born[i]) \in DOMAIN fs
           /\ fs[Front(born[i])].kind = "dir"
      /\ RootId \in Living(cloud) /\ born[RootId] = <<>> /\ cloud[RootId].kind = "dir"
  BY <1>1, <1>3, SpaceFacts
<1>5. <<>> \in DOMAIN fs /\ fs[<<>>] = [id |-> RootId, kind |-> "dir"]
  BY <1>4
<1>6. ASSUME NEW p \in DOMAIN fs, p # <<>>
      PROVE  p \in Paths /\ Front(p) \in DOMAIN fs /\ fs[Front(p)].kind = "dir"
  <2>1. PICK i \in Living(cloud) : p = born[i]
    BY <1>4
  <2>2. i # RootId
    BY <1>4, <1>6, <2>1
  <2>. QED
    BY <1>4, <2>1, <2>2
<1>7. ASSUME NEW p \in DOMAIN fs, NEW q \in DOMAIN fs, fs[p].id = fs[q].id PROVE p = q
  <2>1. PICK i \in Living(cloud), j \in Living(cloud) : p = born[i] /\ q = born[j]
    BY <1>4
  <2>2. fs[p].id = i /\ fs[q].id = j
    BY <1>4, <2>1
  <2>. QED
    BY <1>7, <2>1, <2>2
<1>8. \A p : Abs!Placed(p) <=> p # <<>> /\ Front(p) \in DOMAIN fs /\ fs[Front(p)].kind = "dir"
  BY <1>2 DEF Abs!Placed, Abs!IsDir, Abs!Front, Front
<1>9. \A p \in DOMAIN AbsFs \ {<<>>} : p \in Paths /\ Abs!Placed(p)
  BY <1>2, <1>6, <1>8
<1>. QED
  BY <1>2, <1>5, <1>7, <1>9 DEF Abs!Init

\* What begets a file on the drive makes its path.
LEMMA BegetsMakes ==
  ASSUME NEW born \in [Ids -> Paths], CloudOK(cloud, born), DriveTree(cloud, born), cloud \in Clouds,
         NEW b \in [Ids -> Paths], CloudOK(cloud', b), DriveTree(cloud', b), cloud' \in Clouds,
         NEW p \in Paths, p # <<>>, Begets(cloud, born, cloud', b, p)
  PROVE  Abs!Next
<1>1. PICK c \in Clouds, d \in Clouds : c = cloud /\ d = cloud'
  OBVIOUS
<1>2. PICK i \in Ids, f \in Ids, kind \in Kinds :
        /\ c[i] = Unborn /\ Exists(c, f) /\ c[f].kind = "dir" /\ born[f] = SubSeq(p, 1, Len(p) - 1)
        /\ d = Birth(c, i, kind, p[Len(p)], f)
        /\ b[i] = p /\ \A j \in Ids : Exists(c, j) => b[j] = born[j] /\ born[j] # p
  BY <1>1 DEF Begets
<1>3. PICK fs, gs : fs = AbsFs /\ gs = AbsFs'
  OBVIOUS
<1>4. fs = Space(c, born) /\ gs = Space(d, b)
  BY <1>1, <1>3, AbsIsOf, SpaceOfIs
<1>5. /\ \A j \in Living(c) : /\ born[j] \in DOMAIN fs /\ born[j] \in Paths
                              /\ fs[born[j]].id = j /\ fs[born[j]].kind = c[j].kind
                              /\ fs[born[j]] = [id |-> j, kind |-> c[j].kind]
      /\ \A q \in DOMAIN fs : \E j \in Living(c) : q = born[j]
  BY <1>1, <1>4, SpaceFacts
<1>6. /\ DOMAIN gs = {b[j] : j \in Living(d)}
      /\ \A j \in Living(d) : gs[b[j]] = [id |-> j, kind |-> d[j].kind]
  <2>1. CloudOK(d, b) /\ DriveTree(d, b) /\ gs = Space(d, b)
    BY <1>1, <1>4
  <2>2. \A j \in Living(d) : gs[b[j]] = [id |-> j, kind |-> d[j].kind]
    BY <2>1, SpaceFacts
  <2>. QED
    BY <2>1, <2>2 DEF Space
<1>7. /\ i \notin Living(c) /\ Living(d) = Living(c) \cup {i} /\ d[i].kind = kind
      /\ \A j \in Living(c) : d[j] = c[j] /\ b[j] = born[j] /\ born[j] # p
  <2>1. c[i].kind \notin Kinds /\ c \in [Ids -> Entry] /\ i \in Ids
    BY <1>2 DEF Unborn, Kinds, Clouds
  <2>2. d = [c EXCEPT ![i] = [kind |-> kind, name |-> p[Len(p)], parent |-> f]]
    BY <1>2 DEF Birth
  <2>3. d[i].kind = kind /\ \A j \in Ids : j # i => d[j] = c[j]
    BY <2>1, <2>2
  <2>. QED
    BY <1>2, <2>1, <2>3 DEF Living, Exists
<1>8. p \notin DOMAIN fs /\ \A q \in DOMAIN fs : fs[q].id # i
  <2>. SUFFICES ASSUME NEW q \in DOMAIN fs PROVE q # p /\ fs[q].id # i
    OBVIOUS
  <2>1. PICK j \in Living(c) : q = born[j]
    BY <1>5
  <2>2. j # i /\ born[j] # p /\ fs[born[j]].id = j
    BY <1>5, <1>7
  <2>. QED
    BY <2>1, <2>2
<1>9. DOMAIN gs = DOMAIN fs \cup {p}
  <2>1. DOMAIN fs = {born[j] : j \in Living(c)}
    BY <1>4 DEF Space
  <2>2. \A j \in Living(c) : b[j] = born[j]
    BY <1>7
  <2>. QED
    BY <1>2, <1>6, <1>7, <2>1, <2>2
<1>10. gs[p] = [id |-> i, kind |-> kind] /\ \A q \in DOMAIN fs : gs[q] = fs[q]
  <2>1. gs[p] = [id |-> i, kind |-> kind]
    <3>1. i \in Living(d) /\ b[i] = p /\ d[i].kind = kind
      BY <1>2, <1>7
    <3>2. gs[b[i]] = [id |-> i, kind |-> d[i].kind]
      BY <1>6, <3>1
    <3>. QED
      BY <3>1, <3>2
  <2>2. ASSUME NEW q \in DOMAIN fs PROVE gs[q] = fs[q]
    <3>1. PICK j \in Living(c) : q = born[j]
      BY <1>5
    <3>2. j \in Living(d) /\ d[j] = c[j] /\ b[j] = born[j]
      BY <1>7
    <3>3. gs[b[j]] = [id |-> j, kind |-> d[j].kind]
      BY <1>6, <3>2
    <3>4. fs[born[j]] = [id |-> j, kind |-> c[j].kind]
      BY <1>5
    <3>. QED
      BY <3>1, <3>2, <3>3, <3>4
  <2>. QED
    BY <2>1, <2>2
<1>11. gs = [q \in DOMAIN fs \cup {p} |-> IF q = p THEN [id |-> i, kind |-> kind] ELSE fs[q]]
  <2>1. gs = [q \in DOMAIN gs |-> gs[q]]
    BY <1>4 DEF Space
  <2>. QED
    BY <1>8, <1>9, <1>10, <2>1
<1>12. p # <<>> /\ Front(p) \in DOMAIN fs /\ fs[Front(p)].kind = "dir"
  <2>1. f \in Living(c) /\ born[f] = Front(p)
    BY <1>2 DEF Living, Front
  <2>2. born[f] \in DOMAIN fs /\ fs[born[f]].kind = c[f].kind
    BY <1>5, <2>1
  <2>. QED
    BY <1>2, <2>1, <2>2
<1>13. Abs!Make(p, i, kind)
  <2>1. Abs!Placed(p)
    BY <1>3, <1>12 DEF Abs!Placed, Abs!IsDir, Abs!Front, Front
  <2>. QED
    BY <1>3, <1>8, <1>11, <2>1 DEF Abs!Make
<1>14. gs # fs /\ kind \in {"dir", "file"}
  BY <1>8, <1>9 DEF Kinds
<1>. QED
  BY <1>3, <1>13, <1>14 DEF Abs!Next

\* What is below a file on the drive is what is below its path.
LEMMA UnderPrefix ==
  ASSUME NEW c \in Clouds, NEW born \in [Ids -> Paths], CloudOK(c, born), DriveTree(c, born),
         NEW i \in Ids, Exists(c, i)
  PROVE  \A j \in Living(c) : j \in Under(c, i) <=> IsPrefix(born[i], born[j])
<1>1. PICK p \in Seq(Names) : p = born[i]
  BY PathFacts
<1>2. \A j \in Ids : born[j] \in Seq(Names) /\ Len(born[j]) \in Nat
  BY PathFacts
<1>3. /\ RootId \in Living(c) /\ born[RootId] = <<>> /\ i \in Living(c)
      /\ \A j \in Living(c) \ {RootId} : /\ c[j].parent \in Living(c)
                                         /\ born[j] = Append(born[c[j].parent], c[j].name)
  BY IdsAssumption DEF CloudOK, Living, Clouds, Entry
<1>4. ASSUME NEW j \in Under(c, i) PROVE IsPrefix(p, born[j])
  <2>1. PICK X \in SUBSET Ids : X = {x \in Ids : IsPrefix(p, born[x])}
    OBVIOUS
  <2>2. i \in X
    BY <1>1, <2>1 DEF IsPrefix
  <2>3. \A x \in X : Children(c, x) \subseteq X
    <3>. SUFFICES ASSUME NEW x \in X, NEW y \in Children(c, x)
                  PROVE  IsPrefix(p, born[y]) /\ y \in Ids
      BY <2>1
    <3>1. x \in Ids /\ y \in Ids /\ IsPrefix(p, born[x]) /\ y \in Living(c) \ {RootId} /\ c[y].parent = x
      BY <2>1 DEF Children, Living
    <3>2. PICK s \in Seq(Names) : s = born[x]
      BY <1>2, <3>1
    <3>3. born[y] = Append(s, c[y].name) /\ IsPrefix(p, s)
      BY <1>3, <3>1, <3>2
    <3>4. SubSeq(Append(s, c[y].name), 1, Len(p)) = SubSeq(s, 1, Len(p)) /\ Len(p) <= Len(s)
          /\ Len(Append(s, c[y].name)) = Len(s) + 1 /\ SubSeq(s, 1, Len(p)) = SubSeq(p, 1, Len(p))
      BY <3>3 DEF IsPrefix
    <3>. QED
      BY <3>1, <3>3, <3>4 DEF IsPrefix
  <2>4. Under(c, i) \subseteq X
    BY <2>2, <2>3, UnderLeast
  <2>. QED
    BY <2>1, <2>4
<1>5. \A j \in Living(c) : IsPrefix(p, born[j]) => j \in Under(c, i)
  <2>. DEFINE A == {d \in Nat : \A j \in Living(c) : /\ Len(born[j]) <= Len(p) + d
                                                     /\ IsPrefix(p, born[j])
                                                     => j \in Under(c, i)}
  <2>1. i \in Under(c, i) /\ \A x \in Under(c, i) : Children(c, x) \subseteq Under(c, i)
    BY UnderFacts
  <2>2. \A j \in Living(c) : j \in Ids
    BY DEF Living
  <2>3. 0 \in A
    <3>. SUFFICES ASSUME NEW j \in Living(c), Len(born[j]) <= Len(p), IsPrefix(p, born[j])
                  PROVE  j \in Under(c, i)
      BY <1>1, <1>2, <2>2
    <3>1. PICK s \in Seq(Names) : s = born[j]
      BY <1>2, <2>2
    <3>2. Len(s) = Len(p) /\ SubSeq(p, 1, Len(p)) = SubSeq(s, 1, Len(p))
      BY <3>1 DEF IsPrefix
    <3>3. s = p
      BY <3>2
    <3>4. j = i
      BY <1>1, <1>3, <3>1, <3>3 DEF DriveTree, Folders, Living
    <3>. QED
      BY <2>1, <3>4
  <2>4. ASSUME NEW d \in A PROVE d + 1 \in A
    <3>. SUFFICES ASSUME NEW j \in Living(c), Len(born[j]) <= Len(p) + (d + 1), IsPrefix(p, born[j])
                  PROVE  j \in Under(c, i)
      OBVIOUS
    <3>1. PICK s \in Seq(Names) : s = born[j]
      BY <1>2, <2>2
    <3>2. CASE Len(s) <= Len(p) + d
      BY <3>1, <3>2
    <3>3. CASE Len(s) = Len(p) + d + 1
      <4>1. j # RootId
        BY <1>3, <3>1, <3>3
      <4>2. PICK k \in Living(c) : k = c[j].parent /\ s = Append(born[k], c[j].name)
        BY <1>3, <3>1, <4>1
      <4>3. PICK t \in Seq(Names) : t = born[k]
        BY <1>2, <2>2
      <4>4. s = Append(t, c[j].name) /\ Len(s) = Len(t) + 1
        BY <4>2, <4>3
      <4>5. Len(t) = Len(p) + d
        BY <3>3, <4>4
      <4>6. SubSeq(s, 1, Len(p)) = SubSeq(t, 1, Len(p))
        BY <4>4, <4>5
      <4>7. IsPrefix(p, t)
        BY <3>1, <4>5, <4>6 DEF IsPrefix
      <4>8. k \in Under(c, i)
        BY <4>3, <4>5, <4>7
      <4>9. j \in Children(c, k)
        BY <4>1, <4>2 DEF Children, Living
      <4>. QED
        BY <2>1, <4>8, <4>9
    <3>4. Len(s) \in Nat /\ Len(p) \in Nat /\ d \in Nat
      OBVIOUS
    <3>. QED
      BY <3>1, <3>2, <3>3, <3>4
  <2>5. A = Nat
    <3>1. A \in SUBSET Nat
      OBVIOUS
    <3>. HIDE DEF A
    <3>. QED
      BY <2>3, <2>4, <3>1, Induction
  <2>. SUFFICES ASSUME NEW j \in Living(c), IsPrefix(p, born[j])
                PROVE  j \in Under(c, i)
    OBVIOUS
  <2>6. Len(born[j]) \in A /\ Len(born[j]) <= Len(p) + Len(born[j])
    BY <1>2, <2>2, <2>5
  <2>. QED
    BY <2>6
<1>. QED
  BY <1>1, <1>4, <1>5

\* What cuts a file from the drive takes its path away, with all below.
LEMMA CutDiscards ==
  ASSUME NEW born \in [Ids -> Paths], CloudOK(cloud, born), DriveTree(cloud, born), cloud \in Clouds,
         CloudOK(cloud', born), DriveTree(cloud', born), cloud' \in Clouds,
         NEW i \in Ids, Cut(cloud, i, cloud')
  PROVE  Abs!Next
<1>1. PICK c \in Clouds, d \in Clouds : c = cloud /\ d = cloud'
  OBVIOUS
<1>2. /\ i # RootId /\ Exists(c, i)
      /\ \A j \in Ids : IF j \in Under(c, i) THEN ~Exists(d, j) ELSE d[j] = c[j]
  BY <1>1 DEF Cut
<1>3. PICK fs, gs : fs = AbsFs /\ gs = AbsFs'
  OBVIOUS
<1>4. fs = Space(c, born) /\ gs = Space(d, born)
  BY <1>1, <1>3, AbsIsOf, SpaceOfIs
<1>5. /\ \A j \in Living(c) : born[j] \in DOMAIN fs /\ fs[born[j]] = [id |-> j, kind |-> c[j].kind]
      /\ \A q \in DOMAIN fs : \E j \in Living(c) : q = born[j]
      /\ \A j \in Living(c) \ {RootId} : born[j] # <<>>
  BY <1>1, <1>4, SpaceFacts
<1>6. /\ DOMAIN gs = {born[j] : j \in Living(d)}
      /\ \A j \in Living(d) : gs[born[j]] = [id |-> j, kind |-> d[j].kind]
  <2>1. CloudOK(d, born) /\ DriveTree(d, born) /\ gs = Space(d, born)
    BY <1>1, <1>4
  <2>2. \A j \in Living(d) : gs[born[j]] = [id |-> j, kind |-> d[j].kind]
    BY <2>1, SpaceFacts
  <2>. QED
    BY <2>1, <2>2 DEF Space
<1>7. \A j \in Living(c) : j \in Under(c, i) <=> IsPrefix(born[i], born[j])
  BY <1>1, <1>2, UnderPrefix
<1>8. \A j \in Ids : j \in Living(d) <=> j \in Living(c) /\ j \notin Under(c, i)
  BY <1>2 DEF Living, Exists
<1>9. \A j \in Living(d) : d[j] = c[j] /\ j \in Ids
  BY <1>2, <1>8 DEF Living
<1>10. PICK B : B = {q \in DOMAIN fs : IsPrefix(born[i], q)}
  OBVIOUS
<1>11. DOMAIN gs = DOMAIN fs \ B
  <2>1. ASSUME NEW q \in DOMAIN gs PROVE q \in DOMAIN fs \ B
    <3>1. PICK j \in Living(d) : q = born[j]
      BY <1>6
    <3>2. j \in Living(c) /\ j \notin Under(c, i)
      BY <1>8, <1>9
    <3>. QED
      BY <1>5, <1>7, <1>10, <3>1, <3>2
  <2>2. ASSUME NEW q \in DOMAIN fs \ B PROVE q \in DOMAIN gs
    <3>1. PICK j \in Living(c) : q = born[j] /\ j \in Ids
      BY <1>5 DEF Living
    <3>2. j \in Living(d)
      BY <1>7, <1>8, <1>10, <2>2, <3>1
    <3>. QED
      BY <1>6, <3>1, <3>2
  <2>. QED
    BY <2>1, <2>2
<1>12. \A q \in DOMAIN gs : gs[q] = fs[q]
  <2>. SUFFICES ASSUME NEW j \in Living(d) PROVE gs[born[j]] = fs[born[j]]
    BY <1>6
  <2>1. j \in Living(c) /\ d[j] = c[j]
    BY <1>8, <1>9
  <2>. QED
    <3>1. fs[born[j]] = [id |-> j, kind |-> c[j].kind]
      BY <1>5, <2>1
    <3>2. gs[born[j]] = [id |-> j, kind |-> d[j].kind]
      BY <1>6
    <3>. QED
      BY <2>1, <3>1, <3>2
<1>13. gs = [q \in DOMAIN fs \ B |-> fs[q]]
  <2>1. gs = [q \in DOMAIN gs |-> gs[q]]
    BY <1>4 DEF Space
  <2>. QED
    BY <1>11, <1>12, <2>1
<1>14. i \in Living(c) /\ born[i] # <<>> /\ born[i] \in DOMAIN fs /\ born[i] \notin DOMAIN gs
  <2>1. i \in Living(c)
    BY <1>2 DEF Living
  <2>2. IsPrefix(born[i], born[i])
    BY <1>1, <1>2, <1>7, <2>1, UnderFacts
  <2>. QED
    BY <1>2, <1>5, <1>10, <1>11, <2>1, <2>2
<1>15. Abs!Discard(born[i])
  BY <1>3, <1>10, <1>13, <1>14 DEF Abs!Discard, Abs!Below, Abs!Restrict, Abs!IsPrefix, IsPrefix
<1>16. gs # fs
  BY <1>14
<1>. QED
  BY <1>3, <1>14, <1>15, <1>16 DEF Abs!Next

\* Below the path of a file there is nothing but the file.
LEMMA FileAlone ==
  ASSUME NEW c \in Clouds, NEW born \in [Ids -> Paths], CloudOK(c, born), DriveTree(c, born),
         NEW i \in Ids, c[i].kind = "file"
  PROVE  \A j \in Living(c) : IsPrefix(born[i], born[j]) => j = i
<1>1. Exists(c, i) /\ Children(c, i) = {}
  BY DEF DriveTree, Folders, Exists, Kinds, Children
<1>2. PICK X \in SUBSET Ids : X = {i}
  OBVIOUS
<1>3. Under(c, i) \subseteq X
  BY <1>1, <1>2, UnderLeast
<1>. QED
  BY <1>1, <1>2, <1>3, UnderPrefix

\* What is below a path that has a name more is below that path, or is that path.
LEMMA PrefixOfAppend ==
  ASSUME NEW s \in Seq(Names), NEW x \in Names, NEW q \in Seq(Names), IsPrefix(q, Append(s, x)),
         q # Append(s, x)
  PROVE  IsPrefix(q, s)
<1>1. PICK t \in Seq(Names) : t = Append(s, x)
  <2>1. Append(s, x) \in Seq(Names)
    OBVIOUS
  <2>. QED
    BY <2>1
<1>2. Len(t) = Len(s) + 1 /\ Len(q) <= Len(t) /\ SubSeq(q, 1, Len(q)) = SubSeq(t, 1, Len(q))
  BY <1>1 DEF IsPrefix
<1>3. Len(q) # Len(t)
  <2>. SUFFICES ASSUME Len(q) = Len(t) PROVE q = t
    BY <1>1
  <2>. QED
    BY <1>2
<1>4. Len(q) <= Len(s)
  BY <1>2, <1>3
<1>5. SubSeq(t, 1, Len(q)) = SubSeq(s, 1, Len(q))
  BY <1>1, <1>4
<1>. QED
  BY <1>2, <1>4, <1>5 DEF IsPrefix

\* Nothing is below the new path of a file but what has been there.
LEMMA NewPathFree ==
  ASSUME NEW c \in Clouds, NEW born \in [Ids -> Paths], CloudOK(c, born), DriveTree(c, born),
         NEW d \in Clouds, NEW b \in [Ids -> Paths], CloudOK(d, b), DriveTree(d, b),
         NEW i, NEW q, Renamed(c, born, d, b, i, q)
  PROVE  \A j \in Living(c) : IsPrefix(q, born[j]) => born[j] = q
<1>1. /\ i \in Ids /\ b[i] = q /\ born[i] # q /\ Exists(c, i) /\ c[i].kind = "file"
      /\ \A j \in Ids \ {i} : b[j] = born[j]
      /\ \A j \in Ids : Exists(d, j) <=> Exists(c, j) /\ born[j] # q
      /\ \A j \in Ids : Exists(d, j) => d[j].kind = c[j].kind
      /\ q \in Paths
  <2>1. c[i].kind = "file" /\ q \in Paths
    BY DEF Renamed
  <2>2. /\ i \in Ids /\ b[i] = q /\ born[i] # q /\ Exists(c, i)
        /\ \A j \in Ids \ {i} : b[j] = born[j]
        /\ \A j \in Ids : Exists(d, j) <=> Exists(c, j) /\ born[j] # q
        /\ \A j \in Ids : Exists(d, j) => d[j].kind = c[j].kind
    BY RenamedIs
  <2>. QED
    BY <2>1, <2>2
<1>2. \A j \in Living(d) : IsPrefix(q, b[j]) => j = i
  <2>1. d[i].kind = "file"
    BY <1>1
  <2>. QED
    BY <1>1, <2>1, FileAlone
<1>3. \A j \in Living(c) : j # i /\ IsPrefix(q, born[j]) => born[j] = q
  BY <1>1, <1>2 DEF Living
<1>4. ~IsPrefix(q, born[i])
  <2>. SUFFICES ASSUME IsPrefix(q, born[i]) PROVE FALSE
    OBVIOUS
  <2>1. i # RootId
    BY <1>1 DEF DriveTree, Folders
  <2>2. PICK k \in Living(c) : /\ c[k].kind = "dir" /\ born[i] = Append(born[k], c[i].name)
    <3>1. c[i].parent \in Ids /\ c[c[i].parent].kind = "dir"
      BY <1>1, <2>1 DEF DriveTree, Folders, Clouds, Entry
    <3>2. born[i] = Append(born[c[i].parent], c[i].name)
      BY <1>1, <2>1 DEF CloudOK
    <3>. QED
      BY <3>1, <3>2 DEF Living, Exists, Kinds
  <2>3. /\ born[k] \in Seq(Names) /\ q \in Seq(Names) /\ c[i].name \in Names /\ k # i
    BY <1>1, <2>1, <2>2, PathFacts DEF Living, CloudOK
  <2>4. IsPrefix(q, born[k])
    BY <1>1, <2>2, <2>3, PrefixOfAppend
  <2>5. born[k] = q
    BY <1>3, <2>3, <2>4
  <2>. QED
    BY <2>2, <2>5 DEF Renamed, Living
<1>. QED
  BY <1>3, <1>4

\* What renames a file on the drive moves its path.
LEMMA RenamedMoves ==
  ASSUME NEW born \in [Ids -> Paths], CloudOK(cloud, born), DriveTree(cloud, born), cloud \in Clouds,
         NEW b \in [Ids -> Paths], CloudOK(cloud', b), DriveTree(cloud', b), cloud' \in Clouds,
         NEW i, NEW q, Renamed(cloud, born, cloud', b, i, q)
  PROVE  Abs!Next
<1>1. PICK c \in Clouds, d \in Clouds : c = cloud /\ d = cloud'
  OBVIOUS
<1>2. /\ i \in Ids /\ b[i] = q /\ born[i] # q /\ Exists(c, i) /\ c[i].kind = "file"
      /\ \A j \in Ids \ {i} : b[j] = born[j]
      /\ \A j \in Ids : Exists(d, j) <=> Exists(c, j) /\ born[j] # q
      /\ \A j \in Ids : Exists(d, j) => d[j].kind = c[j].kind
      /\ q \in Paths /\ ~IsPrefix(born[i], q)
  <2>1. Renamed(c, born, d, b, i, q)
    BY <1>1
  <2>2. c[i].kind = "file" /\ q \in Paths /\ ~IsPrefix(born[i], q)
    BY <2>1 DEF Renamed
  <2>3. /\ i \in Ids /\ b[i] = q /\ born[i] # q /\ Exists(c, i)
        /\ \A j \in Ids \ {i} : b[j] = born[j]
        /\ \A j \in Ids : Exists(d, j) <=> Exists(c, j) /\ born[j] # q
        /\ \A j \in Ids : Exists(d, j) => d[j].kind = c[j].kind
    BY <2>1, RenamedIs
  <2>. QED
    BY <2>2, <2>3
<1>3. PICK fs, gs : fs = AbsFs /\ gs = AbsFs'
  OBVIOUS
<1>4. fs = Space(c, born) /\ gs = Space(d, b)
  BY <1>1, <1>3, AbsIsOf, SpaceOfIs
<1>5. /\ DOMAIN fs = {born[j] : j \in Living(c)}
      /\ \A j \in Living(c) : fs[born[j]] = [id |-> j, kind |-> c[j].kind]
      /\ DOMAIN gs = {b[j] : j \in Living(d)}
      /\ \A j \in Living(d) : gs[b[j]] = [id |-> j, kind |-> d[j].kind]
  <2>1. CloudOK(c, born) /\ DriveTree(c, born) /\ CloudOK(d, b) /\ DriveTree(d, b)
    BY <1>1
  <2>2. /\ DOMAIN fs = {born[j] : j \in Living(c)}
        /\ \A j \in Living(c) : fs[born[j]] = [id |-> j, kind |-> c[j].kind]
    <3>1. DOMAIN fs = {born[j] : j \in Living(c)}
      BY <1>4 DEF Space
    <3>2. fs = Space(c, born)
      BY <1>4
    <3>3. \A j \in Living(c) : fs[born[j]] = [id |-> j, kind |-> c[j].kind]
      BY <2>1, <3>2, SpaceFacts
    <3>. QED
      BY <3>1, <3>3
  <2>3. /\ DOMAIN gs = {b[j] : j \in Living(d)}
        /\ \A j \in Living(d) : gs[b[j]] = [id |-> j, kind |-> d[j].kind]
    <3>1. DOMAIN gs = {b[j] : j \in Living(d)}
      BY <1>4 DEF Space
    <3>2. gs = Space(d, b)
      BY <1>4
    <3>3. \A j \in Living(d) : gs[b[j]] = [id |-> j, kind |-> d[j].kind]
      BY <2>1, <3>2, SpaceFacts
    <3>. QED
      BY <3>1, <3>3
  <2>. QED
    BY <2>2, <2>3
<1>6. /\ \A j, k \in Living(c) : born[j] = born[k] => j = k
      /\ \A j, k \in Living(d) : b[j] = b[k] => j = k
  BY <1>1 DEF DriveTree, Folders, Living
<1>7. \A j \in Living(c) : IsPrefix(born[i], born[j]) => j = i
  BY <1>1, <1>2, FileAlone
<1>8. \A j \in Living(c) : IsPrefix(q, born[j]) <=> born[j] = q
  <2>1. \A j \in Living(c) : IsPrefix(q, born[j]) => born[j] = q
    BY <1>1, NewPathFree
  <2>2. IsPrefix(q, q)
    BY <1>2, PathFacts DEF IsPrefix
  <2>. QED
    BY <2>1, <2>2
<1>9. /\ Living(d) = {j \in Living(c) : born[j] # q} /\ i \in Living(d) /\ Living(c) \subseteq Ids
  BY <1>2 DEF Living
<1>10. PICK stay : stay = DOMAIN fs \ Abs!Below(q)
  OBVIOUS
<1>11. stay = {born[j] : j \in Living(d)}
  <2>1. Abs!Below(q) = {y \in DOMAIN fs : IsPrefix(q, y)}
    BY <1>3 DEF Abs!Below, Abs!IsPrefix, IsPrefix
  <2>. QED
    BY <1>5, <1>8, <1>9, <1>10, <2>1
<1>12. \A j \in Living(d) : Abs!Moved(born[i], q, born[j]) = b[j]
  <2>. SUFFICES ASSUME NEW j \in Living(d) PROVE Abs!Moved(born[i], q, born[j]) = b[j]
    OBVIOUS
  <2>1. CASE j = i
    <3>1. PICK s \in Seq(Names) : s = born[i]
      BY <1>2, PathFacts
    <3>2. IsPrefix(s, s) /\ SubSeq(s, Len(s) + 1, Len(s)) = <<>>
      BY DEF IsPrefix
    <3>3. q \o <<>> = q
      BY <1>2, PathFacts
    <3>. QED
      BY <1>2, <2>1, <3>1, <3>2, <3>3 DEF Abs!Moved, Abs!IsPrefix, IsPrefix
  <2>2. CASE j # i
    <3>1. ~IsPrefix(born[i], born[j]) /\ b[j] = born[j]
      BY <1>2, <1>7, <1>9, <2>2
    <3>. QED
      BY <3>1 DEF Abs!Moved, Abs!IsPrefix, IsPrefix
  <2>. QED
    BY <2>1, <2>2
<1>13. gs = [x \in {Abs!Moved(born[i], q, y) : y \in stay} |->
               fs[CHOOSE y \in stay : Abs!Moved(born[i], q, y) = x]]
  <2>. DEFINE goes(y) == Abs!Moved(born[i], q, y)
  <2>. HIDE DEF goes
  <2>1. \A j \in Living(d) : goes(born[j]) = b[j]
    BY <1>12 DEF goes
  <2>2. DOMAIN gs = {goes(y) : y \in stay}
    BY <1>5, <1>11, <2>1
  <2>3. ASSUME NEW x \in DOMAIN gs PROVE gs[x] = fs[CHOOSE y \in stay : goes(y) = x]
    <3>1. PICK j \in Living(d) : x = b[j]
      BY <1>5
    <3>2. PICK y : y = CHOOSE z \in stay : goes(z) = x
      OBVIOUS
    <3>3. y \in stay /\ goes(y) = x
      BY <1>11, <2>1, <3>1, <3>2
    <3>4. PICK k \in Living(d) : y = born[k]
      BY <1>11, <3>3
    <3>5. k = j
      BY <1>6, <2>1, <3>1, <3>3, <3>4
    <3>6. fs[born[j]] = [id |-> j, kind |-> c[j].kind] /\ gs[b[j]] = [id |-> j, kind |-> d[j].kind]
      BY <1>5, <1>9
    <3>7. d[j].kind = c[j].kind
      BY <1>2, <1>9 DEF Living
    <3>8. gs[x] = fs[y]
      BY <3>1, <3>4, <3>5, <3>6, <3>7
    <3>. QED
      BY <3>2, <3>8
  <2>4. gs = [x \in DOMAIN gs |-> gs[x]]
    BY <1>4 DEF Space
  <2>5. gs = [x \in {goes(y) : y \in stay} |-> fs[CHOOSE y \in stay : goes(y) = x]]
    BY <2>2, <2>3, <2>4
  <2>. QED
    BY <2>5 DEF goes
<1>14. Abs!Placed(q)
  <2>1. PICK k \in Ids : c[k].kind = "dir" /\ q = Append(born[k], Last(q))
    BY <1>1 DEF Renamed
  <2>2. k \in Living(c) /\ born[k] \in Seq(Names)
    BY <2>1, PathFacts DEF Living, Exists, Kinds
  <2>3. q # <<>> /\ Last(q) \in Names
    <3>1. q \in Seq(Names)
      BY <1>2, PathFacts
    <3>2. q # <<>>
      BY <2>1, <2>2
    <3>. QED
      BY <3>1, <3>2 DEF Last
  <2>4. Front(q) = born[k]
    <3>1. Front(Append(born[k], Last(q))) = born[k]
      BY <2>2, <2>3, FrontOf
    <3>. QED
      BY <2>1, <3>1
  <2>5. born[k] \in DOMAIN fs /\ fs[born[k]].kind = "dir"
    <3>1. fs[born[k]] = [id |-> k, kind |-> c[k].kind]
      BY <1>5, <2>2
    <3>. QED
      BY <1>5, <2>1, <2>2, <3>1
  <2>. QED
    BY <1>3, <2>3, <2>4, <2>5 DEF Abs!Placed, Abs!IsDir, Abs!Front, Front
<1>15. q \in DOMAIN fs => fs[q].kind = fs[born[i]].kind
  <2>. SUFFICES ASSUME NEW j \in Living(c), born[j] = q
                PROVE  fs[born[j]].kind = fs[born[i]].kind
    BY <1>5
  <2>1. c[j].kind = "file"
    BY <1>1, <1>9 DEF Renamed, Living
  <2>2. fs[born[j]] = [id |-> j, kind |-> c[j].kind] /\ fs[born[i]] = [id |-> i, kind |-> c[i].kind]
    BY <1>5, <1>9
  <2>. QED
    BY <1>2, <2>1, <2>2
<1>16. born[i] # <<>> /\ born[i] \in DOMAIN fs /\ born[i] \notin DOMAIN gs
  <2>1. born[i] # <<>>
    <3>1. IsPrefix(<<>>, q)
      BY <1>2, PathFacts DEF IsPrefix
    <3>. QED
      BY <1>2, <3>1
  <2>2. ASSUME NEW j \in Living(d) PROVE b[j] # born[i]
    BY <1>2, <1>6, <1>9
  <2>. QED
    BY <1>5, <1>9, <2>1, <2>2
<1>17. Abs!Rename(born[i], q)
  <2>1. ~Abs!IsPrefix(born[i], q)
    BY <1>2 DEF Abs!IsPrefix, IsPrefix
  <2>. QED
    BY <1>3, <1>10, <1>13, <1>14, <1>15, <1>16, <2>1 DEF Abs!Rename
<1>18. gs # fs
  BY <1>16
<1>. QED
  BY <1>2, <1>3, <1>16, <1>17, <1>18 DEF Abs!Next

\* When files at most are renamed, with assertions compiled in, and no request fails,
\* every request changes the paths of the drive as Namespace says, in one step: create
\* and mkdir make a path where its directory is, unlink and rmdir discard one with all
\* that is below it, rename moves a file's path over whatever file is at the new one,
\* and nothing else changes any.
THEOREM NamespaceHolds ==
  ASSUME Renames # "all", AssertsOn \/ Renames = "none", FailAt = {}
  PROVE  Spec => ImplementsNamespace
<1>0. FilesOnly
  BY DEF FilesOnly
<1>1. Init => Abs!Init
  <2>. SUFFICES ASSUME Init PROVE Abs!Init
    OBVIOUS
  <2>1. MirrorInv
    BY InitMirrors
  <2>. QED
    BY <2>1, SpaceInit DEF MirrorInv
<1>2. MirrorInv /\ [Next]_vars => [Abs!Next]_AbsFs
  <2>. SUFFICES ASSUME MirrorInv, [Next]_vars PROVE [Abs!Next]_AbsFs
    OBVIOUS
  <2>1. PICK born : Now(born) /\ TreeInv
    BY DEF MirrorInv
  <2>2. PICK b : /\ Sound(cloud', heap', root', byPath', pathOf', b) /\ Mirrors(cloud', heap', root', b)
                 /\ Moves(cloud, born, cloud', b)
    BY <1>0, <2>1, NextMirrors DEF MirrorStep
  <2>3. cloud' \in Clouds
    BY <1>0, NextMirrorInv DEF MirrorInv, TreeInv
  <2>4. /\ cloud \in Clouds /\ born \in [Ids -> Paths] /\ CloudOK(cloud, born) /\ DriveTree(cloud, born)
        /\ b \in [Ids -> Paths] /\ CloudOK(cloud', b) /\ DriveTree(cloud', b)
    BY <2>1, <2>2 DEF TreeInv, Now, Sound, Mirrors, Mirrored
  <2>5. CASE cloud' = cloud
    BY <2>5, AbsIsOf
  <2>6. CASE \E p \in Paths : p # <<>> /\ Begets(cloud, born, cloud', b, p)
    BY <2>3, <2>4, <2>6, BegetsMakes
  <2>7. CASE b = born /\ \E i \in Ids : Cut(cloud, i, cloud')
    BY <2>3, <2>4, <2>7, CutDiscards
  <2>8. CASE \E i, q : Renamed(cloud, born, cloud', b, i, q)
    BY <2>3, <2>4, <2>8, RenamedMoves
  <2>. QED
    BY <2>2, <2>5, <2>6, <2>7, <2>8 DEF Moves
<1>3. MirrorInv /\ [Next]_vars => MirrorInv'
  BY <1>0, NextMirrorInv
<1>. QED
  BY <1>1, <1>2, <1>3, InitMirrors, PTL DEF Spec, ImplementsNamespace, Abs!Spec
=============================================================================
