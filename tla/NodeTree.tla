------------------------------ MODULE NodeTree ------------------------------
(***************************************************************************)
(* The directory tree of gd2fuse: AbstractFileSystem keeps a tree of nodes *)
(* that mirrors Google Drive, filled one directory at a time when somebody *)
(* looks into it, and Cache maps full paths straight to nodes.  getattr,   *)
(* readdir, create, mkdir, unlink, rmdir and rename act on the tree, on    *)
(* the cache and on the drive.                                             *)
(*                                                                         *)
(* Handlers run one at a time here ("-s"), so each request is one action.  *)
(* Inside it the operators below follow the code call by call on a record  *)
(* r of everything a handler changes:                                      *)
(*   r.cloud, r.heap, r.root, r.byPath, r.pathOf - the variables           *)
(*   r.fuel  how many more requests to the drive succeed                   *)
(*   r.late  the request that fails reached the drive, its answer did not  *)
(*   r.ok    no exception has been thrown                                  *)
(*   r.res   the node that the last get() returned, or NoNode              *)
(* so a handler may fail at any request it makes, with all that it did     *)
(* before left in place.                                                   *)
(***************************************************************************)
EXTENDS Integers, Sequences, FiniteSets, SequencesExt

CONSTANTS
  Ids,        \* ids that the drive gives out; 0 is "root"
  Nodes,      \* addresses of nodes; 0 is the null pointer
  Names,      \* file names
  NoName,     \* the name of what does not exist
  MaxDepth,   \* bound: the longest path
  FailAt,     \* numbers of requests after which a handler's next one fails
  Renames,    \* what is renamed: "none", "files" or "all"
  AssertsOn,  \* FALSE iff the build defines NDEBUG, as Release builds do
  Handles,    \* files and directories that are open at a time
  RmFull      \* whether directories are removed that are not empty

NoNode == 0
RootId == 0
Kinds  == {"dir", "file"}
Paths  == UNION {[1..d -> Names] : d \in 0..MaxDepth}

\* A count that does not come down to 0.
NoLimit == -1

\* How the requests of a handler fare: all succeed, or one fails, with or
\* without effect on the drive.
Well   == [fuel |-> NoLimit, late |-> FALSE]
Reads  == {Well} \cup [fuel : FailAt, late : {FALSE}]
Writes == {Well} \cup [fuel : FailAt, late : BOOLEAN]

ASSUME IdsAssumption   == RootId \in Ids /\ Ids \subseteq Nat /\ IsFiniteSet(Ids)
ASSUME NodesAssumption == NoNode \notin Nodes /\ Nodes \subseteq Nat /\ IsFiniteSet(Nodes)
ASSUME NoNameAssumption == NoName \notin Names
ASSUME DepthAssumption == MaxDepth \in Nat
ASSUME BudgetAssumption == FailAt \subseteq Nat
ASSUME SwitchesAssumption ==
  Renames \in {"none", "files", "all"} /\ AssertsOn \in BOOLEAN /\ RmFull \in BOOLEAN

VARIABLES
  cloud,   \* cloud[i]: the drive's file of id i
  heap,    \* heap[n]: the Node at address n
  root,    \* AbstractFileSystem::_root
  byPath,  \* Cache::_pathNodes
  pathOf,  \* Cache::_nodes
  fh       \* fh[h]: the node that an open handle points to, and whose it was

vars == <<cloud, heap, root, byPath, pathOf, fh>>

Entry  == [kind : Kinds \cup {"unborn", "gone"}, name : Names \cup {NoName}, parent : Ids]
Unborn == [kind |-> "unborn", name |-> NoName, parent |-> RootId]
Gone   == [kind |-> "gone", name |-> NoName, parent |-> RootId]
Free   == [kind |-> "free", id |-> RootId, name |-> NoName, parent |-> NoNode,
           filled |-> FALSE, next |-> <<>>]
Closed == [node |-> NoNode, id |-> RootId]

\* What a loop of L turns has done to b before, between and after them.
Turns(Turn(_, _), b, L) ==
  LET at[k \in 0..L] == IF k = 0 THEN b ELSE Turn(at[k-1], k) IN at

Loop(Turn(_, _), b, L) == Turns(Turn, b, L)[L]

-----------------------------------------------------------------------------
(* The drive. *)

Exists(c, i) == c[i].kind \in Kinds

Children(c, i) == {j \in Ids \ {RootId} : Exists(c, j) /\ c[j].parent = i}

\* i and all that is below it.
Under(c, i) ==
  LET within[d \in 0..MaxDepth] ==
        IF d = 0 THEN {i} ELSE within[d-1] \cup UNION {Children(c, j) : j \in within[d-1]}
  IN within[MaxDepth]

\* The ids that the drive has for the path p.
CloudAt(c, p) ==
  Loop(LAMBDA at, d : {j \in UNION {Children(c, i) : i \in at} : c[j].name = p[d]},
       {RootId}, Len(p))

\* Deleting a folder deletes what is in it.
Delete(c, i) == [j \in Ids |-> IF j \in Under(c, i) THEN Gone ELSE c[j]]

\* Ids that the drive has not given yet, and the next it gives.
Unused(c)  == {i \in Ids : c[i] = Unborn}
FreshId(c) == CHOOSE i \in Unused(c) : TRUE

-----------------------------------------------------------------------------
(* Requests of a handler. *)

Throw(r) == [r EXCEPT !.ok = FALSE, !.res = NoNode]
Spend(r) == [r EXCEPT !.fuel = @ - 1]

\* A request about the file i fails when its turn has come, or with 404.
Fails(r, i) == r.fuel = 0 \/ ~Exists(r.cloud, i)

\* The request asks for the change c of the drive.
Update(r, i, c) ==
  IF ~Fails(r, i) THEN [Spend(r) EXCEPT !.cloud = c]
  ELSE IF r.late /\ Exists(r.cloud, i) THEN Throw([r EXCEPT !.cloud = c])
  ELSE Throw(r)

-----------------------------------------------------------------------------
(* Nodes. *)

\* Addresses that a new node may get, and the one it gets; without one, new throws.
Vacant(h)  == {n \in Nodes : h[n] = Free}
NewNode(h) == CHOOSE n \in Vacant(h) : TRUE

\* Where the list of n has entries of the name x.
Named(h, n, x) == {k \in DOMAIN h[n].next : h[h[n].next[k]].name = x}

\* The first of them.
ChildNamed(h, n, x) ==
  LET same == Named(h, n, x)
  IN IF same = {} THEN NoNode ELSE h[n].next[CHOOSE k \in same : \A j \in same : k <= j]

\* Where each prefix of p leads from node n in memory, NoNode when it is not there.
Walk(h, n, p) ==
  Turns(LAMBDA m, d : IF m = NoNode THEN NoNode ELSE ChildNamed(h, m, p[d]), n, Len(p))

\* Node::find: how many names of p it follows.
Depth(h, n, p) == CHOOSE d \in 0..Len(p) :
                    /\ Walk(h, n, p)[d] # NoNode
                    /\ d < Len(p) => Walk(h, n, p)[d + 1] = NoNode

\* The heap h with the new node m at the end of the list of n.
Linked(h, n, m, node) == [h EXCEPT ![m] = node, ![n].next = Append(@, m)]

AddNext(r, n, node) == [r EXCEPT !.heap = Linked(r.heap, n, NewNode(r.heap), node)]

\* A node made from the metadata of the file i, in the directory n.
NodeOf(c, i, n) ==
  [kind |-> c[i].kind, id |-> i, name |-> c[i].name, parent |-> n, filled |-> FALSE,
   next |-> <<>>]

-----------------------------------------------------------------------------
(* The cache of paths. *)

\* Cache::insert.
Insert(r, p, n) ==
  [r EXCEPT !.byPath = [q \in DOMAIN r.byPath \cup {p} |-> IF q = p THEN n ELSE r.byPath[q]],
            !.pathOf = [m \in DOMAIN r.pathOf \cup {n} |-> IF m = n THEN p ELSE r.pathOf[m]],
            !.res = n]

\* Cache::slotNodeRemoved, and slotNodeChanged.
Evict(r, n) ==
  IF n \notin DOMAIN r.pathOf THEN r
  ELSE [r EXCEPT !.byPath = Restrict(r.byPath, DOMAIN r.byPath \ {r.pathOf[n]}),
                 !.pathOf = Restrict(r.pathOf, DOMAIN r.pathOf \ {n})]

-----------------------------------------------------------------------------
(* AbstractFileSystem::fillDir, getRoot, get. *)

\* One turn of fillDir's loop: new, cloudFetchMeta, then addNext.
FetchChild(r, n, i) ==
  IF ~r.ok THEN r
  ELSE IF Vacant(r.heap) = {} \/ Fails(r, i) THEN Throw(r)
  ELSE AddNext(Spend(r), n, NodeOf(r.cloud, i, n))

\* The children of n, one after the other.
FetchChildren(r, n) ==
  LET ids == SetToSeq(Children(r.cloud, r.heap[n].id))
  IN Loop(LAMBDA s, k : FetchChild(s, n, ids[k]), r, Len(ids))

Filled(h, n) == [h EXCEPT ![n].filled = TRUE]

\* The flag is set before the children are fetched.
FillDir_FlagFirst(r, n) ==
  IF ~r.ok \/ r.heap[n].kind # "dir" THEN r
  ELSE IF Fails(r, r.heap[n].id) THEN Throw([r EXCEPT !.heap = Filled(r.heap, n)])
  ELSE FetchChildren([Spend(r) EXCEPT !.heap = Filled(r.heap, n)], n)

\* fillDir of a directory that is not filled, as both its callers ask first.
FillDir(r, n) ==
  IF ~r.ok \/ r.heap[n].kind # "dir" THEN r
  ELSE IF Fails(r, r.heap[n].id) THEN Throw(r)
  ELSE LET s == FetchChildren(Spend(r), n)
       IN IF s.ok THEN [s EXCEPT !.heap = Filled(s.heap, n)] ELSE s

\* When the request fails, _root is there already, and is not a folder.
GetRoot(r) ==
  IF r.root # NoNode THEN r
  ELSE IF Vacant(r.heap) = {} THEN Throw(r)
  ELSE LET n == NewNode(r.heap)
           Rooted(kind) == [r EXCEPT !.root = n,
                                     !.heap = [r.heap EXCEPT ![n] = [Free EXCEPT !.kind = kind]]]
       IN IF Fails(r, RootId) THEN Throw(Rooted("file")) ELSE Spend(Rooted("dir"))

\* What is not there is cached as well.
Follow_CacheNull(r, n, p) ==
  IF ~r.ok THEN r ELSE Insert(r, p, ChildNamed(r.heap, n, Last(p)))

\* From the directory n, which has been read, to its entry at path p.
Follow(r, n, p) ==
  IF ~r.ok THEN r
  ELSE LET m == ChildNamed(r.heap, n, Last(p))
       IN IF m = NoNode THEN [r EXCEPT !.res = NoNode] ELSE Insert(r, p, m)

\* One turn of get's loop for the d-th name of p, from the directory r.res.  A
\* file has no entries, and nothing is read for it.
Descend(r, p, d) ==
  IF ~r.ok \/ r.res = NoNode THEN r
  ELSE Follow(FillDir(r, r.res), r.res, SubSeq(p, 1, d))

\* get() of a path that is not cached.
Search(r, p) ==
  LET d == Depth(r.heap, r.root, p)
      n == Walk(r.heap, r.root, p)[d]
  IN IF d = Len(p) THEN Insert(r, p, n)
     ELSE IF r.heap[n].filled THEN [r EXCEPT !.res = NoNode]
     ELSE Loop(LAMBDA s, k : Descend(s, p, d + k), [r EXCEPT !.res = n], Len(p) - d)

Get(r, p) ==
  IF ~r.ok THEN r
  ELSE IF p \in DOMAIN r.byPath THEN [r EXCEPT !.res = r.byPath[p]]
  ELSE LET s == GetRoot(r)
       IN IF ~s.ok THEN s ELSE IF p = <<>> THEN [s EXCEPT !.res = s.root] ELSE Search(s, p)

-----------------------------------------------------------------------------
(* AbstractFileSystem::createNode. *)

\* One turn of createNode's loop: new, cloudCreateMeta, then addNext.
CreateEntry(r, p, d, dir) ==
  LET n == r.res
      i == FreshId(r.cloud)
      kind == IF d = Len(p) /\ ~dir THEN "file" ELSE "dir"
      c == [r.cloud EXCEPT ![i] = [kind |-> kind, name |-> p[d], parent |-> r.heap[n].id]]
      s == Update(r, r.heap[n].id, c)
  IN IF ~r.ok THEN r
     ELSE IF Vacant(r.heap) = {} \/ Unused(r.cloud) = {} THEN Throw(r)
     ELSE IF ~s.ok THEN s
     ELSE AddNext([s EXCEPT !.res = NewNode(s.heap)], n, NodeOf(c, i, n))

\* The tree in memory decides what is there; the new node is not cached.
CreateNode(r, p, dir) ==
  IF ~r.ok THEN r
  ELSE LET s == GetRoot(r)
           d == Depth(s.heap, s.root, p)
       IN IF ~s.ok THEN s
          ELSE Loop(LAMBDA t, k : CreateEntry(t, p, d + k, dir),
                    [s EXCEPT !.res = Walk(s.heap, s.root, p)[d]], Len(p) - d)

-----------------------------------------------------------------------------
(* Node::removeNodes. *)

\* The list of n is cleared, its nodes are freed.
Cleared(h, n) ==
  [m \in Nodes |-> IF m \in ToSet(h[n].next) THEN Free
                   ELSE IF m = n THEN [h[n] EXCEPT !.next = <<>>] ELSE h[m]]

Forget(r, n) == [r EXCEPT !.heap = Cleared(r.heap, n)]

\* The node is freed and stays in the cache.
RemoveOne_NoEvict(r, n) ==
  IF ~r.ok THEN r ELSE LET s == Forget(r, n) IN Update(s, s.heap[n].id, Delete(s.cloud, s.heap[n].id))

\* A node whose children are done: they are freed, then it goes from the drive
\* and from the cache.
RemoveOne(r, n) ==
  IF ~r.ok THEN r
  ELSE LET s == Forget(r, n)
           t == Update(s, s.heap[n].id, Delete(s.cloud, s.heap[n].id))
       IN IF t.ok THEN Evict(t, n) ELSE t

\* The order of the recursion: children first.
PostOrder(h, n) ==
  LET order[d \in 0..MaxDepth + 1] ==
        [m \in Nodes |-> IF d = 0 THEN <<m>>
                         ELSE Loop(LAMBDA s, k : s \o order[d-1][h[m].next[k]],
                                   <<>>, Len(h[m].next)) \o <<m>>]
  IN order[MaxDepth + 1][n]

\* The nodes of the sequence nodes, one after the other.
RemoveAll(r, nodes) == Loop(LAMBDA s, k : RemoveOne(s, nodes[k]), r, Len(nodes))

\* m goes from the list of n, and is freed.
Erased(h, n, m) ==
  [x \in Nodes |-> IF x = m THEN Free
                   ELSE IF x = n THEN [h[n] EXCEPT !.next = RemoveFirst(h[n].next, m)] ELSE h[x]]

\* The loop runs on to the end of the list.
RemoveNodes_All(r, what) ==
  IF ~r.ok THEN r
  ELSE LET parent == r.heap[what].parent
           s == RemoveAll(r, FlattenSeq([j \in DOMAIN r.heap[parent].next |->
                                           PostOrder(r.heap, r.heap[parent].next[j])]))
       IN IF s.ok THEN Forget(s, parent) ELSE s

\* The node is freed and stays in its parent's list.
RemoveNodes_KeepEntry(r, what) ==
  IF ~r.ok THEN r
  ELSE LET s == RemoveAll(r, PostOrder(r.heap, what))
       IN IF s.ok THEN [s EXCEPT !.heap[what] = Free] ELSE s

\* removeNodes(what) of what's parent: all of what, then its entry in the list.
RemoveNodes(r, what) ==
  IF ~r.ok THEN r
  ELSE LET parent == r.heap[what].parent
           s == RemoveAll(r, PostOrder(r.heap, what))
       IN IF s.ok THEN [s EXCEPT !.heap = Erased(s.heap, parent, what)] ELSE s

-----------------------------------------------------------------------------
(* AbstractFileSystem::renameNode. *)

\* assert(oldParentNode->detachNode(oldNode)): no call where NDEBUG is defined.
Detach(h, n) ==
  IF AssertsOn THEN [h EXCEPT ![h[n].parent].next = RemoveFirst(@, n)] ELSE h

\* Node::setName and Node::attachNode.
Attach(h, n, parent, x) ==
  LET g == [h EXCEPT ![n].name = x]
  IN IF Contains(g[parent].next, n) THEN g
     ELSE [g EXCEPT ![n].parent = parent, ![parent].next = Append(@, n)]

\* The new parent is not sent to the drive.
UpdateNode_NameOnly(r, n) ==
  Update(r, r.heap[n].id, [r.cloud EXCEPT ![r.heap[n].id].name = r.heap[n].name])

\* cloudUpdate of the name and the parent.
UpdateNode(r, n) ==
  LET node == r.heap[n]
  IN Update(r, node.id, [r.cloud EXCEPT ![node.id].name = node.name,
                                        ![node.id].parent = r.heap[node.parent].id])

\* The node that the new path had before is left alone.
Settle_KeepTarget(r, n, target) == IF r.ok THEN Evict(r, n) ELSE r

\* The old path stays in the cache.
Settle_NoEvict(r, n, target) ==
  IF ~r.ok \/ target = NoNode THEN r ELSE RemoveNodes(r, target)

\* What follows the update: onNodeChange, and the node that was at the new path
\* is removed.
Settle(r, n, target) ==
  IF ~r.ok THEN r
  ELSE IF target = NoNode THEN Evict(r, n) ELSE RemoveNodes(Evict(r, n), target)

\* Node n becomes the entry x of the directory parent.
Move(r, n, parent, target, x) ==
  Settle(UpdateNode([r EXCEPT !.heap = Attach(Detach(@, n), n, parent, x)], n), n, target)

\* r: after get() of the new parent, when nothing is at the new path.
Enter(r, n, x) == IF r.res = NoNode THEN Throw(r) ELSE Move(r, n, r.res, NoNode, x)

\* r: after get() of the new path.
Place(r, n, q) ==
  IF r.res = NoNode THEN Enter(Get(r, Front(q)), n, Last(q))
  ELSE Move(r, n, r.heap[r.res].parent, r.res, Last(q))

RenameNode(r, p, q) ==
  LET s == Get(r, p) IN IF s.res = NoNode THEN s ELSE Place(Get(s, q), s.res, q)

-----------------------------------------------------------------------------
(* The requests of the kernel. *)

Begin(f) ==
  [cloud |-> cloud, heap |-> heap, root |-> root, byPath |-> byPath, pathOf |-> pathOf,
   fuel |-> f.fuel, late |-> f.late, ok |-> TRUE, res |-> NoNode]

\* The next handler of the same call, after r.
Then(r, f) == [r EXCEPT !.fuel = f.fuel, !.late = f.late, !.ok = TRUE, !.res = NoNode]

Commit(r) ==
  /\ cloud' = r.cloud /\ heap' = r.heap /\ root' = r.root
  /\ byPath' = r.byPath /\ pathOf' = r.pathOf

\* The memory of a process that starts.
Fresh(c) == /\ cloud' = c
            /\ heap' = [n \in Nodes |-> Free] /\ root' = NoNode
            /\ byPath' = <<>> /\ pathOf' = <<>>
            /\ fh' = [h \in Handles |-> Closed]

\* The node that getattr finds for p without a request, NoNode when none.
Held(p) ==
  IF p \in DOMAIN byPath THEN byPath[p]
  ELSE IF root = NoNode THEN NoNode ELSE Walk(heap, root, p)[Len(p)]

\* The kernel resolves a path name by name, with a getattr for each; the root
\* is a directory of its own to it.
KnownDir(p) == \A d \in 1..Len(p) : LET n == Held(SubSeq(p, 1, d))
                                    IN n # NoNode /\ heap[n].kind = "dir"
Known(p) == p # <<>> /\ KnownDir(Front(p)) /\ Held(p) # NoNode

\* Bounds: there are addresses left for what a handler may need, and ids.
Room  == Cardinality({n \in Nodes : heap[n] = Free}) >= Cardinality(Ids) + 1
Spare == Room /\ \E i \in Ids : cloud[i] = Unborn

\* What the kernel and libfuse let go: a file that is open is renamed instead of
\* removed; rm(1) removes a directory when it is empty.
Removable(r, n) ==
  /\ r.heap[n].kind = "file" => \A h \in Handles : fh[h].node # n
  /\ RmFull \/ Children(r.cloud, r.heap[n].id) = {}

\* The handler's outcome r, when it was to remove the node n: no request comes for
\* the handle of a directory that is gone.
CommitRemoval(r, n) ==
  /\ Commit(r)
  /\ fh' = [h \in Handles |-> IF r.ok /\ fh[h].node = n THEN Closed ELSE fh[h]]

\* What the handle points to is what was opened.
Valid(x) == heap[x.node].kind # "free" /\ heap[x.node].id = x.id

\* getattr.  FuseGate::getINode catches what get() throws.
Lookup(p, f) ==
  /\ p # <<>> /\ KnownDir(Front(p)) /\ Room
  /\ Commit(Get(Begin(f), p)) /\ UNCHANGED fh

\* open and opendir: the handle keeps the node itself.
Open(h, p, f) ==
  /\ fh[h] = Closed /\ Known(p) /\ Room
  /\ LET r == Get(Begin(f), p)
     IN /\ Commit(r)
        /\ fh' = [fh EXCEPT ![h] = [node |-> r.res, id |-> heap[r.res].id]]

Close(h) ==
  /\ fh[h] # Closed
  /\ fh' = [fh EXCEPT ![h] = Closed]
  /\ UNCHANGED <<cloud, heap, root, byPath, pathOf>>

\* readdir of the node that opendir found.
ReadDir(r) == IF r.res = NoNode \/ r.heap[r.res].filled THEN r ELSE FillDir(r, r.res)

\* opendir and readdir.  The root is opened as JoinedFileSystem's own node, and
\* its readdir asks for _root.  Nothing catches what readdir throws: the process
\* ends.
List(p, f) ==
  /\ KnownDir(p) /\ Room
  /\ LET r == ReadDir(Get(Begin(f), p))
     IN IF r.ok THEN Commit(r) /\ UNCHANGED fh ELSE Fresh(cloud)

\* readdir of a directory that has been open for a while, under whatever path.
ListOpen(h, f) ==
  /\ fh[h] # Closed /\ Valid(fh[h]) /\ Room
  /\ LET r == ReadDir([Begin(f) EXCEPT !.res = fh[h].node])
     IN IF r.ok THEN Commit(r) /\ UNCHANGED fh ELSE Fresh(cloud)

\* mkdir: the kernel's lookup of p finds nothing, or fails, then g2f_mkdir.
MakeDir(p, e, f) ==
  /\ p # <<>> /\ KnownDir(Front(p)) /\ Spare
  /\ LET r == Get(Begin(e), p)
     IN r.res = NoNode /\ Commit(CreateNode(Then(r, f), p, TRUE)) /\ UNCHANGED fh

\* FuseGate::createFile, after it has looked for p again: nothing is made when
\* there is a node after all.
CreateFile(r, p) ==
  IF r.res = NoNode THEN CreateNode(Get(r, Front(p)), p, FALSE) ELSE r

\* create: the lookup, then g2f_create.
MakeFile(p, e, f) ==
  /\ p # <<>> /\ KnownDir(Front(p)) /\ Spare
  /\ LET r == Get(Begin(e), p)
     IN r.res = NoNode /\ Commit(CreateFile(Get(Then(r, f), p), p)) /\ UNCHANGED fh

\* unlink and rmdir: both are FuseGate::removeINode.
Unlink(p, f) ==
  /\ Known(p)
  /\ LET r == Get(Begin(f), p)
     IN Removable(r, r.res) /\ CommitRemoval(RemoveNodes(r, r.res), r.res)

\* rename: the kernel looks q up, and checks that p is not above q and that a
\* directory replaces a directory and a file a file, then g2f_rename.
Rename(p, q, e, f) ==
  /\ Renames # "none" /\ Known(p) /\ p # q /\ ~IsPrefix(p, q)
  /\ q # <<>> /\ KnownDir(Front(q)) /\ Room
  /\ heap[Held(p)].kind = "dir" => /\ Renames = "all"
                                   /\ Len(q) <= Len(p)   \* bound: no path becomes too long
  /\ LET r == Get(Begin(e), q)
     IN /\ r.res # NoNode => r.heap[r.res].kind = heap[Held(p)].kind /\ Removable(r, r.res)
        /\ CommitRemoval(RenameNode(Then(r, f), p, q), r.res)

\* The daemon is stopped, or dies, and started again.
Remount == root # NoNode /\ Fresh(cloud)

-----------------------------------------------------------------------------
\* What the drive may hold at first: a tree of some ids, no two files of a path.
First == {Unborn} \cup [kind : Kinds, name : Names, parent : Ids]

Drives ==
  {[i \in Ids |-> IF i = RootId THEN [Unborn EXCEPT !.kind = "dir"] ELSE c[i]] :
     c \in [Ids \ {RootId} -> First]}

TreeOf(c) ==
  \A i \in Ids \ {RootId} :
    /\ c[i] = Unborn => \A j \in Ids : j > i => c[j] = Unborn
    /\ Exists(c, i) => /\ c[i].parent < i /\ c[c[i].parent].kind = "dir"
                       /\ \E p \in Paths : CloudAt(c, p) = {i}

Init ==
  /\ cloud \in {c \in Drives : TreeOf(c)}
  /\ heap = [n \in Nodes |-> Free] /\ root = NoNode
  /\ byPath = <<>> /\ pathOf = <<>>
  /\ fh = [h \in Handles |-> Closed]

Next ==
  \/ \E p \in Paths, f \in Reads : Lookup(p, f) \/ List(p, f)
  \/ \E h \in Handles :
       \/ Close(h)
       \/ \E f \in Reads : ListOpen(h, f) \/ \E p \in Paths : Open(h, p, f)
  \/ \E p \in Paths, f \in Writes :
       \/ Unlink(p, f)
       \/ \E e \in {w \in Reads : w = Well \/ f = Well} :   \* bound: one handler of two fails
            \/ MakeDir(p, e, f) \/ MakeFile(p, e, f)
            \/ \E q \in Paths : Rename(p, q, e, f)
  \/ Remount

Spec == Init /\ [][Next]_vars

-----------------------------------------------------------------------------
TypeOK ==
  /\ cloud \in [Ids -> Entry]
  /\ heap \in [Nodes -> [kind : Kinds \cup {"free"}, id : Ids, name : Names \cup {NoName},
                         parent : Nodes \cup {NoNode}, filled : BOOLEAN, next : Seq(Nodes)]]
  /\ root \in Nodes \cup {NoNode}
  /\ DOMAIN byPath \subseteq Paths /\ \A p \in DOMAIN byPath : byPath[p] \in Nodes
  /\ DOMAIN pathOf \subseteq Nodes /\ \A n \in DOMAIN pathOf : pathOf[n] \in Paths
  /\ fh \in [Handles -> [node : Nodes, id : Ids] \cup {Closed}]

Live == {n \in Nodes : heap[n].kind # "free"}

\* Every node but the root is in exactly one list, once, and that list is its
\* parent's: nothing is freed while the tree still points to it, and nothing
\* would be freed twice.
TreeShape ==
  /\ \A n \in Live \ {root} :
       /\ heap[n].parent \in Live
       /\ \A m \in Nodes : Cardinality({k \in DOMAIN heap[m].next : heap[m].next[k] = n})
                           = IF m = heap[n].parent THEN 1 ELSE 0
  /\ \A n \in Live : ToSet(heap[n].next) \subseteq Live

\* A cached path leads to the node that the tree itself has for the path: a
\* handler never follows a pointer to a freed node, or to another file.
CacheAgrees ==
  \A p \in DOMAIN byPath : root # NoNode /\ Walk(heap, root, p)[Len(p)] = byPath[p]

\* A handle that is open points to the node that was opened, however the file or
\* its directories have been listed, moved and replaced: release and readdir do
\* not touch memory that was freed.
HandlesValid == \A h \in Handles : fh[h] = Closed \/ Valid(fh[h])

\* A directory that has been read holds what the drive has there, once each,
\* with the names of the drive; one that has not been read holds nothing.
TreeMirrorsDrive ==
  \A n \in Live : LET next == heap[n].next IN
    /\ ~heap[n].filled => next = <<>>
    /\ heap[n].filled =>
         /\ {heap[m].id : m \in ToSet(next)} = Children(cloud, heap[n].id)
         /\ Len(next) = Cardinality(Children(cloud, heap[n].id))
         /\ \A m \in ToSet(next) : LET i == heap[m].id IN
              heap[m].name = cloud[i].name /\ heap[m].kind = cloud[i].kind

\* A directory is marked as read only when all that the drive has there is in it:
\* a directory that was read in part never passes for a whole one.
FilledWhenComplete ==
  [][\A n \in Nodes : ~heap[n].filled /\ heap'[n].filled =>
       Children(cloud, heap'[n].id) \subseteq {heap'[m].id : m \in ToSet(heap'[n].next)}]_vars

\* Whatever has been asked before, a getattr answers what the drive has.
LookupAnswersDrive ==
  \A p \in Paths \ {<<>>} :
    KnownDir(Front(p)) /\ Room =>
      LET r == Get(Begin(Well), p)
      IN CloudAt(cloud, p) = IF r.res = NoNode THEN {} ELSE {r.heap[r.res].id}

\* Nothing goes from the drive but what is at the path of an unlink or rmdir,
\* or was at the new path of a rename.
RemovesOnlyNamed ==
  [][LET died == {i \in Ids : Exists(cloud, i) /\ ~Exists(cloud', i)}
         below(p) == UNION {Under(cloud, i) : i \in CloudAt(cloud, p)}
     IN died # {} =>
          \E p \in Paths, f \in Writes :
            /\ died \subseteq below(p)
            /\ Unlink(p, f) \/ \E q \in Paths, e \in Reads : Rename(q, p, e, f)]_vars

-----------------------------------------------------------------------------
(* Without failures this implements Namespace. *)

AbsFs ==
  LET live == {i \in Ids : Exists(cloud, i)}
      path[i \in live] == IF i = RootId THEN <<>> ELSE Append(path[cloud[i].parent], cloud[i].name)
  IN [p \in {path[i] : i \in live} |->
        LET i == CHOOSE j \in live : path[j] = p IN [id |-> i, kind |-> cloud[i].kind]]

Abs == INSTANCE Namespace WITH fs <- AbsFs

\* Every request changes the paths of the drive as Namespace says, or not at all.
ImplementsNamespace == Abs!Spec
=============================================================================
