----------------------------- MODULE Namespace -----------------------------
(***************************************************************************)
(* What gd2fuse promises about names, when requests to the drive succeed:  *)
(* the drive is a tree of paths.  create and mkdir add one path, unlink    *)
(* and rmdir take a path away with all that is below it, rename moves a    *)
(* path with all that is below it, in one step, over whatever is at the    *)
(* new path.  There are no nodes, no cache and no directories read in part *)
(* here.  NodeTree implements this.                                        *)
(***************************************************************************)
EXTENDS Sequences, SequencesExt

CONSTANTS Ids, RootId, Paths

VARIABLE fs   \* fs[p]: the id and the kind of what is at path p

IsDir(p) == p \in DOMAIN fs /\ fs[p].kind = "dir"

\* A path can come into being where its directory is.
Placed(p) == p # <<>> /\ IsDir(Front(p))

Below(p) == {q \in DOMAIN fs : IsPrefix(p, q)}

Init ==
  /\ <<>> \in DOMAIN fs /\ fs[<<>>] = [id |-> RootId, kind |-> "dir"]
  /\ \A p \in DOMAIN fs \ {<<>>} : p \in Paths /\ Placed(p)
  /\ \A p, q \in DOMAIN fs : fs[p].id = fs[q].id => p = q

Make(p, i, kind) ==
  /\ Placed(p) /\ p \notin DOMAIN fs
  /\ \A q \in DOMAIN fs : fs[q].id # i
  /\ fs' = [q \in DOMAIN fs \cup {p} |-> IF q = p THEN [id |-> i, kind |-> kind] ELSE fs[q]]

Discard(p) ==
  /\ p # <<>>
  /\ fs' = Restrict(fs, DOMAIN fs \ Below(p))

\* Where the path x goes when p becomes q.
Moved(p, q, x) == IF IsPrefix(p, x) THEN q \o SubSeq(x, Len(p) + 1, Len(x)) ELSE x

Rename(p, q) ==
  /\ p # <<>> /\ Placed(q) /\ ~IsPrefix(p, q)
  /\ q \in DOMAIN fs => fs[q].kind = fs[p].kind
  /\ LET stay == DOMAIN fs \ Below(q)
     IN fs' = [x \in {Moved(p, q, y) : y \in stay} |->
                 fs[CHOOSE y \in stay : Moved(p, q, y) = x]]

Next ==
  /\ fs' # fs   \* a step changes something; TLC asks this first
  /\ \/ \E p \in Paths, i \in Ids, kind \in {"dir", "file"} : Make(p, i, kind)
     \/ \E p \in DOMAIN fs : Discard(p) \/ \E q \in Paths : Rename(p, q)

Spec == Init /\ [][Next]_fs
=============================================================================
