---------------------------- MODULE MCNodeTree ----------------------------
(* NodeTree on a drive of a few files; addresses are numbers as well. *)
EXTENDS NodeTree

IdsTo3   == 0..3
IdsTo4   == 0..4
NodesTo9 == 1..9
NodesTo11 == 1..11

\* Nothing tells one name from another.
Sym == Permutations(Names)
=============================================================================
