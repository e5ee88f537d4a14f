--------------------------- MODULE MCFileContent ---------------------------
(* Instances of FileContent for TLC. *)
EXTENDS FileContent, TLC

CONSTANTS f1, s1, s2, d1, a, b

\* All files of these instances live in one directory of the store.
MCDirOf == [f \in Files |-> d1]

Sym == Permutations(Sessions) \cup Permutations(Chunks)
=============================================================================
