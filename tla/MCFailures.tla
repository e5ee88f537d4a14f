----------------------------- MODULE MCFailures -----------------------------
(* Values of the constants of Failures for TLC. *)
EXTENDS Failures

CONSTANTS t1, t2

MCThreads == {t1, t2}
MCStatuses == {304, 400, 401, 408, 499, 500, 599, 600}
MCDiskErrors == {Errno.ENOENT, Errno.EACCES, Errno.ENOSPC}
MCTexts == {<<"a">>, <<"{", "|", "%2", "}">>}
MCSymmetry == Permutations(MCThreads)
=============================================================================
