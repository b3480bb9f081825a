--------------------------- MODULE MCFileMessages ---------------------------
(***************************************************************************)
(* Two calls that overlap, with three identifiers between them: two files  *)
(* for one message, or one each and one for an upload that nobody hears of. *)
(***************************************************************************)
EXTENDS FileMessages, TLC

CONSTANTS s1, s2, f1, f2, f3

MCSenders == {s1, s2}
MCFiles == {f1, f2, f3}

\* Calls differ only by name, and so do files.
Symmetry == Permutations(MCSenders) \cup Permutations(MCFiles)
=============================================================================
