--------------------------- MODULE MCFileService ---------------------------
(***************************************************************************)
(* FileService on two files and two calls of Delete at once, with two      *)
(* attempts per S3 command.                                                *)
(***************************************************************************)
EXTENDS FileService, TLC

CONSTANTS f1, f2, d1, d2

Interchangeable == Permutations(Files) \cup Permutations(Deleters)
=============================================================================
