-------------------------- MODULE MCFileDownloads --------------------------
(***************************************************************************)
(* The calls and files of MCFileMessages, and a user who joins the chat    *)
(* and asks for files one after the other.                                 *)
(***************************************************************************)
EXTENDS FileDownloads, MCFileMessages
=============================================================================
