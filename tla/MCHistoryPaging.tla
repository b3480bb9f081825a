-------------------------- MODULE MCHistoryPaging --------------------------
(***************************************************************************)
(* HistoryPaging on a chat with old messages, one of them with three       *)
(* attachments, and new ones that are written meanwhile.                   *)
(***************************************************************************)
EXTENDS HistoryPaging

MCFilesOf == [m \in Ids |-> IF m = 2 THEN 3 ELSE 0]
=============================================================================
