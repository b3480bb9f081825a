-------------------------- MODULE MCChatMembership --------------------------
(***************************************************************************)
(* ChatMembership on one chat (chats share nothing), three logins, two     *)
(* overlapping lookups beside one late SADD and any number of INSERTs. A   *)
(* private chat of two (the code's number) fills up; the public capacity   *)
(* is three instead of 250.                                                *)
(***************************************************************************)
EXTENDS ChatMembership, TLC

CONSTANTS w1, w2, ann, bob, cid, c1

Interchangeable == Permutations(Workers) \cup Permutations(Logins)
=============================================================================
