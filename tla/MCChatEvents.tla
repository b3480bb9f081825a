---------------------------- MODULE MCChatEvents ----------------------------
(***************************************************************************)
(* ChatEvents with a login that has two sockets, one that has one and one  *)
(* that is always offline. Either the first socket of ann is open, and     *)
(* bob talks to her; or bob has left, and both sockets of ann connect.     *)
(***************************************************************************)
EXTENDS ChatEvents

CONSTANTS r1, a1, a2, b1, ann, bob, cat

MCLoginOf == [k \in Conns |-> IF k = b1 THEN bob ELSE ann]

MCLinks == {
    [k \in Conns |-> IF k = a2 THEN "none" ELSE "open"],
    [k \in Conns |-> IF k = b1 THEN "closed" ELSE "none"]}

MCOldMembers == <<{ann, bob}>>

New == [type |-> "new"]
Add(c, l) == [type |-> "add", chat |-> c, login |-> l]
Send(c, l) == [type |-> "send", chat |-> c, login |-> l]

\* The pages of ann ask for their chats only.
MCAsks == [p \in Procs |->
    IF p = b1 THEN {New, Add(2, ann), Add(1, cat), Send(1, bob)}
    ELSE IF p = r1 THEN {Send(1, bob)}
    ELSE {}]
=============================================================================
