-------------------------- MODULE MCClientSessions --------------------------
(***************************************************************************)
(* Instances of ClientSessions for TLC: two sessions of one login, which   *)
(* displace each other, and as the sender beside them an HTTP request, or  *)
(* the session of another login, whose send races with DeleteClient.       *)
(***************************************************************************)
EXTENDS ClientSessions

CONSTANTS r1, k1, k2, k3, ann, bob

MCLoginOf == [k \in Conns |-> IF k = k3 THEN bob ELSE ann]
=============================================================================
