--------------------------- MODULE ChatMembership ---------------------------
(***************************************************************************)
(* Chats, their members in PostgreSQL (chat, chat_user) and the list of    *)
(* members in Redis that getChatMembers reads through.                     *)
(*                                                                         *)
(* A worker is a goroutine of the message service inside getChatMembers.   *)
(* A call of AddUserToChat is its INSERT: it does nothing else here.       *)
(* Every statement and every Redis command is a step of its own and may    *)
(* fail. A caller that fails, times out or dies with its process does not  *)
(* know what became of its command: it may have run, run later, or never.  *)
(***************************************************************************)
EXTENDS Naturals, FiniteSets

CONSTANTS
    Chats,
    Logins,
    Workers,
    PrivateCap,     \* numberOfUserInPrivateChat: 2
    PublicCap,      \* numberOfUserInPublicChat: 250
    MaxLate,        \* a bound: late SADDs of one chat at a time
    None            \* a local that is not set

ASSUME SetsAssumption == IsFiniteSet(Workers) /\ Workers # {} /\ IsFiniteSet(Logins)

ASSUME CapsAssumption == PrivateCap \in Nat \ {0} /\ PublicCap \in Nat \ {0}

ASSUME LateAssumption == MaxLate \in Nat

VARIABLES
    capacity,   \* chat.max_members; 0 when the chat has no row
    members,    \* chat_user
    counted,    \* per chat, the logins whose INSERT has seen a free place, and
                \* is not committed: others do not see its row
    cache,      \* the Redis set chat:<id>; {} when the key does not exist
    ttl,        \* the key has an expiry
    lateSadd,   \* lists whose SADD nobody waits for, and may still run
    lateExpire, \* an EXPIRE that nobody waits for may still run
    pc, chat, list, \* each worker: where it is, on what, what it read
    past,       \* history: every value that members has had
    crowd,      \* history: the most logins that were counted at once
    cut,        \* history: a query of the members has ended early
    noExpire    \* history: the key was made by a SADD whose EXPIRE never came,
                \* because the one or the other failed or was cut off

tables == <<capacity, members, counted, past, crowd, cut>>
redis == <<cache, ttl, lateSadd, lateExpire, noExpire>>
worker == <<pc, chat, list>>
vars == <<tables, redis, worker>>

PcStates == {"idle", "smembers", "touch", "query", "sadd", "expire",
             "returned"}

\* No chat holds a value that is not a set of logins, no list of a worker is
\* anything but logins, a chat's capacity is one of the two constants.
TypeOK ==
    /\ capacity \in [Chats -> {0, PrivateCap, PublicCap}]
    /\ members \in [Chats -> SUBSET Logins]
    /\ counted \in [Chats -> SUBSET Logins]
    /\ cache \in [Chats -> SUBSET Logins]
    /\ ttl \in [Chats -> BOOLEAN]
    /\ lateSadd \in [Chats -> SUBSET SUBSET Logins]
    /\ lateExpire \in [Chats -> BOOLEAN]
    /\ pc \in [Workers -> PcStates]
    /\ chat \in [Workers -> Chats \cup {None}]
    /\ list \in [Workers -> SUBSET Logins]
    /\ past \in [Chats -> SUBSET SUBSET Logins]
    /\ crowd \in [Chats -> Nat]
    /\ cut \in [Chats -> BOOLEAN]
    /\ noExpire \in [Chats -> BOOLEAN]

Init ==
    /\ capacity = [c \in Chats |-> 0]
    /\ members = [c \in Chats |-> {}]
    /\ counted = [c \in Chats |-> {}]
    /\ cache = [c \in Chats |-> {}]
    /\ ttl = [c \in Chats |-> FALSE]
    /\ lateSadd = [c \in Chats |-> {}]
    /\ lateExpire = [c \in Chats |-> FALSE]
    /\ pc = [w \in Workers |-> "idle"]
    /\ chat = [w \in Workers |-> None]
    /\ list = [w \in Workers |-> {}]
    /\ past = [c \in Chats |-> {{}}]
    /\ crowd = [c \in Chats |-> 0]
    /\ cut = [c \in Chats |-> FALSE]
    /\ noExpire = [c \in Chats |-> FALSE]

Goto(w, state) == pc' = [pc EXCEPT ![w] = state]

\* The call returns: its locals are gone.
Finish(w) ==
    /\ Goto(w, "idle")
    /\ list' = [list EXCEPT ![w] = {}]
    /\ chat' = [chat EXCEPT ![w] = None]

-----------------------------------------------------------------------------
(***************************************************************************)
(* CreateChat and AddUserToChat.                                           *)
(***************************************************************************)

\* Mutant: a public chat has one place more.
ChatSizesOffByOne == {PrivateCap, PublicCap + 1}

ChatSizes == {PrivateCap, PublicCap}

\* handleNewChat: the chat is committed before its creator is inserted, who may
\* never be (an error, the context's timeout, a restart).
CreateChat(c) ==
    /\ capacity[c] = 0
    /\ \E max \in ChatSizes : capacity' = [capacity EXCEPT ![c] = max]
    /\ UNCHANGED <<members, counted, past, crowd, cut, redis, worker>>

\* `where (select count(*) ...) < (select max_members ...)` on the statement's
\* snapshot (READ COMMITTED); the insert is not visible to others yet.
\* Mutant: <= instead of <.
HasFreePlaceOrIsFull(c) == Cardinality(members[c]) <= capacity[c]

HasFreePlace(c) == Cardinality(members[c]) < capacity[c]

\* An INSERT that sees no free place has no effect: the call fails.
CountMembers(c, u) ==
    /\ HasFreePlace(c)
    /\ counted' = [counted EXCEPT ![c] = @ \cup {u}]
    /\ crowd' = [crowd EXCEPT ![c] =
          IF Cardinality(counted'[c]) > @ THEN Cardinality(counted'[c]) ELSE @]
    /\ UNCHANGED <<capacity, members, past, cut, redis, worker>>

\* Mutant: AddUserToChat also calls AddMemberToList, the unused method of
\* chatMembersStorage, which creates a key that holds one member.
InsertMemberAndCache(c, u) ==
    /\ u \in counted[c]
    /\ u \notin members[c]
    /\ members' = [members EXCEPT ![c] = @ \cup {u}]
    /\ past' = [past EXCEPT ![c] = @ \cup {members'[c]}]
    /\ counted' = [counted EXCEPT ![c] = @ \ {u}]
    /\ cache' = [cache EXCEPT ![c] = @ \cup {u}]
    /\ ttl' = [ttl EXCEPT ![c] = TRUE]
    /\ UNCHANGED <<capacity, crowd, cut, lateSadd, lateExpire, noExpire, worker>>

\* The row is inserted and committed, whether or not its caller still waits.
\* Nothing is told to Redis. Two INSERTs of one login are as one: the primary
\* key (chat_id, user_login) lets one in.
InsertMember(c, u) ==
    /\ u \in counted[c]
    /\ u \notin members[c]
    /\ members' = [members EXCEPT ![c] = @ \cup {u}]
    /\ past' = [past EXCEPT ![c] = @ \cup {members'[c]}]
    /\ counted' = [counted EXCEPT ![c] = @ \ {u}]
    /\ UNCHANGED <<capacity, crowd, cut, redis, worker>>

\* The primary key refuses the row, or the statement is cancelled.
InsertFails(c, u) ==
    /\ u \in counted[c]
    /\ counted' = [counted EXCEPT ![c] = @ \ {u}]
    /\ UNCHANGED <<capacity, members, past, crowd, cut, redis, worker>>

-----------------------------------------------------------------------------
(***************************************************************************)
(* getChatMembers.                                                         *)
(***************************************************************************)

StartLookup(w, c) ==
    /\ pc[w] = "idle"
    /\ Goto(w, "smembers")
    /\ chat' = [chat EXCEPT ![w] = c]
    /\ UNCHANGED <<list, tables, redis>>

\* GetMembersList, SMEMBERS: the set, or an error that is only logged.
ReadCache(w) ==
    /\ pc[w] = "smembers"
    /\ \/ list' = [list EXCEPT ![w] = cache[chat[w]]] /\ Goto(w, "touch")
       \/ UNCHANGED list /\ Goto(w, "query")
    /\ UNCHANGED <<chat, tables, redis>>

\* EXPIRE on the key: no effect when the key is gone.
SetTTL(c) ==
    /\ ttl' = [ttl EXCEPT ![c] = cache[c] # {}]
    /\ noExpire' = [noExpire EXCEPT ![c] = FALSE]
    /\ UNCHANGED <<cache, lateSadd>>

\* An attempt at an EXPIRE is not answered: it is lost or late.
LoseExpire(c) == lateExpire' \in {lateExpire, [lateExpire EXCEPT ![c] = TRUE]}

\* GetMembersList, EXPIRE: when it fails, or its answer does not come, the list
\* just read is dropped. An empty list sends getChatMembers to the database.
TouchCache(w) ==
    /\ pc[w] = "touch"
    /\ LoseExpire(chat[w])
    /\ \/ /\ SetTTL(chat[w]) /\ UNCHANGED list
          /\ Goto(w, IF list[w] = {} THEN "query" ELSE "sadd")
       \/ /\ SetTTL(chat[w]) \/ UNCHANGED <<cache, ttl, lateSadd, noExpire>>
          /\ list' = [list EXCEPT ![w] = {}]
          /\ Goto(w, "query")
    /\ UNCHANGED <<chat, tables>>

\* GetAllChatMembers. rows.Err() is not read: when the rows stop early (the
\* connection, the timeout), what was read until then passes for the members.
QueryMembers(w) ==
    LET c == chat[w] IN
    /\ pc[w] = "query"
    /\ \E read \in SUBSET members[c] :
          /\ list' = [list EXCEPT ![w] = read]
          /\ cut' = [cut EXCEPT ![c] = @ \/ read # members[c]]
    /\ Goto(w, "sadd")
    /\ UNCHANGED <<chat, capacity, members, counted, past, crowd, redis>>

\* The query itself fails, which ends the call.
QueryFails(w) ==
    /\ pc[w] = "query"
    /\ Finish(w)
    /\ UNCHANGED <<tables, redis>>

\* SADD: a key that does not exist is made without an expiry.
Sadd(c, logins) == cache' = [cache EXCEPT ![c] = @ \cup logins]

\* The key has no expiry, and no EXPIRE of this caller will come.
LeaveWithoutExpire(c) == noExpire' = [noExpire EXCEPT ![c] = cache'[c] # {} /\ ~ttl[c]]

\* Mutant: CreateMembersList returns after SADD.
FillCacheWithoutTTL(w) ==
    /\ pc[w] = "sadd"
    /\ Sadd(chat[w], list[w])
    /\ Goto(w, "returned")
    /\ UNCHANGED <<chat, list, tables, ttl, lateSadd, lateExpire, noExpire>>

\* CreateMembersList, SADD, after a hit as well as after a miss.
FillCache(w) ==
    /\ pc[w] = "sadd"
    /\ list[w] # {}
    /\ Sadd(chat[w], list[w])
    /\ Goto(w, "expire")
    /\ UNCHANGED <<chat, list, tables, ttl, lateSadd, lateExpire, noExpire>>

\* The answer does not come. The SADD has run or may run late, and the client
\* tries again or gives up; then there is no EXPIRE.
FillCacheUnanswered(w) ==
    LET c == chat[w] IN
    /\ pc[w] = "sadd"
    /\ list[w] # {}
    /\ \/ Sadd(c, list[w]) /\ LeaveWithoutExpire(c) /\ UNCHANGED lateSadd
       \/ /\ lateSadd' = [lateSadd EXCEPT ![c] = @ \cup {list[w]}]
          /\ Cardinality(lateSadd'[c]) <= MaxLate
          /\ UNCHANGED <<cache, noExpire>>
    /\ Goto(w, "returned") \/ UNCHANGED pc
    /\ UNCHANGED <<chat, list, tables, ttl, lateExpire>>

\* Redis refuses the SADD, as it does one without members, or does not get it;
\* getChatMembers returns the list anyway.
FillCacheFails(w) ==
    /\ pc[w] = "sadd"
    /\ Goto(w, "returned")
    /\ UNCHANGED <<chat, list, tables, redis>>

\* CreateMembersList, EXPIRE.
ExpireLater(w) ==
    /\ pc[w] = "expire"
    /\ LoseExpire(chat[w])
    /\ \/ SetTTL(chat[w])
       \/ UNCHANGED <<cache, ttl, lateSadd>> /\ LeaveWithoutExpire(chat[w])
    /\ Goto(w, "returned")
    /\ UNCHANGED <<chat, list, tables>>

\* The caller has used the list.
Return(w) ==
    /\ pc[w] = "returned"
    /\ Finish(w)
    /\ UNCHANGED <<tables, redis>>

-----------------------------------------------------------------------------
\* MembersListTTL has passed since the last EXPIRE.
KeyExpires(c) ==
    /\ cache[c] # {}
    /\ ttl[c]
    /\ cache' = [cache EXCEPT ![c] = {}]
    /\ ttl' = [ttl EXCEPT ![c] = FALSE]
    /\ noExpire' = [noExpire EXCEPT ![c] = FALSE]
    /\ UNCHANGED <<worker, tables, lateSadd, lateExpire>>

\* A SADD runs that nobody waits for, or never will.
LateSadd(c, logins) ==
    /\ logins \in lateSadd[c]
    /\ lateSadd' = [lateSadd EXCEPT ![c] = @ \ {logins}]
    /\ \/ Sadd(c, logins) /\ LeaveWithoutExpire(c)
       \/ UNCHANGED <<cache, noExpire>>
    /\ UNCHANGED <<worker, tables, ttl, lateExpire>>

LateExpire(c) ==
    /\ lateExpire[c]
    /\ lateExpire' = [lateExpire EXCEPT ![c] = FALSE]
    /\ SetTTL(c) \/ UNCHANGED <<cache, ttl, lateSadd, noExpire>>
    /\ UNCHANGED <<worker, tables>>

\* The message service stops and starts: every call is lost. A command that was
\* on its way has failed a step before, and may still run.
Restart ==
    /\ \E w \in Workers : pc[w] # "idle"
    /\ pc' = [w \in Workers |-> "idle"]
    /\ chat' = [w \in Workers |-> None]
    /\ list' = [w \in Workers |-> {}]
    /\ noExpire' = [c \in Chats |-> cache[c] # {} /\ ~ttl[c]]
    /\ UNCHANGED <<tables, cache, ttl, lateSadd, lateExpire>>

Lookup(w) ==
    \/ ReadCache(w) \/ TouchCache(w) \/ QueryMembers(w) \/ QueryFails(w)
    \/ FillCache(w) \/ FillCacheUnanswered(w) \/ FillCacheFails(w) \/ ExpireLater(w)

Next ==
    \/ \E w \in Workers :
          \/ \E c \in Chats : StartLookup(w, c)
          \/ Lookup(w) \/ Return(w)
    \/ \E c \in Chats :
          \/ CreateChat(c)
          \/ \E u \in Logins : CountMembers(c, u) \/ InsertMember(c, u) \/ InsertFails(c, u)
          \/ \E logins \in SUBSET Logins : LateSadd(c, logins)
          \/ KeyExpires(c) \/ LateExpire(c)
    \/ Restart

Spec == Init /\ [][Next]_vars

-----------------------------------------------------------------------------
(***************************************************************************)
(* Properties.                                                             *)
(***************************************************************************)

\* The list in Redis, and the list a fan-out is about to use, names members only,
\* and it is the whole of what the members were at some moment, unless a query
\* of that chat has ended early. Fills race with each other, with inserts and
\* with expiry (a list read before the key expired can be written back after).
WasMembership(c, logins) ==
    /\ logins \subseteq members[c]
    /\ logins \in past[c] \/ cut[c]

CacheIsPastMembership ==
    /\ \A c \in Chats : WasMembership(c, cache[c])
    /\ \A w \in Workers : pc[w] # "idle" => WasMembership(chat[w], list[w])

\* Inserts that all saw the last free place all take it: a chat exceeds its
\* capacity by fewer members than its INSERTs that were under way at once, those
\* included that their callers have given up.
OvershootBounded ==
    \A c \in Chats :
        capacity[c] # 0 =>
            Cardinality(members[c] \cup counted[c]) < capacity[c] + crowd[c]

\* A key without an expiry, whose stale list would never go away, exists only
\* between SADD and EXPIRE of CreateMembersList, or after a SADD whose EXPIRE never
\* came: the EXPIRE failed or was cut off by a restart, or the SADD itself was
\* not answered.
KeyWithoutTTLIsExplained ==
    \A c \in Chats : cache[c] # {} /\ ~ttl[c] =>
        noExpire[c] \/ \E w \in Workers : pc[w] = "expire" /\ chat[w] = c

\* chatMembersStorage.go:5 "it store all the users who are in the chat": when no
\* call is under way and no query has ended early, a cached list holds every
\* member.
CacheHoldsAllMembers ==
    (\A w \in Workers : pc[w] = "idle") =>
        \A c \in Chats : cache[c] # {} /\ ~cut[c] => cache[c] = members[c]
=============================================================================
