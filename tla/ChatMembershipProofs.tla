------------------------ MODULE ChatMembershipProofs ------------------------
(***************************************************************************)
(* For any number of chats, logins and overlapping calls: the cached list  *)
(* of members is always a past membership, it expires unless a SADD was    *)
(* left without its EXPIRE, and how far a chat can grow beyond its         *)
(* capacity, whatever commands run late or are never answered.             *)
(***************************************************************************)
EXTENDS ChatMembership, FiniteSetTheorems, TLAPS

Busy(w) == pc[w] # "idle"

\* A call works on a chat, and an idle worker has no list.
CallHasChat == \A w \in Workers : IF Busy(w) THEN chat[w] \in Chats ELSE list[w] = {}

\* The values members has had form a chain that ends in the present one.
PastIsChain ==
    \A c \in Chats :
        /\ {} \in past[c]
        /\ members[c] \in past[c]
        /\ \A s \in past[c] : s \subseteq members[c]
        /\ \A s, t \in past[c] : s \subseteq t \/ t \subseteq s

\* A list that a late SADD may still write was read by a call.
LateIsPastMembership == \A c \in Chats : \A logins \in lateSadd[c] : WasMembership(c, logins)

CacheInv ==
    TypeOK /\ CallHasChat /\ PastIsChain /\ CacheIsPastMembership /\ LateIsPastMembership

-----------------------------------------------------------------------------
\* Finish and Goto keep the types of the locals.
LEMMA FinishTypes ==
    ASSUME TypeOK, NEW w \in Workers, Finish(w)
    PROVE  /\ pc' \in [Workers -> PcStates] /\ chat' \in [Workers -> Chats \cup {None}]
           /\ list' \in [Workers -> SUBSET Logins]
           /\ pc'[w] = "idle" /\ list'[w] = {}
           /\ \A v \in Workers \ {w} :
                 pc'[v] = pc[v] /\ chat'[v] = chat[v] /\ list'[v] = list[v]
BY DEF Finish, Goto, TypeOK, PcStates

\* A lost call changes no table and no key; what remains is unchanged.
LEMMA FinishSafe ==
    ASSUME CacheInv, NEW w \in Workers, Finish(w), UNCHANGED <<tables, redis>>
    PROVE  CacheInv'
<1>1. TypeOK'
  BY FinishTypes DEF CacheInv, TypeOK, tables, redis
<1>2. CallHasChat'
  BY FinishTypes DEF CacheInv, CallHasChat, Busy
<1>3. PastIsChain' /\ LateIsPastMembership'
  BY DEF CacheInv, PastIsChain, LateIsPastMembership, WasMembership, tables, redis
<1>4. CacheIsPastMembership'
  BY FinishTypes DEF CacheInv, CacheIsPastMembership, WasMembership, tables, redis
<1> QED BY <1>1, <1>2, <1>3, <1>4 DEF CacheInv

\* A step inside a call changes its own locals and the key of its chat, and no
\* membership: the invariant holds when what it leaves there is a past
\* membership.
LEMMA CallSafe ==
    ASSUME CacheInv, NEW w \in Workers, NEW c \in Chats, UNCHANGED <<members, past>>, TypeOK',
           \A d \in Chats : cut[d] => cut'[d],
           pc'[w] # "idle", chat'[w] = c,
           WasMembership(c, list[w])', WasMembership(c, cache[c])',
           \A d \in Chats \ {c} : cache'[d] = cache[d] /\ lateSadd'[d] = lateSadd[d],
           \A logins \in lateSadd'[c] : logins \in lateSadd[c] \cup {list[w]},
           \A v \in Workers \ {w} : pc'[v] = pc[v] /\ chat'[v] = chat[v] /\ list'[v] = list[v],
           list[w] \in lateSadd'[c] => WasMembership(c, list[w])
    PROVE  CacheInv'
<1>1. CallHasChat'
  BY DEF CacheInv, CallHasChat, Busy
<1>2. PastIsChain'
  BY DEF CacheInv, PastIsChain
<1>3. CacheIsPastMembership'
  BY DEF CacheInv, CacheIsPastMembership, WasMembership, CallHasChat, Busy
<1>4. LateIsPastMembership'
  BY DEF CacheInv, LateIsPastMembership, WasMembership
<1> QED BY <1>1, <1>2, <1>3, <1>4 DEF CacheInv

\* SADD of a past membership to a past membership leaves the later of the two,
\* because memberships only grow.
LEMMA SaddSafe ==
    ASSUME CacheInv, NEW c \in Chats, NEW logins, WasMembership(c, logins)
    PROVE  WasMembership(c, cache[c] \cup logins)
<1>1. WasMembership(c, cache[c])
  BY DEF CacheInv, CacheIsPastMembership
<1>2. \/ cut[c]
      \/ cache[c] \subseteq logins \/ logins \subseteq cache[c]
  BY <1>1 DEF CacheInv, PastIsChain, WasMembership
<1>3. \/ cut[c] \/ cache[c] \cup logins = logins \/ cache[c] \cup logins = cache[c]
  BY <1>2
<1> QED BY <1>1, <1>3 DEF WasMembership

\* A step of PostgreSQL that no lookup notices: it keeps the members.
LEMMA TablesSafe ==
    ASSUME CacheInv, TypeOK', UNCHANGED <<members, past, cut, redis, worker>>
    PROVE  CacheInv'
BY DEF CacheInv, CallHasChat, Busy, PastIsChain, CacheIsPastMembership, LateIsPastMembership,
       WasMembership, redis, worker

\* A step of Redis without a call: what it leaves of one key is a past
\* membership.
LEMMA RedisSafe ==
    ASSUME CacheInv, TypeOK', UNCHANGED <<worker, tables>>, NEW c \in Chats,
           WasMembership(c, cache'[c]),
           \A d \in Chats \ {c} : cache'[d] = cache[d],
           \A d \in Chats : lateSadd'[d] \subseteq lateSadd[d]
    PROVE  CacheInv'
<1>1. CallHasChat' /\ PastIsChain'
  BY DEF CacheInv, CallHasChat, PastIsChain, Busy, worker, tables
<1>2. CacheIsPastMembership'
  BY DEF CacheInv, CacheIsPastMembership, WasMembership, worker, tables
<1>3. LateIsPastMembership'
  BY DEF CacheInv, LateIsPastMembership, WasMembership, tables
<1> QED BY <1>1, <1>2, <1>3 DEF CacheInv

\* What CallSafe asks of a step inside a lookup, but for the lists.
Inside(w, c) ==
    /\ UNCHANGED <<members, past>>
    /\ \A d \in Chats : cut[d] => cut'[d]
    /\ pc'[w] # "idle" /\ chat'[w] = c
    /\ \A d \in Chats \ {c} : cache'[d] = cache[d] /\ lateSadd'[d] = lateSadd[d]
    /\ \A logins \in lateSadd'[c] : logins \in lateSadd[c] \cup {list[w]}
    /\ \A v \in Workers \ {w} : pc'[v] = pc[v] /\ chat'[v] = chat[v] /\ list'[v] = list[v]

\* Every step of a lookup keeps the invariant.
LEMMA LookupSafe ==
    ASSUME CacheInv, NEW w \in Workers, Lookup(w)
    PROVE  CacheInv'
<1> USE DEF Goto
<1>1. Busy(w)
  BY DEF Lookup, ReadCache, TouchCache, QueryMembers, QueryFails, FillCache,
         FillCacheUnanswered, FillCacheFails, ExpireLater, Busy
<1>2. PICK c \in Chats : c = chat[w]
  BY <1>1 DEF CacheInv, CallHasChat
<1>3. /\ WasMembership(c, list[w]) /\ WasMembership(c, cache[c])
      /\ WasMembership(c, cache[c] \cup list[w])
      /\ WasMembership(c, {}) /\ WasMembership(c, members[c])
  <2>1. WasMembership(c, list[w]) /\ WasMembership(c, cache[c])
    BY <1>1, <1>2 DEF CacheInv, CacheIsPastMembership, Busy
  <2>2. WasMembership(c, {}) /\ WasMembership(c, members[c])
    BY DEF CacheInv, PastIsChain, WasMembership
  <2> QED BY <2>1, <2>2, SaddSafe
<1>4. TypeOK
  BY DEF CacheInv
<1> DEFINE Good == WasMembership(c, list[w])' /\ WasMembership(c, cache[c])'
<1>5. TypeOK' /\ Inside(w, c) /\ Good => CacheInv'
  BY <1>3, CallSafe DEF Inside
<1>6. CASE ReadCache(w)
  <2>1. TypeOK' /\ Inside(w, c)
    BY <1>2, <1>4, <1>6 DEF ReadCache, Inside, TypeOK, PcStates, tables, redis
  <2>2. Good
    BY <1>2, <1>3, <1>4, <1>6 DEF ReadCache, TypeOK, WasMembership, tables, redis
  <2> QED BY <1>5, <2>1, <2>2
<1>7. CASE TouchCache(w)
  <2>1. /\ UNCHANGED <<cache, lateSadd, chat, tables>> /\ list' \in {list, [list EXCEPT ![w] = {}]}
        /\ \/ pc' = [pc EXCEPT ![w] = "query"] \/ pc' = [pc EXCEPT ![w] = "sadd"]
        /\ ttl' \in [Chats -> BOOLEAN] /\ noExpire' \in [Chats -> BOOLEAN]
        /\ lateExpire' \in [Chats -> BOOLEAN]
    BY <1>2, <1>4, <1>7 DEF TouchCache, SetTTL, LoseExpire, TypeOK
  <2>2. TypeOK' /\ Inside(w, c)
    BY <1>2, <1>4, <2>1 DEF Inside, TypeOK, PcStates, tables
  <2>3. Good
    BY <1>2, <1>3, <1>4, <2>1 DEF TypeOK, WasMembership, tables
  <2> QED BY <1>5, <2>2, <2>3
<1>8. CASE QueryMembers(w)
  <2>1. PICK read \in SUBSET members[c] :
           /\ list' = [list EXCEPT ![w] = read]
           /\ cut' = [cut EXCEPT ![c] = @ \/ read # members[c]]
    BY <1>2, <1>8 DEF QueryMembers
  <2>2. /\ cut' \in [Chats -> BOOLEAN] /\ cut'[c] = (cut[c] \/ read # members[c])
        /\ \A d \in Chats \ {c} : cut'[d] = cut[d]
    BY <1>4, <2>1 DEF TypeOK
  <2>3. TypeOK' /\ Inside(w, c)
    BY <1>2, <1>4, <1>8, <2>1, <2>2 DEF QueryMembers, Inside, TypeOK, PcStates, redis
  <2>4. Good
    BY <1>3, <1>4, <1>8, <2>1, <2>2 DEF QueryMembers, TypeOK, WasMembership, redis
  <2> QED BY <1>5, <2>3, <2>4
<1>9. CASE QueryFails(w)
  BY <1>9, FinishSafe DEF QueryFails
<1>10. CASE FillCache(w) \/ FillCacheUnanswered(w) \/ FillCacheFails(w)
  <2>1. /\ UNCHANGED <<chat, list, tables, ttl, lateExpire>>
        /\ \/ UNCHANGED pc \/ pc' = [pc EXCEPT ![w] = "returned"]
           \/ pc' = [pc EXCEPT ![w] = "expire"]
        /\ cache' \in {cache, [cache EXCEPT ![c] = @ \cup list[w]]}
        /\ lateSadd' \in {lateSadd, [lateSadd EXCEPT ![c] = @ \cup {list[w]}]}
        /\ noExpire' \in [Chats -> BOOLEAN]
    BY <1>2, <1>4, <1>10
       DEF FillCache, FillCacheUnanswered, FillCacheFails, Sadd, LeaveWithoutExpire, TypeOK, redis
  <2>2. list[w] \in SUBSET Logins /\ cache[c] \in SUBSET Logins /\ lateSadd[c] \in SUBSET SUBSET Logins
    BY <1>4 DEF TypeOK
  <2>3. /\ cache' \in [Chats -> SUBSET Logins] /\ cache'[c] \in {cache[c], cache[c] \cup list[w]}
        /\ \A d \in Chats \ {c} : cache'[d] = cache[d]
    BY <1>4, <2>1, <2>2 DEF TypeOK
  <2>4. /\ lateSadd' \in [Chats -> SUBSET SUBSET Logins]
        /\ \A d \in Chats \ {c} : lateSadd'[d] = lateSadd[d]
        /\ \A logins \in lateSadd'[c] : logins \in lateSadd[c] \cup {list[w]}
    BY <1>4, <2>1, <2>2 DEF TypeOK
  <2>5. TypeOK'
    BY <1>4, <2>1, <2>3, <2>4 DEF TypeOK, PcStates, tables
  <2>6. Inside(w, c)
    BY <1>1, <1>2, <1>4, <2>1, <2>3, <2>4 DEF Inside, TypeOK, Busy, tables
  <2>7. Good
    BY <1>3, <2>1, <2>3 DEF WasMembership, tables
  <2> QED BY <1>5, <2>5, <2>6, <2>7
<1>11. CASE ExpireLater(w)
  <2>1. /\ UNCHANGED <<cache, lateSadd, chat, list, tables>>
        /\ pc' = [pc EXCEPT ![w] = "returned"]
        /\ ttl' \in [Chats -> BOOLEAN] /\ noExpire' \in [Chats -> BOOLEAN]
        /\ lateExpire' \in [Chats -> BOOLEAN]
    BY <1>2, <1>4, <1>11 DEF ExpireLater, SetTTL, LoseExpire, LeaveWithoutExpire, TypeOK
  <2>2. TypeOK' /\ Inside(w, c)
    BY <1>2, <1>4, <2>1 DEF Inside, TypeOK, PcStates, tables
  <2>3. Good
    BY <1>3, <2>1 DEF WasMembership, tables
  <2> QED BY <1>5, <2>2, <2>3
<1> QED BY <1>6, <1>7, <1>8, <1>9, <1>10, <1>11 DEF Lookup

\* A table with one element more stays countable.
LEMMA CrowdType ==
    ASSUME TypeOK, NEW c \in Chats, NEW u \in Logins, CountMembers(c, u)
    PROVE  /\ counted' \in [Chats -> SUBSET Logins] /\ counted'[c] = counted[c] \cup {u}
           /\ crowd' \in [Chats -> Nat]
           /\ crowd'[c] >= Cardinality(counted'[c]) /\ crowd'[c] >= crowd[c]
           /\ Cardinality(counted'[c]) \in Nat
           /\ \A d \in Chats \ {c} : counted'[d] = counted[d] /\ crowd'[d] = crowd[d]
<1>1. counted' \in [Chats -> SUBSET Logins] /\ counted'[c] = counted[c] \cup {u}
  BY DEF CountMembers, TypeOK
<1>2. counted'[c] \in SUBSET Logins
  BY <1>1
<1>3. IsFiniteSet(counted'[c])
  BY <1>2, SetsAssumption, FS_Subset
<1>4. Cardinality(counted'[c]) \in Nat
  BY <1>3, FS_CardinalityType
<1>5. PICK n \in Nat : n = Cardinality(counted'[c])
  BY <1>4
<1>6. crowd' = [crowd EXCEPT ![c] = IF n > @ THEN n ELSE @]
  BY <1>5 DEF CountMembers
<1>7. crowd' \in [Chats -> Nat] /\ crowd'[c] >= n /\ crowd'[c] >= crowd[c]
  BY <1>5, <1>6 DEF TypeOK
<1>8. \A d \in Chats \ {c} : counted'[d] = counted[d] /\ crowd'[d] = crowd[d]
  BY <1>6 DEF CountMembers, TypeOK
<1> QED BY <1>1, <1>5, <1>7, <1>8

\* CacheInv is inductive.
LEMMA CacheInductive == CacheInv /\ [Next]_vars => CacheInv'
<1> SUFFICES ASSUME CacheInv, [Next]_vars PROVE CacheInv'
  OBVIOUS
<1> USE DEF Goto
<1>t. TypeOK
  BY DEF CacheInv
<1>1. ASSUME NEW c \in Chats, CreateChat(c)
      PROVE  CacheInv'
  <2>1. TypeOK'
    BY <1>1, <1>t, CapsAssumption DEF TypeOK, CreateChat, ChatSizes, redis, worker
  <2> QED BY <1>1, <2>1, TablesSafe DEF CreateChat
<1>2. ASSUME NEW c \in Chats, NEW u \in Logins, CountMembers(c, u)
      PROVE  CacheInv'
  <2>1. TypeOK'
    BY <1>2, <1>t, CrowdType DEF TypeOK, CountMembers, redis, worker
  <2> QED BY <1>2, <2>1, TablesSafe DEF CountMembers
<1>3. ASSUME NEW c \in Chats, NEW u \in Logins, InsertFails(c, u)
      PROVE  CacheInv'
  <2>1. TypeOK'
    BY <1>3, <1>t DEF TypeOK, InsertFails, redis, worker
  <2> QED BY <1>3, <2>1, TablesSafe DEF InsertFails
<1>4. ASSUME NEW c \in Chats, NEW u \in Logins, InsertMember(c, u)
      PROVE  CacheInv'
  <2> DEFINE more == members[c] \cup {u}
  <2>1. more \in SUBSET Logins
    BY <1>t DEF TypeOK
  <2>2. /\ members'[c] = more /\ past'[c] = past[c] \cup {more}
        /\ \A d \in Chats \ {c} : members'[d] = members[d] /\ past'[d] = past[d]
        /\ members' \in [Chats -> SUBSET Logins] /\ past' \in [Chats -> SUBSET SUBSET Logins]
        /\ counted' \in [Chats -> SUBSET Logins]
    BY <1>4, <1>t, <2>1 DEF InsertMember, TypeOK
  <2>3. UNCHANGED <<capacity, crowd, cut, redis, worker>>
    BY <1>4 DEF InsertMember
  <2>4. TypeOK'
    BY <1>t, <2>2, <2>3 DEF TypeOK, redis, worker
  <2>5. CallHasChat'
    BY <2>3 DEF CacheInv, CallHasChat, Busy, worker
  <2>6. PastIsChain'
    BY <2>1, <2>2 DEF CacheInv, PastIsChain
  <2>7. CacheIsPastMembership'
    <3>1. UNCHANGED <<cache, cut, pc, chat, list>>
      BY <2>3 DEF redis, worker
    <3>2. \A d \in Chats : members[d] \subseteq members'[d] /\ past[d] \subseteq past'[d]
      BY <2>2
    <3>3. ASSUME NEW d \in Chats PROVE WasMembership(d, cache[d])'
      BY <3>1, <3>2 DEF CacheInv, CacheIsPastMembership, WasMembership
    <3>4. ASSUME NEW w \in Workers, pc[w] # "idle" PROVE WasMembership(chat[w], list[w])'
      <4>1. PICK d \in Chats : d = chat[w]
        BY <3>4 DEF CacheInv, CallHasChat, Busy
      <4> QED BY <3>1, <3>2, <3>4, <4>1 DEF CacheInv, CacheIsPastMembership, WasMembership
    <3> QED BY <3>1, <3>3, <3>4 DEF CacheIsPastMembership, WasMembership
  <2>8. LateIsPastMembership'
    BY <2>1, <2>2, <2>3 DEF CacheInv, LateIsPastMembership, WasMembership, redis
  <2> QED BY <2>4, <2>5, <2>6, <2>7, <2>8 DEF CacheInv
<1>5. ASSUME NEW w \in Workers, NEW c \in Chats, StartLookup(w, c)
      PROVE  CacheInv'
  <2>1. TypeOK'
    BY <1>5, <1>t DEF TypeOK, StartLookup, PcStates, tables, redis
  <2>2. /\ pc'[w] = "smembers" /\ chat'[w] = c /\ list[w] = {}
        /\ \A v \in Workers \ {w} : pc'[v] = pc[v] /\ chat'[v] = chat[v]
        /\ UNCHANGED <<list, members, past, cut, cache, lateSadd>>
    BY <1>5 DEF StartLookup, CacheInv, CallHasChat, Busy, TypeOK, tables, redis
  <2>3. CallHasChat' /\ PastIsChain' /\ LateIsPastMembership'
    BY <2>2 DEF CacheInv, CallHasChat, PastIsChain, LateIsPastMembership, WasMembership, Busy
  <2>4. CacheIsPastMembership'
    <3>1. WasMembership(c, list[w])'
      BY <2>2 DEF CacheInv, PastIsChain, WasMembership
    <3>2. \A v \in Workers \ {w} : pc'[v] # "idle" => WasMembership(chat[v], list[v])'
      BY <2>2 DEF CacheInv, CacheIsPastMembership, WasMembership
    <3>3. \A d \in Chats : WasMembership(d, cache[d])'
      BY <2>2 DEF CacheInv, CacheIsPastMembership, WasMembership
    <3> QED BY <2>2, <3>1, <3>2, <3>3 DEF CacheIsPastMembership, WasMembership
  <2> QED BY <2>1, <2>3, <2>4 DEF CacheInv
<1>6. ASSUME NEW w \in Workers, Lookup(w) PROVE CacheInv'
  BY <1>6, LookupSafe
<1>7. ASSUME NEW w \in Workers, Return(w) PROVE CacheInv'
  BY <1>7, FinishSafe DEF Return
<1>8. ASSUME NEW c \in Chats, KeyExpires(c)
      PROVE  CacheInv'
  <2>1. TypeOK'
    BY <1>8, <1>t DEF TypeOK, KeyExpires, worker, tables
  <2>2. WasMembership(c, cache'[c])
    BY <1>8, <1>t DEF KeyExpires, CacheInv, PastIsChain, WasMembership, TypeOK
  <2>3. /\ \A d \in Chats \ {c} : cache'[d] = cache[d]
        /\ \A d \in Chats : lateSadd'[d] \subseteq lateSadd[d]
    BY <1>8 DEF KeyExpires
  <2> QED BY <1>8, <2>1, <2>2, <2>3, RedisSafe DEF KeyExpires
<1>9. ASSUME NEW c \in Chats, NEW logins \in SUBSET Logins, LateSadd(c, logins)
      PROVE  CacheInv'
  <2>1. WasMembership(c, cache[c] \cup logins) /\ WasMembership(c, cache[c])
    BY <1>9, SaddSafe DEF LateSadd, CacheInv, LateIsPastMembership, CacheIsPastMembership
  <2>2. cache' \in [Chats -> SUBSET Logins] /\ cache'[c] \in {cache[c], cache[c] \cup logins}
    BY <1>9, <1>t DEF LateSadd, Sadd, TypeOK
  <2>3. /\ \A d \in Chats \ {c} : cache'[d] = cache[d]
        /\ \A d \in Chats : lateSadd'[d] \subseteq lateSadd[d]
        /\ lateSadd' \in [Chats -> SUBSET SUBSET Logins]
    BY <1>9, <1>t DEF LateSadd, Sadd, TypeOK
  <2>4. TypeOK'
    BY <1>9, <1>t, <2>2, <2>3 DEF LateSadd, LeaveWithoutExpire, TypeOK, worker, tables
  <2> QED BY <1>9, <2>1, <2>2, <2>3, <2>4, RedisSafe DEF LateSadd
<1>10. ASSUME NEW c \in Chats, LateExpire(c)
      PROVE  CacheInv'
  <2>1. TypeOK'
    BY <1>10, <1>t DEF LateExpire, SetTTL, TypeOK, worker, tables
  <2>2. UNCHANGED <<cache, lateSadd>>
    BY <1>10 DEF LateExpire, SetTTL
  <2>3. WasMembership(c, cache'[c])
    BY <2>2 DEF CacheInv, CacheIsPastMembership
  <2> QED BY <1>10, <2>1, <2>2, <2>3, RedisSafe DEF LateExpire
<1>11. CASE Restart
  <2>1. TypeOK'
    BY <1>11, <1>t DEF TypeOK, Restart, PcStates, tables
  <2>2. CallHasChat' /\ PastIsChain' /\ LateIsPastMembership'
    BY <1>11 DEF CacheInv, CallHasChat, PastIsChain, LateIsPastMembership, WasMembership, Busy,
                 Restart, tables
  <2>3. CacheIsPastMembership'
    BY <1>11 DEF CacheInv, CacheIsPastMembership, WasMembership, Restart, tables
  <2> QED BY <2>1, <2>2, <2>3 DEF CacheInv
<1>12. CASE UNCHANGED vars
  BY <1>12 DEF CacheInv, TypeOK, CallHasChat, Busy, PastIsChain, CacheIsPastMembership,
               LateIsPastMembership, WasMembership, vars, tables, redis, worker
<1> QED BY <1>1, <1>2, <1>3, <1>4, <1>5, <1>6, <1>7, <1>8, <1>9, <1>10, <1>11, <1>12 DEF Next

\* The invariant holds at the start, where every set is empty.
LEMMA CacheInitially == Init => CacheInv
BY DEF Init, CacheInv, TypeOK, CallHasChat, Busy, PastIsChain, CacheIsPastMembership,
       LateIsPastMembership, WasMembership, PcStates

\* Every value of the state stays in its type, whatever overlaps.
THEOREM MembershipTypeCorrect == Spec => []TypeOK
<1>1. CacheInv => TypeOK
  BY DEF CacheInv
<1> QED BY <1>1, CacheInitially, CacheInductive, PTL DEF Spec

\* What Redis holds for a chat, and what a fan-out uses, is always a past
\* membership of it, for any number of chats, logins and overlapping calls.
THEOREM CacheNeverInvents == Spec => []CacheIsPastMembership
<1>1. CacheInv => CacheIsPastMembership
  BY DEF CacheInv
<1> QED BY <1>1, CacheInitially, CacheInductive, PTL DEF Spec

-----------------------------------------------------------------------------
\* A chat that has no row has no members and no insert under way.
NoRowNoMembers ==
    \A c \in Chats : capacity[c] = 0 => members[c] = {} /\ counted[c] = {}

CapacityInv == CacheInv /\ NoRowNoMembers /\ OvershootBounded

\* What is counted is finite.
LEMMA Countable ==
    ASSUME TypeOK, NEW c \in Chats, NEW S \in SUBSET (members[c] \cup counted[c])
    PROVE  IsFiniteSet(S) /\ Cardinality(S) \in Nat
<1>1. S \in SUBSET Logins
  BY DEF TypeOK
<1>2. IsFiniteSet(S)
  BY <1>1, SetsAssumption, FS_Subset
<1> QED BY <1>2, FS_CardinalityType

\* A step after which a chat has nobody new, counted or a member, and no smaller
\* bounds, keeps the count.
LEMMA FewerSafe ==
    ASSUME CapacityInv, TypeOK', UNCHANGED <<capacity, crowd>>,
           \A c \in Chats : members'[c] \cup counted'[c] \subseteq members[c] \cup counted[c]
    PROVE  NoRowNoMembers' /\ OvershootBounded'
<1>1. ASSUME NEW c \in Chats
      PROVE  /\ Cardinality(members'[c] \cup counted'[c]) <= Cardinality(members[c] \cup counted[c])
             /\ Cardinality(members'[c] \cup counted'[c]) \in Nat
             /\ Cardinality(members[c] \cup counted[c]) \in Nat
  <2>1. IsFiniteSet(members[c] \cup counted[c]) /\ Cardinality(members[c] \cup counted[c]) \in Nat
    BY Countable DEF CapacityInv, CacheInv
  <2>2. IsFiniteSet(members'[c] \cup counted'[c])
        /\ Cardinality(members'[c] \cup counted'[c]) <= Cardinality(members[c] \cup counted[c])
    BY <2>1, FS_Subset
  <2> QED BY <2>1, <2>2, FS_CardinalityType
<1>2. NoRowNoMembers'
  BY DEF CapacityInv, NoRowNoMembers
<1>3. \A c \in Chats : capacity[c] \in Nat /\ crowd[c] \in Nat
  BY CapsAssumption DEF CapacityInv, CacheInv, TypeOK
<1>4. OvershootBounded'
  <2>1. ASSUME NEW c \in Chats, capacity[c] # 0
        PROVE  Cardinality(members'[c] \cup counted'[c]) < capacity[c] + crowd[c]
    <3>1. Cardinality(members[c] \cup counted[c]) < capacity[c] + crowd[c]
      BY <2>1 DEF CapacityInv, OvershootBounded
    <3>2. PICK m \in Nat, n \in Nat : m = Cardinality(members'[c] \cup counted'[c])
                                     /\ n = Cardinality(members[c] \cup counted[c])
      BY <1>1
    <3>3. m <= n
      BY <1>1, <3>2
    <3> QED BY <1>3, <3>1, <3>2, <3>3
  <2> QED BY <2>1 DEF OvershootBounded
<1> QED BY <1>2, <1>4

\* A step of a lookup, or of Redis, leaves the tables alone.
LEMMA LookupsReadOnly ==
    ASSUME NEW w \in Workers, Lookup(w) \/ Return(w)
    PROVE  UNCHANGED <<capacity, members, counted, crowd>>
BY DEF Lookup, ReadCache, TouchCache, QueryMembers, QueryFails, FillCache,
       FillCacheUnanswered, FillCacheFails, ExpireLater, Return, tables

\* An INSERT is counted while there is a free place, so all that is above the
\* capacity is counted with it.
LEMMA CapacityInductive == CapacityInv /\ [Next]_vars => CapacityInv'
<1> SUFFICES ASSUME CapacityInv, [Next]_vars PROVE NoRowNoMembers' /\ OvershootBounded'
  BY CacheInductive DEF CapacityInv
<1>t. TypeOK /\ TypeOK'
  BY CacheInductive DEF CapacityInv, CacheInv
<1>n. \A c \in Chats : capacity[c] \in Nat /\ crowd[c] \in Nat
  BY <1>t, CapsAssumption DEF TypeOK
<1>1. ASSUME NEW c \in Chats, CreateChat(c)
      PROVE  NoRowNoMembers' /\ OvershootBounded'
  <2>1. /\ UNCHANGED <<members, counted, crowd>> /\ capacity'[c] # 0 /\ capacity'[c] \in Nat
        /\ \A d \in Chats \ {c} : capacity'[d] = capacity[d]
    BY <1>1, <1>t, CapsAssumption DEF CreateChat, ChatSizes, TypeOK
  <2>2. members[c] = {} /\ counted[c] = {} /\ Cardinality({}) = 0
    BY <1>1, FS_EmptySet DEF CreateChat, CapacityInv, NoRowNoMembers
  <2>3. NoRowNoMembers'
    BY <2>1 DEF CapacityInv, NoRowNoMembers
  <2>4. members'[c] \cup counted'[c] = {}
    BY <2>1, <2>2
  <2>5. Cardinality(members'[c] \cup counted'[c]) < capacity'[c] + crowd'[c]
    BY <1>n, <2>1, <2>2, <2>4
  <2> QED BY <2>1, <2>3, <2>5 DEF CapacityInv, OvershootBounded
<1>2. ASSUME NEW c \in Chats, NEW u \in Logins, CountMembers(c, u)
      PROVE  NoRowNoMembers' /\ OvershootBounded'
  <2>1. UNCHANGED <<capacity, members>> /\ Cardinality(members[c]) < capacity[c]
    BY <1>2 DEF CountMembers, HasFreePlace
  <2>2. /\ counted'[c] = counted[c] \cup {u} /\ crowd'[c] \in Nat
        /\ crowd'[c] >= Cardinality(counted'[c]) /\ Cardinality(counted'[c]) \in Nat
        /\ \A d \in Chats \ {c} : counted'[d] = counted[d] /\ crowd'[d] = crowd[d]
    BY <1>2, <1>t, CrowdType
  <2>3. IsFiniteSet(members[c]) /\ Cardinality(members[c]) \in Nat
    BY <1>t, Countable
  <2>4. IsFiniteSet(counted'[c])
    BY <1>t, SetsAssumption, FS_Subset DEF TypeOK
  <2>5. PICK n \in Nat : n = Cardinality(counted'[c])
    BY <2>2
  <2>6. /\ Cardinality(members[c] \cup counted'[c])
             = Cardinality(members[c]) + Cardinality(counted'[c]) - Cardinality(members[c] \cap counted'[c])
        /\ Cardinality(members[c] \cap counted'[c]) \in Nat
    <3>1. IsFiniteSet(members[c] \cap counted'[c])
      BY <2>3, FS_Intersection
    <3> QED BY <2>3, <2>4, <3>1, FS_Union, FS_CardinalityType
  <2>7. Cardinality(members'[c] \cup counted'[c]) < capacity'[c] + crowd'[c]
    BY <1>n, <2>1, <2>2, <2>3, <2>5, <2>6
  <2>8. capacity[c] # 0
    BY <1>n, <2>1, <2>3
  <2>9. OvershootBounded'
    <3>1. ASSUME NEW d \in Chats, capacity'[d] # 0
          PROVE  Cardinality(members'[d] \cup counted'[d]) < capacity'[d] + crowd'[d]
      BY <2>1, <2>2, <2>7, <3>1 DEF CapacityInv, OvershootBounded
    <3> QED BY <3>1 DEF OvershootBounded
  <2> QED BY <2>1, <2>2, <2>8, <2>9 DEF CapacityInv, NoRowNoMembers
<1>3. ASSUME NEW c \in Chats, NEW u \in Logins, InsertMember(c, u) \/ InsertFails(c, u)
      PROVE  NoRowNoMembers' /\ OvershootBounded'
  <2>1. UNCHANGED <<capacity, crowd>>
    BY <1>3 DEF InsertMember, InsertFails
  <2>2. \A d \in Chats : members'[d] \cup counted'[d] \subseteq members[d] \cup counted[d]
    BY <1>3, <1>t DEF InsertMember, InsertFails, TypeOK
  <2> QED BY <1>t, <2>1, <2>2, FewerSafe
<1>4. ASSUME UNCHANGED <<capacity, members, counted, crowd>>
      PROVE  NoRowNoMembers' /\ OvershootBounded'
  BY <1>4, <1>t, FewerSafe
<1>5. ASSUME NEW w \in Workers, (\E c \in Chats : StartLookup(w, c)) \/ Lookup(w) \/ Return(w)
      PROVE  NoRowNoMembers' /\ OvershootBounded'
  BY <1>4, <1>5, LookupsReadOnly DEF StartLookup, tables
<1>6. ASSUME NEW c \in Chats,
             (\E logins \in SUBSET Logins : LateSadd(c, logins)) \/ KeyExpires(c) \/ LateExpire(c)
      PROVE  NoRowNoMembers' /\ OvershootBounded'
  BY <1>4, <1>6 DEF LateSadd, KeyExpires, LateExpire, tables
<1>7. CASE Restart \/ UNCHANGED vars
  BY <1>4, <1>7 DEF Restart, vars, tables
<1> QED BY <1>1, <1>2, <1>3, <1>5, <1>6, <1>7 DEF Next

\* Concurrent calls of AddUserToChat can exceed max_members, but by fewer members
\* than INSERTs have been under way at once, however many their callers gave up.
THEOREM OvershootIsBounded == Spec => []OvershootBounded
<1>1. Init => CapacityInv
  <2>1. SUFFICES ASSUME Init PROVE NoRowNoMembers /\ OvershootBounded
    BY CacheInitially DEF CapacityInv
  <2> QED BY <2>1 DEF Init, NoRowNoMembers, OvershootBounded
<1>2. CapacityInv => OvershootBounded
  BY DEF CapacityInv
<1> QED BY <1>1, <1>2, CapacityInductive, PTL DEF Spec

-----------------------------------------------------------------------------
KeyInv == CacheInv /\ KeyWithoutTTLIsExplained

\* A call that is past SADD and not past EXPIRE.
BeforeExpire(w) == pc[w] = "expire"

\* A step that leaves the keys alone, and every call that is before its EXPIRE
\* where it is, keeps the reason for every key without an expiry.
LEMMA KeySafe ==
    ASSUME KeyWithoutTTLIsExplained, UNCHANGED <<cache, ttl, noExpire>>,
           \A w \in Workers : BeforeExpire(w) => BeforeExpire(w)' /\ chat'[w] = chat[w]
    PROVE  KeyWithoutTTLIsExplained'
BY DEF KeyWithoutTTLIsExplained, BeforeExpire

\* So does a step that leaves behind it, on the one key it touches, an expiry or a
\* record that there is none.
LEMMA KeyRecorded ==
    ASSUME KeyWithoutTTLIsExplained, NEW c \in Chats,
           cache'[c] # {} /\ ~ttl'[c] => noExpire'[c],
           \A d \in Chats \ {c} : cache'[d] = cache[d] /\ ttl'[d] = ttl[d] /\ noExpire'[d] = noExpire[d],
           \A w \in Workers : BeforeExpire(w) /\ chat[w] # c => BeforeExpire(w)' /\ chat'[w] = chat[w]
    PROVE  KeyWithoutTTLIsExplained'
BY DEF KeyWithoutTTLIsExplained, BeforeExpire

\* SADD makes a key whose reason is the call itself; EXPIRE sets the expiry; and
\* every SADD without an EXPIRE to come is recorded.
LEMMA KeyInductive == KeyInv /\ [Next]_vars => KeyInv'
<1> SUFFICES ASSUME KeyInv, [Next]_vars PROVE KeyWithoutTTLIsExplained'
  BY CacheInductive DEF KeyInv
<1>t. TypeOK /\ KeyWithoutTTLIsExplained /\ CallHasChat
  BY DEF KeyInv, CacheInv
<1>1. ASSUME NEW c \in Chats,
             \/ CreateChat(c)
             \/ \E u \in Logins : CountMembers(c, u) \/ InsertMember(c, u) \/ InsertFails(c, u)
      PROVE  KeyWithoutTTLIsExplained'
  <2>1. UNCHANGED <<redis, worker>>
    BY <1>1 DEF CreateChat, CountMembers, InsertMember, InsertFails
  <2> QED BY <1>t, <2>1, KeySafe DEF redis, worker, BeforeExpire
<1>2. ASSUME NEW w \in Workers,
             \/ \E c \in Chats : StartLookup(w, c)
             \/ ReadCache(w) \/ QueryMembers(w) \/ QueryFails(w) \/ FillCacheFails(w) \/ Return(w)
      PROVE  KeyWithoutTTLIsExplained'
  <2>1. UNCHANGED redis
    BY <1>2 DEF StartLookup, ReadCache, QueryMembers, QueryFails, FillCacheFails, Return
  <2>2. \A v \in Workers : BeforeExpire(v) => BeforeExpire(v)' /\ chat'[v] = chat[v]
    BY <1>2, <1>t DEF StartLookup, ReadCache, QueryMembers, QueryFails, FillCacheFails, Return,
                     Goto, Finish, BeforeExpire, TypeOK
  <2> QED BY <1>t, <2>1, <2>2, KeySafe DEF redis
<1>3. ASSUME NEW w \in Workers, TouchCache(w)
      PROVE  KeyWithoutTTLIsExplained'
  <2>1. UNCHANGED chat /\ \A v \in Workers : BeforeExpire(v) => BeforeExpire(v)'
    BY <1>3, <1>t DEF TouchCache, Goto, BeforeExpire, TypeOK
  <2>2. CASE UNCHANGED <<cache, ttl, noExpire>>
    BY <1>t, <2>1, <2>2, KeySafe
  <2>3. CASE SetTTL(chat[w])
    BY <1>t, <2>1, <2>3 DEF SetTTL, KeyWithoutTTLIsExplained, BeforeExpire, TypeOK
  <2> QED BY <1>3, <2>2, <2>3 DEF TouchCache
<1>4. ASSUME NEW w \in Workers, FillCache(w)
      PROVE  KeyWithoutTTLIsExplained'
  <2>1. /\ UNCHANGED <<ttl, noExpire, chat>> /\ BeforeExpire(w)'
        /\ cache' = [cache EXCEPT ![chat[w]] = @ \cup list[w]]
        /\ \A v \in Workers : BeforeExpire(v) => BeforeExpire(v)'
    BY <1>4, <1>t DEF FillCache, Sadd, Goto, BeforeExpire, TypeOK
  <2> QED BY <1>t, <2>1 DEF KeyWithoutTTLIsExplained, BeforeExpire, TypeOK
<1>5. ASSUME NEW w \in Workers, FillCacheUnanswered(w)
      PROVE  KeyWithoutTTLIsExplained'
  <2>0. PICK c \in Chats : c = chat[w]
    BY <1>5, <1>t DEF FillCacheUnanswered, CallHasChat, Busy
  <2>1. /\ UNCHANGED <<ttl, chat>>
        /\ \A v \in Workers : BeforeExpire(v) => BeforeExpire(v)'
    BY <1>5, <1>t DEF FillCacheUnanswered, Goto, BeforeExpire, TypeOK
  <2>2. CASE UNCHANGED <<cache, noExpire>>
    BY <1>t, <2>1, <2>2, KeySafe
  <2>3. CASE Sadd(c, list[w]) /\ LeaveWithoutExpire(c)
    <3>1. /\ cache'[c] # {} /\ ~ttl'[c] => noExpire'[c]
          /\ \A d \in Chats \ {c} :
                cache'[d] = cache[d] /\ ttl'[d] = ttl[d] /\ noExpire'[d] = noExpire[d]
      BY <1>t, <2>1, <2>3 DEF Sadd, LeaveWithoutExpire, TypeOK
    <3> QED BY <1>t, <2>1, <3>1, KeyRecorded
  <2> QED BY <1>5, <2>0, <2>2, <2>3 DEF FillCacheUnanswered
<1>6. ASSUME NEW w \in Workers, ExpireLater(w)
      PROVE  KeyWithoutTTLIsExplained'
  <2>0. PICK c \in Chats : c = chat[w]
    BY <1>6, <1>t DEF ExpireLater, CallHasChat, Busy
  <2>1. /\ UNCHANGED <<cache, chat>>
        /\ \A v \in Workers \ {w} : BeforeExpire(v) => BeforeExpire(v)'
    BY <1>6, <1>t DEF ExpireLater, SetTTL, Goto, BeforeExpire, TypeOK
  <2>2. /\ cache'[c] # {} /\ ~ttl'[c] => noExpire'[c]
        /\ \A d \in Chats \ {c} :
              cache'[d] = cache[d] /\ ttl'[d] = ttl[d] /\ noExpire'[d] = noExpire[d]
    BY <1>6, <1>t, <2>0, <2>1 DEF ExpireLater, SetTTL, LeaveWithoutExpire, TypeOK
  <2> QED BY <1>t, <2>0, <2>1, <2>2, KeyRecorded
<1>7. ASSUME NEW c \in Chats,
             (\E logins \in SUBSET Logins : LateSadd(c, logins)) \/ KeyExpires(c) \/ LateExpire(c)
      PROVE  KeyWithoutTTLIsExplained'
  <2>1. UNCHANGED worker
    BY <1>7 DEF LateSadd, KeyExpires, LateExpire
  <2>2. CASE UNCHANGED <<cache, ttl, noExpire>>
    BY <1>t, <2>1, <2>2, KeySafe DEF worker, BeforeExpire
  <2>3. CASE ~UNCHANGED <<cache, ttl, noExpire>>
    <3>1. /\ cache'[c] # {} /\ ~ttl'[c] => noExpire'[c]
          /\ \A d \in Chats \ {c} :
                cache'[d] = cache[d] /\ ttl'[d] = ttl[d] /\ noExpire'[d] = noExpire[d]
      BY <1>7, <1>t, <2>3 DEF LateSadd, Sadd, LeaveWithoutExpire, KeyExpires, LateExpire, SetTTL, TypeOK
    <3> QED BY <1>t, <2>1, <3>1, KeyRecorded DEF worker, BeforeExpire
  <2> QED BY <2>2, <2>3
<1>8. CASE Restart
  BY <1>8 DEF Restart, KeyWithoutTTLIsExplained
<1>9. CASE UNCHANGED vars
  BY <1>9, <1>t, KeySafe DEF vars, redis, worker, BeforeExpire
<1> QED BY <1>1, <1>2, <1>3, <1>4, <1>5, <1>6, <1>7, <1>8, <1>9 DEF Next, Lookup

\* A stale list that never goes away has a SADD behind it whose EXPIRE failed or
\* was never sent, however many calls fill and read the list at once.
THEOREM KeysWithoutTTLAreExplained == Spec => []KeyWithoutTTLIsExplained
<1>1. Init => KeyInv
  BY CacheInitially DEF Init, KeyInv, KeyWithoutTTLIsExplained
<1>2. KeyInv => KeyWithoutTTLIsExplained
  BY DEF KeyInv
<1> QED BY <1>1, <1>2, KeyInductive, PTL DEF Spec
=============================================================================
