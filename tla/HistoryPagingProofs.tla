------------------------ MODULE HistoryPagingProofs ------------------------
(***************************************************************************)
(* For a table of any size, any page size, any number of attachments and   *)
(* faults: the browser's list of a chat has no holes, as far back as it    *)
(* goes, and none of its messages lacks an attachment.                     *)
(***************************************************************************)
EXTENDS HistoryPaging, FiniteSetTheorems, WellFoundedInduction, SequenceTheorems, TLAPS

-----------------------------------------------------------------------------
(***************************************************************************)
(* The key (added_at, id) and the pages that it cuts.                      *)
(***************************************************************************)

KeyTypes == at \in [Ids -> 0 .. MaxTime]

\* What is not older than message n, and everything for n = 0.
From(n) == {m \in Ids : n # 0 => ~OlderThan(m, n)}

\* A set of messages can be counted, and so can a part of it.
LEMMA MessagesAreFinite ==
    \A S \in SUBSET Ids : /\ IsFiniteSet(S) /\ Cardinality(S) \in Nat
                          /\ \A T \in SUBSET S : Cardinality(T) <= Cardinality(S)
<1> SUFFICES ASSUME NEW S \in SUBSET Ids
             PROVE  /\ IsFiniteSet(S) /\ Cardinality(S) \in Nat
                    /\ \A T \in SUBSET S : Cardinality(T) <= Cardinality(S)
  OBVIOUS
<1>1. IsFiniteSet(Ids)
  BY FS_Interval, BoundsAssumption DEF Ids
<1>2. IsFiniteSet(S)
  BY <1>1, FS_Subset
<1> QED BY <1>2, FS_CardinalityType, FS_Subset

\* A set of messages has an element that no other precedes in a strict order.
LEMMA OrderHasAnEnd ==
    ASSUME NEW S \in SUBSET Ids, S # {}, NEW R,
           \A a \in Ids : <<a, a>> \notin R,
           \A a, b, c \in Ids : <<a, b>> \in R /\ <<b, c>> \in R => <<a, c>> \in R
    PROVE  \E m \in S : \A k \in S : <<k, m>> \notin R
<1> DEFINE Before(m) == {k \in S : <<k, m>> \in R}
           Sets == {Before(m) : m \in S}
<1>1. IsFiniteSet(S)
  BY MessagesAreFinite
<1>2. IsWellFoundedOn(StrictSubsetOrdering(S), SUBSET S)
  <2>1. FiniteSubsetsOf(S) = SUBSET S
    BY <1>1, FS_FiniteSubsetsOfFinite
  <2>2. IsWellFoundedOn(StrictSubsetOrdering(S), FiniteSubsetsOf(S))
    BY FS_StrictSubsetOrderingWellFounded
  <2> QED BY <2>1, <2>2
<1>3. Sets \subseteq SUBSET S /\ Sets # {}
  <2>1. \A m \in S : Before(m) \in SUBSET S
    OBVIOUS
  <2>2. PICK m \in S : TRUE
    OBVIOUS
  <2>3. Before(m) \in Sets
    BY <2>2
  <2> HIDE DEF Before
  <2> QED BY <2>1, <2>3
<1>4. PICK least \in Sets : \A other \in Sets : <<other, least>> \notin StrictSubsetOrdering(S)
  <2> HIDE DEF Sets
  <2> QED BY <1>2, <1>3, WFMin
<1>5. PICK m \in S : least = Before(m)
  OBVIOUS
<1>6. ASSUME NEW k \in S, <<k, m>> \in R PROVE FALSE
  <2>1. Before(k) \subseteq Before(m) /\ k \in Before(m) /\ k \notin Before(k)
    BY <1>6
  <2>2. <<Before(k), Before(m)>> \in StrictSubsetOrdering(S)
    BY <2>1 DEF StrictSubsetOrdering
  <2> QED BY <1>4, <1>5, <2>2
<1> QED BY <1>6

\* OlderThan is a total order of the messages.
LEMMA KeyIsAnOrder ==
    ASSUME KeyTypes
    PROVE  /\ \A a \in Ids : ~OlderThan(a, a)
           /\ \A a, b, c \in Ids : OlderThan(a, b) /\ OlderThan(b, c) => OlderThan(a, c)
           /\ \A a, b \in Ids : a = b \/ OlderThan(a, b) \/ OlderThan(b, a)
BY BoundsAssumption DEF KeyTypes, OlderThan, Ids

\* There is an oldest and a newest message.
LEMMA OldestAndNewest ==
    ASSUME KeyTypes, NEW S \in SUBSET Ids, S # {}
    PROVE  /\ \E m \in S : \A k \in S : ~OlderThan(k, m)
           /\ \E m \in S : \A k \in S : ~OlderThan(m, k)
<1> DEFINE R == {p \in Ids \X Ids : OlderThan(p[1], p[2])}
           Q == {p \in Ids \X Ids : OlderThan(p[2], p[1])}
<1>1. \A a, b \in Ids : (<<a, b>> \in R <=> OlderThan(a, b)) /\ (<<a, b>> \in Q <=> OlderThan(b, a))
  OBVIOUS
<1> HIDE DEF R, Q
<1>2. \A a \in Ids : <<a, a>> \notin R /\ <<a, a>> \notin Q
  BY <1>1, KeyIsAnOrder
<1>3. \A a, b, c \in Ids : <<a, b>> \in R /\ <<b, c>> \in R => <<a, c>> \in R
  BY <1>1, KeyIsAnOrder
<1>4. \A a, b, c \in Ids : <<a, b>> \in Q /\ <<b, c>> \in Q => <<a, c>> \in Q
  BY <1>1, KeyIsAnOrder
<1>5. \E m \in S : \A k \in S : <<k, m>> \notin R
  BY <1>2, <1>3, OrderHasAnEnd
<1>6. \E m \in S : \A k \in S : <<k, m>> \notin Q
  BY <1>2, <1>4, OrderHasAnEnd
<1> QED BY <1>1, <1>5, <1>6
\* The newest n of a set: nothing newer is left out, and fewer than n are all.
LEMMA NewestOfASet ==
    ASSUME KeyTypes, NEW S \in SUBSET Ids, NEW n \in Nat \ {0}
    PROVE  /\ Newest(n, S) \subseteq S
           /\ S # {} => Newest(n, S) # {}
           /\ \A a \in Newest(n, S), b \in S : ~OlderThan(b, a) => b \in Newest(n, S)
           /\ Cardinality(Newest(n, S)) < n => Newest(n, S) = S
           /\ Cardinality(S) <= n => Newest(n, S) = S
<1> DEFINE Newer(m) == {k \in S : OlderThan(m, k)}
           N == Newest(n, S)
<1>1. \A m \in S : /\ Newer(m) \subseteq S /\ Cardinality(Newer(m)) \in Nat
                   /\ m \in N <=> Cardinality(Newer(m)) < n
  BY MessagesAreFinite DEF Newest
<1>2. N \subseteq S
  BY DEF Newest
<1>3. S # {} => N # {}
  <2> SUFFICES ASSUME S # {} PROVE N # {}
    OBVIOUS
  <2>1. PICK m \in S : \A k \in S : ~OlderThan(m, k)
    BY OldestAndNewest
  <2>2. Newer(m) = {}
    BY <2>1
  <2>3. m \in N
    BY <1>1, <2>2, FS_EmptySet
  <2> QED BY <2>3
<1>4. ASSUME NEW a \in N, NEW b \in S, ~OlderThan(b, a) PROVE b \in N
  <2>1. Newer(b) \subseteq Newer(a)
    BY <1>2, <1>4, KeyIsAnOrder
  <2>2. a \in S /\ Newer(a) \in SUBSET Ids
    BY <1>2
  <2>3. Cardinality(Newer(b)) <= Cardinality(Newer(a))
    BY <2>1, <2>2, MessagesAreFinite
  <2> HIDE DEF Newer, N
  <2> QED BY <1>1, <1>4, <2>2, <2>3
<1>5. ASSUME Cardinality(N) < n, N # S PROVE FALSE
  <2>1. S \ N # {} /\ S \ N \in SUBSET Ids
    BY <1>2, <1>5
  <2>2. PICK m \in S \ N : \A k \in S \ N : ~OlderThan(m, k)
    BY <2>1, OldestAndNewest
  <2>3. Newer(m) \subseteq N
    BY <2>2
  <2>4. Cardinality(Newer(m)) <= Cardinality(N) /\ Cardinality(N) \in Nat
    BY <1>2, <2>3, MessagesAreFinite
  <2> HIDE DEF Newer, N
  <2> QED BY <1>1, <1>5, <2>2, <2>4
<1>6. ASSUME Cardinality(S) <= n, NEW m \in S PROVE m \in N
  <2>1. Newer(m) \subseteq S \ {m}
    BY KeyIsAnOrder
  <2>2. Cardinality(S \ {m}) = Cardinality(S) - 1 /\ Cardinality(S) \in Nat
    BY MessagesAreFinite, FS_RemoveElement
  <2>3. Cardinality(Newer(m)) <= Cardinality(S \ {m}) /\ Cardinality(S \ {m}) \in Nat
    BY <2>1, MessagesAreFinite
  <2> HIDE DEF Newer, N
  <2> QED BY <1>1, <1>6, <2>2, <2>3
<1> QED BY <1>2, <1>3, <1>4, <1>5, <1>6

\* Every message has a row, and all its rows carry all its attachments.
LEMMA RowsCarryMessages ==
    ASSUME NEW S \in SUBSET Ids
    PROVE  /\ Aggregated(RowsOf(S)) = S
           /\ \A rows \in SUBSET RowsOf(S) : Aggregated(rows) \subseteq S
           /\ \A T \in SUBSET S : Lacking(RowsOf(S), T) = {}
<1> DEFINE Numbers(m) == IF FilesOf[m] = 0 THEN {0} ELSE 1 .. FilesOf[m]
<1>1. \A m \in Ids : FilesOf[m] \in Nat
  BY BoundsAssumption
<1>2. \A r : r \in RowsOf(S) <=> \E m \in S : \E f \in Numbers(m) : r = <<m, f>>
  BY DEF RowsOf
<1>3. \A m \in S : \E f \in Numbers(m) : TRUE
  BY <1>1
<1>4. \A m \in S : \E r \in RowsOf(S) : r[1] = m
  <2> TAKE m \in S
  <2>1. PICK f \in Numbers(m) : TRUE
    BY <1>3
  <2>2. <<m, f>> \in RowsOf(S)
    BY <1>2
  <2> QED BY <2>2
<1>5. \A r \in RowsOf(S) : r[1] \in S
  BY <1>2
<1>6. ASSUME NEW m \in S
      PROVE  Cardinality({r \in RowsOf(S) : r[1] = m /\ r[2] # 0}) = FilesOf[m]
  <2> DEFINE files == {r \in RowsOf(S) : r[1] = m /\ r[2] # 0}
  <2>1. CASE FilesOf[m] = 0
    <3>1. files = {}
      BY <1>2, <2>1
    <3> QED BY <2>1, <3>1, FS_EmptySet
  <2>2. CASE FilesOf[m] # 0
    <3>1. \A r : r \in files <=> \E f \in 1 .. FilesOf[m] : r = <<m, f>>
      BY <1>1, <1>2, <2>2
    <3> DEFINE row == [f \in 1 .. FilesOf[m] |-> <<m, f>>]
    <3>2. row \in Bijection(1 .. FilesOf[m], files)
      <4> HIDE DEF files
      <4> QED BY <3>1 DEF Bijection, Injection, Surjection, IsInjective
    <3>3. ExistsBijection(1 .. FilesOf[m], files)
      BY <3>2 DEF ExistsBijection
    <3> QED BY <1>1, <3>3, FS_CountingElements
  <2> QED BY <2>1, <2>2
<1>7. \A T \in SUBSET S : Lacking(RowsOf(S), T) = {}
  BY <1>1, <1>6 DEF Lacking
<1> QED BY <1>4, <1>5, <1>7 DEF Aggregated

\* A page, cut short or not: its cursor is one of its messages, and is there
\* just when there is more.
LEMMA PageIsWellFormed ==
    ASSUME KeyTypes, NEW before, NEW rows \in SUBSET PageRows(before), NEW all
    PROVE  LET page == PageOf(rows, all) IN
           /\ page \in Pages
           /\ page.seen = Committed
           /\ page.items \subseteq Committed /\ page.partial \subseteq page.items
           /\ page.next \in page.items \cup {0}
           /\ page.hasMore <=> page.next # 0
<1> DEFINE M == {m \in Committed : BeforeCursor(m, before)}
           N == Newest(Limit + 1, M)
           history == Aggregated(rows)
           items_ == Newest(Limit, history)
           more == Cardinality(history) > Limit
           next_ == IF more THEN CHOOSE m \in items_ : \A k \in items_ : ~OlderThan(k, m) ELSE 0
           page == PageOf(rows, all)
<1>1. M \in SUBSET Ids /\ M \subseteq Committed /\ Limit \in Nat \ {0} /\ Limit + 1 \in Nat \ {0}
  BY BoundsAssumption DEF Committed
<1>2. N \subseteq M
  BY DEF Newest
<1>3. history \subseteq N
  <2>1. N \in SUBSET Ids /\ rows \in SUBSET RowsOf(N)
    BY <1>1, <1>2 DEF PageRows
  <2> HIDE DEF N
  <2> QED BY <2>1, RowsCarryMessages
<1>4. history \in SUBSET Ids /\ Cardinality(history) \in Nat
  BY <1>1, <1>2, <1>3, MessagesAreFinite
<1>5. items_ \subseteq history /\ (history # {} => items_ # {})
  BY <1>1, <1>4, NewestOfASet
<1>6. next_ \in items_ \cup {0} /\ (more <=> next_ # 0)
  <2>1. CASE more
    <3>1. history # {}
      BY <1>1, <2>1, FS_EmptySet
    <3>2. items_ \in SUBSET Ids /\ items_ # {}
      BY <1>4, <1>5, <3>1
    <3> HIDE DEF items_
    <3>3. \E m \in items_ : \A k \in items_ : ~OlderThan(k, m)
      BY <3>2, OldestAndNewest
    <3>4. next_ \in items_
      BY <2>1, <3>3
    <3> HIDE DEF next_
    <3>5. 0 \notin items_
      BY <3>2 DEF Ids
    <3> QED BY <2>1, <3>4, <3>5
  <2>2. CASE ~more
    BY <2>2
  <2> QED BY <2>1, <2>2
<1>7. page = [items |-> items_, partial |-> Lacking(rows, items_), hasMore |-> more, next |-> next_,
              seen |-> Committed, cut |-> rows # all]
  BY DEF PageOf
<1>8. Lacking(rows, items_) \subseteq items_
  BY DEF Lacking
<1>9. items_ \in SUBSET Ids /\ items_ \subseteq Committed /\ Committed \in SUBSET Ids
  BY <1>1, <1>2, <1>3, <1>4, <1>5 DEF Committed
<1>10. next_ \in 0 .. MaxId
  BY <1>6, <1>9, BoundsAssumption DEF Ids
<1> HIDE DEF items_, next_, history, page, more
<1>11. page \in Pages
  BY <1>7, <1>8, <1>9, <1>10 DEF Pages, more
<1>12. /\ page.seen = Committed /\ page.items = items_ /\ page.partial = Lacking(rows, items_)
       /\ page.next = next_ /\ page.hasMore = more
  BY <1>7
<1>13. page.hasMore <=> page.next # 0
  BY <1>6, <1>12
<1> QED BY <1>6, <1>8, <1>9, <1>11, <1>12, <1>13 DEF page

\* A page of a query that came through: its messages are whole, and it holds
\* all there was from its cursor to the one it was asked for.
LEMMA PageIsComplete ==
    ASSUME KeyTypes, NEW before
    PROVE  LET page == PageOf(PageRows(before), PageRows(before)) IN
           /\ page.partial = {}
           /\ {m \in Committed : BeforeCursor(m, before)} \cap From(page.next) \subseteq page.items
<1> DEFINE M == {m \in Committed : BeforeCursor(m, before)}
           N == Newest(Limit + 1, M)
           all == PageRows(before)
           page == PageOf(all, all)
<1>1. M \in SUBSET Ids /\ Limit \in Nat \ {0} /\ Limit + 1 \in Nat \ {0}
  BY BoundsAssumption DEF Committed
<1>2. /\ N \subseteq M
      /\ \A a \in N, b \in M : ~OlderThan(b, a) => b \in N
      /\ Cardinality(N) < Limit + 1 => N = M
  BY <1>1, NewestOfASet
<1>3. N \in SUBSET Ids /\ Cardinality(N) \in Nat
  BY <1>1, <1>2, MessagesAreFinite
<1> HIDE DEF N
<1>4. all = RowsOf(N) /\ Aggregated(all) = N
  BY <1>3, RowsCarryMessages DEF PageRows, N
<1>5. page.items = Newest(Limit, N) /\ page.partial = Lacking(all, page.items)
      /\ page.hasMore = (Cardinality(N) > Limit)
  BY <1>4 DEF PageOf
<1>6. /\ page.items \subseteq N
      /\ \A a \in page.items, b \in N : ~OlderThan(b, a) => b \in page.items
      /\ Cardinality(N) <= Limit => page.items = N
  BY <1>1, <1>3, <1>5, NewestOfASet
<1>7. page.partial = {}
  <2> HIDE DEF page, all
  <2> QED BY <1>3, <1>4, <1>5, <1>6, RowsCarryMessages
<1>8. page.next \in page.items \cup {0} /\ (page.hasMore <=> page.next # 0)
  BY PageIsWellFormed
<1> HIDE DEF page, M
<1>9. ASSUME NEW m \in M, m \in From(page.next) PROVE m \in page.items
  <2>1. CASE page.next = 0
    <3>1. ~(Cardinality(N) > Limit)
      BY <1>5, <1>8, <2>1
    <3>2. page.items = N /\ N = M
      BY <1>1, <1>2, <1>3, <1>6, <3>1
    <3> QED BY <1>9, <3>2
  <2>2. CASE page.next # 0
    <3>1. ~OlderThan(m, page.next) /\ page.next \in page.items
      BY <1>8, <1>9, <2>2 DEF From
    <3> QED BY <1>2, <1>6, <1>9, <3>1
  <2> QED BY <2>1, <2>2
<1> QED BY <1>7, <1>9 DEF page, M
-----------------------------------------------------------------------------
(***************************************************************************)
(* What travels: requests, answers and events.                             *)
(***************************************************************************)

\* Pages as a query makes them, and all that the browser may be sent.
GoodPages == {p \in Pages : p.partial \subseteq p.items /\ (p.hasMore <=> p.next # 0)}
Events == GoodPages \cup {Error} \cup [message : Ids]

Elements(seq) == {seq[i] : i \in DOMAIN seq}

TrafficTypes ==
    /\ requests \in Seq(0 .. MaxId)
    /\ left \in SUBSET [session : 0 .. MaxFaults, before : 0 .. MaxId]
    /\ answers \in SUBSET [session : Nat, event : GoodPages \cup {Error}]
    /\ wire \in Seq(Events)

\* Every new socket is one that was lost before: a socket that is down has
\* been counted as a fault and not yet as a session.
SessionsAreFaults == session <= faults /\ (~online => session < faults)

DatabaseTypes ==
    /\ table \in [Ids -> {"unused", "open", "committed"}]
    /\ KeyTypes
    /\ announcing \subseteq Ids
    /\ base \cup lost \subseteq Ids
    /\ online \in BOOLEAN /\ cut \in BOOLEAN /\ stale \in BOOLEAN
    /\ session \in Nat /\ faults \in 0 .. MaxFaults
    /\ SessionsAreFaults

ListTypes ==
    /\ partial \subseteq items /\ items \subseteq Ids
    /\ cursor \in 0 .. MaxId
    /\ hasMore \in BOOLEAN /\ initialized \in BOOLEAN
    /\ loading \in {"no", "initial", "older"}
    /\ loading = "older" => initialized
    /\ initialized => (hasMore <=> cursor # 0)

TypeInv == DatabaseTypes /\ ListTypes /\ TrafficTypes

\* A page, an error and a live message are told apart by their fields.
LEMMA EventKinds ==
    /\ \A p \in GoodPages : IsPage(p) /\ p # Error /\ "message" \notin DOMAIN p
    /\ ~IsPage(Error) /\ "message" \notin DOMAIN Error
    /\ \A w \in [message : Ids] : ~IsPage(w) /\ w # Error /\ "message" \in DOMAIN w /\ w.message \in Ids
                                  /\ w = [message |-> w.message]
    /\ \A m \in Ids : [message |-> m] \in [message : Ids]
<1>1. ASSUME NEW p \in GoodPages PROVE IsPage(p) /\ p # Error /\ "message" \notin DOMAIN p
  <2>1. DOMAIN p = {"items", "partial", "hasMore", "next", "seen", "cut"}
    BY DEF GoodPages, Pages
  <2>2. DOMAIN Error = {"error"}
    BY DEF Error
  <2> QED BY <2>1, <2>2 DEF IsPage
<1>2. ~IsPage(Error) /\ "message" \notin DOMAIN Error
  BY DEF IsPage, Error
<1>3. ASSUME NEW w \in [message : Ids]
      PROVE  ~IsPage(w) /\ w # Error /\ "message" \in DOMAIN w /\ w.message \in Ids /\ w = [message |-> w.message]
  <2>1. DOMAIN w = {"message"}
    OBVIOUS
  <2>2. DOMAIN Error = {"error"}
    BY DEF Error
  <2> QED BY <2>1, <2>2 DEF IsPage
<1> QED BY <1>1, <1>2, <1>3

\* The elements of a sequence that grows at its end or loses its first.
LEMMA GrowingAndShrinking ==
    ASSUME NEW S, NEW s \in Seq(S)
    PROVE  /\ Elements(s) \subseteq S
           /\ \A e \in S : Append(s, e) \in Seq(S) /\ Elements(Append(s, e)) = Elements(s) \cup {e}
           /\ s # <<>> => /\ Head(s) \in Elements(s) /\ Tail(s) \in Seq(S)
                          /\ Elements(Tail(s)) \subseteq Elements(s)
                          /\ Elements(s) \subseteq Elements(Tail(s)) \cup {Head(s)}
<1>1. Elements(s) \subseteq S
  BY DEF Elements
<1>2. ASSUME NEW e \in S PROVE Append(s, e) \in Seq(S) /\ Elements(Append(s, e)) = Elements(s) \cup {e}
  <2>1. /\ DOMAIN Append(s, e) = 1 .. Len(s) + 1 /\ DOMAIN s = 1 .. Len(s) /\ Len(s) \in Nat
        /\ Append(s, e)[Len(s) + 1] = e
        /\ \A i \in 1 .. Len(s) : Append(s, e)[i] = s[i]
    OBVIOUS
  <2>2. \A x \in Elements(s) \cup {e} : x \in Elements(Append(s, e))
    BY <2>1 DEF Elements
  <2>3. ASSUME NEW x \in Elements(Append(s, e)) PROVE x \in Elements(s) \cup {e}
    <3>1. PICK i \in 1 .. Len(s) + 1 : x = Append(s, e)[i]
      BY <2>1, <2>3 DEF Elements
    <3>2. i = Len(s) + 1 \/ i \in 1 .. Len(s)
      BY <2>1
    <3> QED BY <2>1, <3>1, <3>2 DEF Elements
  <2>4. Append(s, e) \in Seq(S)
    OBVIOUS
  <2> QED BY <2>2, <2>3, <2>4
<1>3. ASSUME s # <<>>
      PROVE  /\ Head(s) \in Elements(s) /\ Tail(s) \in Seq(S)
             /\ Elements(Tail(s)) \subseteq Elements(s)
             /\ Elements(s) \subseteq Elements(Tail(s)) \cup {Head(s)}
  <2>1. /\ Len(s) \in Nat \ {0} /\ DOMAIN s = 1 .. Len(s) /\ Head(s) = s[1]
        /\ Tail(s) \in Seq(S) /\ DOMAIN Tail(s) = 1 .. Len(s) - 1
        /\ \A i \in 1 .. Len(s) - 1 : Tail(s)[i] = s[i + 1]
    BY <1>3, HeadTailProperties, EmptySeq, LenProperties
  <2>2. \A i \in 2 .. Len(s) : i - 1 \in 1 .. Len(s) - 1 /\ Tail(s)[i - 1] = s[i]
    BY <2>1
  <2>3. ASSUME NEW x \in Elements(Tail(s)) PROVE x \in Elements(s)
    <3>1. PICK i \in 1 .. Len(s) - 1 : x = Tail(s)[i]
      BY <2>1, <2>3 DEF Elements
    <3>2. i + 1 \in DOMAIN s /\ x = s[i + 1]
      BY <2>1, <3>1
    <3> QED BY <3>2 DEF Elements
  <2>4. ASSUME NEW x \in Elements(s), x # Head(s) PROVE x \in Elements(Tail(s))
    <3>1. PICK i \in 1 .. Len(s) : x = s[i]
      BY <2>1, <2>4 DEF Elements
    <3>2. i \in 2 .. Len(s)
      BY <2>1, <2>4, <3>1
    <3>3. i - 1 \in DOMAIN Tail(s) /\ x = Tail(s)[i - 1]
      BY <2>1, <2>2, <3>1, <3>2
    <3> QED BY <3>3 DEF Elements
  <2>5. Head(s) \in Elements(s)
    BY <2>1 DEF Elements
  <2> QED BY <2>1, <2>3, <2>4, <2>5
<1> QED BY <1>1, <1>2, <1>3

\* TypeInv and TypeOK.
LEMMA TypesAreTyped == TypeInv => TypeOK
<1> SUFFICES ASSUME TypeInv PROVE TypeOK
  OBVIOUS
<1>1. \A a \in answers : IsPage(a.event) => a.event \in Pages
  BY EventKinds DEF TypeInv, TrafficTypes, GoodPages
<1>2. \A i \in DOMAIN wire : IsPage(wire[i]) => wire[i] \in Pages
  BY EventKinds DEF TypeInv, TrafficTypes, GoodPages, Events
<1>3. session \in 0 .. MaxFaults + 1
  BY BoundsAssumption DEF TypeInv, DatabaseTypes, SessionsAreFaults
<1> QED BY <1>1, <1>2, <1>3 DEF TypeInv, DatabaseTypes, ListTypes, TrafficTypes, KeyTypes, TypeOK
\* The answer to a request is a good page or an error.
LEMMA HandleTypes ==
    ASSUME TypeInv, NEW reader \in Nat, NEW before, Handle(reader, before)
    PROVE  /\ answers' \in SUBSET [session : Nat, event : GoodPages \cup {Error}]
           /\ faults' \in {faults, faults + 1} /\ faults' \in 0 .. MaxFaults
           /\ \E e \in {PageOf(rows, PageRows(before)) : rows \in SUBSET PageRows(before)} \cup {Error} :
                 answers' = answers \cup {[session |-> reader, event |-> e]}
<1> DEFINE all == PageRows(before)
           Answer(e) == [session |-> reader, event |-> e]
<1>1. KeyTypes /\ faults \in 0 .. MaxFaults
  BY DEF TypeInv, DatabaseTypes
<1>2. (Fault \/ UNCHANGED faults) => faults' \in {faults, faults + 1} /\ faults' \in 0 .. MaxFaults
  BY <1>1, BoundsAssumption DEF Fault
<1>3. CASE \E rows \in Yields(all) :
             /\ answers' = answers \cup {Answer(PageOf(rows, all))}
             /\ IF rows = all THEN UNCHANGED faults ELSE Fault
  <2>1. PICK rows \in Yields(all) :
             /\ answers' = answers \cup {Answer(PageOf(rows, all))}
             /\ IF rows = all THEN UNCHANGED faults ELSE Fault
    BY <1>3
  <2>2. rows \in SUBSET all
    BY DEF Yields
  <2>3. PageOf(rows, all) \in GoodPages
    BY <1>1, <2>2, PageIsWellFormed DEF GoodPages
  <2>4. answers' \in SUBSET [session : Nat, event : GoodPages \cup {Error}]
    BY <2>1, <2>3 DEF TypeInv, TrafficTypes
  <2> QED BY <1>2, <2>1, <2>2, <2>4
<1>4. CASE Fault /\ answers' = answers \cup {Answer(Error)}
  <2>1. answers' \in SUBSET [session : Nat, event : GoodPages \cup {Error}]
    BY <1>4 DEF TypeInv, TrafficTypes
  <2> QED BY <1>2, <1>4, <2>1
<1> QED BY <1>3, <1>4 DEF Handle

\* A reader answers a request that was there, and no other; the rest stays.
LEMMA ReaderTypes ==
    ASSUME TypeInv, Query \/ \E request \in left : LateQuery(request)
    PROVE  /\ TrafficTypes' /\ faults' \in {faults, faults + 1} /\ faults' \in 0 .. MaxFaults
           /\ UNCHANGED <<database, link, wire, browser, ghosts>>
           /\ Elements(requests') \subseteq Elements(requests) /\ left' \subseteq left
           /\ \E reader \in Nat, before \in 0 .. MaxId :
                 /\ Handle(reader, before)
                 /\ before \in Elements(requests) \/ \E request \in left : request.before = before
<1>1. /\ session \in Nat /\ requests \in Seq(0 .. MaxId) /\ wire \in Seq(Events)
      /\ left \in SUBSET [session : 0 .. MaxFaults, before : 0 .. MaxId]
  BY DEF TypeInv, DatabaseTypes, TrafficTypes
<1>2. CASE Query
  <2>1. Head(requests) \in Elements(requests) /\ Head(requests) \in 0 .. MaxId
        /\ requests' \in Seq(0 .. MaxId) /\ Elements(requests') \subseteq Elements(requests)
    BY <1>1, <1>2, GrowingAndShrinking DEF Query
  <2>2. Handle(session, Head(requests)) /\ UNCHANGED left
    BY <1>2 DEF Query
  <2>3. UNCHANGED <<database, link, wire, browser, ghosts>>
    BY <2>2 DEF Handle
  <2> QED BY <1>1, <2>1, <2>2, <2>3, HandleTypes DEF TrafficTypes
<1>3. ASSUME NEW request \in left, LateQuery(request)
      PROVE  /\ TrafficTypes' /\ faults' \in {faults, faults + 1} /\ faults' \in 0 .. MaxFaults
             /\ UNCHANGED <<database, link, wire, browser, ghosts, requests>> /\ left' \subseteq left
             /\ request.session \in Nat /\ request.before \in 0 .. MaxId
             /\ Handle(request.session, request.before)
  <2>1. request.session \in Nat /\ request.before \in 0 .. MaxId
    BY <1>1
  <2>2. Handle(request.session, request.before) /\ UNCHANGED requests /\ left' = left \ {request}
    BY <1>3 DEF LateQuery
  <2>3. UNCHANGED <<database, link, wire, browser, ghosts>>
    BY <2>2 DEF Handle
  <2> QED BY <1>1, <2>1, <2>2, <2>3, HandleTypes DEF TrafficTypes
<1> QED BY <1>2, <1>3

\* An answer goes to the browser as it is, or becomes an error, or is dropped.
LEMMA SendAnswerTypes ==
    ASSUME TypeInv, NEW a \in answers, SendAnswer(a)
    PROVE  /\ TrafficTypes' /\ faults' \in {faults, faults + 1} /\ faults' \in 0 .. MaxFaults
           /\ \A b \in answers' : b \in answers \/ b.event = Error
           /\ Elements(wire') \subseteq Elements(wire) \cup {a.event}
           /\ Elements(wire) \subseteq Elements(wire')
<1>1. a \in [session : Nat, event : GoodPages \cup {Error}] /\ faults \in 0 .. MaxFaults
      /\ answers \in SUBSET [session : Nat, event : GoodPages \cup {Error}]
      /\ wire \in Seq(Events) /\ requests \in Seq(0 .. MaxId)
      /\ left \in SUBSET [session : 0 .. MaxFaults, before : 0 .. MaxId]
  BY DEF TypeInv, TrafficTypes, DatabaseTypes
<1>u. UNCHANGED <<requests, left>>
  BY DEF SendAnswer
<1>2. (Fault \/ UNCHANGED faults) => faults' \in {faults, faults + 1} /\ faults' \in 0 .. MaxFaults
  BY <1>1, BoundsAssumption DEF Fault
<1>3. CASE answers' = answers \ {a} /\ wire' = Append(wire, a.event) /\ UNCHANGED faults
  <2>1. a.event \in Events
    BY <1>1 DEF Events
  <2>2. wire' \in Seq(Events) /\ Elements(wire') = Elements(wire) \cup {a.event}
    BY <1>1, <1>3, <2>1, GrowingAndShrinking
  <2>3. answers' \in SUBSET [session : Nat, event : GoodPages \cup {Error}] /\ answers' \subseteq answers
    BY <1>1, <1>3
  <2>4. TrafficTypes'
    BY <1>1, <1>u, <2>2, <2>3 DEF TrafficTypes
  <2> QED BY <1>2, <1>3, <2>2, <2>3, <2>4
<1>4. CASE /\ answers' = (answers \ {a}) \cup Unsent(a)
           /\ IF online THEN Fault ELSE UNCHANGED faults
           /\ UNCHANGED wire
  <2>1. \A b \in Unsent(a) : b.event = Error /\ b \in [session : Nat, event : GoodPages \cup {Error}]
    BY <1>1 DEF Unsent
  <2>2. answers' \in SUBSET [session : Nat, event : GoodPages \cup {Error}]
    BY <1>4, <2>1 DEF TypeInv, TrafficTypes
  <2>3. TrafficTypes'
    BY <1>1, <1>4, <1>u, <2>2 DEF TrafficTypes
  <2> QED BY <1>1, <1>2, <1>4, <2>1, <2>3
<1> QED BY <1>3, <1>4 DEF SendAnswer

\* What comes out of the socket: the first event goes, the list is the
\* browser's.
LEMMA ReceiveTypes == ASSUME TypeInv, Receive PROVE TypeInv'
<1>1. wire \in Seq(Events) /\ wire # <<>> /\ wire' = Tail(wire) /\ UNCHANGED <<requests, left, answers>>
  BY DEF TypeInv, TrafficTypes, Receive, ReceivePage, ReceiveError, ReceiveMessage
<1>2. Head(wire) \in Events /\ wire' \in Seq(Events)
  BY <1>1, GrowingAndShrinking
<1>3. TrafficTypes'
  BY <1>1, <1>2 DEF TypeInv, TrafficTypes
<1>4. CASE ReceivePage
  <2>1. Head(wire) \in GoodPages
    BY <1>2, <1>4, EventKinds DEF ReceivePage, Events
  <2> DEFINE page == Head(wire)
  <2>2. page \in Pages /\ page.partial \subseteq page.items /\ (page.hasMore <=> page.next # 0)
        /\ page.items \subseteq Ids /\ page.next \in 0 .. MaxId /\ page.hasMore \in BOOLEAN
        /\ page.seen \subseteq Ids /\ page.cut \in BOOLEAN
    BY <2>1 DEF GoodPages, Pages
  <2>3. /\ items' = items \cup page.items
        /\ partial' = IF loading = "older" THEN partial \cup (page.partial \ items)
                      ELSE (partial \ page.items) \cup page.partial
        /\ cursor' = page.next /\ hasMore' = page.hasMore /\ initialized' = TRUE /\ loading' = "no"
        /\ base' = IF initialized THEN base ELSE page.seen
        /\ cut' = (cut \/ page.cut)
        /\ stale' = (stale \/ (initialized /\ ~(base \subseteq page.seen)))
        /\ UNCHANGED <<database, link, lost, faults>>
    BY <1>4 DEF ReceivePage, MergePage, StopLoading
  <2> HIDE DEF page
  <2>4. ListTypes'
    BY <2>2, <2>3 DEF TypeInv, ListTypes
  <2>5. DatabaseTypes'
    BY <2>2, <2>3 DEF TypeInv, DatabaseTypes, KeyTypes, SessionsAreFaults, database, link
  <2> QED BY <1>3, <2>4, <2>5 DEF TypeInv
<1>5. CASE ReceiveError
  BY <1>3, <1>5 DEF ReceiveError, StopLoading, TypeInv, ListTypes, DatabaseTypes, KeyTypes, SessionsAreFaults,
                    database, link, ghosts
<1>6. CASE ReceiveMessage
  <2>1. Head(wire).message \in Ids
    BY <1>2, <1>6, EventKinds DEF ReceiveMessage, Events
  <2> QED BY <1>3, <1>6, <2>1 DEF ReceiveMessage, TypeInv, ListTypes, DatabaseTypes, KeyTypes, SessionsAreFaults,
                                  database, link, ghosts
<1> QED BY <1>4, <1>5, <1>6 DEF Receive

\* A request is added to those of the socket, or dropped.
LEMMA SendRequestTypes ==
    ASSUME TypeInv, NEW before \in 0 .. MaxId, SendRequest(before), UNCHANGED <<left, answers, wire>>
    PROVE  TrafficTypes' /\ Elements(requests') \subseteq Elements(requests) \cup {before}
<1>1. requests \in Seq(0 .. MaxId)
  BY DEF TypeInv, TrafficTypes
<1>2. requests' \in Seq(0 .. MaxId) /\ Elements(requests') \subseteq Elements(requests) \cup {before}
  BY <1>1, GrowingAndShrinking DEF SendRequest
<1> QED BY <1>2 DEF TypeInv, TrafficTypes
\* TypeInv is inductive.
LEMMA TypeInductive == TypeInv /\ [Next]_vars => TypeInv'
<1> SUFFICES ASSUME TypeInv, [Next]_vars PROVE TypeInv'
  OBVIOUS
<1>t. DatabaseTypes /\ ListTypes /\ TrafficTypes
  BY DEF TypeInv
<1>d. UNCHANGED <<database, link, ghosts, faults>> => DatabaseTypes'
  BY <1>t DEF DatabaseTypes, KeyTypes, SessionsAreFaults, database, link, ghosts
<1>l. UNCHANGED browser => ListTypes'
  BY <1>t DEF ListTypes, browser
<1>w. UNCHANGED traffic => TrafficTypes'
  BY <1>t DEF TrafficTypes, traffic
<1>1. ASSUME NEW m \in Ids, Insert(m) PROVE TypeInv'
  <2>1. table' \in [Ids -> {"unused", "open", "committed"}]
    BY <1>1, <1>t DEF Insert, DatabaseTypes
  <2>2. PICK t \in 1 .. MaxTime : at' = [at EXCEPT ![m] = t]
    BY <1>1 DEF Insert
  <2>3. at' \in [Ids -> 0 .. MaxTime]
    BY <1>t, <2>2, BoundsAssumption DEF DatabaseTypes, KeyTypes
  <2>4. DatabaseTypes'
    BY <1>1, <1>t, <2>1, <2>3 DEF Insert, DatabaseTypes, KeyTypes, SessionsAreFaults, link, ghosts
  <2> QED BY <1>1, <1>l, <1>w, <2>4 DEF Insert, TypeInv
<1>2. ASSUME NEW m \in Ids, CommitMessage(m) PROVE TypeInv'
  <2>1. DatabaseTypes'
    BY <1>2, <1>t DEF CommitMessage, DatabaseTypes, KeyTypes, SessionsAreFaults, link, ghosts
  <2> QED BY <1>2, <1>l, <1>w, <2>1 DEF CommitMessage, TypeInv
<1>3. ASSUME NEW m \in Ids, FanOut(m) PROVE TypeInv'
  <2>1. DatabaseTypes'
    BY <1>3, <1>t DEF FanOut, DatabaseTypes, KeyTypes, SessionsAreFaults, link
  <2>2. [message |-> m] \in Events
    BY EventKinds DEF Events
  <2>w. wire \in Seq(Events) /\ (wire' = wire \/ wire' = Append(wire, [message |-> m]))
    BY <1>3, <1>t DEF FanOut, TrafficTypes
  <2>3. wire' \in Seq(Events)
    BY <2>w, <2>2, GrowingAndShrinking
  <2>4. TrafficTypes'
    BY <1>3, <1>t, <2>3 DEF FanOut, TrafficTypes
  <2> QED BY <1>3, <1>l, <2>1, <2>4 DEF FanOut, TypeInv
<1>4. CASE Query \/ \E request \in left : LateQuery(request)
  <2>1. TrafficTypes' /\ faults' \in {faults, faults + 1} /\ faults' \in 0 .. MaxFaults
    BY <1>4, ReaderTypes
  <2>2. UNCHANGED <<database, link, browser, ghosts>>
    BY <1>4, ReaderTypes
  <2>3. DatabaseTypes'
    BY <1>t, <2>1, <2>2 DEF DatabaseTypes, KeyTypes, SessionsAreFaults, database, link, ghosts
  <2> QED BY <1>l, <2>1, <2>2, <2>3 DEF TypeInv
<1>5. ASSUME NEW a \in answers, SendAnswer(a) PROVE TypeInv'
  <2>1. TrafficTypes' /\ faults' \in {faults, faults + 1} /\ faults' \in 0 .. MaxFaults
    BY <1>5, SendAnswerTypes
  <2>2. UNCHANGED <<database, link, browser, ghosts>>
    BY <1>5 DEF SendAnswer
  <2>3. DatabaseTypes'
    BY <1>t, <2>1, <2>2 DEF DatabaseTypes, KeyTypes, SessionsAreFaults, database, link, ghosts
  <2> QED BY <1>l, <2>1, <2>2, <2>3 DEF TypeInv
<1>6. CASE SelectChat
  <2>1. TrafficTypes'
    BY <1>6, BoundsAssumption, SendRequestTypes DEF SelectChat
  <2> QED BY <1>6, <1>t, <1>d, <2>1 DEF SelectChat, TypeInv, ListTypes
<1>7. CASE ScrollToTop
  <2>1. cursor \in 0 .. MaxId
    BY <1>t DEF ListTypes
  <2>2. TrafficTypes'
    BY <1>7, <2>1, SendRequestTypes DEF ScrollToTop
  <2> QED BY <1>7, <1>t, <1>d, <2>2 DEF ScrollToTop, TypeInv, ListTypes
<1>8. CASE RequestTimeout
  BY <1>8, <1>t, <1>d, <1>w DEF RequestTimeout, StopLoading, TypeInv, ListTypes
<1>9. CASE Receive
  BY <1>9, ReceiveTypes
<1>10. CASE Disconnect
  <2>1. \A i \in DOMAIN wire : "message" \in DOMAIN wire[i] => wire[i].message \in Ids
    BY <1>t, EventKinds DEF TrafficTypes, Events
  <2>2. lost' \subseteq Ids
    BY <1>10, <1>t, <2>1 DEF Disconnect, DatabaseTypes
  <2>3. TrafficTypes'
    <3>1. requests' = <<>> /\ wire' = <<>> /\ UNCHANGED answers
      BY <1>10 DEF Disconnect
    <3>2. session \in 0 .. MaxFaults
      BY <1>10, <1>t, BoundsAssumption DEF Disconnect, DatabaseTypes, SessionsAreFaults
    <3>3. PICK read \in 0 .. Len(requests) :
            left' = left \cup {[session |-> session, before |-> requests[i]] : i \in 1 .. read}
      BY <1>10 DEF Disconnect
    <3>r. requests \in Seq(0 .. MaxId)
      BY <1>t DEF TrafficTypes
    <3>4. \A i \in 1 .. read : requests[i] \in 0 .. MaxId
      <4>1. Len(requests) \in Nat /\ \A i \in 1 .. Len(requests) : requests[i] \in 0 .. MaxId
        BY <3>r, LenProperties, ElementOfSeq
      <4>2. read \in Nat /\ read <= Len(requests)
        BY <4>1
      <4>3. \A i \in 1 .. read : i \in 1 .. Len(requests)
        BY <4>1, <4>2
      <4> QED BY <4>1, <4>3
    <3>5. left' \in SUBSET [session : 0 .. MaxFaults, before : 0 .. MaxId]
      BY <1>t, <3>2, <3>3, <3>4 DEF TrafficTypes
    <3> QED BY <1>t, <3>1, <3>5, EmptySeq DEF TrafficTypes
  <2>4. DatabaseTypes'
    <3>1. online' \in BOOLEAN /\ online
      BY <1>10 DEF Disconnect
    <3>2. session < faults'
      BY <1>10, <1>t, <3>1 DEF Disconnect, Fault, DatabaseTypes, SessionsAreFaults
    <3>3. faults' \in 0 .. MaxFaults /\ UNCHANGED <<table, at, announcing, session, base, cut, stale>>
      BY <1>10, <1>t, BoundsAssumption DEF Disconnect, Fault, DatabaseTypes, database
    <3> QED BY <1>t, <2>2, <3>1, <3>2, <3>3 DEF DatabaseTypes, KeyTypes, SessionsAreFaults
  <2>5. UNCHANGED browser
    BY <1>10 DEF Disconnect
  <2> QED BY <1>l, <2>3, <2>4, <2>5 DEF TypeInv
<1>11. CASE Reconnect
  <2>1. DatabaseTypes'
    BY <1>11, <1>t DEF Reconnect, DatabaseTypes, KeyTypes, SessionsAreFaults, database, ghosts
  <2> QED BY <1>11, <1>l, <1>w, <2>1 DEF Reconnect, TypeInv
<1>12. CASE UNCHANGED vars
  BY <1>12, <1>d, <1>l, <1>w DEF vars, TypeInv
<1> QED BY <1>1, <1>2, <1>3, <1>4, <1>5, <1>6, <1>7, <1>8, <1>9, <1>10, <1>11, <1>12 DEF Next, Service

\* TypeInv holds at first.
LEMMA TypeInitially == Init => TypeInv
<1> SUFFICES ASSUME Init PROVE TypeInv
  OBVIOUS
<1>1. TrafficTypes
  BY EmptySeq DEF Init, TrafficTypes
<1>2. ListTypes
  <2>1. /\ items = {} /\ partial = {} /\ cursor = 0 /\ hasMore = TRUE
        /\ initialized = FALSE /\ loading = "no"
    BY DEF Init
  <2>2. hasMore \in BOOLEAN /\ initialized \in BOOLEAN /\ ~initialized
    BY <2>1
  <2>3. items = {} /\ partial = {} /\ cursor \in 0 .. MaxId /\ loading = "no"
    BY <2>1, BoundsAssumption
  <2> QED BY <2>2, <2>3 DEF ListTypes
<1>3. DatabaseTypes
  <2>1. table \in [Ids -> {"unused", "open", "committed"}]
    BY DEF Init
  <2>2. /\ at \in [Ids -> 0 .. MaxTime] /\ announcing = {} /\ base = {} /\ lost = Old
        /\ session = 0 /\ faults = 0
    BY DEF Init
  <2>3. online = TRUE /\ cut = FALSE /\ stale = FALSE
    BY DEF Init
  <2>4. online \in BOOLEAN /\ cut \in BOOLEAN /\ stale \in BOOLEAN /\ online
    BY <2>3
  <2> QED BY <2>1, <2>2, <2>4, BoundsAssumption DEF DatabaseTypes, KeyTypes, SessionsAreFaults
<1> QED BY <1>1, <1>2, <1>3 DEF TypeInv

\* Types; only a list that has had a page asks for an older one, and it has a
\* cursor just when there is more.
THEOREM PagingTypeCorrect == Spec => []TypeOK
BY TypeInitially, TypeInductive, TypesAreTyped, PTL DEF Spec
-----------------------------------------------------------------------------
(***************************************************************************)
(* The list has no holes.                                                  *)
(***************************************************************************)

\* Messages that are on their way, as an answer or as an event.
InFlight(page) ==
    \/ \E a \in answers : a.event = page
    \/ page \in Elements(wire)

\* Requests that a reader has still to handle.
Pending(before) ==
    \/ before \in Elements(requests)
    \/ \E request \in left : request.before = before

\* The list may be relied on: no page was cut short or late.
Reliable == ~cut /\ ~stale

\* A page that will leave no hole when it comes: if the list has no page yet,
\* it holds all it saw from its cursor on; if the list has one, what the two
\* do not hold from that cursor on is not of the base.
Fits(page) ==
    /\ page.seen \subseteq Committed
    /\ page.next \in Committed \cup {0}
    /\ ~page.cut =>
          /\ page.partial = {}
          /\ ~initialized => From(page.next) \cap page.seen \subseteq page.items
          /\ initialized /\ Reliable /\ base \subseteq page.seen =>
                From(page.next) \cap base \subseteq page.items \cup items

\* A request is for the first page, or for what is older than a message down
\* to which the list has no hole.
Asked(before) ==
    /\ before \in Committed \cup {0}
    /\ before # 0 => initialized
    /\ before # 0 /\ Reliable => From(before) \cap base \subseteq items

PagesFit == \A page \in GoodPages : InFlight(page) => Fits(page)
RequestsFit == \A before \in 0 .. MaxId : Pending(before) => Asked(before)

\* The list down to its cursor.
ListFits ==
    /\ base \subseteq Committed
    /\ initialized => cursor \in Committed \cup {0}
    /\ initialized /\ Reliable => From(cursor) \cap base \subseteq items
    /\ ~cut => partial = {}

\* A committed message is in the list, or on its way, or lost.
LiveFits ==
    \A m \in Committed :
        m \in lost \cup announcing \cup items \/ [message |-> m] \in Elements(wire)

HoleInv == TypeInv /\ PagesFit /\ RequestsFit /\ ListFits /\ LiveFits
\* Most steps let the database and the list grow, and no more.
Grows ==
    /\ Committed \subseteq Committed'
    /\ \A m \in Committed : at'[m] = at[m]
    /\ items \subseteq items'
    /\ UNCHANGED <<initialized, base, cut, stale>>

\* Whatever fits goes on to fit while the list grows.
LEMMA GrowthKeepsFit ==
    ASSUME TypeInv, ListFits, Grows
    PROVE  /\ \A page \in GoodPages : Fits(page) => Fits(page)'
           /\ \A before : Asked(before) => Asked(before)'
           /\ UNCHANGED <<cursor, partial>> => ListFits'
<1>1. \A n \in Committed \cup {0} : \A m \in base : m \in From(n)' => m \in From(n)
  <2> SUFFICES ASSUME NEW n \in Committed \cup {0}, NEW m \in base, m \in From(n)' PROVE m \in From(n)
    OBVIOUS
  <2>1. m \in Committed /\ at'[m] = at[m] /\ m \in Ids
    BY DEF ListFits, Grows, Committed
  <2>2. n # 0 => at'[n] = at[n]
    BY DEF Grows
  <2> QED BY <2>1, <2>2 DEF From, OlderThan
<1>2. \A n \in Committed \cup {0} : \A S \in SUBSET Committed :
        \A m \in S : m \in From(n)' => m \in From(n)
  <2> SUFFICES ASSUME NEW n \in Committed \cup {0}, NEW m \in Committed, m \in From(n)' PROVE m \in From(n)
    OBVIOUS
  <2>1. at'[m] = at[m] /\ m \in Ids
    BY DEF Grows, Committed
  <2>2. n # 0 => at'[n] = at[n]
    BY DEF Grows
  <2> QED BY <2>1, <2>2 DEF From, OlderThan
<1>3. ASSUME NEW page \in GoodPages, Fits(page) PROVE Fits(page)'
  <2>1. page.seen \subseteq Committed' /\ page.next \in Committed' \cup {0} /\ page.next \in Committed \cup {0}
        /\ page.seen \subseteq Committed
    BY <1>3 DEF Fits, Grows
  <2>2. ASSUME ~page.cut, ~initialized PROVE From(page.next)' \cap page.seen \subseteq page.items
    BY <1>2, <1>3, <2>1, <2>2 DEF Fits
  <2>3. ASSUME ~page.cut, initialized, Reliable, base \subseteq page.seen
        PROVE  From(page.next)' \cap base \subseteq page.items \cup items'
    BY <1>1, <1>3, <2>1, <2>3 DEF Fits, Grows
  <2>4. ~page.cut => page.partial = {}
    BY <1>3 DEF Fits
  <2> QED BY <2>1, <2>2, <2>3, <2>4 DEF Fits, Reliable, Grows
<1>4. ASSUME NEW before, Asked(before) PROVE Asked(before)'
  <2>1. before \in Committed \cup {0} /\ before \in Committed' \cup {0}
    BY <1>4 DEF Asked, Grows
  <2>2. ASSUME before # 0, Reliable PROVE From(before)' \cap base \subseteq items'
    BY <1>1, <1>4, <2>1, <2>2 DEF Asked, Grows
  <2> QED BY <1>4, <2>1, <2>2 DEF Asked, Reliable, Grows
<1>5. ASSUME UNCHANGED <<cursor, partial>> PROVE ListFits'
  <2>1. base \subseteq Committed' /\ (initialized => cursor \in Committed \cup {0} /\ cursor \in Committed' \cup {0})
    BY DEF ListFits, Grows
  <2>2. ASSUME initialized, Reliable PROVE From(cursor)' \cap base \subseteq items'
    <3>1. \A m \in base : m \in From(cursor)' => m \in From(cursor)
      <4> SUFFICES ASSUME NEW m \in base, m \in From(cursor)' PROVE m \in From(cursor)
        OBVIOUS
      <4>1. m \in Committed /\ at'[m] = at[m] /\ m \in Ids /\ cursor' = cursor
        BY <1>5 DEF ListFits, Grows, Committed
      <4>2. cursor # 0 => at'[cursor] = at[cursor]
        BY <2>1, <2>2 DEF Grows
      <4> QED BY <4>1, <4>2 DEF From, OlderThan
    <3> QED BY <2>2, <3>1 DEF ListFits, Grows
  <2> QED BY <1>5, <2>1, <2>2 DEF ListFits, Reliable, Grows
<1> QED BY <1>3, <1>4, <1>5
\* A step that sends nothing new.
LEMMA NothingNew ==
    ASSUME HoleInv, Grows, UNCHANGED <<cursor, partial>>,
           \A page \in GoodPages : InFlight(page)' => InFlight(page),
           \A before \in 0 .. MaxId : Pending(before)' => Pending(before) \/ before = 0
    PROVE  PagesFit' /\ RequestsFit' /\ ListFits'
<1>1. /\ \A page \in GoodPages : Fits(page) => Fits(page)'
      /\ \A before : Asked(before) => Asked(before)'
      /\ ListFits'
  BY GrowthKeepsFit DEF HoleInv
<1>2. PagesFit'
  <2> SUFFICES ASSUME NEW page \in GoodPages, InFlight(page)' PROVE Fits(page)'
    BY DEF PagesFit
  <2> QED BY <1>1 DEF HoleInv, PagesFit
<1>3. Asked(0)
  BY DEF Asked
<1>4. RequestsFit'
  <2> SUFFICES ASSUME NEW before \in 0 .. MaxId, Pending(before)' PROVE Asked(before)'
    BY DEF RequestsFit
  <2> QED BY <1>1, <1>3 DEF HoleInv, RequestsFit
<1> QED BY <1>1, <1>2, <1>4

\* A step that leaves the database and the browser alone.
LEMMA NothingGrows ==
    ASSUME UNCHANGED <<database, browser, ghosts>>
    PROVE  Grows /\ UNCHANGED <<cursor, partial>>
BY DEF Grows, Committed, database, browser, ghosts

\* The page of a query fits.
LEMMA NewPageFits ==
    ASSUME HoleInv, NEW before \in 0 .. MaxId, Pending(before), NEW rows \in SUBSET PageRows(before)
    PROVE  Fits(PageOf(rows, PageRows(before)))
<1> DEFINE all == PageRows(before)
           page == PageOf(rows, all)
<1>1. KeyTypes /\ base \subseteq Committed
  BY DEF HoleInv, TypeInv, DatabaseTypes, ListFits
<1>3. Asked(before)
  BY DEF HoleInv, RequestsFit
<1>4. page.seen = Committed /\ page.items \subseteq Committed /\ page.next \in page.items \cup {0}
  BY <1>1, PageIsWellFormed
<1>5. page.cut = (rows # all)
  BY DEF PageOf
<1>6. ASSUME rows = all
      PROVE  /\ page.partial = {}
             /\ {m \in Committed : BeforeCursor(m, before)} \cap From(page.next) \subseteq page.items
  BY <1>1, <1>6, PageIsComplete
<1> HIDE DEF page, all
<1>7. ASSUME ~page.cut
      PROVE  /\ page.partial = {}
             /\ ~initialized => From(page.next) \cap page.seen \subseteq page.items
             /\ initialized /\ Reliable => From(page.next) \cap base \subseteq page.items \cup items
  <2>1. rows = all
    BY <1>5, <1>7
  <2>2. ASSUME ~initialized PROVE From(page.next) \cap page.seen \subseteq page.items
    <3>1. before = 0
      BY <1>3, <2>2 DEF Asked
    <3> QED BY <1>4, <1>6, <2>1, <3>1 DEF BeforeCursor
  <2>3. ASSUME initialized, Reliable, NEW m \in From(page.next), m \in base PROVE m \in page.items \cup items
    <3>1. CASE BeforeCursor(m, before)
      BY <1>1, <1>6, <2>1, <2>3, <3>1
    <3>2. CASE ~BeforeCursor(m, before)
      <4>1. before # 0 /\ m \in From(before)
        BY <1>1, <2>3, <3>2 DEF BeforeCursor, From, Committed
      <4> QED BY <1>3, <2>3, <4>1 DEF Asked
    <3> QED BY <3>1, <3>2
  <2> QED BY <1>6, <2>1, <2>2, <2>3
<1>8. Fits(page)
  BY <1>4, <1>7 DEF Fits
<1> QED BY <1>8 DEF page, all

\* An answer that is a good page, or an error, leaves everything as it fits.
LEMMA QueryKeepsFit ==
    ASSUME HoleInv, Query \/ \E request \in left : LateQuery(request)
    PROVE  PagesFit' /\ RequestsFit' /\ ListFits'
<1>1. /\ UNCHANGED <<database, link, wire, browser, ghosts>>
      /\ Elements(requests') \subseteq Elements(requests) /\ left' \subseteq left
  BY ReaderTypes DEF HoleInv
<1>8. PICK reader \in Nat, before \in 0 .. MaxId : Handle(reader, before) /\ Pending(before)
  BY ReaderTypes DEF HoleInv, Pending
<1> DEFINE all == PageRows(before)
<1>2. PICK e \in {PageOf(rows, all) : rows \in SUBSET all} \cup {Error} :
        answers' = answers \cup {[session |-> reader, event |-> e]}
  BY <1>8, HandleTypes DEF HoleInv
<1>3. e \in GoodPages => Fits(e)
  <2>1. CASE e = Error
    BY <2>1, EventKinds
  <2>2. CASE e # Error
    <3>1. PICK rows \in SUBSET all : e = PageOf(rows, all)
      BY <2>2
    <3> QED BY <1>8, <3>1, NewPageFits
  <2> QED BY <2>1, <2>2
<1>4. Grows /\ UNCHANGED <<cursor, partial>>
  BY <1>1, NothingGrows
<1>5. /\ \A page \in GoodPages : Fits(page) => Fits(page)'
      /\ \A older : Asked(older) => Asked(older)'
      /\ ListFits'
  BY <1>4, GrowthKeepsFit DEF HoleInv
<1>6. PagesFit'
  <2> SUFFICES ASSUME NEW page \in GoodPages, InFlight(page)' PROVE Fits(page)'
    BY DEF PagesFit
  <2>1. InFlight(page) \/ page = e
    <3> HIDE DEF all
    <3> QED BY <1>1, <1>2 DEF InFlight
  <2> QED BY <1>3, <1>5, <2>1 DEF HoleInv, PagesFit
<1>7. RequestsFit'
  <2> SUFFICES ASSUME NEW older \in 0 .. MaxId, Pending(older)' PROVE Asked(older)'
    BY DEF RequestsFit
  <2>1. Pending(older)
    BY <1>1 DEF Pending
  <2> QED BY <1>5, <2>1 DEF HoleInv, RequestsFit
<1> QED BY <1>5, <1>6, <1>7
\* A page is merged.
LEMMA ReceivePageKeepsFit ==
    ASSUME HoleInv, ReceivePage
    PROVE  PagesFit' /\ RequestsFit' /\ ListFits'
<1> DEFINE new == Head(wire)
<1>1. wire # <<>> /\ wire' = Tail(wire) /\ wire \in Seq(Events) /\ IsPage(new)
  BY DEF ReceivePage, HoleInv, TypeInv, TrafficTypes
<1>2. new \in Elements(wire) /\ new \in Events /\ Elements(wire') \subseteq Elements(wire)
  BY <1>1, GrowingAndShrinking
<1>3. new \in GoodPages /\ InFlight(new)
  BY <1>1, <1>2, EventKinds DEF Events, InFlight
<1>4. Fits(new)
  BY <1>3 DEF HoleInv, PagesFit
<1>5. /\ items' = items \cup new.items
      /\ partial' = IF loading = "older" THEN partial \cup (new.partial \ items)
                    ELSE (partial \ new.items) \cup new.partial
      /\ cursor' = new.next
      /\ initialized'
      /\ base' = IF initialized THEN base ELSE new.seen
      /\ cut' = (cut \/ new.cut)
      /\ stale' = (stale \/ (initialized /\ ~(base \subseteq new.seen)))
      /\ UNCHANGED <<table, at, requests, left, answers>>
  BY DEF ReceivePage, MergePage, database
<1> HIDE DEF new
<1>6. Committed' = Committed /\ \A n : From(n)' = From(n)
  BY <1>5 DEF Committed, From, OlderThan
<1>7. base \subseteq Committed /\ base' \subseteq Committed
  BY <1>4, <1>5 DEF HoleInv, ListFits, Fits
<1>8. Reliable' => Reliable /\ ~new.cut /\ (initialized => base \subseteq new.seen)
  BY <1>5 DEF Reliable
<1>9. ListFits'
  <2>1. ~cut' => partial' = {}
    BY <1>4, <1>5 DEF HoleInv, ListFits, Fits
  <2>2. ASSUME Reliable' PROVE From(new.next) \cap base' \subseteq items'
    <3>1. CASE initialized
      BY <1>4, <1>5, <1>8, <2>2, <3>1 DEF Fits
    <3>2. CASE ~initialized
      BY <1>4, <1>5, <1>8, <2>2, <3>2 DEF Fits
    <3> QED BY <3>1, <3>2
  <2>3. From(cursor)' = From(new.next)
    BY <1>5 DEF From, OlderThan
  <2>4. cursor' \in Committed' \cup {0}
    BY <1>4, <1>5, <1>6 DEF Fits
  <2> QED BY <1>6, <1>7, <2>1, <2>2, <2>3, <2>4 DEF ListFits
<1>10. ASSUME NEW page \in GoodPages, InFlight(page)' PROVE Fits(page)'
  <2>1. Fits(page)
    BY <1>2, <1>5, <1>10 DEF InFlight, HoleInv, PagesFit
  <2>2. ASSUME ~page.cut, Reliable', base' \subseteq page.seen
        PROVE  From(page.next) \cap base' \subseteq page.items \cup items'
    <3>1. CASE initialized
      BY <1>5, <1>8, <2>1, <2>2, <3>1 DEF Fits
    <3>2. CASE ~initialized
      BY <2>1, <2>2, <3>2 DEF Fits
    <3> QED BY <3>1, <3>2
  <2>3. /\ page.seen \subseteq Committed' /\ page.next \in Committed' \cup {0}
        /\ ~page.cut => page.partial = {}
    BY <1>6, <2>1 DEF Fits
  <2> QED BY <1>5, <1>6, <2>2, <2>3 DEF Fits
<1>11. ASSUME NEW before \in 0 .. MaxId, Pending(before)' PROVE Asked(before)'
  <2>1. Asked(before)
    BY <1>5, <1>11 DEF HoleInv, RequestsFit, Pending
  <2>2. before # 0 /\ Reliable' => From(before) \cap base' \subseteq items'
    BY <1>5, <1>8, <2>1 DEF Asked
  <2> QED BY <1>5, <1>6, <2>1, <2>2 DEF Asked
<1> QED BY <1>9, <1>10, <1>11 DEF PagesFit, RequestsFit

\* A committed message gets into the list, or on its way, or is lost.
LEMMA LiveKept == ASSUME HoleInv, [Next]_vars PROVE LiveFits'
<1>t. wire \in Seq(Events) /\ LiveFits
  BY DEF HoleInv, TypeInv, TrafficTypes
<1>1. ASSUME UNCHANGED <<lost, announcing>>, Committed' = Committed, items \subseteq items',
             \A m \in Ids : [message |-> m] \in Elements(wire) =>
                 [message |-> m] \in Elements(wire') \/ m \in items'
      PROVE  LiveFits'
  BY <1>t, <1>1 DEF LiveFits, Committed
<1>2. UNCHANGED <<database, lost, items, wire>> => LiveFits'
  BY <1>1 DEF database, Committed
<1>3. ASSUME NEW m \in Ids, Insert(m) PROVE LiveFits'
  <2>1. Committed' = Committed
    BY <1>3 DEF Insert, Committed, HoleInv, TypeInv, DatabaseTypes
  <2> QED BY <1>1, <1>3, <2>1 DEF Insert, traffic, browser, ghosts
<1>4. ASSUME NEW m \in Ids, CommitMessage(m) PROVE LiveFits'
  <2>1. Committed' = Committed \cup {m}
    BY <1>4 DEF CommitMessage, Committed, HoleInv, TypeInv, DatabaseTypes
  <2> QED BY <1>4, <1>t, <2>1 DEF CommitMessage, LiveFits, traffic, browser, ghosts
<1>5. ASSUME NEW m \in Ids, FanOut(m) PROVE LiveFits'
  <2>1. [message |-> m] \in Events
    BY EventKinds DEF Events
  <2>5. PICK event \in Events : event = [message |-> m]
    BY <2>1
  <2>6. wire' = Append(wire, event) \/ (lost' = lost \cup {m} /\ wire' = wire)
    BY <1>5, <2>5 DEF FanOut
  <2>7. Elements(Append(wire, event)) = Elements(wire) \cup {event}
    BY <1>t, GrowingAndShrinking
  <2>2. Elements(wire) \subseteq Elements(wire')
    BY <2>6, <2>7
  <2>3. [message |-> m] \in Elements(wire') \/ m \in lost'
    BY <2>5, <2>6, <2>7
  <2>4. Committed' = Committed /\ announcing' = announcing \ {m} /\ lost \subseteq lost' /\ items' = items
    BY <1>5 DEF FanOut, Committed, browser
  <2> QED BY <1>t, <2>2, <2>3, <2>4 DEF LiveFits
<1>6. ASSUME NEW a \in answers, SendAnswer(a) PROVE LiveFits'
  <2>1. Elements(wire) \subseteq Elements(wire')
    BY <1>6, SendAnswerTypes DEF HoleInv
  <2> QED BY <1>1, <1>6, <2>1 DEF SendAnswer, database, browser, ghosts, Committed
<1>7. CASE Receive
  <2>1. /\ wire # <<>> /\ wire' = Tail(wire) /\ items \subseteq items'
        /\ UNCHANGED <<database, lost>>
    BY <1>7 DEF Receive, ReceivePage, ReceiveError, ReceiveMessage, MergePage, ghosts
  <2>2. Elements(wire) \subseteq Elements(wire') \cup {Head(wire)}
    BY <1>t, <2>1, GrowingAndShrinking
  <2>3. ASSUME NEW m \in Ids, Head(wire) = [message |-> m] PROVE m \in items'
    <3>1. ~IsPage(Head(wire)) /\ Head(wire) # Error
      BY <2>3, EventKinds
    <3>2. ReceiveMessage
      BY <1>7, <3>1 DEF Receive, ReceivePage, ReceiveError
    <3> QED BY <2>3, <3>2 DEF ReceiveMessage
  <2> QED BY <1>1, <2>1, <2>2, <2>3 DEF database, Committed
<1>8. CASE Disconnect
  <2>1. lost' = lost \cup OnTheWay /\ UNCHANGED <<table, announcing, items>>
    BY <1>8 DEF Disconnect, OnTheWay, database, browser
  <2>2. ASSUME NEW m \in Ids, [message |-> m] \in Elements(wire) PROVE m \in OnTheWay
    <3>1. PICK i \in DOMAIN wire : wire[i] = [message |-> m]
      BY <2>2 DEF Elements
    <3>2. "message" \in DOMAIN wire[i] /\ wire[i].message = m
      BY <3>1
    <3> QED BY <3>2 DEF OnTheWay
  <2>3. Committed' = Committed
    BY <2>1 DEF Committed
  <2> HIDE DEF OnTheWay
  <2>4. SUFFICES ASSUME NEW m \in Committed, m \notin lost', m \notin announcing, m \notin items
                 PROVE FALSE
    BY <2>1, <2>3 DEF LiveFits
  <2>5. [message |-> m] \in Elements(wire)
    BY <1>t, <2>1, <2>4 DEF LiveFits
  <2> QED BY <2>1, <2>2, <2>4, <2>5 DEF Committed
<1>9. CASE SelectChat \/ ScrollToTop \/ RequestTimeout \/ Reconnect \/ UNCHANGED vars
  BY <1>9, <1>2 DEF SelectChat, ScrollToTop, RequestTimeout, Reconnect, vars, traffic, browser, ghosts
<1>10. CASE Query \/ \E request \in left : LateQuery(request)
  BY <1>10, <1>2, ReaderTypes DEF HoleInv, browser, ghosts
<1> QED BY <1>3, <1>4, <1>5, <1>6, <1>7, <1>8, <1>9, <1>10 DEF Next, Service
\* HoleInv is inductive.
LEMMA HoleInductive == HoleInv /\ [Next]_vars => HoleInv'
<1> SUFFICES ASSUME HoleInv, [Next]_vars PROVE PagesFit' /\ RequestsFit' /\ ListFits'
  BY TypeInductive, LiveKept DEF HoleInv
<1>t. TypeInv /\ wire \in Seq(Events)
  BY DEF HoleInv, TypeInv, TrafficTypes
<1>g. UNCHANGED <<database, browser, ghosts>> => Grows /\ UNCHANGED <<cursor, partial>>
  BY NothingGrows
<1>w. UNCHANGED traffic => /\ \A page \in GoodPages : InFlight(page)' => InFlight(page)
                           /\ \A before \in 0 .. MaxId : Pending(before)' => Pending(before) \/ before = 0
  BY DEF traffic, InFlight, Pending
<1>1. ASSUME NEW m \in Ids, Insert(m) PROVE PagesFit' /\ RequestsFit' /\ ListFits'
  <2>1. table[m] = "unused" /\ UNCHANGED <<traffic, browser, ghosts>>
    BY <1>1 DEF Insert
  <2>2. Committed \subseteq Committed'
    BY <1>1, <1>t DEF Insert, Committed, TypeInv, DatabaseTypes
  <2>3. \A n \in Committed : at'[n] = at[n]
    BY <1>1, <1>t, <2>1 DEF Insert, Committed, TypeInv, DatabaseTypes, KeyTypes
  <2>4. Grows /\ UNCHANGED <<cursor, partial>>
    BY <2>1, <2>2, <2>3 DEF Grows, browser, ghosts
  <2> QED BY <1>w, <2>1, <2>4, NothingNew
<1>2. ASSUME NEW m \in Ids, CommitMessage(m) PROVE PagesFit' /\ RequestsFit' /\ ListFits'
  <2>1. UNCHANGED <<at, traffic, browser, ghosts>>
    BY <1>2 DEF CommitMessage
  <2>2. Committed \subseteq Committed'
    BY <1>2, <1>t DEF CommitMessage, Committed, TypeInv, DatabaseTypes
  <2>3. Grows /\ UNCHANGED <<cursor, partial>>
    BY <2>1, <2>2 DEF Grows, browser, ghosts
  <2> QED BY <1>w, <2>1, <2>3, NothingNew
<1>3. ASSUME NEW m \in Ids, FanOut(m) PROVE PagesFit' /\ RequestsFit' /\ ListFits'
  <2>1. UNCHANGED <<table, at, requests, left, answers, browser, base, cut, stale>>
    BY <1>3 DEF FanOut
  <2>2. Grows /\ UNCHANGED <<cursor, partial>>
    BY <2>1 DEF Grows, Committed, browser
  <2>3. PICK event \in [message : Ids] : event = [message |-> m]
    BY EventKinds
  <2>4. event \in Events /\ (wire' = Append(wire, event) \/ wire' = wire)
    BY <1>3, <2>3 DEF FanOut, Events
  <2>5. Elements(wire') \subseteq Elements(wire) \cup {event}
    BY <1>t, <2>4, GrowingAndShrinking
  <2>6. event \notin GoodPages
    BY EventKinds
  <2>7. \A page \in GoodPages : InFlight(page)' => InFlight(page)
    BY <2>1, <2>5, <2>6 DEF InFlight
  <2>8. \A before \in 0 .. MaxId : Pending(before)' => Pending(before) \/ before = 0
    BY <2>1 DEF Pending
  <2> QED BY <2>2, <2>7, <2>8, NothingNew
<1>4. CASE Query \/ \E request \in left : LateQuery(request)
  BY <1>4, QueryKeepsFit
<1>5. ASSUME NEW a \in answers, SendAnswer(a) PROVE PagesFit' /\ RequestsFit' /\ ListFits'
  <2>1. UNCHANGED <<database, requests, left, browser, ghosts>>
    BY <1>5 DEF SendAnswer
  <2>2. /\ \A b \in answers' : b \in answers \/ b.event = Error
        /\ Elements(wire') \subseteq Elements(wire) \cup {a.event}
    BY <1>5, <1>t, SendAnswerTypes
  <2>3. \A page \in GoodPages : InFlight(page)' => InFlight(page)
    BY <2>2, EventKinds DEF InFlight
  <2>4. \A before \in 0 .. MaxId : Pending(before)' => Pending(before) \/ before = 0
    BY <2>1 DEF Pending
  <2> QED BY <1>g, <2>1, <2>3, <2>4, NothingNew
<1>6. CASE SelectChat
  <2>1. SendRequest(0) /\ UNCHANGED <<database, left, answers, wire, items, partial, cursor, initialized, ghosts>>
    BY <1>6 DEF SelectChat
  <2>2. \A before \in 0 .. MaxId : Pending(before)' => Pending(before) \/ before = 0
    BY <1>t, <2>1, BoundsAssumption, SendRequestTypes DEF Pending
  <2>3. \A page \in GoodPages : InFlight(page)' => InFlight(page)
    BY <2>1 DEF InFlight
  <2>4. Grows
    BY <2>1 DEF Grows, Committed, database, ghosts
  <2> QED BY <2>1, <2>2, <2>3, <2>4, NothingNew
<1>7. CASE ScrollToTop
  <2>1. /\ SendRequest(cursor) /\ initialized
        /\ UNCHANGED <<database, left, answers, wire, items, partial, cursor, initialized, ghosts>>
    BY <1>7 DEF ScrollToTop
  <2>2. cursor \in 0 .. MaxId /\ ListFits
    BY <1>t DEF HoleInv, TypeInv, ListTypes
  <2>3. \A before \in 0 .. MaxId : Pending(before)' => Pending(before) \/ before = cursor
    BY <1>t, <2>1, <2>2, SendRequestTypes DEF Pending
  <2>4. Grows
    BY <2>1 DEF Grows, Committed, database, ghosts
  <2>5. /\ \A page \in GoodPages : Fits(page) => Fits(page)'
        /\ \A before : Asked(before) => Asked(before)'
        /\ ListFits'
    BY <1>t, <2>1, <2>2, <2>4, GrowthKeepsFit
  <2>6. ASSUME NEW before \in 0 .. MaxId, Pending(before)' PROVE Asked(before)
    <3>1. CASE Pending(before)
      BY <3>1 DEF HoleInv, RequestsFit
    <3>2. CASE before = cursor
      BY <2>1, <2>2, <3>2 DEF ListFits, Asked
    <3> QED BY <2>3, <2>6, <3>1, <3>2
  <2>7. \A page \in GoodPages : InFlight(page)' => InFlight(page)
    BY <2>1 DEF InFlight
  <2>8. PagesFit'
    <3> SUFFICES ASSUME NEW page \in GoodPages, InFlight(page)' PROVE Fits(page)'
      BY DEF PagesFit
    <3> QED BY <2>5, <2>7 DEF HoleInv, PagesFit
  <2>9. RequestsFit'
    BY <2>5, <2>6 DEF RequestsFit
  <2> QED BY <2>5, <2>8, <2>9
<1>8. CASE RequestTimeout
  <2>1. UNCHANGED <<database, traffic, items, partial, cursor, initialized, ghosts>>
    BY <1>8 DEF RequestTimeout
  <2>2. Grows
    BY <2>1 DEF Grows, Committed, database, ghosts
  <2> QED BY <1>w, <2>1, <2>2, NothingNew
<1>9. CASE ReceivePage
  BY <1>9, ReceivePageKeepsFit
<1>10. CASE ReceiveError \/ ReceiveMessage
  <2>1. /\ wire # <<>> /\ wire' = Tail(wire) /\ items \subseteq items'
        /\ UNCHANGED <<database, requests, left, answers, partial, cursor, initialized, ghosts>>
    BY <1>10 DEF ReceiveError, ReceiveMessage
  <2>2. Elements(wire') \subseteq Elements(wire)
    BY <1>t, <2>1, GrowingAndShrinking
  <2>3. Grows
    BY <2>1 DEF Grows, Committed, database, ghosts
  <2>4. \A page \in GoodPages : InFlight(page)' => InFlight(page)
    BY <2>1, <2>2 DEF InFlight
  <2>5. \A before \in 0 .. MaxId : Pending(before)' => Pending(before) \/ before = 0
    BY <2>1 DEF Pending
  <2> QED BY <2>1, <2>3, <2>4, <2>5, NothingNew
<1>11. CASE Disconnect
  <2>1. requests' = <<>> /\ wire' = <<>> /\ UNCHANGED <<database, answers, browser, base, cut, stale>>
    BY <1>11 DEF Disconnect
  <2>2. Grows /\ UNCHANGED <<cursor, partial>>
    BY <2>1 DEF Grows, Committed, database, browser
  <2>3. Elements(wire') = {} /\ Elements(requests') = {}
    BY <2>1 DEF Elements
  <2>4. \A page \in GoodPages : InFlight(page)' => InFlight(page)
    BY <2>1, <2>3 DEF InFlight
  <2>5. PICK read \in 0 .. Len(requests) :
          left' = left \cup {[session |-> session, before |-> requests[i]] : i \in 1 .. read}
    BY <1>11 DEF Disconnect
  <2>6. \A i \in 1 .. read : requests[i] \in Elements(requests)
    BY <1>t DEF Elements, TypeInv, TrafficTypes
  <2>7. \A before \in 0 .. MaxId : Pending(before)' => Pending(before)
    BY <2>3, <2>5, <2>6 DEF Pending
  <2> QED BY <2>2, <2>4, <2>7, NothingNew
<1>12. CASE Reconnect \/ UNCHANGED vars
  <2>1. UNCHANGED <<database, traffic, browser, ghosts>>
    BY <1>12 DEF Reconnect, vars
  <2> QED BY <1>g, <1>w, <2>1, NothingNew
<1> QED BY <1>1, <1>2, <1>3, <1>4, <1>5, <1>6, <1>7, <1>8, <1>9, <1>10, <1>11, <1>12 DEF Next, Service, Receive

\* HoleInv holds at first.
LEMMA HoleInitially == Init => HoleInv
<1> SUFFICES ASSUME Init PROVE HoleInv
  OBVIOUS
<1>1. requests = <<>> /\ left = {} /\ wire = <<>> /\ answers = {} /\ base = {} /\ partial = {} /\ lost = Old /\ ~initialized
  BY DEF Init
<1>2. Elements(requests) = {} /\ Elements(wire) = {}
  BY <1>1 DEF Elements
<1>3. Committed = Old
  BY BoundsAssumption DEF Init, Committed
<1>4. PagesFit /\ RequestsFit
  BY <1>1, <1>2 DEF PagesFit, RequestsFit, InFlight, Pending
<1>5. ListFits /\ LiveFits
  BY <1>1, <1>3 DEF ListFits, LiveFits
<1> QED BY <1>4, <1>5, TypeInitially DEF HoleInv

\* HoleInv and the two properties.
LEMMA HoleInvIsEnough == HoleInv => HistoryHasNoHoles /\ ItemsAreWhole
<1> SUFFICES ASSUME HoleInv PROVE HistoryHasNoHoles /\ ItemsAreWhole
  OBVIOUS
<1>1. ASSUME initialized, Reliable, NEW m \in Covered, m \in base PROVE m \in items
  <2>1. m \in Committed /\ m \in Ids /\ (hasMore => cursor # 0 /\ ~OlderThan(m, cursor))
    BY <1>1 DEF Covered, Committed
  <2>2. hasMore <=> cursor # 0
    BY <1>1 DEF HoleInv, TypeInv, ListTypes
  <2>3. m \in From(cursor)
    BY <2>1, <2>2 DEF From
  <2> QED BY <1>1, <2>3 DEF HoleInv, ListFits
<1>2. ASSUME NEW m \in Committed, m \notin lost \cup announcing \cup OnTheWay PROVE m \in items
  <2>1. [message |-> m] \notin Elements(wire)
    <3> SUFFICES ASSUME NEW i \in DOMAIN wire, wire[i] = [message |-> m] PROVE FALSE
      BY DEF Elements
    <3>1. "message" \in DOMAIN wire[i] /\ wire[i].message = m
      OBVIOUS
    <3>2. m \in OnTheWay
      BY <3>1 DEF OnTheWay
    <3> QED BY <1>2, <3>2
  <2> QED BY <1>2, <2>1 DEF HoleInv, LiveFits
<1>3. HistoryHasNoHoles
  BY <1>1, <1>2 DEF HistoryHasNoHoles, Reliable
<1>4. ItemsAreWhole
  BY DEF ItemsAreWhole, HoleInv, ListFits
<1> QED BY <1>3, <1>4

\* The list of a chat has no hole down to its cursor, through ties and late
\* commits, lost, late and repeated answers, timeouts and reconnects.
THEOREM ListHasNoHoles == Spec => []HistoryHasNoHoles
BY HoleInitially, HoleInductive, HoleInvIsEnough, PTL DEF Spec

\* No message of the list lacks an attachment.
THEOREM MessagesOfTheListAreWhole == Spec => []ItemsAreWhole
BY HoleInitially, HoleInductive, HoleInvIsEnough, PTL DEF Spec
=============================================================================
