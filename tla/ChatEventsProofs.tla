-------------------------- MODULE ChatEventsProofs --------------------------
(***************************************************************************)
(* For any number of sockets, requests, chats, messages and faults: a page *)
(* shows the chats of its user, and lacks one only for a known reason; a   *)
(* listed member who stays online is served; messages are delivered as     *)
(* BestEffort promises, in the order of their process, once, and only to   *)
(* members of their chat.                                                  *)
(***************************************************************************)
EXTENDS ChatEvents, SequenceTheorems, TLAPS

-----------------------------------------------------------------------------
(***************************************************************************)
(* Types, by the group of variables that an action leaves alone.           *)
(***************************************************************************)
MessageRow == [chat : Chats, sender : Logins, by : Procs]

DatabaseTypes ==
    /\ created \in 0 .. MaxChats /\ members \in [Chats -> SUBSET Logins]
    /\ late \subseteq Chats \X Logins
    /\ saved \in 0 .. MaxMsgs /\ from \in [Msgs -> MessageRow \cup {NoEvent}]

SocketTypes ==
    /\ storage \in [Logins -> Conns \cup {NoClient}]
    /\ link \in [Conns -> {"none", "open", "gone", "closed"}]
    /\ asked \in [Conns -> BOOLEAN]

WriterTypes ==
    /\ writer \in [Conns -> {"off", "starting", "on"}]
    /\ writerOf \in [Conns -> Conns \cup {NoClient}]
    /\ hand \in [Conns -> Events \cup {NoEvent}]

ReaderTypes == readerOf \in [Conns -> Conns \cup {NoClient}]

ChannelTypes ==
    /\ chan \in [Conns -> Seq(Events)]
    /\ \A k \in Conns : Len(chan[k]) <= SendCap

Delivers(p) == step[p] \in {"looking", "sending"}

ProcessTypes ==
    /\ step \in [Procs -> {"off", "starting", "idle", "joining", "members", "looking", "sending", "done"}]
    /\ event \in [Procs -> Events \cup {NoEvent}]
    /\ todo \in [Procs -> SUBSET Logins]
    /\ dest \in [Procs -> Conns \cup {NoClient}]
    /\ \A p \in Procs : Delivers(p) => event[p] # NoEvent /\ todo[p] # {}

PageTypes == chats \in [Logins -> SUBSET Chats] /\ got \in [Logins -> Seq(Msgs \X Conns)]

HistoryTypes ==
    /\ sent \in [Msgs -> SUBSET Logins] /\ excused \in [Msgs -> SUBSET Logins]
    /\ doubt \in [Logins -> SUBSET Chats]

BoundTypes == events \in 0 .. MaxEvents /\ faults \in 0 .. MaxFaults

\* TypeOK is its groups.
LEMMA TypeGroups ==
    TypeOK <=> /\ DatabaseTypes /\ SocketTypes /\ ChannelTypes /\ WriterTypes /\ ReaderTypes
               /\ ProcessTypes /\ PageTypes /\ HistoryTypes /\ BoundTypes
BY DEF TypeOK, DatabaseTypes, SocketTypes, ChannelTypes, WriterTypes, ReaderTypes, ProcessTypes,
       PageTypes, HistoryTypes,
       BoundTypes, MessageRow, Delivers

\* The kinds of events are told apart.
LEMMA Kinds ==
    /\ \A e \in Events : e # NoEvent
    /\ \A c \in Chats, l \in Logins : Added(c, l) \in Events
    /\ \A S \in SUBSET Chats : List(S) \in Events
    /\ \A m \in Msgs : Message(m) \in Events
    /\ \A e \in Events :
          \/ \E c \in Chats, l \in Logins : e = Added(c, l)
          \/ \E S \in SUBSET Chats : e = List(S)
          \/ \E m \in Msgs : e = Message(m)
<1>1. \A c, l : Added(c, l).type = "added"
  BY DEF Added
<1>2. \A S : List(S).type = "chats"
  BY DEF List
<1>3. \A m : Message(m).type = "message"
  BY DEF Message
<1>4. NoEvent.type = "none"
  BY DEF NoEvent
<1> QED BY <1>1, <1>2, <1>3, <1>4 DEF Events

-----------------------------------------------------------------------------
\* The handler of p returns.
LEMMA ReturnFacts ==
    ASSUME ProcessTypes, NEW p \in Procs, Return(p)
    PROVE  /\ ProcessTypes' /\ step'[p] \in {"idle", "done"}
           /\ \A q \in Procs \ {p} : /\ step'[q] = step[q] /\ event'[q] = event[q]
                                     /\ todo'[q] = todo[q] /\ dest'[q] = dest[q]
BY DEF ProcessTypes, Return, Delivers

\* The handler of p goes on to deliver e to L.
LEMMA DeliverFacts ==
    ASSUME ProcessTypes, NEW p \in Procs, NEW e \in Events, NEW L \in SUBSET Logins, L # {},
           Deliver(p, e, L)
    PROVE  /\ ProcessTypes' /\ step'[p] = "looking" /\ event'[p] = e /\ todo'[p] = L
           /\ \A q \in Procs \ {p} : /\ step'[q] = step[q] /\ event'[q] = event[q]
                                     /\ todo'[q] = todo[q] /\ dest'[q] = dest[q]
BY Kinds DEF ProcessTypes, Deliver, Delivers

\* The loop of p goes on, or its handler returns.
LEMMA ContinueFacts ==
    ASSUME ProcessTypes, NEW p \in Procs, Delivers(p), NEW l, Continue(p, todo[p] \ {l})
    PROVE  /\ ProcessTypes'
           /\ \/ step'[p] \in {"idle", "done"} /\ todo[p] \subseteq {l}
              \/ /\ step'[p] = "looking" /\ event'[p] = event[p] /\ todo'[p] = todo[p] \ {l}
           /\ \A q \in Procs \ {p} : /\ step'[q] = step[q] /\ event'[q] = event[q]
                                     /\ todo'[q] = todo[q] /\ dest'[q] = dest[q]
<1>1. event[p] \in Events /\ todo[p] \ {l} \in SUBSET Logins
  BY DEF ProcessTypes
<1>2. CASE todo[p] \ {l} = {}
  BY <1>2, ReturnFacts DEF Continue
<1>3. CASE todo[p] \ {l} # {}
  BY <1>1, <1>3, DeliverFacts DEF Continue
<1> QED BY <1>2, <1>3

\* What an event carries to a page is a set of chats.
LEMMA CarriesChats == \A e, l : Carries(e, l) \subseteq Chats
BY DEF Carries

\* Doubts are about chats.
LEMMA DoubtedTypes ==
    ASSUME HistoryTypes, NEW l, NEW S
    PROVE  Doubted(l, S) \in [Logins -> SUBSET Chats]
<1>1. UNION {Carries(e, l) : e \in S} \subseteq Chats
  BY CarriesChats
<1> QED BY <1>1 DEF HistoryTypes, Doubted

-----------------------------------------------------------------------------
(***************************************************************************)
(* What every event under way carries is true of its receivers.            *)
(***************************************************************************)

\* In a fan-out of a message, from its save to its last send.
InFanOut(p) == step[p] \in {"members", "looking", "sending"} /\ event[p].type = "message"

ProcessOK(p) ==
    /\ step[p] = "joining" => p \in Conns /\ \E c \in Chats, l \in Logins : event[p] = Added(c, l)
    /\ step[p] = "members" => event[p].type = "message"
    /\ InFanOut(p) => event[p].id \in 1 .. saved
    /\ step[p] = "sending" => dest[p] \in Conns /\ LoginOf[dest[p]] \in todo[p]
    /\ Delivers(p) => \A l \in todo[p] : Carries(event[p], l) \subseteq Of(l)

\* The registered client of a login is a socket of it.
RegistryOK ==
    \A l \in Logins : storage[l] # NoClient => storage[l] \in Conns /\ LoginOf[storage[l]] = l

\* A writer serves a client of its login, and what it holds is true of its page.
WriterOK(k) ==
    /\ writer[k] = "on" => writerOf[k] \in Conns
    /\ writerOf[k] \in Conns => LoginOf[writerOf[k]] = LoginOf[k]
    /\ hand[k] # NoEvent =>
          /\ writerOf[k] \in Conns
          /\ Carries(hand[k], LoginOf[k]) \subseteq Of(LoginOf[k])

\* Only a writer that runs has an event in hand, and only one that started serves.
HandsOK == \A k \in Conns :
    /\ link[k] = "none" => step[k] = "off" /\ writer[k] = "off" /\ writerOf[k] = NoClient
    /\ writer[k] = "starting" => writerOf[k] = NoClient
    /\ hand[k] # NoEvent => writer[k] = "on"

SavedOK == \A m \in 1 .. saved : from[m] \in MessageRow

ChannelOK(k) == \A i \in DOMAIN chan[k] : Carries(chan[k][i], LoginOf[k]) \subseteq Of(LoginOf[k])

PageOK(l) == chats[l] \subseteq Of(l)

EventInv ==
    /\ TypeOK /\ RegistryOK /\ SavedOK /\ HandsOK
    /\ \A p \in Procs : ProcessOK(p)
    /\ \A k \in Conns : WriterOK(k)
    /\ \A k \in Conns : ChannelOK(k)
    /\ \A l \in Logins : PageOK(l)

\* Nobody leaves a chat, and no message loses its row.
DatabaseGrows ==
    /\ saved \in Nat /\ saved' \in Nat /\ saved <= saved'
    /\ \A c \in Chats : members[c] \subseteq members'[c]

\* Nobody leaves a chat.
LEMMA OfGrows ==
    ASSUME DatabaseGrows, NEW l
    PROVE  Of(l) \subseteq Of(l)'
BY DEF DatabaseGrows, Of

\* A step that writes no row takes none away.
LEMMA SameDatabase ==
    ASSUME TypeOK, UNCHANGED <<members, saved>>
    PROVE  DatabaseGrows
BY BoundsAssumption DEF TypeOK, DatabaseGrows

\* A process that does nothing stays as it is.
LEMMA OthersOK ==
    ASSUME NEW q \in Procs, ProcessOK(q), DatabaseGrows,
           step'[q] = step[q], event'[q] = event[q], todo'[q] = todo[q], dest'[q] = dest[q]
    PROVE  ProcessOK(q)'
<1>1. Delivers(q)' => \A l \in todo'[q] : (Carries(event[q], l) \subseteq Of(l))'
  BY OfGrows DEF ProcessOK, Delivers, Carries
<1>2. event[q].id \in 1 .. saved => event[q].id \in 1 .. saved'
  BY DEF DatabaseGrows
<1> QED BY <1>1, <1>2 DEF ProcessOK, InFanOut, Delivers

\* A writer that takes nothing stays true, whether it goes on or ends.
LEMMA WriterKept ==
    ASSUME NEW k \in Conns, WriterOK(k), DatabaseGrows, writerOf'[k] = writerOf[k],
           writer'[k] = "on" => writer[k] = "on", hand'[k] \in {hand[k], NoEvent}
    PROVE  WriterOK(k)'
<1>1. Of(LoginOf[k]) \subseteq Of(LoginOf[k])'
  BY OfGrows
<1>2. hand'[k] # NoEvent => (Carries(hand[k], LoginOf[k]) \subseteq Of(LoginOf[k]))'
  <2>1. CASE hand'[k] = hand[k]
    <3>1. hand[k] # NoEvent => Carries(hand'[k], LoginOf[k]) \subseteq Of(LoginOf[k])
      BY <2>1 DEF WriterOK, Carries
    <3>2. Carries(hand'[k], LoginOf[k]) = Carries(hand[k], LoginOf[k])'
      BY DEF Carries
    <3> QED BY <1>1, <2>1, <3>1, <3>2
  <2>2. CASE hand'[k] = NoEvent
    BY <2>2
  <2> QED BY <2>1, <2>2
<1> QED BY <1>2 DEF WriterOK

\* The events left in a channel, and one that is true of its receiver.
LEMMA ChannelKept ==
    ASSUME NEW k \in Conns, chan[k] \in Seq(Events), ChannelOK(k), DatabaseGrows,
           \/ chan'[k] = chan[k]
           \/ chan'[k] = <<>>
           \/ chan[k] # <<>> /\ chan'[k] = Tail(chan[k])
           \/ \E e \in Events : /\ chan'[k] = Append(chan[k], e)
                                /\ Carries(e, LoginOf[k]) \subseteq Of(LoginOf[k])
    PROVE  ChannelOK(k)'
<1> DEFINE S == Of(LoginOf[k])
           Good(e) == Carries(e, LoginOf[k]) \subseteq S
<1>1. S \subseteq S'
  BY OfGrows
<1>2. \A i \in DOMAIN chan[k] : Good(chan[k][i])
  BY DEF ChannelOK
<1>3. ASSUME NEW i \in DOMAIN chan'[k]
      PROVE  Good(chan'[k][i])
  <2>1. CASE chan'[k] = chan[k]
    BY <1>2, <2>1
  <2>2. CASE chan'[k] = <<>>
    BY <2>2
  <2>3. CASE chan[k] # <<>> /\ chan'[k] = Tail(chan[k])
    <3>1. i + 1 \in DOMAIN chan[k] /\ chan'[k][i] = chan[k][i + 1]
      BY <2>3, HeadTailProperties
    <3> QED BY <1>2, <3>1
  <2>4. ASSUME NEW e \in Events, chan'[k] = Append(chan[k], e), Good(e)
        PROVE  Good(chan'[k][i])
    <3>1. chan'[k][i] = e \/ (i \in DOMAIN chan[k] /\ chan'[k][i] = chan[k][i])
      BY <2>4, AppendProperties
    <3> QED BY <1>2, <2>4, <3>1
  <2> QED BY <2>1, <2>2, <2>3, <2>4
<1> HIDE DEF S
<1>4. \A i \in DOMAIN chan'[k] : Carries(chan'[k][i], LoginOf[k]) \subseteq S'
  BY <1>1, <1>3
<1> QED BY <1>4 DEF ChannelOK, Carries, S

\* A page that is left alone stays true.
LEMMA PageKept ==
    ASSUME NEW l \in Logins, PageOK(l), DatabaseGrows, chats'[l] = chats[l]
    PROVE  PageOK(l)'
BY OfGrows DEF PageOK

-----------------------------------------------------------------------------
\* Groups of variables that keep their values keep their types.
LEMMA SameTypes ==
    /\ DatabaseTypes /\ UNCHANGED database => DatabaseTypes'
    /\ SocketTypes /\ UNCHANGED registry => SocketTypes'
    /\ ChannelTypes /\ UNCHANGED chan => ChannelTypes'
    /\ WriterTypes /\ UNCHANGED writers => WriterTypes'
    /\ ReaderTypes /\ UNCHANGED readerOf => ReaderTypes'
    /\ ProcessTypes /\ UNCHANGED process => ProcessTypes'
    /\ PageTypes /\ UNCHANGED pages => PageTypes'
    /\ HistoryTypes /\ UNCHANGED ghosts => HistoryTypes'
    /\ BoundTypes /\ UNCHANGED bounds => BoundTypes'
BY DEF DatabaseTypes, SocketTypes, ChannelTypes, WriterTypes, ReaderTypes, ProcessTypes, PageTypes,
       HistoryTypes, BoundTypes, database, registry, writers, process, pages, ghosts, bounds, Delivers

\* A fault is counted, up to the bound.
LEMMA FaultTypes == BoundTypes /\ Fault => BoundTypes'
BY BoundsAssumption DEF BoundTypes, Fault

\* So is a task.
LEMMA StartTypes == \A p, i : BoundTypes /\ Starts(p, i) => BoundTypes'
BY BoundsAssumption DEF BoundTypes, Starts

\* A goroutine that ends removes a client, or just returns.
Removes(k) == DeleteClient(LoginOf[k]) \/ UNCHANGED <<registry, chan, excused, doubt>>

\* DeleteClient empties a channel and closes a socket.
LEMMA DeleteTypes ==
    ASSUME SocketTypes, ChannelTypes, HistoryTypes, NEW k \in Conns, sent' = sent,
           Removes(k)
    PROVE  SocketTypes' /\ ChannelTypes' /\ HistoryTypes'
<1>1. CASE DeleteClient(LoginOf[k])
  <2>1. LoginOf[k] \in Logins
    BY NamesAssumption
  <2>2. SocketTypes'
    BY <1>1, <2>1 DEF DeleteClient, SocketTypes
  <2>3. <<>> \in Seq(Events) /\ Len(<<>>) <= SendCap
    BY BoundsAssumption
  <2>4. ChannelTypes'
    BY <1>1, <2>3 DEF DeleteClient, ChannelTypes
  <2>5. doubt' \in [Logins -> SUBSET Chats]
    BY <1>1, DoubtedTypes DEF DeleteClient, HistoryTypes
  <2>6. excused' \in [Msgs -> SUBSET Logins]
    BY <1>1, <2>1 DEF DeleteClient, HistoryTypes
  <2> QED BY <2>2, <2>4, <2>5, <2>6 DEF HistoryTypes
<1>2. CASE UNCHANGED <<registry, chan, excused, doubt>>
  BY <1>2 DEF SocketTypes, ChannelTypes, HistoryTypes, registry
<1> QED BY <1>1, <1>2 DEF Removes

\* GiveUp returns, and what it did not deliver is recorded.
LEMMA GiveUpTypes ==
    ASSUME ProcessTypes, HistoryTypes, NEW p \in Procs, GiveUp(p), sent' = sent
    PROVE  ProcessTypes' /\ HistoryTypes'
<1>1. ProcessTypes'
  BY ReturnFacts DEF GiveUp
<1>2. todo[p] \in SUBSET Logins
  BY DEF ProcessTypes
<1>3. excused' \in [Msgs -> SUBSET Logins]
  BY <1>2 DEF GiveUp, HistoryTypes
<1>4. doubt' \in [Logins -> SUBSET Chats]
  BY CarriesChats DEF GiveUp, HistoryTypes
<1> QED BY <1>1, <1>3, <1>4 DEF HistoryTypes

\* Who is joining has an event that names a chat and a user.
LEMMA JoinersTypes ==
    ASSUME EventInv
    PROVE  /\ \A p \in Procs : step[p] = "joining" =>
                 /\ event[p] \in Events /\ event[p].type = "added"
                 /\ event[p].chat \in Chats /\ event[p].login \in Logins
           /\ {<<event[p].chat, event[p].login>> : p \in {q \in Procs : step[q] = "joining"}}
                 \subseteq Chats \X Logins
<1>1. ASSUME NEW p \in Procs, step[p] = "joining"
      PROVE  /\ event[p] \in Events /\ event[p].type = "added"
             /\ event[p].chat \in Chats /\ event[p].login \in Logins
  <2>1. PICK c \in Chats, l \in Logins : event[p] = Added(c, l)
    BY <1>1 DEF EventInv, ProcessOK
  <2> QED BY <2>1, Kinds DEF Added
<1> QED BY <1>1

\* What is left when the process ends: nothing, and histories.
LEMMA ProcessEndsTypes ==
    ASSUME EventInv, ProcessEnds
    PROVE  /\ DatabaseTypes' /\ SocketTypes' /\ ChannelTypes' /\ WriterTypes' /\ ReaderTypes'
           /\ ProcessTypes' /\ PageTypes' /\ HistoryTypes'
<1>t. /\ DatabaseTypes /\ SocketTypes /\ ChannelTypes /\ WriterTypes /\ ReaderTypes
      /\ ProcessTypes /\ PageTypes /\ HistoryTypes
  BY TypeGroups DEF EventInv
<1>1. SocketTypes'
  BY <1>t DEF ProcessEnds, SocketTypes
<1>2. <<>> \in Seq(Events) /\ Len(<<>>) <= SendCap
  BY BoundsAssumption
<1>3. ChannelTypes'
  BY <1>2 DEF ProcessEnds, ChannelTypes
<1>4. ASSUME NEW p \in Procs PROVE step'[p] \in {"off", "done"}
  BY DEF ProcessEnds
<1>5. ProcessTypes'
  BY <1>t, <1>4 DEF ProcessEnds, ProcessTypes, Delivers
<1>6. excused' \in [Msgs -> SUBSET Logins] /\ doubt' \in [Logins -> SUBSET Chats]
  BY <1>t, CarriesChats DEF ProcessEnds, HistoryTypes
<1>7. HistoryTypes'
  BY <1>t, <1>6 DEF HistoryTypes, ProcessEnds
<1>8. DatabaseTypes'
  BY <1>t, JoinersTypes DEF ProcessEnds, DatabaseTypes
<1>9. WriterTypes' /\ ReaderTypes' /\ PageTypes'
  BY <1>t DEF ProcessEnds, WriterTypes, ReaderTypes, PageTypes, pages
<1> QED BY <1>1, <1>3, <1>5, <1>7, <1>8, <1>9

\* Every step keeps the types: an event is made of a chat, a login or a row of
\* its tables, and a channel takes one more only when it has room.
LEMMA TypesKept == EventInv /\ [Next]_vars => TypeOK'
<1> SUFFICES ASSUME EventInv, [Next]_vars
             PROVE  /\ DatabaseTypes' /\ SocketTypes' /\ ChannelTypes' /\ WriterTypes'
                    /\ ReaderTypes' /\ ProcessTypes' /\ PageTypes' /\ HistoryTypes' /\ BoundTypes'
  BY TypeGroups DEF EventInv, TypeOK, DatabaseTypes, SocketTypes, ChannelTypes, WriterTypes,
       ReaderTypes, ProcessTypes, PageTypes, HistoryTypes, BoundTypes, MessageRow, Delivers
<1>t. /\ DatabaseTypes /\ SocketTypes /\ ChannelTypes /\ WriterTypes /\ ReaderTypes
      /\ ProcessTypes /\ PageTypes /\ HistoryTypes /\ BoundTypes
  BY TypeGroups DEF EventInv
<1>a. UNCHANGED writers <=> UNCHANGED <<writer, writerOf, hand>>
  BY DEF writers
<1>b. UNCHANGED registry <=> UNCHANGED <<storage, link, asked>>
  BY DEF registry
<1>d. UNCHANGED process <=> UNCHANGED <<step, event, todo, dest>>
  BY DEF process
<1>e. 1 .. created \subseteq Chats
  BY <1>t, BoundsAssumption DEF DatabaseTypes, Chats
<1>c. ASSUME NEW k \in Conns PROVE k \in Procs /\ LoginOf[k] \in Logins
  BY NamesAssumption DEF Procs
<1>1. ASSUME NEW k \in Conns, Connect(k)
      PROVE  /\ SocketTypes' /\ WriterTypes' /\ ProcessTypes'
             /\ UNCHANGED <<database, chan, readerOf, pages, ghosts, bounds>>
  <2>1. SocketTypes'
    BY <1>1, <1>t, <1>c DEF Connect, SocketTypes
  <2>2. WriterTypes'
    BY <1>1, <1>t DEF Connect, WriterTypes
  <2>3. ProcessTypes'
    BY <1>1, <1>t, <1>c DEF Connect, ProcessTypes, Delivers
  <2> QED BY <1>1, <2>1, <2>2, <2>3 DEF Connect
<1>2. ASSUME NEW k \in Conns, Disconnect(k)
      PROVE  /\ SocketTypes' /\ BoundTypes'
             /\ UNCHANGED <<database, chan, writers, readerOf, process, pages, ghosts>>
  BY <1>2, <1>t, FaultTypes DEF Disconnect, SocketTypes
<1>27. ASSUME NEW k \in Conns, ReaderStarts(k)
      PROVE  /\ ReaderTypes' /\ ProcessTypes'
             /\ UNCHANGED <<database, registry, chan, writers, pages, ghosts, bounds>>
  <2>1. storage[LoginOf[k]] \in Conns \cup {NoClient}
    BY <1>t, <1>c DEF SocketTypes
  <2>2. ReaderTypes'
    BY <1>27, <1>t, <2>1 DEF ReaderStarts, ReaderTypes
  <2>3. step' = [step EXCEPT ![k] = "done"] \/ step' = [step EXCEPT ![k] = "idle"]
    BY <1>27 DEF ReaderStarts
  <2>4. ProcessTypes'
    BY <1>27, <1>t, <1>c, <2>3 DEF ReaderStarts, ProcessTypes, Delivers
  <2> QED BY <1>27, <2>2, <2>4 DEF ReaderStarts
<1>28. ASSUME NEW k \in Conns, WriterStarts(k)
      PROVE  /\ WriterTypes'
             /\ UNCHANGED <<database, registry, chan, readerOf, process, pages, ghosts, bounds>>
  <2>1. storage[LoginOf[k]] \in Conns \cup {NoClient}
    BY <1>t, <1>c DEF SocketTypes
  <2> QED BY <1>28, <1>t, <2>1 DEF WriterStarts, WriterTypes
<1>3. ASSUME NEW k \in Conns, ReaderEnds(k) \/ ReadRace(k)
      PROVE  /\ SocketTypes' /\ ChannelTypes' /\ ProcessTypes' /\ HistoryTypes' /\ BoundTypes'
             /\ UNCHANGED <<database, writers, readerOf, pages>>
  <2>1. ProcessTypes'
    BY <1>3, <1>t, <1>c DEF ReaderEnds, ReadRace, ProcessTypes, Delivers
  <2>2. Removes(k)
    BY <1>3 DEF ReaderEnds, ReadRace, GoroutineEnds, Removes
  <2>3. BoundTypes'
    BY <1>3, <1>t, FaultTypes, SameTypes DEF ReaderEnds, ReadRace
  <2> QED BY <1>3, <1>t, <2>1, <2>2, <2>3, DeleteTypes DEF ReaderEnds, ReadRace
<1>4. ASSUME NEW k \in Conns, WriterEnds(k)
      PROVE  /\ SocketTypes' /\ ChannelTypes' /\ WriterTypes' /\ HistoryTypes'
             /\ UNCHANGED <<database, readerOf, process, pages, bounds>>
  <2>1. WriterTypes'
    BY <1>4, <1>t DEF WriterEnds, WriterTypes
  <2>2. Removes(k)
    BY <1>4 DEF WriterEnds, GoroutineEnds, Removes
  <2> QED BY <1>4, <1>t, <2>1, <2>2, DeleteTypes DEF WriterEnds
<1>29. ASSUME NEW k \in Conns, Forget(k)
      PROVE  /\ ChannelTypes' /\ HistoryTypes'
             /\ UNCHANGED <<database, registry, writers, readerOf, process, pages, bounds>>
  <2>1. <<>> \in Seq(Events) /\ Len(<<>>) <= SendCap
    BY BoundsAssumption
  <2>2. ChannelTypes'
    BY <1>29, <1>t, <2>1 DEF Forget, ChannelTypes
  <2>3. HistoryTypes'
    BY <1>29, <1>t, DoubtedTypes DEF Forget, HistoryTypes
  <2> QED BY <1>29, <2>2, <2>3 DEF Forget
<1>30. ASSUME NEW c \in Chats, NEW l \in Logins, JoinsLate(c, l)
      PROVE  /\ DatabaseTypes' /\ HistoryTypes'
             /\ UNCHANGED <<sockets, process, pages, bounds>>
  BY <1>30, <1>t DEF JoinsLate, DatabaseTypes, HistoryTypes
<1>5. ASSUME NEW k \in Conns, NewChat(k)
      PROVE  /\ DatabaseTypes' /\ ProcessTypes' /\ BoundTypes'
             /\ UNCHANGED <<sockets, pages, ghosts>>
  <2>1. created + 1 \in Chats /\ created' \in 0 .. MaxChats
    BY <1>5, <1>t, BoundsAssumption DEF NewChat, DatabaseTypes, Chats
  <2>2. Added(created + 1, LoginOf[k]) \in Events
    BY <1>c, <2>1, Kinds
  <2>3. ProcessTypes'
    BY <1>5, <1>t, <1>c, <2>2 DEF NewChat, ProcessTypes, Delivers
  <2> QED BY <1>5, <1>t, <2>1, <2>3, StartTypes DEF NewChat, Reads, DatabaseTypes
<1>6. ASSUME NEW k \in Conns, NewUserInChat(k)
      PROVE  /\ ProcessTypes' /\ BoundTypes'
             /\ UNCHANGED <<database, sockets, pages, ghosts>>
  <2>1. PICK c \in Chats, l \in Logins :
           /\ Reads(k, [type |-> "add", chat |-> c, login |-> l])
           /\ event' = [event EXCEPT ![k] = Added(c, l)]
    BY <1>6, <1>e DEF NewUserInChat
  <2>2. ProcessTypes'
    BY <1>6, <1>t, <1>c, <2>1, Kinds DEF NewUserInChat, ProcessTypes, Delivers
  <2> QED BY <1>6, <1>t, <2>1, <2>2, StartTypes DEF NewUserInChat, Reads
<1>7. ASSUME NEW k \in Conns, AddUserToChat(k)
      PROVE  /\ DatabaseTypes' /\ ProcessTypes' /\ HistoryTypes'
             /\ UNCHANGED <<sockets, pages, bounds>>
  <2>1. PICK c \in Chats, l \in Logins : event[k] = Added(c, l)
    BY <1>7, <1>c DEF AddUserToChat, EventInv, ProcessOK
  <2>2. event[k].chat = c /\ event[k].login = l /\ event[k] \in Events
    BY <2>1, Kinds DEF Added
  <2>3. ProcessTypes'
    BY <1>7, <1>t, <1>c, <2>2, DeliverFacts DEF AddUserToChat
  <2>4. DatabaseTypes'
    BY <1>7, <1>t, <2>2 DEF AddUserToChat, DatabaseTypes
  <2>5. HistoryTypes'
    BY <1>7, <1>t, <2>2 DEF AddUserToChat, HistoryTypes
  <2> QED BY <1>7, <2>3, <2>4, <2>5 DEF AddUserToChat
<1>8. ASSUME NEW k \in Conns, AddFails(k)
      PROVE  /\ DatabaseTypes' /\ ProcessTypes' /\ BoundTypes'
             /\ UNCHANGED <<sockets, pages, ghosts>>
  <2>1. event[k].chat \in Chats /\ event[k].login \in Logins
    BY <1>8, <1>c, JoinersTypes DEF AddFails
  <2>2. DatabaseTypes'
    BY <1>8, <1>t, <2>1 DEF AddFails, DatabaseTypes
  <2> QED BY <1>8, <1>t, <1>c, <2>2, ReturnFacts, FaultTypes DEF AddFails
<1>31. ASSUME NEW k \in Conns, AddRefused(k)
      PROVE  ProcessTypes' /\ UNCHANGED <<database, sockets, pages, ghosts, bounds>>
  BY <1>31, <1>t, <1>c, ReturnFacts DEF AddRefused
<1>9. ASSUME NEW k \in Conns, AllUserChats(k)
      PROVE  /\ SocketTypes' /\ ProcessTypes' /\ HistoryTypes' /\ BoundTypes'
             /\ UNCHANGED <<database, chan, writers, readerOf, pages>>
  <2>1. PICK S \in SUBSET Of(LoginOf[k]) :
           /\ IF S = Of(LoginOf[k]) THEN UNCHANGED bounds ELSE Fault
           /\ Deliver(k, List(S), {LoginOf[k]})
           /\ doubt' = [doubt EXCEPT ![LoginOf[k]] =
                 {d \in @ \cup (Of(LoginOf[k]) \ S) : d \notin S \/ OldListComes(d, LoginOf[k])}]
    BY <1>9 DEF AllUserChats
  <2>2. S \in SUBSET Chats /\ Of(LoginOf[k]) \in SUBSET Chats
    BY DEF Of
  <2>3. BoundTypes'
    BY <1>t, <2>1, FaultTypes, SameTypes
  <2>4. ProcessTypes'
    BY <1>t, <1>c, <2>1, <2>2, Kinds, DeliverFacts
  <2>5. SocketTypes'
    BY <1>9, <1>t DEF AllUserChats, SocketTypes
  <2>6. HistoryTypes'
    BY <1>9, <1>t, <1>c, <2>1, <2>2 DEF AllUserChats, HistoryTypes
  <2> QED BY <1>9, <2>3, <2>4, <2>5, <2>6 DEF AllUserChats
<1>10. ASSUME NEW k \in Conns, AllUserChatsFails(k)
      PROVE  /\ SocketTypes' /\ BoundTypes'
             /\ UNCHANGED <<database, chan, writers, readerOf, process, pages, ghosts>>
  BY <1>10, <1>t, FaultTypes DEF AllUserChatsFails, SocketTypes
<1>11. ASSUME NEW p \in Procs, NEW c \in Chats, NEW l \in Logins, Save(p, c, l)
      PROVE  /\ DatabaseTypes' /\ ProcessTypes'
             /\ UNCHANGED <<sockets, pages, ghosts>>
  <2>1. saved + 1 \in Msgs /\ saved' \in 0 .. MaxMsgs
    BY <1>11, <1>t, BoundsAssumption DEF Save, DatabaseTypes, Msgs
  <2>2. from' = [from EXCEPT ![saved + 1] = [chat |-> c, sender |-> l, by |-> p]]
    BY <1>11 DEF Save
  <2>3. DatabaseTypes'
    BY <1>11, <1>t, <2>1, <2>2 DEF Save, DatabaseTypes, MessageRow
  <2>4. ProcessTypes'
    BY <1>11, <1>t, <2>1, Kinds DEF Save, ProcessTypes, Delivers
  <2> QED BY <1>11, <2>3, <2>4 DEF Save
<1>12. ASSUME NEW p \in Procs, ChatMembers(p)
      PROVE  ProcessTypes' /\ HistoryTypes' /\ UNCHANGED <<database, sockets, pages, bounds>>
  <2>1. event[p].id \in 1 .. saved /\ event[p] \in Events
    BY <1>12, <1>t, Kinds DEF ChatMembers, EventInv, ProcessOK, InFanOut, ProcessTypes, NoEvent
  <2>2. from[event[p].id] \in MessageRow
    BY <2>1 DEF EventInv, SavedOK
  <2>3. PICK L \in SUBSET Logins :
           /\ IF L = {} THEN Return(p) ELSE Deliver(p, event[p], L)
           /\ excused' = [excused EXCEPT ![event[p].id] =
                 {l \in Logins : l \notin L \/ storage[l] = NoClient}]
    BY <1>12, <1>t, <2>2 DEF ChatMembers, MessageRow, DatabaseTypes
  <2>4. ProcessTypes'
    BY <1>t, <2>1, <2>3, ReturnFacts, DeliverFacts
  <2>5. HistoryTypes'
    BY <1>12, <1>t, <2>3 DEF ChatMembers, HistoryTypes
  <2> QED BY <1>12, <2>4, <2>5 DEF ChatMembers
<1>13. ASSUME NEW p \in Procs, LookupOffline(p)
      PROVE  ProcessTypes' /\ HistoryTypes' /\ UNCHANGED <<database, sockets, pages, bounds>>
  <2>1. PICK l \in todo[p] : Continue(p, todo[p] \ {l}) /\ doubt' = Doubted(l, {event[p]})
    BY <1>13 DEF LookupOffline
  <2>2. ProcessTypes'
    BY <1>13, <1>t, <2>1, ContinueFacts DEF LookupOffline, Delivers
  <2>3. HistoryTypes'
    BY <1>13, <1>t, <2>1, DoubtedTypes DEF LookupOffline, HistoryTypes
  <2> QED BY <1>13, <2>2, <2>3 DEF LookupOffline
<1>14. ASSUME NEW p \in Procs, LookupOnline(p)
      PROVE  ProcessTypes' /\ UNCHANGED <<database, sockets, pages, ghosts, bounds>>
  BY <1>14, <1>t DEF LookupOnline, ProcessTypes, SocketTypes, Delivers
<1>15. ASSUME NEW p \in Procs, SendEvent(p)
      PROVE  /\ ChannelTypes' /\ ProcessTypes' /\ HistoryTypes'
             /\ UNCHANGED <<database, registry, writers, readerOf, pages, bounds>>
  <2>1. dest[p] \in Conns /\ LoginOf[dest[p]] \in Logins /\ event[p] \in Events
    BY <1>15, <1>t, <1>c, Kinds DEF SendEvent, EventInv, ProcessOK, ProcessTypes, Delivers
  <2>2. ProcessTypes'
    BY <1>15, <1>t, ContinueFacts DEF SendEvent, Delivers
  <2>3. /\ Append(chan[dest[p]], event[p]) \in Seq(Events)
        /\ Len(Append(chan[dest[p]], event[p])) <= SendCap
    BY <1>15, <1>t, <2>1, AppendProperties, BoundsAssumption
    DEF SendEvent, HasRoom, ChannelTypes
  <2>4. ChannelTypes'
    BY <1>15, <1>t, <2>1, <2>3 DEF SendEvent, ChannelTypes
  <2>5. HistoryTypes'
    BY <1>15, <1>t, <2>1 DEF SendEvent, HistoryTypes
  <2> QED BY <1>15, <2>2, <2>4, <2>5 DEF SendEvent
<1>16. ASSUME NEW p \in Procs, SendTimeout(p)
      PROVE  ProcessTypes' /\ HistoryTypes' /\ UNCHANGED <<database, sockets, pages, bounds>>
  BY <1>16, <1>t, GiveUpTypes DEF SendTimeout
<1>17. ASSUME NEW p \in Procs, SendPanics(p)
      PROVE  /\ DatabaseTypes' /\ SocketTypes' /\ ChannelTypes' /\ WriterTypes' /\ ReaderTypes'
             /\ ProcessTypes' /\ PageTypes' /\ HistoryTypes' /\ BoundTypes'
  <2>1. CASE p \in Conns
    BY <1>17, <1>t, <2>1, ProcessEndsTypes, SameTypes DEF SendPanics
  <2>2. CASE p \notin Conns
    BY <1>17, <1>t, <2>2, GiveUpTypes, SameTypes DEF SendPanics, sockets
  <2> QED BY <2>1, <2>2
<1>18. ASSUME Restart \/ \E k \in Conns : WriteRace(k)
      PROVE  /\ DatabaseTypes' /\ SocketTypes' /\ ChannelTypes' /\ WriterTypes' /\ ReaderTypes'
             /\ ProcessTypes' /\ PageTypes' /\ HistoryTypes' /\ BoundTypes'
  BY <1>18, <1>t, FaultTypes, ProcessEndsTypes DEF Restart, WriteRace
<1>32. ASSUME NEW k \in Conns, WriterTakes(k)
      PROVE  /\ ChannelTypes' /\ WriterTypes'
             /\ UNCHANGED <<database, registry, readerOf, process, pages, ghosts, bounds>>
  <2> DEFINE c == writerOf[k]
  <2>1. c \in Conns
    BY <1>32 DEF WriterTakes, EventInv, WriterOK
  <2>2. /\ Head(chan[c]) \in Events /\ Tail(chan[c]) \in Seq(Events)
        /\ Len(Tail(chan[c])) <= SendCap
    BY <1>32, <1>t, <2>1, HeadTailProperties, BoundsAssumption DEF WriterTakes, ChannelTypes
  <2>3. ChannelTypes'
    BY <1>32, <1>t, <2>1, <2>2 DEF WriterTakes, ChannelTypes
  <2>4. WriterTypes'
    BY <1>32, <1>t, <2>2 DEF WriterTakes, WriterTypes
  <2> QED BY <1>32, <2>3, <2>4 DEF WriterTakes
<1>19. ASSUME NEW k \in Conns, Receive(k)
      PROVE  /\ WriterTypes' /\ PageTypes'
             /\ UNCHANGED <<database, registry, chan, readerOf, process, ghosts, bounds>>
  <2> DEFINE e == hand[k] c == writerOf[k]
  <2>1. e \in Events /\ c \in Conns
    BY <1>19, <1>t DEF Receive, WriterTypes, EventInv, WriterOK
  <2>2. WriterTypes'
    BY <1>19, <1>t DEF Receive, WriterTypes
  <2>3. ShownChats(LoginOf[k], e) \in SUBSET Chats
    <3>1. e.type = "chats" => e.chats \in SUBSET Chats
      BY <2>1, Kinds DEF Added, List, Message
    <3> QED BY <1>t, <1>c, <3>1, CarriesChats DEF ShownChats, PageTypes
  <2>4. e.type = "message" => e.id \in Msgs
    BY <2>1, Kinds DEF Added, List, Message
  <2>5. PageTypes'
    BY <1>19, <1>t, <1>c, <2>1, <2>3, <2>4, AppendProperties DEF Receive, PageTypes
  <2> QED BY <1>19, <2>2, <2>5 DEF Receive
<1>20. ASSUME NEW k \in Conns, WriteFails(k)
      PROVE  /\ WriterTypes' /\ HistoryTypes'
             /\ UNCHANGED <<database, registry, chan, readerOf, process, pages, bounds>>
  <2>1. WriterTypes'
    BY <1>20, <1>t DEF WriteFails, WriterTypes
  <2>2. HistoryTypes'
    BY <1>20, <1>t, DoubtedTypes DEF WriteFails, HistoryTypes
  <2> QED BY <1>20, <2>1, <2>2 DEF WriteFails
<1>21. CASE UNCHANGED vars
  BY <1>21, <1>t, SameTypes DEF vars, sockets
<1>22. UNCHANGED sockets => UNCHANGED <<registry, chan, writers, readerOf>>
  BY DEF sockets
<1>23. UNCHANGED ghosts <=> UNCHANGED <<sent, excused, doubt>>
  BY DEF ghosts
<1>24. ASSUME NEW k \in Conns, Handle(k)
       PROVE  /\ DatabaseTypes' /\ SocketTypes' /\ ChannelTypes' /\ WriterTypes' /\ ReaderTypes'
              /\ ProcessTypes' /\ PageTypes' /\ HistoryTypes' /\ BoundTypes'
  <2>1. CASE SendMessage(k)
    <3>1. PICK c \in Chats, l \in Logins :
             Reads(k, [type |-> "send", chat |-> c, login |-> l]) /\ Save(k, c, l)
      BY <1>e, <2>1 DEF SendMessage
    <3>2. BoundTypes'
      BY <1>t, <3>1, StartTypes DEF Reads
    <3> QED BY <1>t, <1>c, <1>11, <1>22, <3>1, <3>2, SameTypes
  <2> QED BY <1>24, <1>t, <1>5, <1>6, <1>7, <1>8, <1>9, <1>10, <1>31, <1>22, <2>1, SameTypes DEF Handle
<1>25. ASSUME NEW r \in Requests, SendFileMessage(r)
       PROVE  /\ DatabaseTypes' /\ SocketTypes' /\ ChannelTypes' /\ WriterTypes' /\ ReaderTypes'
              /\ ProcessTypes' /\ PageTypes' /\ HistoryTypes' /\ BoundTypes'
  <2>1. PICK c \in Chats, l \in Logins :
           Starts(r, [type |-> "send", chat |-> c, login |-> l]) /\ Save(r, c, l)
    BY <1>25 DEF SendFileMessage, Of
  <2>2. r \in Procs /\ BoundTypes'
    BY <1>t, <2>1, StartTypes DEF Procs
  <2> QED BY <1>t, <1>11, <1>22, <2>1, <2>2, SameTypes
<1>26. ASSUME NEW p \in Procs, FanOut(p)
       PROVE  /\ DatabaseTypes' /\ SocketTypes' /\ ChannelTypes' /\ WriterTypes' /\ ReaderTypes'
              /\ ProcessTypes' /\ PageTypes' /\ HistoryTypes' /\ BoundTypes'
  BY <1>26, <1>t, <1>12, <1>13, <1>14, <1>15, <1>16, <1>17, <1>22, SameTypes DEF FanOut
<1> QED
  BY <1>t, <1>1, <1>2, <1>3, <1>4, <1>18, <1>19, <1>20, <1>21, <1>22, <1>24, <1>25, <1>26, <1>27,
     <1>28, <1>29, <1>30, <1>32, SameTypes
  DEF Next

\* A socket that is not connected does nothing.
LEMMA OffUntilConnected ==
    ASSUME EventInv, [Next]_vars, NEW k \in Conns, step[k] = "off"
    PROVE  step'[k] = "off" \/ link'[k] = "open"
<1>t. /\ link \in [Conns -> {"none", "open", "gone", "closed"}]
      /\ step \in [Procs -> {"off", "starting", "idle", "joining", "members", "looking", "sending", "done"}]
      /\ k \in Procs /\ k \notin Requests
  BY NamesAssumption DEF EventInv, TypeOK, Procs
<1>1. ASSUME NEW j \in Conns, Connect(j) PROVE step'[k] = "off" \/ link'[k] = "open"
  BY <1>1, <1>t DEF Connect
<1>2. ASSUME NEW j \in Conns,
             \/ ReaderStarts(j) \/ ReaderEnds(j) \/ ReadRace(j) \/ Handle(j)
      PROVE  step'[k] = "off"
  BY <1>2, <1>t
  DEF ReaderStarts, ReaderEnds, ReadRace, Handle, NewChat, NewUserInChat, AddUserToChat, AddRefused,
      AddFails, AllUserChats, AllUserChatsFails, SendMessage, Save, Reads, Deliver, Return, process
<1>3. ASSUME NEW j \in Conns,
             \/ Disconnect(j) \/ WriterStarts(j) \/ WriterEnds(j) \/ Forget(j)
             \/ WriterTakes(j) \/ Receive(j) \/ WriteFails(j)
      PROVE  step'[k] = "off"
  BY <1>3 DEF Disconnect, WriterStarts, WriterEnds, Forget, WriterTakes, Receive, WriteFails, process
<1>4. ASSUME ProcessEnds PROVE step'[k] = "off"
  BY <1>4, <1>t DEF ProcessEnds
<1>5. ASSUME NEW p \in Procs, FanOut(p) PROVE step'[k] = "off"
  <2>1. CASE SendPanics(p) /\ p \in Conns
    BY <1>4, <2>1 DEF SendPanics
  <2>2. CASE ~(SendPanics(p) /\ p \in Conns)
    BY <1>5, <1>t, <2>2
    DEF FanOut, ChatMembers, LookupOffline, LookupOnline, SendEvent, SendTimeout, SendPanics,
        Continue, GiveUp, Deliver, Return
  <2> QED BY <2>1, <2>2
<1>6. ASSUME NEW r \in Requests, SendFileMessage(r) PROVE step'[k] = "off"
  BY <1>6, <1>t DEF SendFileMessage, Save
<1>7. ASSUME NEW c \in Chats, NEW l \in Logins, JoinsLate(c, l) PROVE step'[k] = "off"
  BY <1>7 DEF JoinsLate, process
<1>8. CASE UNCHANGED vars
  BY <1>8 DEF vars, process
<1> QED BY <1>1, <1>2, <1>3, <1>4, <1>5, <1>6, <1>7, <1>8 DEF Next, Restart, WriteRace

\* Nobody but its writer takes an event in hand, and a writer ends with none. It
\* serves one client all its life.
SameClients == \A k \in Conns : writerOf[k] # NoClient => writerOf'[k] = writerOf[k]

LEMMA HandsKept == EventInv /\ [Next]_vars => HandsOK' /\ SameClients
<1> SUFFICES ASSUME EventInv, [Next]_vars PROVE HandsOK' /\ SameClients
  OBVIOUS
<1>t. /\ HandsOK
      /\ link \in [Conns -> {"none", "open", "gone", "closed"}]
      /\ writer \in [Conns -> {"off", "starting", "on"}]
      /\ hand \in [Conns -> Events \cup {NoEvent}]
      /\ writerOf \in [Conns -> Conns \cup {NoClient}]
  BY DEF EventInv, TypeOK
<1>c. \A k \in Conns : LoginOf[k] \in Logins /\ k \in Procs
  BY NamesAssumption DEF Procs
<1>o. \A k \in Conns : step[k] = "off" => step'[k] = "off" \/ link'[k] = "open"
  BY OffUntilConnected
<1>1. ASSUME UNCHANGED <<link, writers>> PROVE HandsOK' /\ SameClients
  BY <1>1, <1>t, <1>o DEF HandsOK, SameClients, writers
<1>2. ASSUME NEW k \in Conns, Removes(k)
      PROVE  \A j \in Conns : link'[j] = "none" => link[j] = "none"
  BY <1>2 DEF Removes, DeleteClient, registry
<1>3. ASSUME NEW k \in Conns, ReaderEnds(k) \/ ReadRace(k) PROVE HandsOK' /\ SameClients
  <2>1. Removes(k)
    BY <1>3 DEF ReaderEnds, ReadRace, GoroutineEnds, Removes
  <2>2. UNCHANGED writers
    BY <1>3 DEF ReaderEnds, ReadRace
  <2> QED BY <1>t, <1>o, <1>2, <2>1, <2>2 DEF HandsOK, SameClients, writers
<1>4. ASSUME NEW k \in Conns, WriterEnds(k) PROVE HandsOK' /\ SameClients
  <2>1. Removes(k)
    BY <1>4 DEF WriterEnds, GoroutineEnds, Removes
  <2>2. \A j \in Conns : link'[j] = "none" => link[j] = "none"
    BY <1>2, <2>1
  <2> QED BY <1>4, <1>t, <1>o, <2>2 DEF WriterEnds, HandsOK, SameClients
<1>5. ASSUME ProcessEnds PROVE HandsOK' /\ SameClients
  BY <1>5, <1>t, <1>o DEF ProcessEnds, HandsOK, SameClients
<1>6. ASSUME NEW k \in Conns, Connect(k) \/ WriterStarts(k) \/ Disconnect(k) PROVE HandsOK' /\ SameClients
  <2>1. CASE Connect(k)
    BY <2>1, <1>t, <1>o DEF Connect, HandsOK, SameClients
  <2>2. CASE WriterStarts(k)
    BY <2>2, <1>t, <1>o DEF WriterStarts, HandsOK, SameClients, registry
  <2>3. CASE Disconnect(k)
    BY <2>3, <1>t, <1>o DEF Disconnect, HandsOK, SameClients, writers
  <2> QED BY <1>6, <2>1, <2>2, <2>3
<1>7. ASSUME NEW k \in Conns, WriterTakes(k) \/ Receive(k) \/ WriteFails(k) PROVE HandsOK' /\ SameClients
  BY <1>7, <1>t, <1>o DEF WriterTakes, Receive, WriteFails, HandsOK, SameClients, registry
<1>8. ASSUME NEW k \in Conns, ReaderStarts(k) \/ Forget(k) \/ Handle(k) PROVE HandsOK' /\ SameClients
  BY <1>8, <1>1
  DEF ReaderStarts, Forget, Handle, NewChat, NewUserInChat, AddUserToChat, AddRefused, AddFails,
      AllUserChats, AllUserChatsFails, SendMessage, Save, sockets, registry, writers
<1>9. ASSUME NEW p \in Procs, FanOut(p) PROVE HandsOK' /\ SameClients
  <2>1. CASE SendPanics(p) /\ p \in Conns
    BY <2>1, <1>5 DEF SendPanics
  <2>2. CASE ~(SendPanics(p) /\ p \in Conns)
    BY <1>9, <1>1, <2>2
    DEF FanOut, ChatMembers, LookupOffline, LookupOnline, SendEvent, SendTimeout, SendPanics,
        sockets, registry, writers
  <2> QED BY <2>1, <2>2
<1>10. ASSUME NEW r \in Requests, SendFileMessage(r) PROVE HandsOK' /\ SameClients
  BY <1>10, <1>1 DEF SendFileMessage, Save, sockets, registry, writers
<1>11. ASSUME NEW c \in Chats, NEW l \in Logins, JoinsLate(c, l) PROVE HandsOK' /\ SameClients
  BY <1>11, <1>1 DEF JoinsLate, sockets, registry, writers
<1>12. CASE UNCHANGED vars
  BY <1>12, <1>1 DEF vars, sockets, registry, writers
<1> QED BY <1>1, <1>3, <1>4, <1>5, <1>6, <1>7, <1>8, <1>9, <1>10, <1>11, <1>12
    DEF Next, Restart, WriteRace

-----------------------------------------------------------------------------
\* A step of one process: what it takes to the next state must be true there.
LEMMA EventStep ==
    ASSUME EventInv, TypeOK', HandsOK', DatabaseGrows, RegistryOK', SavedOK',
           NEW p \in Procs, ProcessOK(p)', \A k \in Conns : WriterOK(k)',
           \A q \in Procs \ {p} : /\ step'[q] = step[q] /\ event'[q] = event[q]
                                  /\ todo'[q] = todo[q] /\ dest'[q] = dest[q],
           \A k \in Conns :
              \/ chan'[k] = chan[k]
              \/ chan'[k] = <<>>
              \/ chan[k] # <<>> /\ chan'[k] = Tail(chan[k])
              \/ \E e \in Events : /\ chan'[k] = Append(chan[k], e)
                                   /\ Carries(e, LoginOf[k]) \subseteq Of(LoginOf[k]),
           \A l \in Logins : chats'[l] \subseteq Of(l)
    PROVE  EventInv'
<1>1. ASSUME NEW q \in Procs PROVE ProcessOK(q)'
  BY OthersOK DEF EventInv
<1>2. ASSUME NEW k \in Conns PROVE ChannelOK(k)'
  BY ChannelKept DEF EventInv, TypeOK
<1>3. ASSUME NEW l \in Logins PROVE PageOK(l)'
  BY OfGrows DEF PageOK
<1> QED BY <1>1, <1>2, <1>3 DEF EventInv

\* The same for a step that touches neither the database, the sockets nor the
\* pages.
LEMMA HandlerStep ==
    ASSUME EventInv, TypeOK', HandsOK', UNCHANGED <<database, sockets, chats>>,
           NEW p \in Procs, ProcessOK(p)',
           \A q \in Procs \ {p} : /\ step'[q] = step[q] /\ event'[q] = event[q]
                                  /\ todo'[q] = todo[q] /\ dest'[q] = dest[q]
    PROVE  EventInv'
<1>1. DatabaseGrows
  BY SameDatabase DEF EventInv, database
<1>2. RegistryOK'
  BY DEF EventInv, RegistryOK, sockets, registry
<1>3. \A k \in Conns : WriterOK(k)'
  BY <1>1, WriterKept DEF EventInv, sockets, writers
<1>4. SavedOK'
  BY DEF EventInv, SavedOK, MessageRow, database
<1>5. (\A k \in Conns : chan'[k] = chan[k]) /\ \A l \in Logins : chats'[l] \subseteq Of(l)
  BY DEF EventInv, PageOK, sockets
<1> QED BY <1>1, <1>2, <1>3, <1>4, <1>5, EventStep

\* A process that has returned has nothing to answer for.
LEMMA IdleOK ==
    ASSUME NEW p, step'[p] \in {"off", "starting", "idle", "done"}
    PROVE  ProcessOK(p)'
BY DEF ProcessOK, InFanOut, Delivers

\* A loop that goes on has the same event for fewer logins.
LEMMA ContinueOK ==
    ASSUME EventInv, NEW p \in Procs, Delivers(p), NEW l, Continue(p, todo[p] \ {l}),
           UNCHANGED <<members, saved>>
    PROVE  ProcessOK(p)'
<1>1. ProcessTypes /\ ProcessOK(p)
  BY TypeGroups DEF EventInv
<1>2. CASE step'[p] \in {"idle", "done"}
  BY <1>2, IdleOK
<1>3. CASE step'[p] = "looking" /\ event'[p] = event[p] /\ todo'[p] = todo[p] \ {l}
  <2>1. \A h \in todo'[p] : (Carries(event[p], h) \subseteq Of(h))'
    BY <1>1, <1>3 DEF ProcessOK, Delivers, Carries, Of
  <2> QED BY <1>1, <1>3, <2>1 DEF ProcessOK, InFanOut, Delivers
<1> QED BY <1>1, <1>2, <1>3, ContinueFacts

\* A goroutine that ends may remove a client, and empty its channel.
LEMMA DeleteOK ==
    ASSUME EventInv, NEW k \in Conns,
           Removes(k)
    PROVE  RegistryOK' /\ \A j \in Conns : chan'[j] \in {chan[j], <<>>}
<1>1. CASE DeleteClient(LoginOf[k])
  BY <1>1 DEF DeleteClient, EventInv, RegistryOK, TypeOK
<1>2. CASE UNCHANGED <<registry, chan, excused, doubt>>
  BY <1>2 DEF EventInv, RegistryOK, registry
<1> QED BY <1>1, <1>2 DEF Removes

\* After the process has ended nothing is registered, buffered or delivered.
LEMMA ProcessEndsOK ==
    ASSUME EventInv, TypeOK', HandsOK', ProcessEnds
    PROVE  EventInv'
<1>1. DatabaseGrows
  BY SameDatabase DEF EventInv, ProcessEnds
<1>2. ASSUME NEW p \in Procs PROVE ProcessOK(p)'
  <2>1. step'[p] \in {"off", "done"}
    BY DEF ProcessEnds
  <2> QED BY <2>1, IdleOK
<1>3. RegistryOK'
  BY DEF ProcessEnds, RegistryOK
<1>4. ASSUME NEW k \in Conns PROVE WriterOK(k)'
  <2>1. writerOf'[k] = writerOf[k] /\ writer'[k] = "off" /\ hand'[k] = NoEvent
    BY DEF ProcessEnds
  <2> QED BY <1>1, <2>1, WriterKept DEF EventInv
<1>5. SavedOK'
  BY DEF EventInv, SavedOK, MessageRow, ProcessEnds
<1>6. ASSUME NEW k \in Conns PROVE ChannelOK(k)'
  <2>1. chan'[k] = <<>>
    BY DEF ProcessEnds
  <2> QED BY <1>1, <2>1, ChannelKept DEF EventInv, TypeOK
<1>7. ASSUME NEW l \in Logins PROVE PageOK(l)'
  BY <1>1, PageKept DEF EventInv, ProcessEnds, pages
<1> QED BY <1>2, <1>3, <1>4, <1>5, <1>6, <1>7 DEF EventInv

\* EventInv is inductive: AddUserToChat inserts in the step that makes an event
\* of the member, a list is of chats the user is in, and nobody ever leaves.
LEMMA EventInductive == EventInv /\ [Next]_vars => EventInv'
<1> SUFFICES ASSUME EventInv, [Next]_vars, TypeOK', HandsOK' PROVE EventInv'
  BY TypesKept, HandsKept
<1>t. /\ TypeOK /\ ProcessTypes /\ RegistryOK /\ SavedOK
      /\ \A p \in Procs : ProcessOK(p)
      /\ \A k \in Conns : WriterOK(k)
      /\ \A k \in Conns : chan[k] \in Seq(Events)
  BY TypeGroups DEF EventInv, TypeOK
<1>p. \A l \in Logins : chats[l] \subseteq Of(l)
  BY DEF EventInv, PageOK
<1>c. ASSUME NEW k \in Conns PROVE k \in Procs /\ k \notin Requests /\ LoginOf[k] \in Logins
  BY NamesAssumption DEF Procs
<1>s. UNCHANGED <<saved, from>> => SavedOK'
  BY <1>t DEF SavedOK, MessageRow
<1>e. 1 .. created \subseteq Chats
  BY <1>t, BoundsAssumption DEF TypeOK, Chats
<1>w. DatabaseGrows /\ UNCHANGED writers => \A k \in Conns : WriterOK(k)'
  BY <1>t, WriterKept DEF writers
<1>r. UNCHANGED storage => RegistryOK'
  BY <1>t DEF RegistryOK
<1>1. ASSUME NEW k \in Conns, Connect(k) PROVE EventInv'
  <2>1. DatabaseGrows /\ SavedOK'
    BY <1>1, <1>t, <1>s, SameDatabase DEF Connect, database
  <2>2. RegistryOK'
    BY <1>1, <1>t, <1>c, NamesAssumption DEF Connect, RegistryOK, TypeOK
  <2>3. /\ step'[k] = "starting"
        /\ \A q \in Procs \ {k} : /\ step'[q] = step[q] /\ event'[q] = event[q]
                                  /\ todo'[q] = todo[q] /\ dest'[q] = dest[q]
    BY <1>1, <1>t, <1>c DEF Connect, TypeOK
  <2>4. \A j \in Conns : writer'[j] = "on" => writer[j] = "on"
    BY <1>1, <1>t DEF Connect, TypeOK
  <2>5. \A j \in Conns : WriterOK(j)'
    BY <1>1, <1>t, <2>1, <2>4, WriterKept DEF Connect
  <2>6. ProcessOK(k)'
    BY <2>3, IdleOK
  <2> QED BY <1>1, <1>p, <1>c, <2>1, <2>2, <2>3, <2>5, <2>6, EventStep DEF Connect, pages
<1>2. ASSUME NEW k \in Conns, Disconnect(k) PROVE EventInv'
  <2>1. DatabaseGrows /\ SavedOK' /\ RegistryOK'
    BY <1>2, <1>t, <1>s, <1>r, SameDatabase DEF Disconnect, database
  <2>2. \A j \in Conns : WriterOK(j)'
    BY <1>2, <1>w, <2>1 DEF Disconnect
  <2>3. ProcessOK(k)'
    BY <1>2, <1>t, <1>c, <2>1, OthersOK DEF Disconnect, process
  <2> QED BY <1>2, <1>t, <1>p, <1>c, <2>1, <2>2, <2>3, EventStep DEF Disconnect, process, pages
<1>26. ASSUME NEW k \in Conns, ReaderStarts(k) PROVE EventInv'
  <2>1. DatabaseGrows /\ SavedOK' /\ RegistryOK'
    BY <1>26, <1>t, <1>s, <1>r, SameDatabase DEF ReaderStarts, database, registry
  <2>2. /\ step'[k] \in {"idle", "done"}
        /\ \A q \in Procs \ {k} : /\ step'[q] = step[q] /\ event'[q] = event[q]
                                  /\ todo'[q] = todo[q] /\ dest'[q] = dest[q]
    BY <1>26, <1>t, <1>c DEF ReaderStarts, TypeOK
  <2>3. (\A j \in Conns : WriterOK(j)') /\ ProcessOK(k)'
    BY <1>26, <1>w, <2>1, <2>2, IdleOK DEF ReaderStarts
  <2> QED BY <1>26, <1>p, <1>c, <2>1, <2>2, <2>3, EventStep DEF ReaderStarts, pages
<1>27. ASSUME NEW k \in Conns, WriterStarts(k) PROVE EventInv'
  <2>1. DatabaseGrows /\ SavedOK' /\ RegistryOK'
    BY <1>27, <1>t, <1>s, <1>r, SameDatabase DEF WriterStarts, database, registry
  <2>2. ASSUME NEW j \in Conns, j # k PROVE WriterOK(j)'
    <3>1. writerOf'[j] = writerOf[j] /\ writer'[j] = writer[j] /\ hand'[j] = hand[j]
      BY <1>27, <1>t, <2>2 DEF WriterStarts, TypeOK
    <3> QED BY <1>t, <2>1, <3>1, WriterKept
  <2>3. WriterOK(k)'
    <3>1. CASE hand[k] = NoEvent
      BY <1>27, <1>t, <1>c, <3>1, NamesAssumption DEF WriterStarts, TypeOK, WriterOK, RegistryOK
    <3>2. writer[k] = "starting" => hand[k] = NoEvent
      BY DEF EventInv, HandsOK
    <3> QED BY <1>27, <3>1, <3>2 DEF WriterStarts
  <2>4. ProcessOK(k)'
    BY <1>27, <1>t, <1>c, <2>1, OthersOK DEF WriterStarts, process
  <2>5. \A j \in Conns : WriterOK(j)'
    BY <2>2, <2>3
  <2> QED BY <1>27, <1>p, <1>c, <2>1, <2>4, <2>5, EventStep DEF WriterStarts, process, pages
<1>3. ASSUME NEW k \in Conns, ReaderEnds(k) \/ ReadRace(k) PROVE EventInv'
  <2>1. DatabaseGrows /\ SavedOK'
    BY <1>3, <1>t, <1>s, SameDatabase DEF ReaderEnds, ReadRace, database
  <2>2. /\ step'[k] = "done"
        /\ \A q \in Procs \ {k} : /\ step'[q] = step[q] /\ event'[q] = event[q]
                                  /\ todo'[q] = todo[q] /\ dest'[q] = dest[q]
    BY <1>3, <1>t, <1>c DEF ReaderEnds, ReadRace, TypeOK
  <2>3. Removes(k)
    BY <1>3 DEF ReaderEnds, ReadRace, GoroutineEnds, Removes
  <2>4. RegistryOK' /\ \A j \in Conns : chan'[j] \in {chan[j], <<>>}
    BY <2>3, DeleteOK
  <2>5. ProcessOK(k)' /\ \A j \in Conns : WriterOK(j)'
    BY <1>3, <1>w, <2>1, <2>2, IdleOK DEF ReaderEnds, ReadRace
  <2>6. \A l \in Logins : chats'[l] \subseteq Of(l)
    BY <1>3, <1>p DEF ReaderEnds, ReadRace, pages
  <2> QED BY <1>c, <2>1, <2>2, <2>4, <2>5, <2>6, EventStep
<1>4. ASSUME NEW k \in Conns, WriterEnds(k) PROVE EventInv'
  <2>1. DatabaseGrows /\ SavedOK'
    BY <1>4, <1>t, <1>s, SameDatabase DEF WriterEnds, database
  <2>2. Removes(k)
    BY <1>4 DEF WriterEnds, GoroutineEnds, Removes
  <2>3. RegistryOK' /\ \A j \in Conns : chan'[j] \in {chan[j], <<>>}
    BY <2>2, DeleteOK
  <2>4. \A j \in Conns : writer'[j] = "on" => writer[j] = "on"
    BY <1>4, <1>t DEF WriterEnds, TypeOK
  <2>5. \A j \in Conns : WriterOK(j)'
    BY <1>4, <1>t, <2>1, <2>4, WriterKept DEF WriterEnds
  <2>6. ProcessOK(k)'
    BY <1>4, <1>t, <1>c, <2>1, OthersOK DEF WriterEnds, process
  <2> QED BY <1>4, <1>p, <1>c, <2>1, <2>3, <2>5, <2>6, EventStep DEF WriterEnds, process, pages
<1>28. ASSUME NEW k \in Conns, Forget(k) PROVE EventInv'
  <2>1. DatabaseGrows /\ SavedOK' /\ RegistryOK'
    BY <1>28, <1>t, <1>s, <1>r, SameDatabase DEF Forget, database, registry
  <2>2. (\A j \in Conns : WriterOK(j)') /\ ProcessOK(k)'
    BY <1>28, <1>t, <1>c, <1>w, <2>1, OthersOK DEF Forget, process
  <2>3. \A j \in Conns : chan'[j] \in {chan[j], <<>>}
    BY <1>28, <1>t DEF Forget, TypeOK
  <2> QED BY <1>28, <1>p, <1>c, <2>1, <2>2, <2>3, EventStep DEF Forget, process, pages
<1>5. ASSUME NEW k \in Conns, NewChat(k) PROVE EventInv'
  <2>1. DatabaseGrows /\ SavedOK' /\ RegistryOK'
    BY <1>5, <1>t, <1>s, <1>r, SameDatabase DEF NewChat, sockets, registry
  <2>2. /\ step'[k] = "joining" /\ event'[k] = Added(created + 1, LoginOf[k])
        /\ \A q \in Procs \ {k} : /\ step'[q] = step[q] /\ event'[q] = event[q]
                                  /\ todo'[q] = todo[q] /\ dest'[q] = dest[q]
    BY <1>5, <1>c, <1>t DEF NewChat, TypeOK
  <2>3. created + 1 \in Chats
    BY <1>5, <1>t, BoundsAssumption DEF NewChat, TypeOK, Chats
  <2>4. ProcessOK(k)'
    BY <1>c, <2>2, <2>3 DEF ProcessOK, InFanOut, Delivers
  <2>5. \A j \in Conns : WriterOK(j)'
    BY <1>5, <1>w, <2>1 DEF NewChat, sockets
  <2> QED BY <1>5, <1>p, <1>c, <2>1, <2>2, <2>4, <2>5, EventStep DEF NewChat, sockets, pages
<1>6. ASSUME NEW k \in Conns, NewUserInChat(k) PROVE EventInv'
  <2>1. PICK c \in Chats, l \in Logins : event' = [event EXCEPT ![k] = Added(c, l)]
    BY <1>6, <1>e DEF NewUserInChat
  <2>2. /\ step'[k] = "joining" /\ event'[k] = Added(c, l)
        /\ \A q \in Procs \ {k} : /\ step'[q] = step[q] /\ event'[q] = event[q]
                                  /\ todo'[q] = todo[q] /\ dest'[q] = dest[q]
    BY <1>6, <1>c, <1>t, <2>1 DEF NewUserInChat, TypeOK
  <2>3. ProcessOK(k)'
    BY <1>c, <2>2 DEF ProcessOK, InFanOut, Delivers
  <2> QED BY <1>6, <1>c, <2>2, <2>3, HandlerStep DEF NewUserInChat, pages
<1>7. ASSUME NEW k \in Conns, AddUserToChat(k) PROVE EventInv'
  <2>1. PICK c \in Chats, l \in Logins : event[k] = Added(c, l)
    BY <1>7, <1>t, <1>c DEF AddUserToChat, ProcessOK
  <2>2. /\ event[k].chat = c /\ event[k].login = l /\ event[k].type = "added"
        /\ event[k] \in Events
    BY <2>1, Kinds DEF Added
  <2>3. DatabaseGrows
    BY <1>7, <1>t, <2>2, BoundsAssumption DEF AddUserToChat, DatabaseGrows, TypeOK
  <2>4. SavedOK' /\ RegistryOK' /\ \A j \in Conns : WriterOK(j)'
    BY <1>7, <1>s, <1>r, <1>w, <2>3 DEF AddUserToChat, sockets, registry
  <2>5. /\ step'[k] = "looking" /\ event'[k] = event[k] /\ todo'[k] = {l}
        /\ \A q \in Procs \ {k} : /\ step'[q] = step[q] /\ event'[q] = event[q]
                                  /\ todo'[q] = todo[q] /\ dest'[q] = dest[q]
    BY <1>7, <1>t, <1>c, <2>2, DeliverFacts DEF AddUserToChat
  <2>6. l \in members'[c]
    BY <1>7, <1>t, <2>2 DEF AddUserToChat, TypeOK
  <2>7. (Carries(event[k], l) \subseteq Of(l))'
    BY <2>2, <2>5, <2>6 DEF Carries, Of
  <2>8. ProcessOK(k)'
    BY <2>2, <2>5, <2>7 DEF ProcessOK, InFanOut, Delivers
  <2> QED BY <1>7, <1>p, <1>c, <2>3, <2>4, <2>5, <2>8, EventStep DEF AddUserToChat, sockets, pages
<1>8. ASSUME NEW k \in Conns, AddFails(k) \/ AddRefused(k) PROVE EventInv'
  <2>1. /\ step'[k] \in {"idle", "done"}
        /\ \A q \in Procs \ {k} : /\ step'[q] = step[q] /\ event'[q] = event[q]
                                  /\ todo'[q] = todo[q] /\ dest'[q] = dest[q]
    BY <1>8, <1>t, <1>c, ReturnFacts DEF AddFails, AddRefused
  <2>2. DatabaseGrows /\ SavedOK' /\ RegistryOK'
    BY <1>8, <1>t, <1>s, <1>r, SameDatabase DEF AddFails, AddRefused, database, sockets, registry
  <2>3. ProcessOK(k)' /\ \A j \in Conns : WriterOK(j)'
    BY <1>8, <1>w, <2>1, <2>2, IdleOK DEF AddFails, AddRefused, sockets
  <2> QED BY <1>8, <1>p, <1>c, <2>1, <2>2, <2>3, EventStep DEF AddFails, AddRefused, sockets, pages
<1>29. ASSUME NEW c \in Chats, NEW l \in Logins, JoinsLate(c, l) PROVE EventInv'
  <2>1. DatabaseGrows
    BY <1>29, <1>t, BoundsAssumption DEF JoinsLate, DatabaseGrows, TypeOK
  <2>2. SavedOK' /\ RegistryOK' /\ \A j \in Conns : WriterOK(j)'
    BY <1>29, <1>s, <1>r, <1>w, <2>1 DEF JoinsLate, sockets, registry
  <2>3. ASSUME NEW p \in Procs PROVE ProcessOK(p)'
    BY <1>29, <1>t, <2>1, OthersOK DEF JoinsLate, process
  <2>4. ASSUME NEW k \in Conns PROVE ChannelOK(k)'
    BY <1>29, <1>t, <2>1, ChannelKept DEF JoinsLate, sockets, EventInv
  <2>5. ASSUME NEW h \in Logins PROVE PageOK(h)'
    BY <1>29, <2>1, PageKept DEF JoinsLate, pages, EventInv
  <2> QED BY <2>2, <2>3, <2>4, <2>5 DEF EventInv
<1>9. ASSUME NEW k \in Conns, AllUserChats(k) PROVE EventInv'
  <2>1. PICK S \in SUBSET Of(LoginOf[k]) : Deliver(k, List(S), {LoginOf[k]})
    BY <1>9 DEF AllUserChats
  <2>2. List(S) \in Events /\ List(S).type = "chats" /\ List(S).chats = S
    BY Kinds DEF List, Of
  <2>3. /\ step'[k] = "looking" /\ event'[k] = List(S) /\ todo'[k] = {LoginOf[k]}
        /\ \A q \in Procs \ {k} : /\ step'[q] = step[q] /\ event'[q] = event[q]
                                  /\ todo'[q] = todo[q] /\ dest'[q] = dest[q]
    <3>1. {LoginOf[k]} \in SUBSET Logins /\ {LoginOf[k]} # {}
      BY <1>c
    <3>2. PICK e \in Events : e = List(S)
      BY <2>2
    <3>3. ProcessTypes /\ k \in Procs /\ Deliver(k, e, {LoginOf[k]})
      BY <1>t, <1>c, <2>1, <3>2
    <3> QED BY <3>1, <3>2, <3>3, DeliverFacts
  <2>4. DatabaseGrows /\ SavedOK' /\ RegistryOK'
    BY <1>9, <1>t, <1>s, <1>r, SameDatabase DEF AllUserChats, database
  <2>5. (Carries(event[k], LoginOf[k]) \subseteq Of(LoginOf[k]))'
    BY <1>9, <2>2, <2>3 DEF AllUserChats, database, Carries, Of
  <2>6. ProcessOK(k)'
    BY <2>2, <2>3, <2>5 DEF ProcessOK, InFanOut, Delivers
  <2>7. \A j \in Conns : WriterOK(j)'
    BY <1>9, <1>w, <2>4 DEF AllUserChats
  <2> QED BY <1>9, <1>p, <1>c, <2>3, <2>4, <2>6, <2>7, EventStep DEF AllUserChats, pages
<1>10. ASSUME NEW k \in Conns, AllUserChatsFails(k) PROVE EventInv'
  <2>1. DatabaseGrows /\ SavedOK' /\ RegistryOK'
    BY <1>10, <1>t, <1>s, <1>r, SameDatabase DEF AllUserChatsFails, database
  <2>2. ProcessOK(k)' /\ \A j \in Conns : WriterOK(j)'
    BY <1>10, <1>t, <1>c, <1>w, <2>1, OthersOK DEF AllUserChatsFails, process
  <2> QED BY <1>10, <1>p, <1>c, <2>1, <2>2, EventStep DEF AllUserChatsFails, process, pages
<1>11. ASSUME NEW p \in Procs, NEW c \in Chats, NEW l \in Logins, Save(p, c, l) PROVE EventInv'
  <2>1. saved + 1 \in Msgs /\ saved' = saved + 1 /\ saved \in Nat
    BY <1>11, <1>t, BoundsAssumption DEF Save, TypeOK, Msgs
  <2>2. from' = [from EXCEPT ![saved + 1] = [chat |-> c, sender |-> l, by |-> p]]
    BY <1>11 DEF Save
  <2>3. DatabaseGrows
    BY <1>11, <2>1 DEF Save, DatabaseGrows
  <2>4. SavedOK'
    <3>1. from'[saved + 1] \in MessageRow /\ \A m \in 1 .. saved : from'[m] = from[m]
      BY <1>11, <1>t, <2>1, <2>2 DEF TypeOK, MessageRow, Msgs
    <3>2. \A m \in 1 .. saved' : m \in 1 .. saved \/ m = saved + 1
      BY <2>1
    <3>3. \A m \in 1 .. saved' : from'[m] \in MessageRow
      BY <1>t, <3>1, <3>2 DEF SavedOK
    <3> QED BY <3>3 DEF SavedOK, MessageRow
  <2>5. /\ step'[p] = "members" /\ event'[p] = Message(saved')
        /\ \A q \in Procs \ {p} : /\ step'[q] = step[q] /\ event'[q] = event[q]
                                  /\ todo'[q] = todo[q] /\ dest'[q] = dest[q]
    BY <1>11, <1>t, <2>1 DEF Save, TypeOK
  <2>6. ProcessOK(p)'
    BY <2>1, <2>5 DEF ProcessOK, InFanOut, Delivers, Message
  <2>7. RegistryOK' /\ \A j \in Conns : WriterOK(j)'
    BY <1>11, <1>r, <1>w, <2>3 DEF Save, sockets, registry
  <2> QED BY <1>11, <1>p, <2>3, <2>4, <2>5, <2>6, <2>7, EventStep DEF Save, sockets, pages
<1>12. ASSUME NEW p \in Procs, ChatMembers(p) PROVE EventInv'
  <2>1. event[p].type = "message" /\ event[p].id \in 1 .. saved /\ event[p] \in Events
    BY <1>12, <1>t, Kinds DEF ChatMembers, ProcessOK, InFanOut, ProcessTypes, NoEvent
  <2>2. from[event[p].id] \in MessageRow
    BY <1>t, <2>1 DEF SavedOK
  <2>3. PICK L \in SUBSET Logins : IF L = {} THEN Return(p) ELSE Deliver(p, event[p], L)
    BY <1>12, <1>t, <2>2 DEF ChatMembers, MessageRow, TypeOK
  <2>4. /\ \A q \in Procs \ {p} : /\ step'[q] = step[q] /\ event'[q] = event[q]
                                  /\ todo'[q] = todo[q] /\ dest'[q] = dest[q]
        /\ step'[p] \in {"idle", "done"} \/ (step'[p] = "looking" /\ event'[p] = event[p])
    BY <1>t, <2>1, <2>3, ReturnFacts, DeliverFacts
  <2>5. ProcessOK(p)'
    <3>1. CASE step'[p] \in {"idle", "done"}
      BY <3>1, IdleOK
    <3>2. CASE step'[p] = "looking" /\ event'[p] = event[p]
      BY <1>12, <2>1, <3>2 DEF ChatMembers, database, ProcessOK, InFanOut, Delivers, Carries
    <3> QED BY <2>4, <3>1, <3>2
  <2> QED BY <1>12, <2>4, <2>5, HandlerStep DEF ChatMembers, pages
<1>13. ASSUME NEW p \in Procs, LookupOffline(p) PROVE EventInv'
  <2>1. PICK l \in todo[p] : Continue(p, todo[p] \ {l})
    BY <1>13 DEF LookupOffline
  <2>2. Delivers(p) /\ ProcessOK(p)'
    BY <1>13, <2>1, ContinueOK DEF LookupOffline, Delivers, database
  <2> QED BY <1>13, <1>t, <2>1, <2>2, ContinueFacts, HandlerStep DEF LookupOffline, pages
<1>14. ASSUME NEW p \in Procs, LookupOnline(p) PROVE EventInv'
  <2>1. PICK l \in todo[p] : storage[l] # NoClient /\ dest' = [dest EXCEPT ![p] = storage[l]]
    BY <1>14 DEF LookupOnline
  <2>2. l \in Logins /\ storage[l] \in Conns /\ LoginOf[storage[l]] = l
    BY <1>t, <2>1 DEF RegistryOK, TypeOK
  <2>3. /\ step'[p] = "sending" /\ dest'[p] = storage[l]
        /\ \A q \in Procs \ {p} : /\ step'[q] = step[q] /\ event'[q] = event[q]
                                  /\ todo'[q] = todo[q] /\ dest'[q] = dest[q]
    BY <1>14, <1>t, <2>1 DEF LookupOnline, TypeOK
  <2>4. ProcessOK(p)'
    BY <1>14, <1>t, <2>2, <2>3
    DEF LookupOnline, ProcessOK, InFanOut, Delivers, Carries, Of, database
  <2> QED BY <1>14, <2>3, <2>4, HandlerStep DEF LookupOnline, pages
<1>15. ASSUME NEW p \in Procs, SendEvent(p) PROVE EventInv'
  <2>1. /\ dest[p] \in Conns /\ LoginOf[dest[p]] \in todo[p] /\ event[p] \in Events
        /\ Carries(event[p], LoginOf[dest[p]]) \subseteq Of(LoginOf[dest[p]])
    BY <1>15, <1>t, Kinds DEF SendEvent, ProcessOK, ProcessTypes, Delivers
  <2>2. DatabaseGrows /\ SavedOK' /\ RegistryOK'
    BY <1>15, <1>t, <1>s, <1>r, SameDatabase DEF SendEvent, database, registry
  <2>3. /\ ProcessOK(p)'
        /\ step'[p] \in {"idle", "done", "looking"}
        /\ \A q \in Procs \ {p} : /\ step'[q] = step[q] /\ event'[q] = event[q]
                                  /\ todo'[q] = todo[q] /\ dest'[q] = dest[q]
    BY <1>15, <1>t, ContinueOK, ContinueFacts DEF SendEvent, Delivers, database
  <2>4. \A j \in Conns : WriterOK(j)'
    BY <1>15, <1>w, <2>2 DEF SendEvent
  <2>5. \A k \in Conns : \/ chan'[k] = chan[k]
                         \/ \E e \in Events : /\ chan'[k] = Append(chan[k], e)
                                              /\ Carries(e, LoginOf[k]) \subseteq Of(LoginOf[k])
    BY <1>15, <1>t, <2>1 DEF SendEvent, TypeOK
  <2> QED BY <1>15, <1>p, <2>2, <2>3, <2>4, <2>5, EventStep DEF SendEvent, pages
<1>16. ASSUME NEW p \in Procs, GiveUp(p), step[p] = "sending", UNCHANGED <<database, sockets, pages>>
       PROVE  EventInv'
  BY <1>16, <1>t, ReturnFacts, IdleOK, HandlerStep DEF GiveUp, pages
<1>17. ASSUME NEW p \in Procs, SendTimeout(p) \/ SendPanics(p) PROVE EventInv'
  <2>1. CASE SendTimeout(p)
    BY <1>16, <2>1 DEF SendTimeout
  <2>2. CASE SendPanics(p) /\ p \notin Conns
    BY <1>16, <2>2 DEF SendPanics
  <2>3. CASE SendPanics(p) /\ p \in Conns
    BY <2>3, ProcessEndsOK DEF SendPanics
  <2> QED BY <1>17, <2>1, <2>2, <2>3
<1>18. ASSUME Restart \/ \E k \in Conns : WriteRace(k) PROVE EventInv'
  BY <1>18, ProcessEndsOK DEF Restart, WriteRace
<1>30. ASSUME NEW k \in Conns, WriterTakes(k) PROVE EventInv'
  <2>1. DatabaseGrows /\ SavedOK' /\ RegistryOK'
    BY <1>30, <1>t, <1>s, <1>r, SameDatabase DEF WriterTakes, database, registry
  <2>2. /\ writer[k] = "on" /\ writerOf[k] \in Conns /\ LoginOf[writerOf[k]] = LoginOf[k]
        /\ chan[writerOf[k]] # <<>>
    BY <1>30, <1>t DEF WriterTakes, WriterOK
  <2>3. Carries(Head(chan[writerOf[k]]), LoginOf[k]) \subseteq Of(LoginOf[k])
    <3>1. 1 \in DOMAIN chan[writerOf[k]] /\ Head(chan[writerOf[k]]) = chan[writerOf[k]][1]
      BY <1>t, <2>2, HeadTailProperties
    <3> QED BY <2>2, <3>1 DEF EventInv, ChannelOK
  <2>4. ASSUME NEW j \in Conns PROVE WriterOK(j)'
    <3>1. CASE j = k
      <4>1. hand'[k] = Head(chan[writerOf[k]]) /\ writerOf'[k] = writerOf[k]
        BY <1>30, <1>t DEF WriterTakes, TypeOK
      <4>2. Of(LoginOf[k]) \subseteq Of(LoginOf[k])'
        BY <2>1, OfGrows
      <4>3. Carries(hand'[k], LoginOf[k]) \subseteq Of(LoginOf[k])
        BY <2>3, <4>1
      <4>4. Carries(hand'[k], LoginOf[k]) = Carries(hand[k], LoginOf[k])'
        BY DEF Carries
      <4> QED BY <2>2, <3>1, <4>1, <4>2, <4>3, <4>4 DEF WriterOK
    <3>2. CASE j # k
      <4>1. writerOf'[j] = writerOf[j] /\ writer'[j] = writer[j] /\ hand'[j] = hand[j]
        BY <1>30, <1>t, <3>2 DEF WriterTakes, TypeOK
      <4> QED BY <1>t, <2>1, <4>1, WriterKept
    <3> QED BY <3>1, <3>2
  <2>5. \A j \in Conns : chan'[j] = chan[j] \/ (chan[j] # <<>> /\ chan'[j] = Tail(chan[j]))
    BY <1>30, <1>t DEF WriterTakes, TypeOK
  <2>6. ProcessOK(k)'
    BY <1>30, <1>t, <1>c, <2>1, OthersOK DEF WriterTakes, process
  <2> QED BY <1>30, <1>p, <1>c, <2>1, <2>4, <2>5, <2>6, EventStep DEF WriterTakes, process, pages
<1>19. ASSUME NEW k \in Conns, Receive(k) PROVE EventInv'
  <2> DEFINE e == hand[k]
  <2>1. e \in Events /\ Carries(e, LoginOf[k]) \subseteq Of(LoginOf[k])
    <3>1. hand[k] # NoEvent /\ hand[k] \in Events \cup {NoEvent} /\ WriterOK(k)
      BY <1>19, <1>t DEF Receive, TypeOK
    <3> QED BY <3>1 DEF WriterOK
  <2>2. ShownChats(LoginOf[k], e) \subseteq Of(LoginOf[k])
    <3>1. e.type = "chats" => e.chats \subseteq Carries(e, LoginOf[k])
      BY <2>1, Kinds DEF Added, List, Message, Carries
    <3> QED BY <1>p, <1>c, <2>1, <3>1 DEF ShownChats
  <2>3. \A l \in Logins : chats'[l] \subseteq Of(l)
    BY <1>19, <1>t, <1>p, <2>2 DEF Receive, TypeOK
  <2>4. DatabaseGrows /\ SavedOK' /\ RegistryOK'
    BY <1>19, <1>t, <1>s, <1>r, SameDatabase DEF Receive, database, registry
  <2>5. ProcessOK(k)'
    BY <1>19, <1>t, <1>c, <2>4, OthersOK DEF Receive, process
  <2>6. \A j \in Conns : hand'[j] \in {hand[j], NoEvent}
    BY <1>19, <1>t DEF Receive, TypeOK
  <2>7. \A j \in Conns : WriterOK(j)'
    BY <1>19, <1>t, <2>4, <2>6, WriterKept DEF Receive
  <2> QED BY <1>19, <1>c, <2>3, <2>4, <2>5, <2>7, EventStep DEF Receive, process
<1>20. ASSUME NEW k \in Conns, WriteFails(k) PROVE EventInv'
  <2>1. DatabaseGrows /\ SavedOK' /\ RegistryOK'
    BY <1>20, <1>t, <1>s, <1>r, SameDatabase DEF WriteFails, database, registry
  <2>2. ProcessOK(k)'
    BY <1>20, <1>t, <1>c, <2>1, OthersOK DEF WriteFails, process
  <2>3. \A j \in Conns : hand'[j] \in {hand[j], NoEvent}
    BY <1>20, <1>t DEF WriteFails, TypeOK
  <2>4. \A j \in Conns : WriterOK(j)'
    BY <1>20, <1>t, <2>1, <2>3, WriterKept DEF WriteFails
  <2> QED BY <1>20, <1>p, <1>c, <2>1, <2>2, <2>4, EventStep DEF WriteFails, process, pages
<1>21. CASE UNCHANGED vars
  <2>1. DatabaseGrows /\ SavedOK' /\ RegistryOK'
    BY <1>21, <1>t, <1>s, <1>r, SameDatabase DEF vars, database, sockets, registry
  <2>5. \A k \in Conns : WriterOK(k)'
    BY <1>21, <1>w, <2>1 DEF vars, sockets
  <2>2. ASSUME NEW p \in Procs PROVE ProcessOK(p)'
    BY <1>21, <1>t, <2>1, OthersOK DEF vars, process
  <2>3. ASSUME NEW k \in Conns PROVE ChannelOK(k)'
    BY <1>21, <1>t, <2>1, ChannelKept DEF vars, sockets, EventInv
  <2>4. ASSUME NEW l \in Logins PROVE PageOK(l)'
    BY <1>21, <2>1, PageKept DEF vars, pages, EventInv
  <2> QED BY <2>1, <2>2, <2>3, <2>4, <2>5 DEF EventInv
<1>22. ASSUME NEW k \in Conns, SendMessage(k) PROVE EventInv'
  <2>1. PICK c \in Chats, l \in Logins : Save(k, c, l)
    BY <1>22, <1>e DEF SendMessage
  <2> QED BY <1>c, <1>11, <2>1
<1>23. ASSUME NEW r \in Requests, SendFileMessage(r) PROVE EventInv'
  <2>1. PICK c \in Chats, l \in Logins : Save(r, c, l)
    BY <1>23 DEF SendFileMessage, Of
  <2>2. r \in Procs
    BY DEF Procs
  <2> QED BY <1>11, <2>1, <2>2
<1>24. ASSUME NEW k \in Conns, Handle(k) PROVE EventInv'
  BY <1>24, <1>5, <1>6, <1>7, <1>8, <1>9, <1>10, <1>22 DEF Handle
<1>25. ASSUME NEW p \in Procs, FanOut(p) PROVE EventInv'
  BY <1>25, <1>12, <1>13, <1>14, <1>15, <1>17 DEF FanOut
<1> QED BY <1>1, <1>2, <1>3, <1>4, <1>18, <1>19, <1>20, <1>21, <1>23, <1>24, <1>25, <1>26, <1>27,
           <1>28, <1>29, <1>30 DEF Next

\* At first nothing is under way, and the pages of those online show their chats.
LEMMA EventInitially == Init => EventInv
<1> SUFFICES ASSUME Init PROVE EventInv
  OBVIOUS
<1> USE DEF Init
<1>1. Len(OldMembers) \in 0 .. MaxChats
  BY BoundsAssumption
<1>2. members \in [Chats -> SUBSET Logins]
  BY BoundsAssumption DEF Chats
<1>3. ASSUME NEW l \in Logins
      PROVE  storage[l] # NoClient => storage[l] \in Conns /\ LoginOf[storage[l]] = l
  OBVIOUS
<1>4. DatabaseTypes
  BY <1>1, <1>2, BoundsAssumption DEF DatabaseTypes
<1>5. SocketTypes /\ WriterTypes /\ ReaderTypes
  BY <1>3, NamesAssumption DEF SocketTypes, WriterTypes, ReaderTypes
<1>6. ChannelTypes
  <2>1. <<>> \in Seq(Events) /\ Len(<<>>) <= SendCap
    BY BoundsAssumption
  <2> QED BY <2>1 DEF ChannelTypes
<1>7. ProcessTypes /\ BoundTypes
  BY BoundsAssumption DEF ProcessTypes, BoundTypes, Delivers
<1>8. PageTypes /\ HistoryTypes
  BY DEF PageTypes, HistoryTypes, Of
<1>9. TypeOK
  BY <1>4, <1>5, <1>6, <1>7, <1>8, TypeGroups
<1>10. RegistryOK
  BY <1>3 DEF RegistryOK
<1>15. ASSUME NEW k \in Conns PROVE WriterOK(k)
  BY NamesAssumption DEF WriterOK
<1>11. SavedOK /\ HandsOK
  <2>1. SavedOK
    BY DEF SavedOK
  <2>2. ASSUME NEW k \in Conns, link[k] = "none"
        PROVE  step[k] = "off" /\ writer[k] = "off" /\ writerOf[k] = NoClient
    BY <2>2 DEF Procs
  <2>3. \A k \in Conns : writer[k] # "starting" /\ hand[k] = NoEvent
    OBVIOUS
  <2> QED BY <2>1, <2>2, <2>3 DEF HandsOK
<1>12. ASSUME NEW p \in Procs PROVE ProcessOK(p)
  BY DEF ProcessOK, InFanOut, Delivers
<1>13. ASSUME NEW k \in Conns PROVE ChannelOK(k)
  BY DEF ChannelOK
<1>14. ASSUME NEW l \in Logins PROVE PageOK(l)
  BY DEF PageOK
<1> QED BY <1>9, <1>10, <1>11, <1>12, <1>13, <1>14, <1>15 DEF EventInv

\* Every value of the state stays in its type, whatever overlaps.
THEOREM ChatEventsTypeCorrect == Spec => []TypeOK
<1>1. EventInv => TypeOK
  BY DEF EventInv
<1> QED BY <1>1, EventInitially, EventInductive, PTL DEF Spec

\* No page shows a chat its user is not in, and no event on its way announces
\* one, for any number of sockets, requests, chats and faults.
THEOREM ChatsAreReal == Spec => []NoPhantomChats
<1>1. ASSUME EventInv PROVE NoPhantomChats
  <2>1. ASSUME NEW l \in Logins, NEW e \in Held(l) \cup Buffered(l)
        PROVE  Carries(e, l) \subseteq Of(l)
    <3>1. CASE e \in Held(l)
      BY <1>1, <3>1 DEF Held, EventInv, ProcessOK, Delivers
    <3>2. CASE e \in Buffered(l)
      <4>1. PICK k \in Conns : LoginOf[k] = l /\ e \in In(k) \cup ({hand[k]} \ {NoEvent})
        BY <3>2 DEF Buffered
      <4>2. ChannelOK(k) /\ WriterOK(k)
        BY <1>1 DEF EventInv
      <4>3. CASE e \in In(k)
        BY <4>1, <4>2, <4>3 DEF In, ChannelOK
      <4>4. CASE e = hand[k] /\ e # NoEvent
        BY <4>1, <4>2, <4>4 DEF WriterOK
      <4> QED BY <4>1, <4>3, <4>4
    <3> QED BY <2>1, <3>1, <3>2
  <2>2. \A l \in Logins : chats[l] \subseteq Of(l)
    BY <1>1 DEF EventInv, PageOK
  <2> QED BY <2>1, <2>2 DEF NoPhantomChats
<1> QED BY <1>1, EventInitially, EventInductive, PTL DEF Spec

-----------------------------------------------------------------------------
(***************************************************************************)
(* What the steps of goroutines and the saves have in common.              *)
(***************************************************************************)

\* A handler, or a request, saves a message.
Posts(p) == step[p] \in {"off", "idle"} /\ \E c \in Chats, l \in Logins : Save(p, c, l)

\* The two actions that save a message.
LEMMA Senders ==
    ASSUME EventInv
    PROVE  /\ \A k \in Conns : SendMessage(k) => k \in Procs /\ Posts(k)
           /\ \A r \in Requests : SendFileMessage(r) => r \in Procs /\ Posts(r)
<1>1. 1 .. created \subseteq Chats
  BY BoundsAssumption DEF EventInv, TypeOK, Chats
<1>2. \A k \in Conns : SendMessage(k) => Posts(k)
  BY <1>1 DEF SendMessage, Reads, Posts
<1>3. \A r \in Requests : SendFileMessage(r) => Posts(r)
  BY DEF SendFileMessage, Of, Posts
<1> QED BY <1>2, <1>3 DEF Procs

\* The message that is saved is the next one, and its fan-out begins.
LEMMA PostFacts ==
    ASSUME EventInv, NEW p \in Procs, Posts(p)
    PROVE  /\ saved \in Nat /\ saved < MaxMsgs /\ saved' = saved + 1
           /\ \E c \in Chats, l \in Logins :
                 from' = [from EXCEPT ![saved + 1] = [chat |-> c, sender |-> l, by |-> p]]
           /\ step[p] \in {"off", "idle"} /\ step'[p] = "members" /\ event'[p] = Message(saved + 1)
           /\ UNCHANGED <<members, storage, chan, writerOf, hand, todo, chats, got, sent, excused, doubt>>
           /\ \A q \in Procs \ {p} : step'[q] = step[q] /\ event'[q] = event[q] /\ todo'[q] = todo[q]
<1>1. PICK c \in Chats, l \in Logins : Save(p, c, l)
  BY DEF Posts
<1>2. saved \in Nat /\ step[p] \in {"off", "idle"}
  BY BoundsAssumption DEF Posts, EventInv, TypeOK
<1> QED BY <1>1, <1>2 DEF Save, EventInv, TypeOK, sockets, registry, writers, pages, ghosts

\* A reader or a writer that ends may remove a client of its login.
LEMMA EndFacts ==
    ASSUME EventInv, NEW k \in Conns, ReaderEnds(k) \/ ReadRace(k) \/ WriterEnds(k)
    PROVE  /\ k \in Procs /\ LoginOf[k] \in Logins /\ Removes(k)
           /\ UNCHANGED <<members, saved, from, writerOf, hand, event, todo, chats, got, sent>>
           /\ step'[k] = step[k] \/ (step[k] = "idle" /\ step'[k] = "done")
           /\ \A q \in Procs \ {k} : step'[q] = step[q]
<1>1. k \in Procs /\ LoginOf[k] \in Logins
  BY NamesAssumption DEF Procs
<1>2. Removes(k)
  BY DEF ReaderEnds, ReadRace, WriterEnds, GoroutineEnds, Removes
<1>3. UNCHANGED <<members, saved, from, writerOf, hand, event, todo, chats, got, sent>>
  BY DEF ReaderEnds, ReadRace, WriterEnds, database, writers, process, pages
<1>4. /\ step'[k] = step[k] \/ (step[k] = "idle" /\ step'[k] = "done")
      /\ \A q \in Procs \ {k} : step'[q] = step[q]
  BY <1>1 DEF ReaderEnds, ReadRace, WriterEnds, process, EventInv, TypeOK
<1> QED BY <1>1, <1>2, <1>3, <1>4

-----------------------------------------------------------------------------
(***************************************************************************)
(* Who of a fan-out has been served, and who is left.                      *)
(***************************************************************************)
Sends(p, m) == step[p] \in {"members", "looking", "sending"} /\ event[p] = Message(m)

\* One process fans a message out. Who is not excused was sent it or is still to
\* be served, and who is to be served and is not registered is excused.
MessageOK(m) ==
    /\ \A p, q \in Procs : Sends(p, m) /\ Sends(q, m) => p = q
    /\ \A p \in Procs : Sends(p, m) /\ Delivers(p) =>
          /\ Logins \ excused[m] \subseteq sent[m] \cup todo[p]
          /\ \A l \in todo[p] : storage[l] = NoClient => l \in excused[m]
    /\ m \in 1 .. saved /\ (\A p \in Procs : ~Sends(p, m)) => Logins \ excused[m] \subseteq sent[m]

MessageInv == EventInv /\ \A m \in Msgs : MessageOK(m)

\* A fan-out is a process that sends.
LEMMA FanningIsSending == \A m : Fanning(m) <=> \E p \in Procs : Sends(p, m)
BY DEF Fanning, Sends

\* A message event is told by its id.
LEMMA MessageIds ==
    /\ \A m : Message(m).type = "message" /\ Message(m).id = m
    /\ \A m, n : Message(m) = Message(n) => m = n
<1>1. \A m : Message(m).type = "message" /\ Message(m).id = m
  BY DEF Message
<1> QED BY <1>1

\* Only what has been saved is sent.
LEMMA SentIsSaved ==
    ASSUME EventInv, NEW p \in Procs, NEW m, Sends(p, m)
    PROVE  m \in 1 .. saved
BY MessageIds DEF EventInv, ProcessOK, InFanOut, Sends

\* A step in which p does nothing to m, goes on with its fan-out of m or ends it
\* when nobody is left.
LEMMA MessageStep ==
    ASSUME EventInv, NEW m \in Msgs, MessageOK(m), m \in 1 .. saved' => m \in 1 .. saved,
           NEW p \in Procs,
           \A q \in Procs \ {p} : step'[q] = step[q] /\ event'[q] = event[q] /\ todo'[q] = todo[q],
           sent[m] \subseteq sent'[m], excused[m] \subseteq excused'[m],
           \A l \in Logins : storage'[l] = NoClient =>
              storage[l] = NoClient \/ ~Fanning(m) \/ l \in excused'[m],
           \/ ~Sends(p, m) /\ ~Sends(p, m)'
           \/ /\ Sends(p, m) /\ Sends(p, m)' /\ (Delivers(p) <=> Delivers(p)')
              /\ todo'[p] = todo[p]
           \/ /\ Sends(p, m) /\ Delivers(p)
              /\ \/ Sends(p, m)' /\ Delivers(p)' /\ todo'[p] \subseteq todo[p]
                                 /\ todo[p] \ todo'[p] \subseteq sent'[m] \cup excused'[m]
                 \/ ~Sends(p, m)' /\ todo[p] \subseteq sent'[m] \cup excused'[m]
    PROVE  MessageOK(m)'
<1> USE DEF Sends, Delivers
<1>1. \A q \in Procs : Sends(q, m)' => Sends(q, m)
  OBVIOUS
<1>2. \A q, r \in Procs : Sends(q, m)' /\ Sends(r, m)' => q = r
  BY <1>1 DEF MessageOK
<1>3. ASSUME NEW q \in Procs, Sends(q, m)', Delivers(q)'
      PROVE  /\ Logins \ excused'[m] \subseteq sent'[m] \cup todo'[q]
             /\ \A l \in todo'[q] : storage'[l] = NoClient => l \in excused'[m]
  <2>1. Sends(q, m) /\ Delivers(q) /\ todo'[q] \subseteq todo[q]
    BY <1>3
  <2>2. todo[q] \ todo'[q] \subseteq sent'[m] \cup excused'[m]
    BY <1>3
  <2>3. /\ Logins \ excused[m] \subseteq sent[m] \cup todo[q]
        /\ \A l \in todo[q] : storage[l] = NoClient => l \in excused[m]
    BY <2>1 DEF MessageOK
  <2>4. todo[q] \subseteq Logins /\ Fanning(m)
    BY <2>1, FanningIsSending DEF EventInv, TypeOK
  <2> QED BY <2>1, <2>2, <2>3, <2>4
<1>4. ASSUME m \in 1 .. saved', \A q \in Procs : ~Sends(q, m)'
      PROVE  Logins \ excused'[m] \subseteq sent'[m]
  <2>1. CASE \A q \in Procs : ~Sends(q, m)
    BY <1>4, <2>1 DEF MessageOK
  <2>2. CASE Sends(p, m)
    BY <1>4, <2>2 DEF MessageOK
  <2> QED BY <1>4, <2>1, <2>2
<1> QED BY <1>2, <1>3, <1>4 DEF MessageOK

\* A process that ends serves nobody, and every fan-out in it is excused.
LEMMA MessageAfterEnd ==
    ASSUME EventInv, NEW m \in Msgs, MessageOK(m), ProcessEnds
    PROVE  MessageOK(m)'
<1>1. \A p \in Procs : ~Sends(p, m)'
  <2>1. NoEvent # Message(m)
    BY MessageIds DEF NoEvent
  <2> QED BY <2>1 DEF ProcessEnds, Sends
<1>2. excused'[m] = IF Fanning(m) THEN Logins ELSE excused[m]
  BY DEF ProcessEnds
<1>3. m \in 1 .. saved => Logins \ excused'[m] \subseteq sent[m]
  BY <1>2, FanningIsSending DEF MessageOK
<1>4. UNCHANGED <<saved, sent>>
  BY DEF ProcessEnds
<1> QED BY <1>1, <1>3, <1>4 DEF MessageOK, Sends

\* A step of a process that is not in the fan-out of m.
LEMMA OtherStep ==
    ASSUME EventInv, NEW m \in Msgs, MessageOK(m), UNCHANGED <<saved, sent, excused, storage>>,
           NEW p \in Procs,
           \A q \in Procs \ {p} : step'[q] = step[q] /\ event'[q] = event[q] /\ todo'[q] = todo[q],
           ~Sends(p, m), ~Sends(p, m)'
    PROVE  MessageOK(m)'
BY MessageStep

\* DeleteClient excuses the login it removes from every fan-out under way.
LEMMA DeleteExcuses ==
    ASSUME EventInv, NEW m \in Msgs, NEW k \in Conns, Removes(k)
    PROVE  /\ excused[m] \subseteq excused'[m]
           /\ \A l \in Logins : storage'[l] = NoClient =>
                 storage[l] = NoClient \/ ~Fanning(m) \/ l \in excused'[m]
<1>1. CASE DeleteClient(LoginOf[k])
  <2>1. excused'[m] = IF Fanning(m) THEN excused[m] \cup {LoginOf[k]} ELSE excused[m]
    BY <1>1 DEF DeleteClient
  <2>2. \A l \in Logins : l # LoginOf[k] => storage'[l] = storage[l]
    BY <1>1 DEF DeleteClient, EventInv, TypeOK
  <2> QED BY <2>1, <2>2
<1>2. CASE UNCHANGED <<registry, chan, excused, doubt>>
  BY <1>2 DEF registry
<1> QED BY <1>1, <1>2 DEF Removes

\* MessageInv is inductive: the list excuses whom it lacks and who is offline,
\* DeleteClient who goes offline, a timeout and a panic who is left.
LEMMA MessageInductive == MessageInv /\ [Next]_vars => MessageInv'
<1> SUFFICES ASSUME EventInv, [Next]_vars, EventInv', NEW m \in Msgs, MessageOK(m)
             PROVE  MessageOK(m)'
  BY EventInductive DEF MessageInv
<1>t. /\ TypeOK /\ ProcessTypes /\ \A p \in Procs : ProcessOK(p)
  BY TypeGroups DEF EventInv
<1>c. ASSUME NEW k \in Conns PROVE k \in Procs /\ LoginOf[k] \in Logins
  BY NamesAssumption DEF Procs
<1>n. NoEvent # Message(m)
  BY MessageIds DEF NoEvent
<1>1. ASSUME NEW k \in Conns, Connect(k) PROVE MessageOK(m)'
  <2>1. k \in Procs /\ UNCHANGED <<saved, sent, excused, event, todo>>
    BY <1>1, <1>c DEF Connect, database, ghosts
  <2>2. \A l \in Logins : storage'[l] = NoClient => storage[l] = NoClient
    BY <1>1, <1>t, NamesAssumption DEF Connect, TypeOK
  <2>3. step[k] = "off" /\ step'[k] = "starting" /\ \A q \in Procs \ {k} : step'[q] = step[q]
    BY <1>1, <1>c, <1>t DEF Connect, TypeOK, EventInv, HandsOK
  <2> QED BY <2>1, <2>2, <2>3, MessageStep DEF Sends, Delivers
<1>2. ASSUME UNCHANGED <<saved, sent, excused, storage, step, event, todo>> PROVE MessageOK(m)'
  BY <1>2 DEF MessageOK, Sends, Delivers
<1>3. ASSUME NEW k \in Conns, ReaderEnds(k) \/ ReadRace(k) \/ WriterEnds(k) PROVE MessageOK(m)'
  BY <1>3, EndFacts, DeleteExcuses, MessageStep DEF Sends, Delivers
<1>21. ASSUME NEW k \in Conns, ReaderStarts(k) PROVE MessageOK(m)'
  <2>1. /\ step[k] = "starting" /\ step'[k] \in {"idle", "done"}
        /\ \A q \in Procs \ {k} : step'[q] = step[q] /\ event'[q] = event[q] /\ todo'[q] = todo[q]
    BY <1>21, <1>c, <1>t DEF ReaderStarts, TypeOK
  <2>2. UNCHANGED <<saved, sent, excused, storage>>
    BY <1>21 DEF ReaderStarts, database, registry, ghosts
  <2> QED BY <1>c, <2>1, <2>2, OtherStep DEF Sends
<1>4. ASSUME NEW k \in Conns, NewChat(k) \/ NewUserInChat(k) PROVE MessageOK(m)'
  <2>1. /\ step[k] = "idle" /\ step'[k] = "joining"
        /\ \A q \in Procs \ {k} : step'[q] = step[q] /\ event'[q] = event[q] /\ todo'[q] = todo[q]
    BY <1>4, <1>c, <1>t DEF NewChat, NewUserInChat, Reads, TypeOK
  <2>2. UNCHANGED <<saved, sent, excused, storage>>
    BY <1>4 DEF NewChat, NewUserInChat, database, sockets, registry, ghosts
  <2> QED BY <1>c, <2>1, <2>2, OtherStep DEF Sends
<1>5. ASSUME NEW k \in Conns, AddUserToChat(k) \/ AddRefused(k) \/ AddFails(k) PROVE MessageOK(m)'
  <2>1. PICK c \in Chats, l \in Logins : event[k] = Added(c, l)
    BY <1>5, <1>t, <1>c DEF AddUserToChat, AddRefused, AddFails, ProcessOK
  <2>2. event[k].login = l /\ event[k] \in Events /\ event[k] # Message(m)
    BY <2>1, Kinds, MessageIds DEF Added
  <2>3. /\ step[k] = "joining" /\ (step'[k] \in {"idle", "done"} \/ event'[k] = event[k])
        /\ \A q \in Procs \ {k} : step'[q] = step[q] /\ event'[q] = event[q] /\ todo'[q] = todo[q]
    BY <1>5, <1>t, <1>c, <2>2, DeliverFacts, ReturnFacts DEF AddUserToChat, AddRefused, AddFails
  <2>4. UNCHANGED <<saved, sent, excused, storage>>
    BY <1>5 DEF AddUserToChat, AddRefused, AddFails, database, sockets, registry, ghosts
  <2> QED BY <1>c, <2>2, <2>3, <2>4, OtherStep DEF Sends
<1>6. ASSUME NEW k \in Conns, AllUserChats(k) PROVE MessageOK(m)'
  <2>1. PICK S \in SUBSET Of(LoginOf[k]) : Deliver(k, List(S), {LoginOf[k]})
    BY <1>6 DEF AllUserChats
  <2>2. PICK e \in Events : e = List(S) /\ e # Message(m)
    <3>1. S \in SUBSET Chats
      BY DEF Of
    <3>2. List(S).type = "chats"
      BY DEF List
    <3> QED BY <3>1, <3>2, Kinds, MessageIds
  <2>3. {LoginOf[k]} \in SUBSET Logins /\ {LoginOf[k]} # {} /\ Deliver(k, e, {LoginOf[k]})
    BY <1>c, <2>1, <2>2
  <2>4. /\ event'[k] = e
        /\ \A q \in Procs \ {k} : step'[q] = step[q] /\ event'[q] = event[q] /\ todo'[q] = todo[q]
    BY <1>t, <1>c, <2>3, DeliverFacts
  <2>5. UNCHANGED <<saved, sent, excused, storage>> /\ step[k] = "idle"
    BY <1>6 DEF AllUserChats, database
  <2> QED BY <1>c, <2>2, <2>4, <2>5, OtherStep DEF Sends
<1>7. ASSUME NEW p \in Procs, Posts(p) PROVE MessageOK(m)'
  <2>1. /\ saved' = saved + 1 /\ step'[p] = "members" /\ event'[p] = Message(saved + 1)
        /\ step[p] \in {"off", "idle"} /\ saved \in Nat
        /\ \A q \in Procs \ {p} : step'[q] = step[q] /\ event'[q] = event[q] /\ todo'[q] = todo[q]
        /\ UNCHANGED <<sent, excused, storage>>
    BY <1>7, PostFacts
  <2>2. CASE m # saved + 1
    <3>1. ~Sends(p, m)' /\ ~Sends(p, m) /\ (m \in 1 .. saved' => m \in 1 .. saved)
      BY <2>1, <2>2, MessageIds DEF Sends
    <3> QED BY <2>1, <3>1, MessageStep
  <2>3. CASE m = saved + 1
    <3>1. \A q \in Procs : ~Sends(q, m)
      BY <2>1, <2>3, SentIsSaved
    <3>2. \A q \in Procs : Sends(q, m)' => q = p
      BY <2>1, <3>1 DEF Sends
    <3>3. Sends(p, m)' /\ ~Delivers(p)'
      BY <2>1, <2>3 DEF Sends, Delivers
    <3> QED BY <3>2, <3>3 DEF MessageOK, Sends, Delivers
  <2> QED BY <2>2, <2>3
<1>8. ASSUME NEW p \in Procs, ChatMembers(p) PROVE MessageOK(m)'
  <2>1. event[p].type = "message" /\ event[p].id \in 1 .. saved /\ event[p] \in Events
    BY <1>8, <1>t, Kinds DEF ChatMembers, ProcessOK, InFanOut, ProcessTypes, NoEvent
  <2>2. from[event[p].id] \in MessageRow
    BY <2>1 DEF EventInv, SavedOK
  <2>3. PICK L \in SUBSET Logins :
           /\ IF L = {} THEN Return(p) ELSE Deliver(p, event[p], L)
           /\ excused' = [excused EXCEPT ![event[p].id] =
                 {l \in Logins : l \notin L \/ storage[l] = NoClient}]
    BY <1>8, <1>t, <2>2 DEF ChatMembers, MessageRow, TypeOK
  <2>4. /\ \A q \in Procs \ {p} : step'[q] = step[q] /\ event'[q] = event[q] /\ todo'[q] = todo[q]
        /\ \/ L = {} /\ step'[p] \in {"idle", "done"}
           \/ step'[p] = "looking" /\ event'[p] = event[p] /\ todo'[p] = L
        /\ step[p] = "members" /\ UNCHANGED <<saved, sent, storage>>
    BY <1>8, <1>t, <2>1, <2>3, ReturnFacts, DeliverFacts DEF ChatMembers, database, sockets, registry
  <2>5. event[p] = Message(event[p].id)
    BY <2>1, Kinds, MessageIds DEF Added, List
  <2>6. CASE m # event[p].id
    <3>1. event[p] # Message(m) /\ excused'[m] = excused[m]
      BY <1>t, <2>3, <2>6, MessageIds DEF TypeOK
    <3> QED BY <2>4, <3>1, MessageStep DEF Sends
  <2>7. CASE m = event[p].id
    <3>1. Sends(p, m) /\ \A q \in Procs : Sends(q, m) => q = p
      BY <2>4, <2>5, <2>7 DEF MessageOK, Sends
    <3>2. \A q \in Procs : Sends(q, m)' => q = p
      BY <2>4, <3>1 DEF Sends
    <3>3. excused'[m] = {l \in Logins : l \notin L \/ storage[l] = NoClient}
      BY <1>t, <2>3, <2>7 DEF TypeOK
    <3>4. ASSUME NEW q \in Procs, Sends(q, m)', Delivers(q)'
          PROVE  /\ Logins \ excused'[m] \subseteq sent'[m] \cup todo'[q]
                 /\ \A l \in todo'[q] : storage'[l] = NoClient => l \in excused'[m]
      BY <2>4, <3>2, <3>3, <3>4 DEF Sends
    <3>5. ASSUME \A q \in Procs : ~Sends(q, m)' PROVE Logins \ excused'[m] \subseteq sent'[m]
      BY <2>4, <2>5, <2>7, <3>3, <3>5 DEF Sends
    <3> QED BY <3>2, <3>4, <3>5 DEF MessageOK
  <2> QED BY <2>6, <2>7
<1>9. ASSUME NEW p \in Procs, LookupOffline(p) PROVE MessageOK(m)'
  <2>1. PICK l \in todo[p] : storage[l] = NoClient /\ Continue(p, todo[p] \ {l})
    BY <1>9 DEF LookupOffline
  <2>2. Delivers(p) /\ UNCHANGED <<saved, sent, excused, storage>>
    BY <1>9 DEF LookupOffline, Delivers, database, sockets, registry
  <2>3. /\ \A q \in Procs \ {p} : step'[q] = step[q] /\ event'[q] = event[q] /\ todo'[q] = todo[q]
        /\ \/ step'[p] \in {"idle", "done"} /\ todo[p] \subseteq {l}
           \/ step'[p] = "looking" /\ event'[p] = event[p] /\ todo'[p] = todo[p] \ {l}
    BY <1>t, <2>1, <2>2, ContinueFacts
  <2>4. Sends(p, m) => l \in excused[m]
    BY <2>1, <2>2 DEF MessageOK
  <2>5. (Sends(p, m)' => Sends(p, m)) /\ (Sends(p, m)' => Delivers(p)' /\ todo'[p] = todo[p] \ {l})
    BY <2>2, <2>3 DEF Sends, Delivers
  <2>6. Sends(p, m) /\ ~Sends(p, m)' => todo[p] \subseteq {l}
    BY <2>3 DEF Sends
  <2> QED BY <2>2, <2>3, <2>4, <2>5, <2>6, MessageStep
<1>10. ASSUME NEW p \in Procs, LookupOnline(p) PROVE MessageOK(m)'
  <2>1. /\ step[p] = "looking" /\ step'[p] = "sending" /\ UNCHANGED <<event, todo>>
        /\ \A q \in Procs \ {p} : step'[q] = step[q]
        /\ UNCHANGED <<saved, sent, excused, storage>>
    BY <1>10, <1>t DEF LookupOnline, TypeOK, database, sockets, registry, ghosts
  <2> QED BY <2>1, MessageStep DEF Sends, Delivers
<1>11. ASSUME NEW p \in Procs, SendEvent(p) PROVE MessageOK(m)'
  <2>1. PICK l \in todo[p] : l = LoginOf[dest[p]]
    BY <1>11, <1>t DEF SendEvent, ProcessOK
  <2>2. Delivers(p) /\ Continue(p, todo[p] \ {l}) /\ UNCHANGED <<saved, excused, storage>>
    BY <1>11, <2>1 DEF SendEvent, Delivers, database, registry
  <2>3. /\ \A q \in Procs \ {p} : step'[q] = step[q] /\ event'[q] = event[q] /\ todo'[q] = todo[q]
        /\ \/ step'[p] \in {"idle", "done"} /\ todo[p] \subseteq {l}
           \/ step'[p] = "looking" /\ event'[p] = event[p] /\ todo'[p] = todo[p] \ {l}
    BY <1>t, <2>1, <2>2, ContinueFacts
  <2>4. sent'[m] = IF event[p] = Message(m) THEN sent[m] \cup {l} ELSE sent[m]
    BY <1>11, <2>1 DEF SendEvent
  <2>5. (Sends(p, m)' => Sends(p, m)) /\ (Sends(p, m)' => Delivers(p)' /\ todo'[p] = todo[p] \ {l})
    BY <2>2, <2>3 DEF Sends, Delivers
  <2>6. /\ Sends(p, m) /\ ~Sends(p, m)' => todo[p] \subseteq {l}
        /\ Sends(p, m) => l \in sent'[m]
        /\ sent[m] \subseteq sent'[m]
    BY <2>3, <2>4 DEF Sends
  <2> QED BY <2>2, <2>3, <2>5, <2>6, MessageStep
<1>12. ASSUME NEW p \in Procs, GiveUp(p), step[p] = "sending", UNCHANGED <<saved, sent, storage>>
       PROVE  MessageOK(m)'
  <2>1. /\ step'[p] \in {"idle", "done"} /\ Delivers(p)
        /\ \A q \in Procs \ {p} : step'[q] = step[q] /\ event'[q] = event[q] /\ todo'[q] = todo[q]
    BY <1>12, <1>t, ReturnFacts DEF GiveUp, Delivers
  <2>2. excused'[m] = IF event[p] = Message(m) THEN excused[m] \cup todo[p] ELSE excused[m]
    BY <1>12 DEF GiveUp
  <2>3. ~Sends(p, m)' /\ (Sends(p, m) => todo[p] \subseteq excused'[m])
    BY <2>1, <2>2 DEF Sends
  <2> QED BY <1>12, <2>1, <2>2, <2>3, MessageStep
<1>13. ASSUME NEW p \in Procs, SendTimeout(p) \/ SendPanics(p) PROVE MessageOK(m)'
  <2>1. CASE SendTimeout(p)
    BY <1>12, <2>1 DEF SendTimeout, database, sockets, registry
  <2>2. CASE SendPanics(p) /\ p \notin Conns
    BY <1>12, <2>2 DEF SendPanics, database, sockets, registry
  <2>3. CASE SendPanics(p) /\ p \in Conns
    BY <2>3, MessageAfterEnd DEF SendPanics
  <2> QED BY <1>13, <2>1, <2>2, <2>3
<1>14. ASSUME Restart \/ \E k \in Conns : WriteRace(k) PROVE MessageOK(m)'
  BY <1>14, MessageAfterEnd DEF Restart, WriteRace
<1>15. ASSUME NEW k \in Conns,
              \/ Disconnect(k) \/ AllUserChatsFails(k) \/ WriterStarts(k) \/ Forget(k)
              \/ WriterTakes(k) \/ Receive(k) \/ WriteFails(k)
       PROVE  MessageOK(m)'
  BY <1>2, <1>15
  DEF Disconnect, AllUserChatsFails, WriterStarts, Forget, WriterTakes, Receive, WriteFails,
      database, registry, process, ghosts
<1>22. ASSUME NEW c \in Chats, NEW l \in Logins, JoinsLate(c, l) PROVE MessageOK(m)'
  BY <1>2, <1>22 DEF JoinsLate, sockets, registry, process
<1>16. CASE UNCHANGED vars
  BY <1>2, <1>16 DEF vars, database, sockets, registry, process, ghosts
<1>17. ASSUME NEW k \in Conns, SendMessage(k) PROVE MessageOK(m)'
  BY <1>7, <1>17, Senders
<1>18. ASSUME NEW r \in Requests, SendFileMessage(r) PROVE MessageOK(m)'
  BY <1>7, <1>18, Senders
<1>19. ASSUME NEW k \in Conns, Handle(k) PROVE MessageOK(m)'
  BY <1>19, <1>4, <1>5, <1>6, <1>15, <1>17 DEF Handle
<1>20. ASSUME NEW p \in Procs, FanOut(p) PROVE MessageOK(m)'
  BY <1>20, <1>8, <1>9, <1>10, <1>11, <1>13 DEF FanOut
<1> QED BY <1>1, <1>3, <1>14, <1>15, <1>16, <1>18, <1>19, <1>20, <1>21, <1>22 DEF Next

\* A member of the list who stays registered is sent the message, whatever else
\* happens to the fan-out, unless a channel stays full or a panic ends it.
THEOREM ListedAreServed == Spec => []ListedAndOnlineIsServed
<1>1. Init => MessageInv
  <2>1. SUFFICES ASSUME Init, NEW m \in Msgs PROVE MessageOK(m)
    BY EventInitially DEF MessageInv
  <2> QED BY <2>1 DEF Init, MessageOK, Sends
<1>2. ASSUME MessageInv PROVE ListedAndOnlineIsServed
  <2>1. \A m \in 1 .. saved : m \in Msgs
    BY <1>2, BoundsAssumption DEF MessageInv, EventInv, TypeOK, Msgs
  <2>2. ASSUME NEW m \in 1 .. saved, ~Fanning(m) PROVE Logins \ excused[m] \subseteq sent[m]
    BY <1>2, <2>1, <2>2, FanningIsSending DEF MessageInv, MessageOK
  <2> QED BY <2>2 DEF ListedAndOnlineIsServed
<1> QED BY <1>1, <1>2, MessageInductive, PTL DEF Spec

-----------------------------------------------------------------------------
(***************************************************************************)
(* A message is on its way to a login at most once.                        *)
(***************************************************************************)
Holds(k, m) == \E i \in DOMAIN chan[k] : chan[k][i] = Message(m)
InHand(k, m) == hand[k] = Message(m)
Keeps(k, m) == Holds(k, m) \/ InHand(k, m)

\* A message goes to those it was not sent to, and only they have it, once.
OnceOK(m) ==
    /\ m \notin 1 .. saved => sent[m] = {}
    /\ \A p \in Procs : Sends(p, m) =>
          IF Delivers(p) THEN todo[p] \cap sent[m] = {} ELSE sent[m] = {}
    /\ \A k \in Conns : Keeps(k, m) => LoginOf[k] \in sent[m]
    /\ \A j, k \in Conns : LoginOf[j] = LoginOf[k] =>
          /\ Holds(j, m) /\ Holds(k, m) => j = k
          /\ InHand(j, m) /\ InHand(k, m) => j = k
          /\ ~(Holds(j, m) /\ InHand(k, m))
    /\ \A k \in Conns : \A h, i \in DOMAIN chan[k] :
          chan[k][h] = Message(m) /\ chan[k][i] = Message(m) => h = i

OnceInv == MessageInv /\ \A m \in Msgs : OnceOK(m)

\* What is left of a channel.
Shrinks(k) ==
    \/ chan'[k] = chan[k]
    \/ chan'[k] = <<>>
    \/ chan[k] # <<>> /\ chan'[k] = Tail(chan[k])

\* A channel that loses events gains none, and no second copy.
LEMMA ShrunkHolds ==
    ASSUME NEW k \in Conns, NEW m, chan[k] \in Seq(Events), Shrinks(k)
    PROVE  /\ Holds(k, m)' => Holds(k, m)
           /\ (\A h, i \in DOMAIN chan[k] :
                  chan[k][h] = Message(m) /\ chan[k][i] = Message(m) => h = i)
              => \A h, i \in DOMAIN chan'[k] :
                    chan'[k][h] = Message(m) /\ chan'[k][i] = Message(m) => h = i
<1>1. CASE chan'[k] = chan[k]
  BY <1>1 DEF Holds, Message
<1>2. CASE chan'[k] = <<>>
  BY <1>2 DEF Holds
<1>3. CASE chan[k] # <<>> /\ chan'[k] = Tail(chan[k])
  <2>1. \A i \in DOMAIN chan'[k] : /\ i \in Int /\ i + 1 \in DOMAIN chan[k]
                                   /\ chan'[k][i] = chan[k][i + 1]
    BY <1>3, HeadTailProperties
  <2>2. Holds(k, m)' => Holds(k, m)
    BY <2>1 DEF Holds, Message
  <2>3. ASSUME \A h, i \in DOMAIN chan[k] :
                  chan[k][h] = Message(m) /\ chan[k][i] = Message(m) => h = i,
               NEW h \in DOMAIN chan'[k], NEW i \in DOMAIN chan'[k],
               chan'[k][h] = Message(m), chan'[k][i] = Message(m)
        PROVE  h = i
    <3>1. h + 1 = i + 1 /\ h \in Int /\ i \in Int
      BY <2>1, <2>3
    <3> QED BY <3>1
  <2> QED BY <2>2, <2>3
<1> QED BY <1>1, <1>2, <1>3 DEF Shrinks

\* The first event of a channel is taken.
LEMMA HeadHolds ==
    ASSUME NEW k \in Conns, NEW m, chan[k] \in Seq(Events), chan[k] # <<>>,
           chan'[k] = Tail(chan[k])
    PROVE  /\ Head(chan[k]) # Message(m) => (Holds(k, m)' <=> Holds(k, m))
           /\ /\ Head(chan[k]) = Message(m)
              /\ \A h, i \in DOMAIN chan[k] :
                    chan[k][h] = Message(m) /\ chan[k][i] = Message(m) => h = i
              => Holds(k, m) /\ ~Holds(k, m)'
<1> DEFINE n == Len(chan[k])
<1>1. /\ n \in Nat \ {0} /\ DOMAIN chan[k] = 1 .. n /\ DOMAIN chan'[k] = 1 .. n - 1
      /\ \A i \in 1 .. n - 1 : chan'[k][i] = chan[k][i + 1]
      /\ Head(chan[k]) = chan[k][1]
  BY HeadTailProperties, EmptySeq
<1>2. ASSUME Holds(k, m)' PROVE \E i \in 2 .. n : chan[k][i] = Message(m)
  <2>1. PICK i \in 1 .. n - 1 : chan[k][i + 1] = Message(m)
    BY <1>1, <1>2 DEF Holds, Message
  <2> QED BY <1>1, <2>1
<1>3. ASSUME NEW i \in 2 .. n, chan[k][i] = Message(m) PROVE Holds(k, m)'
  <2>1. i - 1 \in 1 .. n - 1 /\ chan'[k][i - 1] = chan[k][i]
    BY <1>1
  <2> QED BY <1>1, <1>3, <2>1 DEF Holds, Message
<1>4. Holds(k, m) <=> Head(chan[k]) = Message(m) \/ \E i \in 2 .. n : chan[k][i] = Message(m)
  BY <1>1 DEF Holds
<1>5. \A i \in 2 .. n : i # 1 /\ i \in DOMAIN chan[k] /\ 1 \in DOMAIN chan[k]
  BY <1>1
<1> QED BY <1>1, <1>2, <1>3, <1>4, <1>5

\* What is left of a hand.
Drops(k) == hand'[k] \in {hand[k], NoEvent}

LEMMA DroppedInHand ==
    ASSUME NEW k \in Conns, Drops(k), NEW m \in Msgs
    PROVE  InHand(k, m)' => InHand(k, m)
<1>1. Message(m) # NoEvent
  BY Kinds
<1> QED BY <1>1 DEF Drops, InHand, Message

\* A step that sends m to nobody.
LEMMA OnceStep ==
    ASSUME EventInv, NEW m \in Msgs, OnceOK(m), m \notin 1 .. saved' => m \notin 1 .. saved,
           sent'[m] = sent[m], \A k \in Conns : Shrinks(k) /\ Drops(k),
           \A q \in Procs : Sends(q, m)' =>
              \/ m \notin 1 .. saved /\ ~Delivers(q)'
              \/ /\ Sends(q, m)
                 /\ Delivers(q) => Delivers(q)' /\ todo'[q] \subseteq todo[q]
    PROVE  OnceOK(m)'
<1>1. ASSUME NEW q \in Procs, Sends(q, m)'
      PROVE  IF Delivers(q)' THEN todo'[q] \cap sent'[m] = {} ELSE sent'[m] = {}
  BY <1>1 DEF OnceOK, Sends, Delivers
<1>2. ASSUME NEW k \in Conns
      PROVE  /\ Holds(k, m)' => Holds(k, m)
             /\ InHand(k, m)' => InHand(k, m)
             /\ \A h, i \in DOMAIN chan'[k] :
                   chan'[k][h] = Message(m) /\ chan'[k][i] = Message(m) => h = i
  BY ShrunkHolds, DroppedInHand DEF EventInv, TypeOK, OnceOK
<1>3. \A k \in Conns : Holds(k, m)' \/ InHand(k, m)' => LoginOf[k] \in sent'[m]
  BY <1>2 DEF OnceOK, Keeps
<1>4. \A j, k \in Conns : LoginOf[j] = LoginOf[k] =>
         /\ Holds(j, m)' /\ Holds(k, m)' => j = k
         /\ InHand(j, m)' /\ InHand(k, m)' => j = k
         /\ ~(Holds(j, m)' /\ InHand(k, m)')
  BY <1>2 DEF OnceOK
<1>5. m \notin 1 .. saved' => sent'[m] = {}
  BY DEF OnceOK
<1> QED BY <1>1, <1>2, <1>3, <1>4, <1>5 DEF OnceOK, Sends, Delivers, Holds, InHand, Keeps, Message

\* A channel with one more event.
LEMMA AppendHolds ==
    ASSUME NEW k \in Conns, NEW m, NEW e \in Events, chan[k] \in Seq(Events),
           chan'[k] = Append(chan[k], e)
    PROVE  /\ Holds(k, m)' <=> Holds(k, m) \/ e = Message(m)
           /\ /\ e # Message(m) \/ ~Holds(k, m)
              /\ \A h, i \in DOMAIN chan[k] :
                    chan[k][h] = Message(m) /\ chan[k][i] = Message(m) => h = i
              => \A h, i \in DOMAIN chan'[k] :
                    chan'[k][h] = Message(m) /\ chan'[k][i] = Message(m) => h = i
<1> DEFINE n == Len(chan[k])
<1>1. /\ n \in Nat /\ DOMAIN chan[k] = 1 .. n /\ DOMAIN chan'[k] = 1 .. n + 1
      /\ \A i \in 1 .. n : chan'[k][i] = chan[k][i]
      /\ chan'[k][n + 1] = e
  BY AppendProperties
<1>2. DOMAIN chan'[k] = DOMAIN chan[k] \cup {n + 1}
  BY <1>1
<1>3. Holds(k, m)' <=> Holds(k, m) \/ e = Message(m)
  BY <1>1, <1>2 DEF Holds, Message
<1>4. ASSUME e # Message(m) \/ ~Holds(k, m),
             \A h, i \in DOMAIN chan[k] : chan[k][h] = Message(m) /\ chan[k][i] = Message(m) => h = i,
             NEW h \in DOMAIN chan'[k], NEW i \in DOMAIN chan'[k],
             chan'[k][h] = Message(m), chan'[k][i] = Message(m)
      PROVE  h = i
  BY <1>1, <1>2, <1>4 DEF Holds
<1> QED BY <1>3, <1>4

\* m is offered to a login that never had it, whose place in the loop ends.
LEMMA OfferOnce ==
    ASSUME OnceInv, NEW m \in Msgs, NEW p \in Procs, SendEvent(p)
    PROVE  OnceOK(m)'
<1>t. TypeOK /\ ProcessTypes /\ ProcessOK(p) /\ EventInv /\ OnceOK(m) /\ MessageOK(m)
  BY TypeGroups DEF OnceInv, MessageInv, EventInv
<1>1. PICK k \in Conns : k = dest[p] /\ LoginOf[k] \in todo[p]
  BY <1>t DEF SendEvent, ProcessOK
<1>2. PICK e \in Events : e = event[p]
  BY <1>t, Kinds DEF SendEvent, ProcessTypes, Delivers
<1>3. /\ Delivers(p) /\ Continue(p, todo[p] \ {LoginOf[k]}) /\ UNCHANGED saved
      /\ sent'[m] = IF e = Message(m) THEN sent[m] \cup {LoginOf[k]} ELSE sent[m]
      /\ chan'[k] = Append(chan[k], e) /\ \A j \in Conns \ {k} : chan'[j] = chan[j]
      /\ hand' = hand
  BY <1>t, <1>1, <1>2 DEF SendEvent, Delivers, database, writers, TypeOK
<1>4. /\ \A q \in Procs \ {p} : step'[q] = step[q] /\ event'[q] = event[q] /\ todo'[q] = todo[q]
      /\ \/ step'[p] \in {"idle", "done"}
         \/ step'[p] = "looking" /\ event'[p] = event[p] /\ todo'[p] = todo[p] \ {LoginOf[k]}
  BY <1>t, <1>3, ContinueFacts
<1>5. /\ Holds(k, m)' <=> Holds(k, m) \/ e = Message(m)
      /\ \A j \in Conns \ {k} : Holds(j, m)' <=> Holds(j, m)
      /\ \A j \in Conns : InHand(j, m)' <=> InHand(j, m)
  BY <1>t, <1>3, AppendHolds DEF TypeOK, Holds, InHand, Message
<1>6. e = Message(m) => /\ Sends(p, m) /\ m \in 1 .. saved
                        /\ LoginOf[k] \notin sent[m]
                        /\ \A j \in Conns : LoginOf[j] = LoginOf[k] => ~Keeps(j, m)
                        /\ \A q \in Procs : Sends(q, m) => q = p
  <2>1. e = Message(m) => Sends(p, m)
    BY <1>2, <1>3 DEF Sends, Delivers
  <2> QED BY <1>t, <1>1, <1>3, <2>1, SentIsSaved DEF OnceOK, MessageOK
<1>7. m \notin 1 .. saved' => sent'[m] = {}
  BY <1>t, <1>3, <1>6 DEF OnceOK
<1>8. ASSUME NEW q \in Procs, Sends(q, m)'
      PROVE  IF Delivers(q)' THEN todo'[q] \cap sent'[m] = {} ELSE sent'[m] = {}
  <2>1. CASE q = p
    <3>1. Sends(p, m) /\ event[p] = Message(m)
      BY <1>3, <1>4, <1>8, <2>1 DEF Sends, Delivers
    <3> QED BY <1>t, <1>2, <1>3, <1>4, <1>8, <2>1, <3>1 DEF OnceOK, Sends, Delivers
  <2>2. CASE q # p
    <3>1. Sends(q, m) /\ e # Message(m)
      BY <1>4, <1>6, <1>8, <2>2 DEF Sends
    <3> QED BY <1>t, <1>3, <1>4, <2>2, <3>1 DEF OnceOK, Delivers
  <2> QED BY <2>1, <2>2
<1>9. \A j \in Conns : Holds(j, m)' \/ InHand(j, m)' => LoginOf[j] \in sent'[m]
  BY <1>t, <1>3, <1>5 DEF OnceOK, Keeps
<1>10. \A i, j \in Conns : LoginOf[i] = LoginOf[j] =>
          /\ Holds(i, m)' /\ Holds(j, m)' => i = j
          /\ InHand(i, m)' /\ InHand(j, m)' => i = j
          /\ ~(Holds(i, m)' /\ InHand(j, m)')
  BY <1>t, <1>5, <1>6 DEF OnceOK, Keeps
<1>11. ASSUME NEW j \in Conns
       PROVE  \A h, i \in DOMAIN chan'[j] :
                 chan'[j][h] = Message(m) /\ chan'[j][i] = Message(m) => h = i
  <2>1. CASE j = k
    <3>1. e # Message(m) \/ ~Holds(k, m)
      BY <1>6 DEF Keeps
    <3>2. \A h, i \in DOMAIN chan[k] : chan[k][h] = Message(m) /\ chan[k][i] = Message(m) => h = i
      BY <1>t DEF OnceOK
    <3>3. chan[k] \in Seq(Events) /\ chan'[k] = Append(chan[k], e)
      BY <1>t, <1>3 DEF TypeOK
    <3> QED BY <2>1, <3>1, <3>2, <3>3, AppendHolds
  <2>2. CASE j # k
    BY <1>t, <1>3, <2>2 DEF OnceOK
  <2> QED BY <2>1, <2>2
<1> QED BY <1>7, <1>8, <1>9, <1>10, <1>11 DEF OnceOK, Sends, Delivers, Holds, InHand, Keeps, Message

\* Nothing is saved, sent or taken, no channel grows and no fan-out begins.
Calm ==
    /\ UNCHANGED <<saved, sent>>
    /\ \A k \in Conns : Shrinks(k) /\ Drops(k)
    /\ \A m \in Msgs : \A q \in Procs : Sends(q, m)' =>
          Sends(q, m) /\ (Delivers(q) => Delivers(q)' /\ todo'[q] \subseteq todo[q])

\* One process moves, out of the fan-out or on with fewer logins.
LEMMA CalmStep ==
    ASSUME UNCHANGED <<saved, sent>>, \A k \in Conns : Shrinks(k) /\ Drops(k),
           NEW p \in Procs,
           \A q \in Procs \ {p} : step'[q] = step[q] /\ event'[q] = event[q] /\ todo'[q] = todo[q],
           \/ step'[p] \in {"off", "starting", "idle", "joining", "done"}
           \/ event'[p] \in Events /\ \A m \in Msgs : event'[p] # Message(m)
           \/ step[p] = "members" /\ event'[p] = event[p]
           \/ /\ Delivers(p) /\ event'[p] = event[p]
              /\ step'[p] \in {"looking", "sending"} /\ todo'[p] \subseteq todo[p]
    PROVE  Calm
BY DEF Calm, Sends, Delivers

\* All steps but a save, a send and a take.
LEMMA CalmSteps ==
    ASSUME EventInv, [Next]_vars
    PROVE  \/ Calm /\ (UNCHANGED got \/ \E k \in Conns : Receive(k))
           \/ \E p \in Procs : SendEvent(p)
           \/ \E p \in Procs : Posts(p)
           \/ \E k \in Conns : WriterTakes(k)
<1> DEFINE Goal == \/ Calm /\ (UNCHANGED got \/ \E k \in Conns : Receive(k))
                   \/ \E p \in Procs : SendEvent(p)
                   \/ \E p \in Procs : Posts(p)
                   \/ \E k \in Conns : WriterTakes(k)
<1>t. /\ TypeOK /\ ProcessTypes /\ \A p \in Procs : ProcessOK(p)
  BY TypeGroups DEF EventInv
<1>c. ASSUME NEW k \in Conns PROVE k \in Procs /\ LoginOf[k] \in Logins
  BY NamesAssumption DEF Procs
<1>1. ASSUME UNCHANGED <<saved, sent, step, event, todo>>, \A k \in Conns : Shrinks(k) /\ Drops(k) PROVE Calm
  BY <1>1 DEF Calm, Sends, Delivers
<1>2. ASSUME NEW k \in Conns,
             \/ Disconnect(k) \/ AllUserChatsFails(k) \/ WriterStarts(k) \/ Forget(k)
             \/ Receive(k) \/ WriteFails(k)
      PROVE  Calm /\ (UNCHANGED got \/ Receive(k))
  <2>1. UNCHANGED <<saved, sent, step, event, todo>> /\ (UNCHANGED got \/ Receive(k))
    BY <1>2 DEF Disconnect, AllUserChatsFails, WriterStarts, Forget, Receive, WriteFails,
                database, process, pages, ghosts
  <2>2. \A j \in Conns : Shrinks(j) /\ Drops(j)
    BY <1>2, <1>t DEF Disconnect, AllUserChatsFails, WriterStarts, Forget, Receive, WriteFails,
                      Shrinks, Drops, writers, TypeOK
  <2> QED BY <1>1, <2>1, <2>2
<1>3. ASSUME NEW k \in Conns, ReaderEnds(k) \/ ReadRace(k) \/ WriterEnds(k) PROVE Calm /\ UNCHANGED got
  <2>1. /\ k \in Procs /\ LoginOf[k] \in Logins /\ Removes(k) /\ UNCHANGED <<saved, sent, hand, event, todo, got>>
        /\ step'[k] = step[k] \/ (step[k] = "idle" /\ step'[k] = "done")
        /\ \A q \in Procs \ {k} : step'[q] = step[q]
    BY <1>3, EndFacts
  <2>2. \A j \in Conns : Shrinks(j) /\ Drops(j)
    BY <2>1, DeleteOK DEF Shrinks, Drops
  <2>3. CASE step'[k] = "done"
    BY <2>1, <2>2, <2>3, CalmStep
  <2>4. CASE step'[k] = step[k]
    <3>1. \A m \in Msgs : \A q \in Procs : Sends(q, m)' => Sends(q, m)
      BY <2>1, <2>4 DEF Sends, Message
    <3>2. \A q \in Procs : Delivers(q)' <=> Delivers(q)
      BY <2>1, <2>4 DEF Delivers
    <3> QED BY <2>1, <2>2, <3>1, <3>2 DEF Calm
  <2> QED BY <2>1, <2>3, <2>4
<1>4. ASSUME UNCHANGED <<saved, sent, chan, hand, got>>, NEW p \in Procs,
             \A q \in Procs \ {p} : step'[q] = step[q] /\ event'[q] = event[q] /\ todo'[q] = todo[q],
             \/ step'[p] \in {"off", "starting", "idle", "joining", "done"}
             \/ event'[p] \in Events /\ \A m \in Msgs : event'[p] # Message(m)
             \/ step[p] = "members" /\ event'[p] = event[p]
             \/ /\ Delivers(p) /\ event'[p] = event[p]
                /\ step'[p] \in {"looking", "sending"} /\ todo'[p] \subseteq todo[p]
      PROVE  Goal
  BY <1>4, CalmStep DEF Shrinks, Drops
<1>22. ASSUME NEW k \in Conns, Connect(k) \/ ReaderStarts(k) PROVE Goal
  <2>1. /\ step'[k] \in {"starting", "idle", "done"} /\ UNCHANGED <<saved, sent, chan, hand, got>>
        /\ \A q \in Procs \ {k} : step'[q] = step[q] /\ event'[q] = event[q] /\ todo'[q] = todo[q]
    BY <1>22, <1>c, <1>t DEF Connect, ReaderStarts, TypeOK, database, writers, pages, ghosts
  <2> QED BY <1>c, <1>4, <2>1
<1>5. ASSUME NEW k \in Conns, NewChat(k) \/ NewUserInChat(k) PROVE Goal
  <2>1. /\ step'[k] = "joining" /\ UNCHANGED <<saved, sent, chan, hand, got>>
        /\ \A q \in Procs \ {k} : step'[q] = step[q] /\ event'[q] = event[q] /\ todo'[q] = todo[q]
    BY <1>5, <1>c, <1>t DEF NewChat, NewUserInChat, TypeOK, database, sockets, writers, pages, ghosts
  <2> QED BY <1>c, <1>4, <2>1
<1>6. ASSUME NEW k \in Conns, AddUserToChat(k) \/ AddRefused(k) \/ AddFails(k) PROVE Goal
  <2>1. PICK c \in Chats, l \in Logins : event[k] = Added(c, l)
    BY <1>6, <1>t, <1>c DEF AddUserToChat, AddRefused, AddFails, ProcessOK
  <2>2. event[k].login = l /\ event[k] \in Events /\ \A m \in Msgs : event[k] # Message(m)
    BY <2>1, Kinds, MessageIds DEF Added
  <2>3. /\ step'[k] \in {"idle", "done"} \/ event'[k] = event[k]
        /\ \A q \in Procs \ {k} : step'[q] = step[q] /\ event'[q] = event[q] /\ todo'[q] = todo[q]
    BY <1>6, <1>t, <1>c, <2>2, DeliverFacts, ReturnFacts DEF AddUserToChat, AddRefused, AddFails
  <2>4. UNCHANGED <<saved, sent, chan, hand, got>>
    BY <1>6 DEF AddUserToChat, AddRefused, AddFails, database, sockets, writers, pages, ghosts
  <2> QED BY <1>c, <1>4, <2>2, <2>3, <2>4
<1>7. ASSUME NEW k \in Conns, AllUserChats(k) PROVE Goal
  <2>1. PICK S \in SUBSET Of(LoginOf[k]) : Deliver(k, List(S), {LoginOf[k]})
    BY <1>7 DEF AllUserChats
  <2>2. PICK e \in Events : e = List(S) /\ \A m \in Msgs : e # Message(m)
    <3>1. S \in SUBSET Chats
      BY DEF Of
    <3>2. List(S).type = "chats"
      BY DEF List
    <3> QED BY <3>1, <3>2, Kinds, MessageIds
  <2>3. {LoginOf[k]} \in SUBSET Logins /\ {LoginOf[k]} # {} /\ Deliver(k, e, {LoginOf[k]})
    BY <1>c, <2>1, <2>2
  <2>4. /\ event'[k] = e
        /\ \A q \in Procs \ {k} : step'[q] = step[q] /\ event'[q] = event[q] /\ todo'[q] = todo[q]
    BY <1>t, <1>c, <2>3, DeliverFacts
  <2>5. UNCHANGED <<saved, sent, chan, hand, got>>
    BY <1>7 DEF AllUserChats, database, writers, pages
  <2> QED BY <1>c, <1>4, <2>2, <2>4, <2>5
<1>8. ASSUME NEW p \in Procs, ChatMembers(p) PROVE Goal
  <2>1. event[p].type = "message" /\ event[p].id \in 1 .. saved /\ event[p] \in Events
    BY <1>8, <1>t, Kinds DEF ChatMembers, ProcessOK, InFanOut, ProcessTypes, NoEvent
  <2>2. from[event[p].id] \in MessageRow
    BY <2>1 DEF EventInv, SavedOK
  <2>3. PICK L \in SUBSET Logins : IF L = {} THEN Return(p) ELSE Deliver(p, event[p], L)
    BY <1>8, <1>t, <2>2 DEF ChatMembers, MessageRow, TypeOK
  <2>4. /\ \A q \in Procs \ {p} : step'[q] = step[q] /\ event'[q] = event[q] /\ todo'[q] = todo[q]
        /\ step'[p] \in {"idle", "done"} \/ event'[p] = event[p]
    BY <1>t, <2>1, <2>3, ReturnFacts, DeliverFacts
  <2>5. step[p] = "members" /\ UNCHANGED <<saved, sent, chan, hand, got>>
    BY <1>8 DEF ChatMembers, database, sockets, writers, pages
  <2> QED BY <1>4, <2>4, <2>5
<1>9. ASSUME NEW p \in Procs, LookupOffline(p) PROVE Goal
  <2>1. PICK l \in todo[p] : Continue(p, todo[p] \ {l})
    BY <1>9 DEF LookupOffline
  <2>2. Delivers(p) /\ UNCHANGED <<saved, sent, chan, hand, got>>
    BY <1>9 DEF LookupOffline, Delivers, database, sockets, writers, pages
  <2>3. /\ \A q \in Procs \ {p} : step'[q] = step[q] /\ event'[q] = event[q] /\ todo'[q] = todo[q]
        /\ \/ step'[p] \in {"idle", "done"}
           \/ step'[p] = "looking" /\ event'[p] = event[p] /\ todo'[p] = todo[p] \ {l}
    BY <1>t, <2>1, <2>2, ContinueFacts
  <2> QED BY <1>4, <2>2, <2>3
<1>10. ASSUME NEW p \in Procs, LookupOnline(p) PROVE Goal
  <2>1. /\ step[p] = "looking" /\ step'[p] = "sending" /\ UNCHANGED <<event, todo>>
        /\ \A q \in Procs \ {p} : step'[q] = step[q]
        /\ UNCHANGED <<saved, sent, chan, hand, got>>
    BY <1>10, <1>t DEF LookupOnline, TypeOK, database, sockets, writers, pages, ghosts
  <2> QED BY <1>4, <2>1 DEF Delivers
<1>11. ASSUME NEW p \in Procs, GiveUp(p), UNCHANGED <<saved, sent, chan, hand, got>> PROVE Goal
  BY <1>4, <1>11, <1>t, ReturnFacts DEF GiveUp
<1>12. ASSUME ProcessEnds PROVE Calm /\ UNCHANGED got
  <2>1. \A m \in Msgs : NoEvent # Message(m)
    BY MessageIds DEF NoEvent
  <2>2. \A k \in Conns : Shrinks(k) /\ Drops(k)
    BY <1>12 DEF ProcessEnds, Shrinks, Drops
  <2>3. \A m \in Msgs : \A q \in Procs : ~Sends(q, m)'
    BY <1>12, <2>1 DEF ProcessEnds, Sends, Message
  <2>4. UNCHANGED <<saved, sent, got>>
    BY <1>12 DEF ProcessEnds, pages
  <2> QED BY <2>2, <2>3, <2>4 DEF Calm
<1>13. ASSUME NEW p \in Procs, SendTimeout(p) \/ SendPanics(p) PROVE Goal
  <2>1. CASE SendTimeout(p)
    BY <1>11, <2>1 DEF SendTimeout, database, sockets, writers, pages
  <2>2. CASE SendPanics(p) /\ p \notin Conns
    BY <1>11, <2>2 DEF SendPanics, database, sockets, writers, pages
  <2>3. CASE SendPanics(p) /\ p \in Conns
    BY <1>12, <2>3 DEF SendPanics
  <2> QED BY <1>13, <2>1, <2>2, <2>3
<1>14. ASSUME Restart \/ \E k \in Conns : WriteRace(k) PROVE Goal
  BY <1>12, <1>14 DEF Restart, WriteRace
<1>15. CASE UNCHANGED vars
  BY <1>1, <1>15 DEF vars, database, sockets, writers, process, pages, ghosts, Shrinks, Drops
<1>20. ASSUME NEW c \in Chats, NEW l \in Logins, JoinsLate(c, l) PROVE Goal
  BY <1>1, <1>20 DEF JoinsLate, sockets, writers, process, pages, Shrinks, Drops
<1>16. ASSUME NEW k \in Conns, Handle(k) PROVE Goal
  <2>1. CASE SendMessage(k)
    BY <2>1, Senders
  <2>2. CASE AllUserChatsFails(k)
    BY <1>2, <2>2
  <2> QED BY <1>16, <1>5, <1>6, <1>7, <2>1, <2>2 DEF Handle
<1>17. ASSUME NEW r \in Requests, SendFileMessage(r) PROVE Goal
  BY <1>17, Senders
<1>18. ASSUME NEW p \in Procs, FanOut(p) PROVE Goal
  BY <1>18, <1>8, <1>9, <1>10, <1>13 DEF FanOut
<1>19. ASSUME NEW k \in Conns,
              \/ Connect(k) \/ Disconnect(k) \/ ReaderStarts(k) \/ WriterStarts(k)
              \/ ReaderEnds(k) \/ ReadRace(k) \/ WriterEnds(k) \/ Forget(k)
              \/ WriterTakes(k) \/ Receive(k) \/ WriteFails(k)
       PROVE  Goal
  BY <1>2, <1>3, <1>19, <1>22
<1> QED BY <1>14, <1>15, <1>16, <1>17, <1>18, <1>19, <1>20 DEF Next

\* What a writer takes leaves its channel and comes to its hand.
LEMMA TakeFacts ==
    ASSUME EventInv, NEW k \in Conns, WriterTakes(k)
    PROVE  \E c \in Conns, e \in Events :
              /\ c = writerOf[k] /\ LoginOf[c] = LoginOf[k]
              /\ hand[k] = NoEvent /\ hand'[k] = e
              /\ \A j \in Conns \ {k} : hand'[j] = hand[j]
              /\ chan[c] # <<>> /\ e = Head(chan[c]) /\ chan'[c] = Tail(chan[c])
              /\ \A j \in Conns \ {c} : chan'[j] = chan[j]
              /\ UNCHANGED <<saved, from, writerOf, step, event, todo, chats, got, sent, members, doubt>>
<1>1. WriterOK(k) /\ TypeOK
  BY DEF EventInv
<1>2. PICK c \in Conns : c = writerOf[k] /\ LoginOf[c] = LoginOf[k]
  BY <1>1 DEF WriterTakes, WriterOK
<1>3. chan[c] \in Seq(Events) /\ chan[c] # <<>>
  BY <1>1, <1>2 DEF WriterTakes, TypeOK
<1>4. PICK e \in Events : e = Head(chan[c])
  BY <1>3, HeadTailProperties
<1> QED BY <1>1, <1>2, <1>3, <1>4
        DEF WriterTakes, TypeOK, database, registry, process, pages, ghosts

\* A message that is taken was only in that channel, and is only in that hand.
LEMMA TakeMessage ==
    ASSUME EventInv, NEW m \in Msgs, OnceOK(m), NEW k \in Conns, WriterTakes(k),
           NEW c \in Conns, c = writerOf[k]
    PROVE  /\ \A j \in Conns : Holds(j, m)' => Holds(j, m)
           /\ \A j \in Conns \ {c} : Holds(j, m)' <=> Holds(j, m)
           /\ \A j \in Conns \ {k} : InHand(j, m)' <=> InHand(j, m)
           /\ ~InHand(k, m) /\ LoginOf[c] = LoginOf[k]
           /\ InHand(k, m)' => Holds(c, m) /\ ~Holds(c, m)'
           /\ ~InHand(k, m)' => (Holds(c, m)' <=> Holds(c, m))
           /\ \A j \in Conns : \A h, i \in DOMAIN chan'[j] :
                 chan'[j][h] = Message(m) /\ chan'[j][i] = Message(m) => h = i
<1>1. PICK e \in Events :
         /\ LoginOf[c] = LoginOf[k]
         /\ hand[k] = NoEvent /\ hand'[k] = e
         /\ \A j \in Conns \ {k} : hand'[j] = hand[j]
         /\ chan[c] # <<>> /\ e = Head(chan[c]) /\ chan'[c] = Tail(chan[c])
         /\ \A j \in Conns \ {c} : chan'[j] = chan[j]
  BY TakeFacts
<1>2. \A j \in Conns : chan[j] \in Seq(Events) /\ Shrinks(j)
  BY <1>1 DEF EventInv, TypeOK, Shrinks
<1>3. Message(m) # NoEvent
  BY Kinds
<1>4. /\ \A j \in Conns : Holds(j, m)' => Holds(j, m)
      /\ \A j \in Conns : \A h, i \in DOMAIN chan'[j] :
            chan'[j][h] = Message(m) /\ chan'[j][i] = Message(m) => h = i
  BY <1>2, ShrunkHolds DEF OnceOK
<1>5. \A j \in Conns \ {c} : Holds(j, m)' <=> Holds(j, m)
  BY <1>1 DEF Holds, Message
<1>6. /\ e # Message(m) => (Holds(c, m)' <=> Holds(c, m))
      /\ e = Message(m) => Holds(c, m) /\ ~Holds(c, m)'
  <2>1. \A h, i \in DOMAIN chan[c] : chan[c][h] = Message(m) /\ chan[c][i] = Message(m) => h = i
    BY DEF OnceOK
  <2> QED BY <1>1, <1>2, <2>1, HeadHolds
<1>7. /\ \A j \in Conns \ {k} : InHand(j, m)' <=> InHand(j, m)
      /\ ~InHand(k, m) /\ (InHand(k, m)' <=> e = Message(m))
  BY <1>1, <1>3 DEF InHand, Message
<1> QED BY <1>1, <1>4, <1>5, <1>6, <1>7

\* It stays on its way to the same login.
LEMMA TakeKeeps ==
    ASSUME EventInv, NEW m \in Msgs, OnceOK(m), NEW k \in Conns, WriterTakes(k), NEW l
    PROVE  (\E j \in Conns : LoginOf[j] = l /\ Keeps(j, m)') <=> \E j \in Conns : LoginOf[j] = l /\ Keeps(j, m)
<1>1. PICK c \in Conns : c = writerOf[k]
  BY TakeFacts
<1>2. /\ \A j \in Conns \ {c} : Holds(j, m)' <=> Holds(j, m)
      /\ \A j \in Conns \ {k} : InHand(j, m)' <=> InHand(j, m)
      /\ ~InHand(k, m) /\ LoginOf[c] = LoginOf[k]
      /\ InHand(k, m)' => Holds(c, m) /\ ~Holds(c, m)'
      /\ ~InHand(k, m)' => (Holds(c, m)' <=> Holds(c, m))
  BY <1>1, TakeMessage
<1>3. \A j \in Conns : Keeps(j, m)' <=> Holds(j, m)' \/ InHand(j, m)'
  BY DEF Keeps, Holds, InHand, Message
<1>4. \A j \in Conns : Keeps(j, m) <=> Holds(j, m) \/ InHand(j, m)
  BY DEF Keeps
<1>5. ASSUME NEW j \in Conns, LoginOf[j] = l, Keeps(j, m) PROVE \E i \in Conns : LoginOf[i] = l /\ Keeps(i, m)'
  <2>1. CASE InHand(j, m) \/ Holds(j, m)'
    BY <1>2, <1>3, <1>5, <2>1
  <2>2. CASE Holds(j, m) /\ ~Holds(j, m)'
    BY <1>2, <1>3, <1>5, <2>2
  <2> QED BY <1>4, <1>5, <2>1, <2>2
<1>6. ASSUME NEW j \in Conns, LoginOf[j] = l, Keeps(j, m)' PROVE \E i \in Conns : LoginOf[i] = l /\ Keeps(i, m)
  BY <1>2, <1>3, <1>4, <1>6
<1> QED BY <1>5, <1>6

LEMMA TakeOnce ==
    ASSUME EventInv, NEW m \in Msgs, OnceOK(m), NEW k \in Conns, WriterTakes(k)
    PROVE  OnceOK(m)'
<1>1. PICK c \in Conns : /\ c = writerOf[k]
                         /\ UNCHANGED <<saved, from, writerOf, step, event, todo, chats, got, sent, members, doubt>>
  BY TakeFacts
<1>2. /\ \A j \in Conns : Holds(j, m)' => Holds(j, m)
      /\ \A j \in Conns \ {k} : InHand(j, m)' <=> InHand(j, m)
      /\ LoginOf[c] = LoginOf[k]
      /\ InHand(k, m)' => Holds(c, m) /\ ~Holds(c, m)'
      /\ \A j \in Conns : \A h, i \in DOMAIN chan'[j] :
            chan'[j][h] = Message(m) /\ chan'[j][i] = Message(m) => h = i
  BY <1>1, TakeMessage
<1>3. \A j \in Conns : Holds(j, m)' \/ InHand(j, m)' => LoginOf[j] \in sent[m]
  BY <1>2 DEF OnceOK, Keeps
<1>4. \A i, j \in Conns : LoginOf[i] = LoginOf[j] =>
         /\ Holds(i, m)' /\ Holds(j, m)' => i = j
         /\ InHand(i, m)' /\ InHand(j, m)' => i = j
         /\ ~(Holds(i, m)' /\ InHand(j, m)')
  <2>1. ASSUME InHand(k, m)', NEW j \in Conns, LoginOf[j] = LoginOf[k]
        PROVE  ~Holds(j, m)' /\ (InHand(j, m)' => j = k)
    BY <1>2, <2>1 DEF OnceOK
  <2> QED BY <1>2, <2>1 DEF OnceOK
<1>5. /\ m \notin 1 .. saved' => sent'[m] = {}
      /\ \A p \in Procs : Sends(p, m)' =>
            IF Delivers(p)' THEN todo'[p] \cap sent'[m] = {} ELSE sent'[m] = {}
  BY <1>1 DEF OnceOK, Sends, Delivers, Message
<1> QED BY <1>1, <1>2, <1>3, <1>4, <1>5 DEF OnceOK, Sends, Delivers, Holds, InHand, Keeps, Message

\* OnceInv is inductive.
LEMMA OnceInductive == OnceInv /\ [Next]_vars => OnceInv'
<1> SUFFICES ASSUME OnceInv, MessageInv, [Next]_vars, NEW m \in Msgs PROVE OnceOK(m)'
  BY MessageInductive DEF OnceInv
<1>t. EventInv /\ TypeOK /\ OnceOK(m)
  BY DEF OnceInv, MessageInv, EventInv
<1>1. CASE Calm
  BY <1>1, <1>t, OnceStep DEF Calm
<1>2. ASSUME NEW p \in Procs, SendEvent(p) PROVE OnceOK(m)'
  BY <1>2, OfferOnce
<1>4. ASSUME NEW k \in Conns, WriterTakes(k) PROVE OnceOK(m)'
  BY <1>4, <1>t, TakeOnce
<1>3. ASSUME NEW p \in Procs, Posts(p) PROVE OnceOK(m)'
  <2>1. /\ saved' = saved + 1 /\ step'[p] = "members" /\ event'[p] = Message(saved + 1)
        /\ step[p] \in {"off", "idle"} /\ saved \in Nat /\ UNCHANGED <<sent, chan, hand>>
        /\ \A q \in Procs \ {p} : step'[q] = step[q] /\ event'[q] = event[q] /\ todo'[q] = todo[q]
    BY <1>3, <1>t, PostFacts
  <2>2. ASSUME NEW q \in Procs, Sends(q, m)'
        PROVE  \/ m \notin 1 .. saved /\ ~Delivers(q)'
               \/ Sends(q, m) /\ (Delivers(q) => Delivers(q)' /\ todo'[q] \subseteq todo[q])
    BY <2>1, <2>2, MessageIds DEF Sends, Delivers
  <2>3. (\A k \in Conns : Shrinks(k) /\ Drops(k)) /\ (m \notin 1 .. saved' => m \notin 1 .. saved)
    BY <2>1 DEF Shrinks, Drops
  <2> QED BY <1>t, <2>1, <2>2, <2>3, OnceStep
<1> QED BY <1>t, <1>1, <1>2, <1>3, <1>4, CalmSteps

-----------------------------------------------------------------------------
(***************************************************************************)
(* ChatEvents implements BestEffort.                                       *)
(***************************************************************************)
Open == {m \in Msgs : Fanning(m)}
Over == {m \in 1 .. saved : ~Fanning(m)}
Queued == [m \in Msgs |-> {l \in Logins : Message(m) \in Buffered(l)}]
Shown == [m \in Msgs |-> {l \in Logins : \E i \in DOMAIN got[l] : got[l][i][1] = m}]

DeliveryVars == <<Open, Over, sent, Queued, Shown>>
DeliveryStep == [Delivery!Next]_DeliveryVars

\* What is on its way to a login, socket by socket.
LEMMA BufferedKeeps ==
    /\ \A m \in Msgs, l \in Logins :
          Message(m) \in Buffered(l) <=> \E k \in Conns : LoginOf[k] = l /\ Keeps(k, m)
    /\ \A m \in Msgs, l \in Logins :
          (Message(m) \in Buffered(l))' <=> \E k \in Conns : LoginOf[k] = l /\ Keeps(k, m)'
<1>1. \A m \in Msgs : Message(m) # NoEvent
  BY Kinds
<1> QED BY <1>1 DEF Buffered, In, Keeps, Holds, InHand, Message

\* Fan-outs that end are over, when nothing is saved.
LEMMA FanOutsEnd ==
    ASSUME EventInv, UNCHANGED saved,
           \A m \in Msgs : \A q \in Procs : Sends(q, m)' => Sends(q, m)
    PROVE  Open' \subseteq Open /\ Over' = Over \cup (Open \ Open')
<1>1. \A m : Fanning(m)' <=> \E q \in Procs : Sends(q, m)'
  BY DEF Fanning, Sends, Message
<1>2. \A m \in Msgs : Fanning(m) <=> \E q \in Procs : Sends(q, m)
  BY FanningIsSending
<1>3. \A m \in Msgs : Fanning(m)' => Fanning(m)
  BY <1>1, <1>2
<1>4. \A m \in Msgs : Fanning(m) => m \in 1 .. saved
  BY <1>2, SentIsSaved
<1>5. 1 .. saved \subseteq Msgs
  BY BoundsAssumption DEF EventInv, TypeOK, Msgs
<1>6. Open' \subseteq Open
  BY <1>3 DEF Open, Msgs
<1>7. ASSUME NEW m PROVE m \in Over' <=> m \in Over \/ m \in Open \ Open'
  BY <1>3, <1>4, <1>5 DEF Open, Over, Msgs
<1> QED BY <1>6, <1>7

\* What is lost on its way.
LEMMA LoseStep ==
    ASSUME EventInv, UNCHANGED <<saved, sent, got>>,
           \A m \in Msgs : \A q \in Procs : Sends(q, m)' => Sends(q, m),
           \A m \in Msgs : \A k \in Conns : Keeps(k, m)' => Keeps(k, m)
    PROVE  DeliveryStep
<1>1. Open' \subseteq Open /\ Over' = Over \cup (Open \ Open')
  BY FanOutsEnd
<1>2. Queued' \in [Msgs -> SUBSET Logins] /\ \A m \in Msgs : Queued'[m] \subseteq Queued[m]
  <2>1. \A m \in Msgs, l \in Logins : (Message(m) \in Buffered(l))' => Message(m) \in Buffered(l)
    BY BufferedKeeps
  <2> QED BY <2>1 DEF Queued, Msgs
<1>3. UNCHANGED <<sent, Shown>>
  BY DEF Shown, Msgs
<1>4. Delivery!Lose
  BY <1>1, <1>2, <1>3 DEF Delivery!Lose, Delivery!SomeEnd, Open, Over, Queued, Shown
<1> QED BY <1>4 DEF DeliveryStep, Delivery!Next

\* A message that is on its way to one login more, or to one less.
LEMMA OneQueue ==
    ASSUME NEW m \in Msgs, NEW l \in Logins, NEW add \in BOOLEAN,
           \A n \in Msgs, i \in Logins : (n # m \/ i # l) =>
              ((Message(n) \in Buffered(i))' <=> Message(n) \in Buffered(i)),
           (Message(m) \in Buffered(l))' <=> add
    PROVE  Queued' = [Queued EXCEPT ![m] = IF add THEN @ \cup {l} ELSE @ \ {l}]
<1> DEFINE New == [Queued EXCEPT ![m] = IF add THEN @ \cup {l} ELSE @ \ {l}]
<1>1. \A n \in Msgs : Queued[n] = {i \in Logins : Message(n) \in Buffered(i)}
  BY DEF Queued
<1>2. \A n \in Msgs : Queued'[n] = {i \in Logins : (Message(n) \in Buffered(i))'}
  BY DEF Queued, Msgs
<1>3. ASSUME NEW n \in Msgs PROVE Queued'[n] = New[n]
  <2>1. CASE n # m
    BY <1>1, <1>2, <2>1 DEF Queued
  <2>2. CASE n = m
    <3>1. New[m] = IF add THEN Queued[m] \cup {l} ELSE Queued[m] \ {l}
      BY DEF Queued
    <3> QED BY <1>1, <1>2, <2>2, <3>1
  <2> QED BY <2>1, <2>2
<1> QED BY <1>3 DEF Queued, Msgs


\* A message that leaves the hand of a writer comes to the page of its login.
LEMMA ShowStep ==
    ASSUME OnceInv, NEW k \in Conns, Receive(k)
    PROVE  DeliveryStep
<1>t. EventInv /\ TypeOK /\ WriterOK(k) /\ \A m \in Msgs : OnceOK(m)
  BY DEF OnceInv, MessageInv, EventInv
<1>1. PICK l \in Logins : l = LoginOf[k]
  BY NamesAssumption
<1>2. PICK e \in Events, c \in Conns : e = hand[k] /\ c = writerOf[k]
  BY <1>t DEF Receive, TypeOK, WriterOK
<1>3. /\ UNCHANGED <<saved, sent, step, event, todo, chan>>
      /\ hand'[k] = NoEvent /\ \A j \in Conns \ {k} : hand'[j] = hand[j]
      /\ got' = IF e.type = "message" THEN [got EXCEPT ![l] = Append(@, <<e.id, c>>)] ELSE got
  BY <1>t, <1>1, <1>2 DEF Receive, database, process, ghosts, TypeOK
<1>4. \A m \in Msgs : \A q \in Procs : Sends(q, m)' => Sends(q, m)
  BY <1>3 DEF Sends
<1>5. ASSUME NEW m \in Msgs
      PROVE  /\ \A j \in Conns \ {k} : Keeps(j, m)' <=> Keeps(j, m)
             /\ e # Message(m) => (Keeps(k, m)' <=> Keeps(k, m))
             /\ e = Message(m) => Keeps(k, m) /\ ~Keeps(k, m)'
  <2>1. \A j \in Conns : Holds(j, m)' <=> Holds(j, m)
    BY <1>3 DEF Holds, Message
  <2>2. \A j \in Conns \ {k} : InHand(j, m)' <=> InHand(j, m)
    BY <1>3 DEF InHand, Message
  <2>3. ~InHand(k, m)' /\ (InHand(k, m) <=> e = Message(m))
    <3>1. Message(m) # NoEvent
      BY Kinds
    <3> QED BY <1>2, <1>3, <3>1 DEF InHand, Message
  <2>4. ~(Holds(k, m) /\ InHand(k, m))
    BY <1>t DEF OnceOK
  <2> QED BY <2>1, <2>2, <2>3, <2>4 DEF Keeps
<1>6. CASE e.type # "message"
  <2>1. UNCHANGED got /\ \A m \in Msgs : e # Message(m)
    BY <1>3, <1>6, MessageIds
  <2> QED BY <1>t, <1>3, <1>4, <1>5, <2>1, LoseStep
<1>7. CASE e.type = "message"
  <2>1. PICK m \in Msgs : e = Message(m) /\ e.id = m
    BY <1>7, Kinds, MessageIds DEF Added, List
  <2>2. Message(m) \in Buffered(l) /\ ~(Message(m) \in Buffered(l))'
    <3>1. \A j \in Conns : LoginOf[j] = l /\ Keeps(j, m) => j = k
      <4>1. InHand(k, m)
        BY <1>2, <2>1 DEF InHand
      <4> QED BY <1>t, <1>1, <4>1 DEF OnceOK, Keeps
    <3> QED BY <1>1, <1>5, <2>1, <3>1, BufferedKeeps
  <2>3. \A n \in Msgs, i \in Logins : (n # m \/ i # l) =>
           ((Message(n) \in Buffered(i))' <=> Message(n) \in Buffered(i))
    BY <1>1, <1>5, <2>1, MessageIds, BufferedKeeps
  <2>4. Queued' = [Queued EXCEPT ![m] = @ \ {l}]
    BY <2>2, <2>3, OneQueue
  <2>5. got' = [got EXCEPT ![l] = Append(@, <<m, c>>)]
    BY <1>3, <1>7, <2>1
  <2>6. ASSUME NEW n \in Msgs, NEW i \in Logins
        PROVE  (\E h \in DOMAIN got'[i] : got'[i][h][1] = n)
               <=> (\E h \in DOMAIN got[i] : got[i][h][1] = n) \/ (n = m /\ i = l)
    <3>1. CASE i # l
      BY <1>t, <2>5, <3>1 DEF TypeOK
    <3>2. CASE i = l
      <4>1. got[l] \in Seq(Msgs \X Conns) /\ got'[l] = Append(got[l], <<m, c>>)
        BY <1>t, <2>5 DEF TypeOK
      <4>2. /\ DOMAIN got'[l] = DOMAIN got[l] \cup {Len(got[l]) + 1}
            /\ \A h \in DOMAIN got[l] : got'[l][h] = got[l][h]
            /\ got'[l][Len(got[l]) + 1][1] = m
        BY <4>1, AppendProperties
      <4> QED BY <3>2, <4>2
    <3> QED BY <3>1, <3>2
  <2>7. Shown' = [Shown EXCEPT ![m] = @ \cup {l}]
    <3>1. \A n \in Msgs : Shown'[n] = IF n = m THEN Shown[n] \cup {l} ELSE Shown[n]
      BY <2>6 DEF Shown, Msgs
    <3> QED BY <3>1 DEF Shown, Msgs
  <2>8. \A n : Fanning(n)' <=> Fanning(n)
    BY <1>3 DEF Fanning
  <2>9. UNCHANGED <<Open, Over>>
    BY <1>3, <2>8 DEF Open, Over, Msgs
  <2>10. l \in Queued[m]
    BY <2>2 DEF Queued
  <2>11. Delivery!Show(m, l)
    BY <1>3, <2>4, <2>7, <2>9, <2>10 DEF Delivery!Show, Open, Over, Queued, Shown
  <2> QED BY <2>11 DEF DeliveryStep, Delivery!Next
<1> QED BY <1>6, <1>7

\* A send offers the message to a login that it was not offered to.
LEMMA OfferStep ==
    ASSUME OnceInv, NEW p \in Procs, SendEvent(p)
    PROVE  DeliveryStep
<1>t. /\ TypeOK /\ ProcessTypes /\ ProcessOK(p) /\ EventInv
      /\ \A m \in Msgs : OnceOK(m) /\ MessageOK(m)
  BY TypeGroups DEF OnceInv, MessageInv, EventInv
<1>1. PICK k \in Conns : k = dest[p] /\ LoginOf[k] \in todo[p]
  BY <1>t DEF SendEvent, ProcessOK
<1>2. PICK e \in Events : e = event[p]
  BY <1>t, Kinds DEF SendEvent, ProcessTypes, Delivers
<1>3. /\ Delivers(p) /\ Continue(p, todo[p] \ {LoginOf[k]}) /\ UNCHANGED <<saved, got>>
      /\ sent' = [m \in Msgs |-> IF e = Message(m) THEN sent[m] \cup {LoginOf[k]} ELSE sent[m]]
      /\ chan'[k] = Append(chan[k], e) /\ \A j \in Conns \ {k} : chan'[j] = chan[j]
      /\ hand' = hand
  BY <1>t, <1>1, <1>2 DEF SendEvent, Delivers, database, writers, pages, TypeOK
<1>4. /\ \A q \in Procs \ {p} : step'[q] = step[q] /\ event'[q] = event[q] /\ todo'[q] = todo[q]
      /\ \/ step'[p] \in {"idle", "done"}
         \/ step'[p] = "looking" /\ event'[p] = event[p] /\ todo'[p] = todo[p] \ {LoginOf[k]}
  BY <1>t, <1>3, ContinueFacts
<1>5. \A m \in Msgs : \A q \in Procs : Sends(q, m)' => Sends(q, m)
  BY <1>3, <1>4 DEF Sends, Delivers
<1>6. ASSUME NEW m \in Msgs
      PROVE  /\ Keeps(k, m)' <=> Keeps(k, m) \/ e = Message(m)
             /\ \A j \in Conns \ {k} : Keeps(j, m)' <=> Keeps(j, m)
  <2>1. /\ Holds(k, m)' <=> Holds(k, m) \/ e = Message(m)
        /\ \A j \in Conns \ {k} : Holds(j, m)' <=> Holds(j, m)
    BY <1>t, <1>3, AppendHolds DEF TypeOK, Holds, Message
  <2>2. \A j \in Conns : InHand(j, m)' <=> InHand(j, m)
    BY <1>3 DEF InHand, Message
  <2> QED BY <2>1, <2>2 DEF Keeps
<1>7. CASE \A m \in Msgs : e # Message(m)
  <2>1. sent' = sent
    BY <1>t, <1>3, <1>7 DEF TypeOK
  <2> QED BY <1>t, <1>3, <1>5, <1>6, <1>7, <2>1, LoseStep
<1>8. ASSUME NEW m \in Msgs, e = Message(m) PROVE DeliveryStep
  <2>1. PICK l \in Logins : l = LoginOf[k]
    BY NamesAssumption
  <2>2. Sends(p, m)
    BY <1>2, <1>3, <1>8 DEF Sends, Delivers
  <2>3. m \in Open /\ l \notin sent[m]
    BY <1>t, <1>1, <1>3, <2>1, <2>2, FanningIsSending DEF OnceOK, Open
  <2>4. sent' = [sent EXCEPT ![m] = @ \cup {l}]
    <3>1. \A n \in Msgs : e = Message(n) <=> n = m
      BY <1>8, MessageIds
    <3>2. sent' = [n \in Msgs |-> IF n = m THEN sent[n] \cup {l} ELSE sent[n]]
      BY <1>3, <2>1, <3>1
    <3> QED BY <1>t, <3>2 DEF TypeOK
  <2>5. (Message(m) \in Buffered(l))'
    BY <1>6, <1>8, <2>1, BufferedKeeps
  <2>6. \A n \in Msgs, i \in Logins : (n # m \/ i # l) =>
           ((Message(n) \in Buffered(i))' <=> Message(n) \in Buffered(i))
    BY <1>6, <1>8, <2>1, MessageIds, BufferedKeeps
  <2>7. Queued' = [Queued EXCEPT ![m] = @ \cup {l}]
    BY <2>5, <2>6, OneQueue
  <2>8. Open' \subseteq Open /\ Over' = Over \cup (Open \ Open')
    BY <1>t, <1>3, <1>5, FanOutsEnd
  <2>9. Shown' = Shown
    BY <1>3 DEF Shown, Msgs
  <2>10. Delivery!Offer(m, l)
    BY <2>3, <2>4, <2>7, <2>8, <2>9
       DEF Delivery!Offer, Delivery!SomeEnd, Open, Over, Queued, Shown
  <2> QED BY <2>10 DEF DeliveryStep, Delivery!Next
<1> QED BY <1>7, <1>8

\* A message that is saved is one whose fan-out never began.
LEMMA PostStep ==
    ASSUME OnceInv, NEW p \in Procs, Posts(p)
    PROVE  DeliveryStep
<1>t. EventInv /\ TypeOK
  BY DEF OnceInv, MessageInv, EventInv
<1>1. /\ saved' = saved + 1 /\ step'[p] = "members" /\ event'[p] = Message(saved + 1)
      /\ step[p] \in {"off", "idle"} /\ saved \in Nat /\ saved < MaxMsgs
      /\ UNCHANGED <<sent, chan, hand, got>>
      /\ \A q \in Procs \ {p} : step'[q] = step[q] /\ event'[q] = event[q]
  BY <1>t, PostFacts
<1>2. PICK m \in Msgs : m = saved + 1
  BY <1>1, BoundsAssumption DEF Msgs
<1>3. \A n : Fanning(n) => n \in 1 .. saved
  BY <1>t, FanningIsSending, SentIsSaved
<1>4. ASSUME NEW n PROVE Fanning(n)' <=> Fanning(n) \/ n = m
  <2>1. Fanning(n)' <=> \E q \in Procs : Sends(q, n)'
    BY DEF Fanning, Sends, Message
  <2>2. Sends(p, n)' <=> n = m
    BY <1>1, <1>2, MessageIds DEF Sends, Message
  <2>3. ~Sends(p, n) /\ \A q \in Procs \ {p} : Sends(q, n)' <=> Sends(q, n)
    BY <1>1 DEF Sends, Message
  <2> QED BY <2>1, <2>2, <2>3, FanningIsSending
<1>5. Open' = Open \cup {m} /\ m \notin Open \cup Over
  BY <1>1, <1>2, <1>3, <1>4 DEF Open, Over, Msgs
<1>6. Over' = Over
  BY <1>1, <1>2, <1>4 DEF Over
<1>7. UNCHANGED <<sent, Queued, Shown>>
  BY <1>1 DEF Queued, Shown, Buffered, In, Msgs, Message
<1>8. Delivery!Post(m)
  BY <1>5, <1>6, <1>7 DEF Delivery!Post, Open, Over, Queued, Shown
<1> QED BY <1>8 DEF DeliveryStep, Delivery!Next

\* A message that a writer takes is on the same way.
LEMMA TakeStep ==
    ASSUME OnceInv, NEW k \in Conns, WriterTakes(k)
    PROVE  UNCHANGED DeliveryVars
<1>t. EventInv /\ \A m \in Msgs : OnceOK(m)
  BY DEF OnceInv, MessageInv, EventInv
<1>1. PICK c \in Conns : /\ c = writerOf[k]
                         /\ UNCHANGED <<saved, from, writerOf, step, event, todo, chats, got, sent, members, doubt>>
  BY <1>t, TakeFacts
<1>2. ASSUME NEW m \in Msgs, NEW l \in Logins
      PROVE  (Message(m) \in Buffered(l))' <=> Message(m) \in Buffered(l)
  BY <1>t, <1>1, TakeKeeps, BufferedKeeps
<1>3. UNCHANGED Queued
  BY <1>2 DEF Queued, Msgs
<1>4. \A n : Fanning(n)' <=> Fanning(n)
  BY <1>1 DEF Fanning, Message
<1>5. UNCHANGED <<Open, Over, Shown>>
  BY <1>1, <1>4 DEF Open, Over, Shown, Msgs
<1> QED BY <1>1, <1>3, <1>5 DEF DeliveryVars

\* OnceInv holds at first.
LEMMA OnceInitially == Init => OnceInv
<1> SUFFICES ASSUME Init, NEW m \in Msgs PROVE MessageOK(m) /\ OnceOK(m)
  BY EventInitially DEF OnceInv, MessageInv
<1>1. MessageOK(m)
  BY DEF Init, MessageOK, Sends
<1>2. OnceOK(m)
  BY DEF Init, OnceOK, Sends, Holds, InHand, Keeps, NoEvent, Message
<1> QED BY <1>1, <1>2

\* ChatEvents implements BestEffort: whatever sockets, registry and process do,
\* a message is offered to a login at most once and only during its fan-out, and
\* what was shown or lost does not come back.
THEOREM DeliveryIsBestEffort == Spec => KeepsBestEffort
<1>1. Init => OnceInv
  BY OnceInitially
<1>2. Init => Delivery!Init
  <2>1. SUFFICES ASSUME Init PROVE Delivery!Init
    OBVIOUS
  <2>2. \A m : ~Fanning(m)
    BY <2>1 DEF Init, Fanning
  <2>3. \A l \in Logins : Buffered(l) = {} /\ got[l] = <<>>
    BY <2>1 DEF Init, Buffered, In
  <2>4. saved = 0 /\ sent = [m \in Msgs |-> {}]
    BY <2>1 DEF Init
  <2> QED BY <2>2, <2>3, <2>4 DEF Delivery!Init
<1>3. ASSUME OnceInv, [Next]_vars PROVE [Delivery!Next]_DeliveryVars
  <2>1. EventInv
    BY <1>3 DEF OnceInv, MessageInv
  <2>2. CASE Calm /\ UNCHANGED got
    <3>1. \A m \in Msgs : \A k \in Conns :
             /\ Holds(k, m)' => Holds(k, m)
             /\ InHand(k, m)' => InHand(k, m)
             /\ Keeps(k, m)' => Holds(k, m)' \/ InHand(k, m)'
      BY <2>1, <2>2, ShrunkHolds, DroppedInHand DEF Calm, EventInv, TypeOK, Keeps
    <3>2. \A m \in Msgs : \A k \in Conns : Keeps(k, m)' => Keeps(k, m)
      BY <3>1 DEF Keeps
    <3> QED BY <2>1, <2>2, <3>2, LoseStep DEF Calm, DeliveryStep
  <2> QED BY <1>3, <2>1, <2>2, CalmSteps, ShowStep, OfferStep, PostStep, TakeStep
         DEF DeliveryStep
<1> QED BY <1>1, <1>2, <1>3, OnceInductive, PTL
        DEF Spec, KeepsBestEffort, Delivery!Spec, DeliveryVars, Open, Over, Queued, Shown

-----------------------------------------------------------------------------
(***************************************************************************)
(* The order in which a socket brings the messages of one process.         *)
(***************************************************************************)

\* A process works at the last message it saved.
LastSaved(p, m) ==
    Sends(p, m) => from[m].by = p /\ \A n \in 1 .. saved : from[n].by = p => n <= m

ShownWasSent(l) == \A i \in DOMAIN got[l] : got[l][i][1] \in 1 .. saved /\ l \in sent[got[l][i][1]]

InOrder(k) == \A m, n \in Msgs : \A h, i \in DOMAIN chan[k] :
    /\ h < i /\ chan[k][h] = Message(m) /\ chan[k][i] = Message(n)
    /\ from[m].by = from[n].by
    => m < n

\* What waits in the channel is later than what came by the socket.
AfterShown(k) == \A n \in Msgs : \A i \in DOMAIN got[LoginOf[k]] :
    /\ got[LoginOf[k]][i][2] = k /\ Holds(k, n)
    /\ from[got[LoginOf[k]][i][1]].by = from[n].by
    => got[LoginOf[k]][i][1] < n

\* It is later than what a writer has taken from the channel.
HandFirst(k) == \A c \in Conns : c = writerOf[k] => \A m, n \in Msgs :
    InHand(k, m) /\ Holds(c, n) /\ from[m].by = from[n].by => m < n

\* What the only writer of a socket has taken is later than what came by it.
HandAfterShown(k) == \A c \in Conns : c = writerOf[k] /\ HasOneWriter(c) =>
    \A n \in Msgs : \A i \in DOMAIN got[LoginOf[k]] :
        /\ got[LoginOf[k]][i][2] = c /\ InHand(k, n)
        /\ from[got[LoginOf[k]][i][1]].by = from[n].by
        => got[LoginOf[k]][i][1] < n

OrderOK ==
    /\ \A p \in Procs, m \in Msgs : LastSaved(p, m)
    /\ \A l \in Logins : ShownWasSent(l)
    /\ \A k \in Conns : InOrder(k) /\ AfterShown(k) /\ HandFirst(k) /\ HandAfterShown(k)
    /\ SenderOrderKept

OrderInv == OnceInv /\ OrderOK

\* What is on its way has been saved.
LEMMA HeldIsSaved ==
    ASSUME OnceInv, NEW k \in Conns, NEW m \in Msgs, Keeps(k, m)
    PROVE  m \in 1 .. saved
BY DEF OnceInv, OnceOK

\* Only a save writes into message.
LEMMA FromKept ==
    ASSUME EventInv, [Next]_vars
    PROVE  UNCHANGED <<saved, from>> \/ \E p \in Procs : Posts(p)
<1> USE DEF database
<1>1. ASSUME NEW k \in Conns,
             \/ Connect(k) \/ Disconnect(k) \/ ReaderStarts(k) \/ WriterStarts(k)
             \/ ReaderEnds(k) \/ ReadRace(k) \/ WriterEnds(k) \/ Forget(k)
             \/ WriterTakes(k) \/ Receive(k) \/ WriteFails(k)
      PROVE  UNCHANGED <<saved, from>>
  BY <1>1 DEF Connect, Disconnect, ReaderStarts, WriterStarts, ReaderEnds, ReadRace, WriterEnds, Forget,
              WriterTakes, Receive, WriteFails
<1>2. ASSUME NEW k \in Conns, Handle(k), ~SendMessage(k)
      PROVE  UNCHANGED <<saved, from>>
  BY <1>2 DEF Handle, NewChat, NewUserInChat, AddUserToChat, AddRefused, AddFails,
              AllUserChats, AllUserChatsFails
<1>3. ASSUME NEW k \in Conns, SendMessage(k) PROVE \E p \in Procs : Posts(p)
  BY <1>3, Senders
<1>4. ASSUME NEW r \in Requests, SendFileMessage(r) PROVE \E p \in Procs : Posts(p)
  BY <1>4, Senders
<1>5. ASSUME ProcessEnds PROVE UNCHANGED <<saved, from>>
  BY <1>5 DEF ProcessEnds
<1>6. ASSUME NEW p \in Procs, FanOut(p) PROVE UNCHANGED <<saved, from>>
  BY <1>5, <1>6 DEF FanOut, ChatMembers, LookupOffline, LookupOnline, SendEvent, SendTimeout, SendPanics
<1>7. ASSUME NEW c \in Chats, NEW l \in Logins, JoinsLate(c, l) PROVE UNCHANGED <<saved, from>>
  BY <1>7 DEF JoinsLate
<1>8. CASE UNCHANGED vars
  BY <1>8 DEF vars
<1> QED BY <1>1, <1>2, <1>3, <1>4, <1>5, <1>6, <1>7, <1>8 DEF Next, Restart, WriteRace

\* Who has a message in hand keeps his socket, and a socket that two writers
\* found keeps them.
LEMMA WritersKept ==
    ASSUME EventInv, [Next]_vars
    PROVE  /\ \A k \in Conns, m \in Msgs : InHand(k, m) => writerOf'[k] = writerOf[k]
           /\ \A c \in Conns : HasOneWriter(c)' => HasOneWriter(c)
<1>1. SameClients
  BY HandsKept
<1>2. \A m \in Msgs : Message(m) # NoEvent
  BY Kinds
<1>3. \A k \in Conns, m \in Msgs : InHand(k, m) => writerOf[k] \in Conns
  BY <1>2 DEF InHand, EventInv, WriterOK
<1> QED BY <1>1, <1>3, NamesAssumption DEF SameClients, HasOneWriter

\* The order of what is left in a channel.
LEMMA ShrunkOrder ==
    ASSUME NEW k \in Conns, chan[k] \in Seq(Events), Shrinks(k), UNCHANGED from, InOrder(k)
    PROVE  InOrder(k)'
<1>1. CASE chan'[k] = chan[k]
  BY <1>1 DEF InOrder, Message
<1>2. CASE chan'[k] = <<>>
  BY <1>2 DEF InOrder
<1>3. CASE chan[k] # <<>> /\ chan'[k] = Tail(chan[k])
  <2>1. \A i \in DOMAIN chan'[k] : /\ i \in Int /\ i + 1 \in DOMAIN chan[k]
                                   /\ chan'[k][i] = chan[k][i + 1]
    BY <1>3, HeadTailProperties
  <2>2. ASSUME NEW m \in Msgs, NEW n \in Msgs, NEW h \in DOMAIN chan'[k], NEW i \in DOMAIN chan'[k],
               h < i, chan'[k][h] = Message(m), chan'[k][i] = Message(n),
               from'[m].by = from'[n].by
        PROVE  m < n
    <3>1. h + 1 < i + 1
      BY <2>1, <2>2
    <3> QED BY <2>1, <2>2, <3>1 DEF InOrder
  <2> QED BY <2>2 DEF InOrder, Message
<1> QED BY <1>1, <1>2, <1>3 DEF Shrinks

\* A step that sends, takes, shows and saves nothing.
LEMMA OrderCalm ==
    ASSUME OrderInv, [Next]_vars, UNCHANGED <<saved, sent, from, got>>,
           \A k \in Conns : Shrinks(k) /\ Drops(k),
           \A m \in Msgs : \A q \in Procs : Sends(q, m)' => Sends(q, m)
    PROVE  OrderOK'
<1>t. TypeOK /\ EventInv /\ OrderOK
  BY DEF OrderInv, OnceInv, MessageInv, EventInv
<1>h. \A k \in Conns, m \in Msgs : (Holds(k, m)' => Holds(k, m)) /\ (InHand(k, m)' => InHand(k, m))
  BY <1>t, ShrunkHolds, DroppedInHand DEF TypeOK
<1>w. /\ \A k \in Conns, m \in Msgs : InHand(k, m) => writerOf'[k] = writerOf[k]
      /\ \A c \in Conns : HasOneWriter(c)' => HasOneWriter(c)
  BY <1>t, WritersKept
<1>1. ASSUME NEW p \in Procs, NEW m \in Msgs PROVE LastSaved(p, m)'
  BY <1>t, <1>1 DEF OrderOK, LastSaved, Sends, Message
<1>2. ASSUME NEW l \in Logins PROVE ShownWasSent(l)'
  BY <1>t, <1>2 DEF OrderOK, ShownWasSent
<1>3. ASSUME NEW k \in Conns PROVE InOrder(k)'
  BY <1>t, <1>3, ShrunkOrder DEF OrderOK, TypeOK
<1>4. ASSUME NEW k \in Conns PROVE AfterShown(k)'
  BY <1>t, <1>h DEF OrderOK, AfterShown, Holds, Message
<1>5. ASSUME NEW k \in Conns PROVE HandFirst(k)'
  <2>1. ASSUME NEW c \in Conns, c = writerOf'[k], NEW m \in Msgs, NEW n \in Msgs,
               InHand(k, m)', Holds(c, n)', from[m].by = from[n].by
        PROVE  m < n
    BY <1>t, <1>h, <1>w, <2>1 DEF OrderOK, HandFirst
  <2> QED BY <2>1 DEF HandFirst, InHand, Holds, Message
<1>6. ASSUME NEW k \in Conns PROVE HandAfterShown(k)'
  <2>1. ASSUME NEW c \in Conns, c = writerOf'[k], HasOneWriter(c)', NEW n \in Msgs, InHand(k, n)'
        PROVE  c = writerOf[k] /\ HasOneWriter(c) /\ InHand(k, n)
    BY <1>h, <1>w, <2>1
  <2> QED BY <1>t, <2>1 DEF OrderOK, HandAfterShown, InHand, HasOneWriter, Message
<1>7. SenderOrderKept'
  <2>1. \A l \in Logins : \A i \in DOMAIN got[l] : got[l][i][2] \in Conns
    BY <1>t DEF TypeOK
  <2> QED BY <1>t, <1>w, <2>1 DEF OrderOK, SenderOrderKept
<1> QED BY <1>1, <1>2, <1>3, <1>4, <1>5, <1>6, <1>7 DEF OrderOK

\* A writer takes what is later than what came by the socket, and earlier than
\* what waits.
LEMMA OrderTake ==
    ASSUME OrderInv, NEW k \in Conns, WriterTakes(k)
    PROVE  OrderOK'
<1>t. TypeOK /\ EventInv /\ OrderOK /\ \A m \in Msgs : OnceOK(m)
  BY DEF OrderInv, OnceInv, MessageInv, EventInv
<1>1. PICK c \in Conns, e \in Events :
         /\ c = writerOf[k] /\ LoginOf[c] = LoginOf[k]
         /\ hand'[k] = e /\ \A j \in Conns \ {k} : hand'[j] = hand[j]
         /\ chan[c] # <<>> /\ e = Head(chan[c]) /\ chan'[c] = Tail(chan[c])
         /\ \A j \in Conns \ {c} : chan'[j] = chan[j]
         /\ UNCHANGED <<saved, from, writerOf, step, event, todo, chats, got, sent, members, doubt>>
  BY <1>t, TakeFacts
<1>2. ASSUME NEW m \in Msgs
      PROVE  /\ \A j \in Conns : Holds(j, m)' => Holds(j, m)
             /\ \A j \in Conns \ {k} : InHand(j, m)' <=> InHand(j, m)
             /\ InHand(k, m)' => Holds(c, m)
  BY <1>t, <1>1, TakeMessage
<1>3. /\ \A i \in DOMAIN chan'[c] : i \in Nat \ {0} /\ i + 1 \in DOMAIN chan[c] /\ chan'[c][i] = chan[c][i + 1]
      /\ 1 \in DOMAIN chan[c] /\ chan[c][1] = e
  <2>1. chan[c] \in Seq(Events)
    BY <1>t DEF TypeOK
  <2> QED BY <1>1, <2>1, HeadTailProperties, EmptySeq
<1>4. ASSUME NEW p \in Procs, NEW i \in Msgs PROVE LastSaved(p, i)'
  BY <1>t, <1>1 DEF OrderOK, LastSaved, Sends, Message
<1>5. ASSUME NEW l \in Logins PROVE ShownWasSent(l)'
  BY <1>t, <1>1 DEF OrderOK, ShownWasSent
<1>6. ASSUME NEW j \in Conns PROVE InOrder(j)'
  BY <1>t, <1>1, ShrunkOrder DEF OrderOK, TypeOK, Shrinks
<1>7. ASSUME NEW j \in Conns PROVE AfterShown(j)'
  BY <1>t, <1>1, <1>2 DEF OrderOK, AfterShown, Holds, Message
<1>8. ASSUME NEW j \in Conns PROVE HandFirst(j)'
  <2>1. ASSUME NEW d \in Conns, d = writerOf[j], NEW m \in Msgs, NEW n \in Msgs,
               InHand(j, m)', Holds(d, n)', from[m].by = from[n].by
        PROVE  m < n
    <3>1. CASE j = k
      <4>1. PICK i \in DOMAIN chan'[c] : chan'[c][i] = Message(n)
        BY <1>1, <2>1, <3>1 DEF Holds, Message
      <4>2. chan[c][1] = Message(m) /\ chan[c][i + 1] = Message(n) /\ 1 < i + 1
        BY <1>1, <1>3, <2>1, <3>1, <4>1 DEF InHand, Message
      <4> QED BY <1>t, <1>3, <2>1, <4>1, <4>2 DEF OrderOK, InOrder
    <3>2. CASE j # k
      BY <1>t, <1>2, <2>1, <3>2 DEF OrderOK, HandFirst
    <3> QED BY <3>1, <3>2
  <2> QED BY <1>1, <2>1 DEF HandFirst, InHand, Holds, Message
<1>9. ASSUME NEW j \in Conns PROVE HandAfterShown(j)'
  <2>1. ASSUME NEW d \in Conns, d = writerOf[j], HasOneWriter(d), NEW n \in Msgs, InHand(j, n)',
               NEW i \in DOMAIN got[LoginOf[j]],
               got[LoginOf[j]][i][2] = d, from[got[LoginOf[j]][i][1]].by = from[n].by
        PROVE  got[LoginOf[j]][i][1] < n
    <3>1. CASE j = k
      <4>1. Holds(c, n) /\ d = c /\ AfterShown(c)
        BY <1>t, <1>1, <1>2, <2>1, <3>1 DEF OrderOK
      <4> QED BY <1>1, <2>1, <3>1, <4>1 DEF AfterShown
    <3>2. CASE j # k
      BY <1>t, <1>2, <2>1, <3>2 DEF OrderOK, HandAfterShown
    <3> QED BY <3>1, <3>2
  <2> QED BY <1>1, <2>1 DEF HandAfterShown, InHand, HasOneWriter, Message
<1>10. SenderOrderKept'
  BY <1>t, <1>1 DEF OrderOK, SenderOrderKept, HasOneWriter
<1> QED BY <1>4, <1>5, <1>6, <1>7, <1>8, <1>9, <1>10 DEF OrderOK

\* What comes by a socket is earlier than what waits, and later than what came by
\* it if it has one writer.
LEMMA OrderShow ==
    ASSUME OrderInv, [Next]_vars, NEW k \in Conns, Receive(k), UNCHANGED from
    PROVE  OrderOK'
<1>t. TypeOK /\ EventInv /\ WriterOK(k) /\ OnceInv /\ OrderOK
  BY DEF OrderInv, OnceInv, MessageInv, EventInv
<1>1. PICK l \in Logins : l = LoginOf[k]
  BY NamesAssumption
<1>2. PICK e \in Events, c \in Conns : e = hand[k] /\ c = writerOf[k] /\ LoginOf[c] = l
  BY <1>t, <1>1 DEF Receive, TypeOK, WriterOK
<1>3. /\ UNCHANGED <<saved, sent, step, event, todo, chan, writerOf>>
      /\ hand'[k] = NoEvent /\ \A j \in Conns \ {k} : hand'[j] = hand[j]
      /\ got' = IF e.type = "message" THEN [got EXCEPT ![l] = Append(@, <<e.id, c>>)] ELSE got
  BY <1>t, <1>1, <1>2 DEF Receive, database, process, ghosts, TypeOK
<1>4. CASE e.type # "message"
  <2>1. \A j \in Conns : Shrinks(j) /\ Drops(j)
    BY <1>3 DEF Shrinks, Drops
  <2>2. \A m \in Msgs : \A q \in Procs : Sends(q, m)' => Sends(q, m)
    BY <1>3 DEF Sends
  <2> QED BY <1>3, <1>4, <2>1, <2>2, OrderCalm
<1>5. CASE e.type = "message"
  <2>1. PICK m \in Msgs : e = Message(m) /\ e.id = m
    BY <1>5, Kinds, MessageIds DEF Added, List
  <2>2. /\ got'[l] = Append(got[l], <<m, c>>) /\ got[l] \in Seq(Msgs \X Conns)
        /\ \A i \in Logins \ {l} : got'[i] = got[i]
    BY <1>t, <1>3, <1>5, <2>1 DEF TypeOK
  <2> DEFINE n == Len(got[l])
  <2>3. /\ n \in Nat /\ DOMAIN got[l] = 1 .. n /\ DOMAIN got'[l] = 1 .. n + 1
        /\ \A i \in 1 .. n : got'[l][i] = got[l][i]
        /\ got'[l][n + 1][1] = m /\ got'[l][n + 1][2] = c
    BY <2>2, AppendProperties
  <2>4. InHand(k, m)
    BY <1>2, <2>1 DEF InHand
  <2>5. \A j \in Conns, b \in Msgs : Holds(j, b)' <=> Holds(j, b)
    BY <1>3 DEF Holds, Message
  <2>15. /\ \A j \in Conns : hand'[j] # NoEvent => hand'[j] = hand[j] /\ j # k
         /\ \A b \in Msgs : Message(b) # NoEvent
    BY <1>3, Kinds
  <2>14. writerOf' = writerOf /\ from' = from
    BY <1>3
  <2>6. m \in 1 .. saved /\ l \in sent[m]
    BY <1>t, <1>1, <2>4, HeldIsSaved DEF Keeps, OnceInv, OnceOK
  <2>7. ASSUME NEW p \in Procs, NEW i \in Msgs PROVE LastSaved(p, i)'
    BY <1>t, <1>3 DEF OrderOK, LastSaved, Sends, Message
  <2>8. ASSUME NEW i \in Logins PROVE ShownWasSent(i)'
    <3>1. CASE i = l
      BY <1>t, <1>3, <2>3, <2>6, <3>1 DEF OrderOK, ShownWasSent
    <3>2. CASE i # l
      BY <1>t, <1>3, <2>2, <3>2 DEF OrderOK, ShownWasSent
    <3> QED BY <3>1, <3>2
  <2>9. ASSUME NEW j \in Conns PROVE InOrder(j)'
    BY <1>t, <1>3 DEF OrderOK, InOrder, Message
  <2>10. ASSUME NEW j \in Conns PROVE AfterShown(j)'
    <3>1. CASE LoginOf[j] # l
      <4>1. PICK o \in Logins \ {l} : o = LoginOf[j]
        BY <3>1, NamesAssumption
      <4>2. got'[o] = got[o] /\ AfterShown(j)
        BY <1>t, <2>2 DEF OrderOK
      <4> QED BY <1>3, <2>5, <4>1, <4>2 DEF AfterShown, Holds, Message
    <3>2. CASE LoginOf[j] = l
      <4>1. ASSUME NEW b \in Msgs, NEW i \in DOMAIN got'[l], got'[l][i][2] = j, Holds(j, b),
                   from[got'[l][i][1]].by = from[b].by
            PROVE  got'[l][i][1] < b
        <5>1. CASE i \in 1 .. n
          <6>1. AfterShown(j) /\ got'[l][i] = got[l][i] /\ i \in DOMAIN got[l]
            BY <1>t, <2>3, <5>1 DEF OrderOK
          <6> QED BY <3>2, <4>1, <6>1 DEF AfterShown
        <5>2. CASE i = n + 1
          <6>1. j = c /\ got'[l][i][1] = m /\ from[m].by = from[b].by /\ HandFirst(k)
            BY <1>t, <2>3, <4>1, <5>2 DEF OrderOK
          <6> QED BY <1>2, <2>4, <4>1, <6>1 DEF HandFirst
        <5> QED BY <2>3, <5>1, <5>2
      <4> QED BY <1>3, <2>5, <3>2, <4>1 DEF AfterShown, Holds, Message
    <3> QED BY <3>1, <3>2
  <2>11. ASSUME NEW j \in Conns PROVE HandFirst(j)'
    <3>1. ASSUME NEW d \in Conns, d = writerOf[j], NEW a \in Msgs, NEW b \in Msgs,
                 InHand(j, a)', Holds(d, b)', from[a].by = from[b].by
          PROVE  a < b
      <4>1. InHand(j, a)
        BY <2>15, <3>1 DEF InHand, Message
      <4>2. Holds(d, b)
        BY <2>5, <3>1 DEF Holds, Message
      <4> QED BY <1>t, <3>1, <4>1, <4>2 DEF OrderOK, HandFirst
    <3> QED BY <2>14, <3>1 DEF HandFirst, InHand, Holds, Message
  <2>12. ASSUME NEW j \in Conns PROVE HandAfterShown(j)'
    <3>1. PICK o \in Logins : o = LoginOf[j]
      BY NamesAssumption
    <3>2. ASSUME NEW d \in Conns, d = writerOf[j], HasOneWriter(d), NEW b \in Msgs, InHand(j, b)',
                 NEW i \in DOMAIN got'[o], got'[o][i][2] = d, from[got'[o][i][1]].by = from[b].by
          PROVE  got'[o][i][1] < b
      <4>1. InHand(j, b) /\ d # c /\ HandAfterShown(j)
        <5>1. InHand(j, b) /\ j # k
          BY <2>15, <3>2 DEF InHand, Message
        <5>2. d # c
          BY <1>2, <3>2, <5>1 DEF HasOneWriter
        <5> QED BY <1>t, <5>1, <5>2 DEF OrderOK
      <4>2. i \in DOMAIN got[o] /\ got'[o][i] = got[o][i]
        <5>1. CASE o # l
          BY <2>2, <3>2, <5>1
        <5>2. CASE o = l
          <6>1. i # n + 1
            BY <2>3, <3>2, <4>1, <5>2
          <6> QED BY <2>3, <3>2, <5>2, <6>1
        <5> QED BY <5>1, <5>2
      <4> QED BY <3>1, <3>2, <4>1, <4>2 DEF HandAfterShown
    <3> QED BY <2>14, <3>1, <3>2 DEF HandAfterShown, InHand, HasOneWriter, Message
  <2>13. SenderOrderKept'
    <3>1. ASSUME NEW o \in Logins, NEW h \in DOMAIN got'[o], NEW i \in DOMAIN got'[o],
                 NEW d \in Conns, h < i, got'[o][h][2] = d, got'[o][i][2] = d, HasOneWriter(d),
                 from[got'[o][h][1]].by = from[got'[o][i][1]].by
          PROVE  got'[o][h][1] < got'[o][i][1]
      <4>3. CASE o # l
        BY <1>t, <2>2, <3>1, <4>3 DEF OrderOK, SenderOrderKept
      <4>4. CASE o = l /\ i \in 1 .. n
        <5>1. h \in 1 .. n
          BY <2>3, <3>1, <4>4
        <5> QED BY <1>t, <2>3, <3>1, <4>4, <5>1 DEF OrderOK, SenderOrderKept
      <4>5. CASE o = l /\ i = n + 1
        <5>1. h \in 1 .. n
          BY <2>3, <3>1, <4>5
        <5>2. /\ got'[o][h] = got[l][h] /\ h \in DOMAIN got[l]
              /\ got'[o][i][1] = m /\ got'[o][i][2] = c
          BY <2>3, <4>5, <5>1
        <5>3. got[l][h][2] = c /\ from[got[l][h][1]].by = from[m].by /\ d = c
          BY <3>1, <5>2
        <5>4. HandAfterShown(k)
          BY <1>t DEF OrderOK
        <5>5. got[l][h][1] < m
          BY <1>1, <1>2, <2>4, <3>1, <5>2, <5>3, <5>4 DEF HandAfterShown
        <5> QED BY <5>2, <5>5
      <4> QED BY <2>3, <4>3, <4>4, <4>5
    <3>2. ASSUME NEW o \in Logins, NEW h \in DOMAIN got'[o] PROVE got'[o][h][2] \in Conns
      <4>1. CASE o # l
        BY <1>t, <2>2, <3>2, <4>1 DEF TypeOK
      <4>2. CASE o = l
        <5>1. CASE h = n + 1
          BY <2>3, <4>2, <5>1
        <5>2. CASE h \in 1 .. n
          <6>1. got[l][h] \in Msgs \X Conns /\ got'[l][h] = got[l][h]
            BY <2>2, <2>3, <5>2, ElementOfSeq
          <6> QED BY <4>2, <6>1
        <5> QED BY <2>3, <3>2, <4>2, <5>1, <5>2
      <4> QED BY <4>1, <4>2
    <3> QED BY <2>14, <3>1, <3>2 DEF SenderOrderKept, HasOneWriter
  <2> QED BY <2>7, <2>8, <2>9, <2>10, <2>11, <2>12, <2>13 DEF OrderOK
<1> QED BY <1>4, <1>5

\* What is sent is the last that its sender saved, and new to the login.
LEMMA OrderOffer ==
    ASSUME OrderInv, NEW p \in Procs, SendEvent(p)
    PROVE  OrderOK'
<1>t. /\ TypeOK /\ ProcessTypes /\ ProcessOK(p) /\ EventInv /\ OnceInv /\ OrderOK
      /\ \A m \in Msgs : OnceOK(m)
  BY TypeGroups DEF OrderInv, OnceInv, MessageInv, EventInv
<1>1. PICK k \in Conns : k = dest[p] /\ LoginOf[k] \in todo[p]
  BY <1>t DEF SendEvent, ProcessOK
<1>2. PICK e \in Events : e = event[p]
  BY <1>t, Kinds DEF SendEvent, ProcessTypes, Delivers
<1>3. /\ Delivers(p) /\ Continue(p, todo[p] \ {LoginOf[k]}) /\ UNCHANGED <<saved, from, got>>
      /\ sent' = [m \in Msgs |-> IF e = Message(m) THEN sent[m] \cup {LoginOf[k]} ELSE sent[m]]
      /\ chan'[k] = Append(chan[k], e) /\ \A j \in Conns \ {k} : chan'[j] = chan[j]
      /\ UNCHANGED <<hand, writerOf>>
  BY <1>t, <1>1, <1>2 DEF SendEvent, Delivers, database, writers, pages, TypeOK
<1>4. /\ \A q \in Procs \ {p} : step'[q] = step[q] /\ event'[q] = event[q] /\ todo'[q] = todo[q]
      /\ \/ step'[p] \in {"idle", "done"}
         \/ step'[p] = "looking" /\ event'[p] = event[p] /\ todo'[p] = todo[p] \ {LoginOf[k]}
  BY <1>t, <1>3, ContinueFacts
<1>5. \A m \in Msgs : \A q \in Procs : Sends(q, m)' => Sends(q, m)
  BY <1>3, <1>4 DEF Sends, Delivers
<1>6. ASSUME NEW m \in Msgs, e = Message(m)
      PROVE  /\ LoginOf[k] \notin sent[m]
             /\ from[m].by = p /\ \A n \in 1 .. saved : from[n].by = p => n <= m
             /\ \A j \in Conns : LoginOf[j] = LoginOf[k] => ~Keeps(j, m)
  <2>1. Sends(p, m)
    BY <1>2, <1>3, <1>6 DEF Sends, Delivers
  <2> QED BY <1>t, <1>1, <1>3, <2>1 DEF OnceOK, OrderOK, LastSaved
<1> DEFINE n == Len(chan[k])
<1>7. /\ n \in Nat /\ DOMAIN chan[k] = 1 .. n /\ DOMAIN chan'[k] = 1 .. n + 1
      /\ \A i \in 1 .. n : chan'[k][i] = chan[k][i]
      /\ chan'[k][n + 1] = e
  BY <1>t, <1>3, AppendProperties DEF TypeOK
<1>8. InOrder(k) /\ AfterShown(k)
  BY <1>t DEF OrderOK
<1>14. ASSUME NEW m \in Msgs
       PROVE  /\ Holds(k, m)' <=> Holds(k, m) \/ e = Message(m)
              /\ \A j \in Conns \ {k} : Holds(j, m)' <=> Holds(j, m)
              /\ \A j \in Conns : InHand(j, m)' <=> InHand(j, m)
  BY <1>t, <1>3, AppendHolds DEF TypeOK, Holds, InHand, Message
<1>15. \A a \in Msgs, b \in Msgs : \A j \in Conns :
          /\ Keeps(j, a) /\ LoginOf[j] = LoginOf[k]
          /\ e = Message(b) /\ from[a].by = from[b].by
          => a < b
  <2>1. ASSUME NEW a \in Msgs, NEW b \in Msgs, NEW j \in Conns, Keeps(j, a), LoginOf[j] = LoginOf[k],
               e = Message(b), from[a].by = from[b].by
        PROVE  a < b
    <3>1. a \in 1 .. saved /\ a # b
      BY <1>t, <1>6, <2>1, HeldIsSaved
    <3>2. a <= b
      BY <1>6, <2>1, <3>1
    <3> QED BY <3>1, <3>2 DEF Msgs
  <2> QED BY <2>1
<1>9. ASSUME NEW q \in Procs, NEW m \in Msgs PROVE LastSaved(q, m)'
  BY <1>t, <1>3, <1>5 DEF OrderOK, LastSaved, Sends, Message
<1>10. ASSUME NEW l \in Logins PROVE ShownWasSent(l)'
  <2>1. \A m \in 1 .. saved : m \in Msgs
    BY <1>t, BoundsAssumption DEF TypeOK, Msgs
  <2>2. \A m \in 1 .. saved : sent[m] \subseteq sent'[m]
    BY <1>3, <2>1
  <2> QED BY <1>t, <1>3, <2>2 DEF OrderOK, ShownWasSent
<1>11. ASSUME NEW j \in Conns PROVE InOrder(j)'
  <2>1. CASE j # k
    BY <1>t, <1>3, <2>1 DEF OrderOK, InOrder, Message
  <2>2. CASE j = k
    <3>1. ASSUME NEW a \in Msgs, NEW b \in Msgs, NEW h \in DOMAIN chan'[k], NEW i \in DOMAIN chan'[k],
                 h < i, chan'[k][h] = Message(a), chan'[k][i] = Message(b), from'[a].by = from'[b].by
          PROVE  a < b
      <4>1. CASE i \in 1 .. n
        <5>1. h \in 1 .. n
          BY <1>7, <3>1, <4>1
        <5> QED BY <1>3, <1>7, <1>8, <3>1, <4>1, <5>1 DEF InOrder
      <4>2. CASE i = n + 1
        <5>1. h \in 1 .. n /\ e = Message(b)
          BY <1>7, <3>1, <4>2
        <5>2. Keeps(k, a)
          BY <1>7, <3>1, <5>1 DEF Holds, Keeps
        <5> QED BY <1>3, <1>15, <3>1, <5>1, <5>2
      <4> QED BY <1>7, <4>1, <4>2
    <3> QED BY <2>2, <3>1 DEF InOrder, Message
  <2> QED BY <2>1, <2>2
<1>12. ASSUME NEW j \in Conns PROVE AfterShown(j)'
  <2>1. AfterShown(j)
    BY <1>t DEF OrderOK
  <2>2. PICK l \in Logins : l = LoginOf[j]
    BY NamesAssumption
  <2>3. ASSUME NEW b \in Msgs, NEW i \in DOMAIN got[l],
               got[l][i][2] = j, Holds(j, b)', from[got[l][i][1]].by = from[b].by
        PROVE  got[l][i][1] < b
    <3>1. CASE Holds(j, b)
      BY <2>1, <2>2, <2>3, <3>1 DEF AfterShown
    <3>2. CASE j = k /\ e = Message(b)
      <4>1. PICK a \in 1 .. saved : a = got[l][i][1] /\ l \in sent[a]
        BY <1>t DEF OrderOK, ShownWasSent
      <4>2. a # b /\ a <= b
        BY <1>6, <2>2, <2>3, <3>2, <4>1
      <4> QED BY <4>1, <4>2 DEF Msgs
    <3> QED BY <1>14, <2>3, <3>1, <3>2
  <2> QED BY <1>3, <2>2, <2>3 DEF AfterShown, Holds, Message
<1>16. ASSUME NEW j \in Conns PROVE HandFirst(j)'
  <2>1. ASSUME NEW c \in Conns, c = writerOf[j], NEW a \in Msgs, NEW b \in Msgs,
               InHand(j, a)', Holds(c, b)', from[a].by = from[b].by
        PROVE  a < b
    <3>3. InHand(j, a)
      BY <1>14, <2>1
    <3>1. CASE Holds(c, b)
      BY <1>t, <2>1, <3>1, <3>3 DEF OrderOK, HandFirst
    <3>2. CASE c = k /\ e = Message(b)
      <4>1. LoginOf[j] = LoginOf[k]
        BY <1>t, <2>1, <3>2 DEF EventInv, WriterOK
      <4> QED BY <1>15, <2>1, <3>2, <3>3, <4>1 DEF Keeps
    <3> QED BY <1>14, <2>1, <3>1, <3>2
  <2>2. writerOf' = writerOf /\ from' = from
    BY <1>3
  <2> QED BY <2>1, <2>2 DEF HandFirst, Holds, InHand, Message
<1>17. ASSUME NEW j \in Conns PROVE HandAfterShown(j)'
  BY <1>t, <1>3 DEF OrderOK, HandAfterShown, HasOneWriter, InHand, Message
<1>13. SenderOrderKept'
  BY <1>t, <1>3 DEF OrderOK, SenderOrderKept, HasOneWriter
<1> QED BY <1>9, <1>10, <1>11, <1>12, <1>13, <1>16, <1>17 DEF OrderOK

\* A message that is saved is the last of its sender.
LEMMA OrderPost ==
    ASSUME OrderInv, NEW p \in Procs, Posts(p)
    PROVE  OrderOK'
<1>t. TypeOK /\ EventInv /\ OnceInv /\ OrderOK
  BY DEF OrderInv, OnceInv, MessageInv, EventInv
<1>1. /\ saved' = saved + 1 /\ step'[p] = "members" /\ event'[p] = Message(saved + 1)
      /\ saved \in Nat /\ saved < MaxMsgs /\ UNCHANGED <<sent, chan, hand, writerOf, got>>
      /\ \A q \in Procs \ {p} : step'[q] = step[q] /\ event'[q] = event[q]
  BY <1>t, PostFacts
<1>2. /\ \A n \in 1 .. saved : n \in Msgs /\ from'[n] = from[n]
      /\ saved + 1 \in Msgs /\ from'[saved + 1].by = p
  <2>1. saved + 1 \in Msgs /\ \A n \in 1 .. saved : n \in Msgs /\ n # saved + 1
    BY <1>1, BoundsAssumption DEF Msgs
  <2>2. PICK c \in Chats, l \in Logins :
           from' = [from EXCEPT ![saved + 1] = [chat |-> c, sender |-> l, by |-> p]]
    BY <1>t, PostFacts
  <2> QED BY <1>t, <2>1, <2>2 DEF TypeOK
<1>3. ASSUME NEW k \in Conns, NEW n \in Msgs, Keeps(k, n)
      PROVE  from'[n] = from[n]
  BY <1>t, <1>2, <1>3, HeldIsSaved
<1>10. \A k \in Conns, n \in Msgs : (Holds(k, n)' <=> Holds(k, n)) /\ (InHand(k, n)' <=> InHand(k, n))
  BY <1>1 DEF Holds, InHand, Message
<1>4. ASSUME NEW o \in Logins, NEW i \in DOMAIN got[o] PROVE from'[got[o][i][1]] = from[got[o][i][1]]
  BY <1>t, <1>2 DEF OrderOK, ShownWasSent
<1>5. ASSUME NEW q \in Procs, NEW m \in Msgs, Sends(q, m)'
      PROVE  from'[m].by = q /\ \A n \in 1 .. saved' : from'[n].by = q => n <= m
  <2>1. CASE q = p
    <3>1. m = saved + 1
      BY <1>1, <1>5, <2>1, MessageIds DEF Sends
    <3> QED BY <1>1, <1>2, <2>1, <3>1
  <2>2. CASE q # p
    <3>1. Sends(q, m)
      BY <1>1, <1>5, <2>2 DEF Sends
    <3>2. m \in 1 .. saved /\ from[m].by = q /\ \A n \in 1 .. saved : from[n].by = q => n <= m
      BY <1>t, <3>1, SentIsSaved DEF OrderOK, LastSaved
    <3>3. \A n \in 1 .. saved' : n \in 1 .. saved \/ n = saved + 1
      BY <1>1
    <3> QED BY <1>2, <2>2, <3>2, <3>3
  <2> QED BY <2>1, <2>2
<1>6. ASSUME NEW q \in Procs, NEW m \in Msgs PROVE LastSaved(q, m)'
  BY <1>5 DEF LastSaved, Sends, Message
<1>7. ASSUME NEW o \in Logins PROVE ShownWasSent(o)'
  BY <1>t, <1>1 DEF OrderOK, ShownWasSent
<1>8. ASSUME NEW k \in Conns PROVE InOrder(k)' /\ AfterShown(k)' /\ HandFirst(k)' /\ HandAfterShown(k)'
  <2>1. LoginOf[k] \in Logins
    BY NamesAssumption
  <2>2. InOrder(k)'
    <3>1. \A n \in Msgs : \A i \in DOMAIN chan[k] : chan[k][i] = Message(n) => from'[n] = from[n]
      BY <1>3 DEF Keeps, Holds
    <3> QED BY <1>t, <1>1, <3>1 DEF OrderOK, InOrder, Message
  <2>3. AfterShown(k)'
    <3>1. AfterShown(k) /\ \A n \in Msgs : Holds(k, n) => from'[n] = from[n]
      BY <1>t, <1>3 DEF OrderOK, Keeps
    <3> QED BY <1>1, <1>4, <1>10, <2>1, <3>1 DEF AfterShown, Holds, Message
  <2>4. HandFirst(k)'
    <3>1. HandFirst(k) /\ \A n \in Msgs : InHand(k, n) => from'[n] = from[n]
      BY <1>t, <1>3 DEF OrderOK, Keeps
    <3>2. \A c \in Conns, n \in Msgs : Holds(c, n) => from'[n] = from[n]
      BY <1>3 DEF Keeps
    <3>3. ASSUME NEW c \in Conns, c = writerOf[k], NEW a \in Msgs, NEW b \in Msgs,
                 InHand(k, a)', Holds(c, b)', from'[a].by = from'[b].by
          PROVE  a < b
      <4>1. InHand(k, a) /\ Holds(c, b)
        BY <1>10, <3>3
      <4> QED BY <3>1, <3>2, <3>3, <4>1 DEF HandFirst
    <3>4. writerOf' = writerOf
      BY <1>1
    <3> QED BY <3>3, <3>4 DEF HandFirst, InHand, Holds, Message
  <2>5. HandAfterShown(k)'
    <3>1. HandAfterShown(k) /\ \A n \in Msgs : InHand(k, n) => from'[n] = from[n]
      BY <1>t, <1>3 DEF OrderOK, Keeps
    <3> QED BY <1>1, <1>4, <1>10, <2>1, <3>1 DEF HandAfterShown, InHand, HasOneWriter, Message
  <2> QED BY <2>2, <2>3, <2>4, <2>5
<1>9. SenderOrderKept'
  BY <1>t, <1>1, <1>4 DEF OrderOK, SenderOrderKept, HasOneWriter
<1> QED BY <1>6, <1>7, <1>8, <1>9 DEF OrderOK

LEMMA OrderInitially == Init => OrderInv
<1> SUFFICES ASSUME Init PROVE OrderOK
  BY OnceInitially DEF OrderInv
<1>1. /\ \A p \in Procs, m \in Msgs : ~Sends(p, m)
      /\ \A l \in Logins : DOMAIN got[l] = {}
      /\ \A k \in Conns : DOMAIN chan[k] = {}
      /\ \A k \in Conns, m \in Msgs : ~Holds(k, m) /\ ~InHand(k, m)
  BY Kinds DEF Init, Sends, Holds, InHand
<1>2. \A p \in Procs, m \in Msgs : LastSaved(p, m)
  BY <1>1 DEF LastSaved
<1>3. (\A l \in Logins : ShownWasSent(l)) /\ SenderOrderKept
  BY <1>1 DEF ShownWasSent, SenderOrderKept
<1>4. \A k \in Conns : InOrder(k) /\ AfterShown(k) /\ HandFirst(k) /\ HandAfterShown(k)
  BY <1>1 DEF InOrder, AfterShown, HandFirst, HandAfterShown
<1> QED BY <1>2, <1>3, <1>4 DEF OrderOK

\* OrderInv is inductive.
LEMMA OrderInductive == OrderInv /\ [Next]_vars => OrderInv'
<1>1. SUFFICES ASSUME OrderInv, OnceInv, EventInv, [Next]_vars PROVE OrderOK'
  BY OnceInductive DEF OrderInv, OnceInv, MessageInv
<1>2. CASE \E p \in Procs : Posts(p)
  BY <1>1, <1>2, OrderPost
<1>3. CASE \E p \in Procs : SendEvent(p)
  BY <1>1, <1>3, OrderOffer
<1>4. CASE Calm /\ UNCHANGED <<saved, from>> /\ (UNCHANGED got \/ \E k \in Conns : Receive(k))
  <2>1. CASE UNCHANGED got
    BY <1>1, <1>4, <2>1, OrderCalm DEF Calm
  <2>2. CASE \E k \in Conns : Receive(k)
    BY <1>1, <1>4, <2>2, OrderShow
  <2> QED BY <1>4, <2>1, <2>2
<1>5. CASE \E k \in Conns : WriterTakes(k)
  BY <1>1, <1>5, OrderTake
<1> QED BY <1>1, <1>2, <1>3, <1>4, <1>5, CalmSteps, FromKept

\* Two messages that one process saved come by one socket in the order of their
\* ids, if one writer serves the socket, although their fan-outs, the channel and
\* the socket are shared with others.
THEOREM SenderOrder == Spec => []SenderOrderKept
<1>1. OrderInv => SenderOrderKept
  BY DEF OrderInv, OrderOK
<1> QED BY <1>1, OrderInitially, OrderInductive, PTL DEF Spec

-----------------------------------------------------------------------------
(***************************************************************************)
(* Which chats a page may lack.                                            *)
(***************************************************************************)
OnItsWay(l) == Held(l) \cup Buffered(l)

\* The page of l shows the chat or is about to, and no list on its way takes it
\* off the page.
Explained(l, c) ==
    /\ ~OldListComes(c, l)
    /\ c \in chats[l] \/ \E e \in OnItsWay(l) : c \in Carries(e, l)

DoubtOK(l) == \A c \in Of(l) \ doubt[l] : Explained(l, c)

DoubtInv == EventInv /\ \A l \in Logins : DoubtOK(l)

\* What a socket's channel and its writer have.
With(k) == In(k) \cup ({hand[k]} \ {NoEvent})

HoldsFor(q, l) == Delivers(q) /\ l \in todo[q]

\* What is on its way to a page is with a process or with a socket of its login.
LEMMA WhereItIs ==
    ASSUME NEW l, NEW e
    PROVE  /\ e \in OnItsWay(l) <=>
                 \/ \E q \in Procs : HoldsFor(q, l) /\ e = event[q]
                 \/ \E k \in Conns : LoginOf[k] = l /\ e \in With(k)
           /\ e \in OnItsWay(l)' <=>
                 \/ \E q \in Procs : HoldsFor(q, l)' /\ e = event'[q]
                 \/ \E k \in Conns : LoginOf[k] = l /\ e \in With(k)'
<1>1. e \in Held(l) <=> \E q \in Procs : HoldsFor(q, l) /\ e = event[q]
  BY DEF Held, HoldsFor, Delivers
<1>2. e \in Held(l)' <=> \E q \in Procs : HoldsFor(q, l)' /\ e = event'[q]
  BY DEF Held, HoldsFor, Delivers
<1>3. e \in Buffered(l) <=> \E k \in Conns : LoginOf[k] = l /\ e \in With(k)
  BY DEF Buffered, With
<1>4. e \in Buffered(l)' <=> \E k \in Conns : LoginOf[k] = l /\ e \in With(k)'
  BY DEF Buffered, With
<1> QED BY <1>1, <1>2, <1>3, <1>4 DEF OnItsWay

\* With its writer as it was, a socket has what its channel has.
LEMMA WithKept ==
    ASSUME NEW k \in Conns, hand'[k] = hand[k]
    PROVE  /\ In(k)' = In(k) => With(k)' = With(k)
           /\ In(k)' = {} => With(k)' \subseteq With(k) /\ With(k) \subseteq With(k)' \cup In(k)
           /\ \A e : In(k)' = In(k) \cup {e} => With(k)' = With(k) \cup {e}
BY DEF With, NoEvent

\* What a step on a channel leaves in it.
LEMMA ChannelAfter ==
    ASSUME NEW k \in Conns, chan[k] \in Seq(Events)
    PROVE  /\ chan'[k] = chan[k] => In(k)' = In(k)
           /\ chan'[k] = <<>> => In(k)' = {}
           /\ chan[k] # <<>> /\ chan'[k] = Tail(chan[k]) =>
                 /\ In(k)' \subseteq In(k)
                 /\ In(k) \subseteq In(k)' \cup {Head(chan[k])}
                 /\ Head(chan[k]) \in In(k)
           /\ \A e \in Events : chan'[k] = Append(chan[k], e) =>
                 In(k)' = In(k) \cup {e}
<1>1. chan'[k] = chan[k] => In(k)' = In(k)
  BY DEF In
<1>2. chan'[k] = <<>> => In(k)' = {}
  BY DEF In
<1>3. ASSUME chan[k] # <<>>, chan'[k] = Tail(chan[k])
      PROVE  /\ In(k)' \subseteq In(k)
             /\ In(k) \subseteq In(k)' \cup {Head(chan[k])}
             /\ Head(chan[k]) \in In(k)
  <2>1. /\ Len(chan[k]) \in Nat \ {0} /\ DOMAIN chan[k] = 1 .. Len(chan[k])
        /\ DOMAIN chan'[k] = 1 .. Len(chan[k]) - 1
        /\ \A i \in 1 .. Len(chan[k]) - 1 : chan'[k][i] = chan[k][i + 1]
        /\ Head(chan[k]) = chan[k][1]
    BY <1>3, HeadTailProperties, LenProperties
  <2>2. ASSUME NEW i \in DOMAIN chan'[k] PROVE chan'[k][i] \in In(k)
    <3>1. i + 1 \in DOMAIN chan[k] /\ chan'[k][i] = chan[k][i + 1]
      BY <2>1
    <3> QED BY <3>1 DEF In
  <2>3. ASSUME NEW i \in DOMAIN chan[k] PROVE chan[k][i] \in In(k)' \cup {Head(chan[k])}
    <3>1. CASE i = 1
      BY <2>1, <3>1
    <3>2. CASE i # 1
      <4>1. i - 1 \in DOMAIN chan'[k] /\ chan'[k][i - 1] = chan[k][i]
        BY <2>1, <3>2
      <4> QED BY <4>1 DEF In
    <3> QED BY <3>1, <3>2
  <2>4. Head(chan[k]) \in In(k)
    BY <2>1 DEF In
  <2> QED BY <2>2, <2>3, <2>4 DEF In
<1>4. ASSUME NEW e \in Events, chan'[k] = Append(chan[k], e)
      PROVE  In(k)' = In(k) \cup {e}
  <2>1. /\ Len(chan[k]) \in Nat /\ DOMAIN chan[k] = 1 .. Len(chan[k])
        /\ DOMAIN chan'[k] = 1 .. Len(chan[k]) + 1
        /\ \A i \in 1 .. Len(chan[k]) : chan'[k][i] = chan[k][i]
        /\ chan'[k][Len(chan[k]) + 1] = e
    BY <1>4, AppendProperties, LenProperties
  <2>2. ASSUME NEW i \in DOMAIN chan'[k] PROVE chan'[k][i] \in In(k) \cup {e}
    BY <2>1 DEF In
  <2>3. ASSUME NEW i \in DOMAIN chan[k] PROVE chan[k][i] \in In(k)'
    BY <2>1 DEF In
  <2>4. e \in In(k)'
    BY <2>1 DEF In
  <2> QED BY <2>2, <2>3, <2>4 DEF In
<1> QED BY <1>1, <1>2, <1>3, <1>4

\* A step that brings no new list, and doubts the chats of what it loses.
LEMMA DoubtKept ==
    ASSUME NEW l \in Logins, DoubtOK(l), Of(l)' = Of(l), chats'[l] = chats[l], doubt[l] \subseteq doubt'[l],
           \A e \in OnItsWay(l)' : e \in OnItsWay(l) \/ e.type # "chats",
           \A e \in OnItsWay(l) : e \in OnItsWay(l)' \/ Carries(e, l) \subseteq doubt'[l]
    PROVE  DoubtOK(l)'
<1> SUFFICES ASSUME NEW c \in Of(l)', c \notin doubt'[l] PROVE Explained(l, c)'
  BY DEF DoubtOK
<1>1. Explained(l, c)
  BY DEF DoubtOK
<1>2. \A e \in OnItsWay(l)' : e.type = "chats" => c \in e.chats
  BY <1>1 DEF Explained, OldListComes, OnItsWay
<1>3. ~OldListComes(c, l)'
  BY <1>2 DEF OldListComes, OnItsWay
<1>4. c \in chats'[l] \/ \E e \in OnItsWay(l)' : c \in Carries(e, l)
  BY <1>1 DEF Explained
<1> QED BY <1>3, <1>4 DEF Explained, Carries

\* The same for a step of one process, seen from one login.
LEMMA DoubtProcess ==
    ASSUME NEW l \in Logins, DoubtOK(l), Of(l)' = Of(l), chats'[l] = chats[l], doubt[l] \subseteq doubt'[l],
           UNCHANGED <<chan, hand>>,
           NEW p \in Procs,
           \A q \in Procs \ {p} : step'[q] = step[q] /\ event'[q] = event[q] /\ todo'[q] = todo[q],
           HoldsFor(p, l)' => event'[p].type # "chats" \/ (HoldsFor(p, l) /\ event'[p] = event[p]),
           HoldsFor(p, l) => \/ HoldsFor(p, l)' /\ event'[p] = event[p]
                             \/ Carries(event[p], l) \subseteq doubt'[l]
    PROVE  DoubtOK(l)'
<1>1. \A k \in Conns : With(k)' = With(k)
  BY DEF With, In
<1>2. \A q \in Procs \ {p} : (HoldsFor(q, l)' <=> HoldsFor(q, l)) /\ event'[q] = event[q]
  BY DEF HoldsFor, Delivers
<1>3. \A e \in OnItsWay(l)' : e \in OnItsWay(l) \/ e.type # "chats"
  BY <1>1, <1>2, WhereItIs
<1>4. \A e \in OnItsWay(l) : e \in OnItsWay(l)' \/ Carries(e, l) \subseteq doubt'[l]
  BY <1>1, <1>2, WhereItIs
<1> QED BY <1>3, <1>4, DoubtKept

\* A user who joins is told of it, and an older list on its way is doubted.
LEMMA DoubtAdd ==
    ASSUME EventInv, EventInv', NEW l \in Logins, DoubtOK(l), NEW k \in Conns, AddUserToChat(k)
    PROVE  DoubtOK(l)'
<1>1. PICK c \in Chats, h \in Logins : event[k] = Added(c, h)
  BY DEF AddUserToChat, EventInv, ProcessOK, Procs
<1>2. event[k].chat = c /\ event[k].login = h /\ event[k].type = "added" /\ k \in Procs
  BY <1>1 DEF Added, Procs
<1>3. /\ step[k] = "joining" /\ members' = [members EXCEPT ![c] = @ \cup {h}]
      /\ Deliver(k, event[k], {h}) /\ UNCHANGED <<chan, hand, chats>>
      /\ doubt' = IF OldListComes(c, h) THEN [doubt EXCEPT ![h] = @ \cup {c}] ELSE doubt
  BY <1>2 DEF AddUserToChat, sockets, writers, pages
<1>4. /\ step'[k] = "looking" /\ event'[k] = event[k] /\ todo'[k] = {h}
      /\ \A q \in Procs \ {k} : step'[q] = step[q] /\ event'[q] = event[q] /\ todo'[q] = todo[q]
  BY <1>2, <1>3 DEF Deliver, EventInv, TypeOK
<1>5. ~HoldsFor(k, l) /\ (HoldsFor(k, l)' <=> l = h)
  BY <1>3, <1>4 DEF HoldsFor, Delivers
<1>6. doubt[l] \subseteq doubt'[l]
  BY <1>3 DEF EventInv, TypeOK
<1>7. \A d \in Chats : d \in Of(l)' => d \in Of(l) \/ (d = c /\ l = h)
  BY <1>3 DEF Of, EventInv, TypeOK
<1>8. CASE l # h
  <2>1. Of(l)' = Of(l)
    BY <1>3, <1>8 DEF Of, EventInv, TypeOK
  <2> QED BY <1>2, <1>3, <1>4, <1>5, <1>6, <1>8, <2>1, DoubtProcess
<1>9. CASE l = h
  <2>1. \A j \in Conns : With(j)' = With(j)
    BY <1>3 DEF With, In
  <2>2. \A q \in Procs \ {k} : (HoldsFor(q, l)' <=> HoldsFor(q, l)) /\ event'[q] = event[q]
    BY <1>4 DEF HoldsFor, Delivers
  <2>3. \A e : e \in OnItsWay(l)' <=> e \in OnItsWay(l) \/ e = event[k]
    BY <1>2, <1>4, <1>5, <1>9, <2>1, <2>2, WhereItIs
  <2>4. \A d : OldListComes(d, l)' => OldListComes(d, l)
    BY <1>2, <2>3 DEF OldListComes, OnItsWay
  <2>5. ASSUME NEW d \in Of(l)', d \notin doubt'[l] PROVE Explained(l, d)'
    <3>1. CASE d = c
      <4>1. ~OldListComes(c, h)
        BY <1>3, <1>9, <2>5, <3>1 DEF EventInv, TypeOK
      <4>2. c \in Carries(event[k], l) /\ event[k] \in OnItsWay(l)'
        BY <1>2, <1>9, <2>3 DEF Carries
      <4> QED BY <1>9, <2>4, <3>1, <4>1, <4>2 DEF Explained, Carries
    <3>2. CASE d # c
      <4>1. d \in Of(l) /\ d \notin doubt[l]
        BY <1>6, <1>7, <2>5, <3>2 DEF Of
      <4>2. Explained(l, d)
        BY <4>1 DEF DoubtOK
      <4>3. d \in chats'[l] \/ \E e \in OnItsWay(l)' : d \in Carries(e, l)
        BY <1>3, <2>3, <4>2 DEF Explained
      <4> QED BY <2>4, <4>2, <4>3 DEF Explained, Carries
    <3> QED BY <3>1, <3>2
  <2> QED BY <2>5 DEF DoubtOK
<1> QED BY <1>8, <1>9

\* A new list clears the doubts about the chats it has, unless an older list that
\* lacks them comes after it.
LEMMA DoubtList ==
    ASSUME EventInv, NEW l \in Logins, DoubtOK(l), NEW k \in Conns, AllUserChats(k)
    PROVE  DoubtOK(l)'
<1> DEFINE h == LoginOf[k]
<1>1. PICK S \in SUBSET Of(h) :
         /\ Deliver(k, List(S), {h})
         /\ doubt' = [doubt EXCEPT ![h] =
               {c \in @ \cup (Of(h) \ S) : c \notin S \/ OldListComes(c, h)}]
  BY DEF AllUserChats
<1>2. k \in Procs /\ h \in Logins /\ step[k] = "idle" /\ UNCHANGED <<members, chan, hand, chats>>
  BY NamesAssumption DEF AllUserChats, Procs, database, writers, pages
<1>3. /\ step'[k] = "looking" /\ event'[k] = List(S) /\ todo'[k] = {h}
      /\ \A q \in Procs \ {k} : step'[q] = step[q] /\ event'[q] = event[q] /\ todo'[q] = todo[q]
  BY <1>1, <1>2 DEF Deliver, EventInv, TypeOK
<1>4. ~HoldsFor(k, l) /\ (HoldsFor(k, l)' <=> l = h)
  BY <1>2, <1>3 DEF HoldsFor, Delivers
<1>5. Of(l)' = Of(l)
  BY <1>2 DEF Of
<1>6. List(S).type = "chats" /\ List(S).chats = S
  BY DEF List
<1>7. CASE l # h
  <2>1. doubt'[l] = doubt[l]
    BY <1>1, <1>7 DEF EventInv, TypeOK
  <2> QED BY <1>2, <1>3, <1>4, <1>5, <1>7, <2>1, DoubtProcess
<1>8. CASE l = h
  <2>1. \A j \in Conns : With(j)' = With(j)
    BY <1>2 DEF With, In
  <2>2. \A q \in Procs \ {k} : (HoldsFor(q, l)' <=> HoldsFor(q, l)) /\ event'[q] = event[q]
    BY <1>3 DEF HoldsFor, Delivers
  <2>3. \A e : e \in OnItsWay(l)' <=> e \in OnItsWay(l) \/ e = List(S)
    BY <1>2, <1>3, <1>4, <1>8, <2>1, <2>2, WhereItIs
  <2>4. ASSUME NEW c \in Of(l), c \notin doubt'[l] PROVE Explained(l, c)'
    <3>1. doubt'[l] = {d \in doubt[l] \cup (Of(l) \ S) : d \notin S \/ OldListComes(d, l)}
      BY <1>1, <1>8 DEF EventInv, TypeOK
    <3>2. c \in S
      BY <2>4, <3>1
    <3>3. ~OldListComes(c, l)
      <4>1. CASE c \in doubt[l]
        BY <2>4, <3>1, <4>1
      <4>2. CASE c \notin doubt[l]
        BY <2>4, <4>2 DEF DoubtOK, Explained
      <4> QED BY <4>1, <4>2
    <3>4. ~OldListComes(c, l)'
      BY <1>6, <2>3, <3>2, <3>3 DEF OldListComes, OnItsWay
    <3>5. c \in Chats /\ List(S) \in OnItsWay(l)'
      BY <2>3, <2>4 DEF Of
    <3>6. c \in Carries(List(S), l)
      BY <1>6, <3>2, <3>5 DEF Carries
    <3> QED BY <3>4, <3>5, <3>6 DEF Explained, Carries
  <2> QED BY <1>5, <2>4 DEF DoubtOK
<1> QED BY <1>7, <1>8

\* What leaves the hand of a writer is shown, or doubted.
LEMMA DoubtLeaves ==
    ASSUME EventInv, NEW l \in Logins, DoubtOK(l), NEW k \in Conns, Receive(k) \/ WriteFails(k)
    PROVE  DoubtOK(l)'
<1> DEFINE e == hand[k]
<1>1. /\ e # NoEvent /\ hand' = [hand EXCEPT ![k] = NoEvent] /\ UNCHANGED <<members, chan, step, event, todo>>
      /\ hand \in [Conns -> Events \cup {NoEvent}] /\ Of(l)' = Of(l)
  BY DEF Receive, WriteFails, database, process, EventInv, TypeOK, Of
<1>2. \A j \in Conns \ {k} : With(j)' = With(j)
  BY <1>1 DEF With, In
<1>3. With(k)' \subseteq With(k) /\ With(k) \subseteq With(k)' \cup {e} /\ e \in With(k) /\ e \in Events
  <2>1. hand'[k] = NoEvent
    BY <1>1
  <2> QED BY <1>1, <2>1 DEF With, In
<1>4. \A q \in Procs : (HoldsFor(q, l)' <=> HoldsFor(q, l)) /\ event'[q] = event[q]
  BY <1>1 DEF HoldsFor, Delivers
<1>5. \A f \in OnItsWay(l)' : f \in OnItsWay(l)
  BY <1>2, <1>3, <1>4, WhereItIs
<1>6. \A f \in OnItsWay(l) : f \in OnItsWay(l)' \/ (f = e /\ l = LoginOf[k])
  BY <1>2, <1>3, <1>4, WhereItIs
<1>w. e \in Events
  BY <1>3
<1>7. CASE WriteFails(k)
  <2>1. doubt' = [doubt EXCEPT ![LoginOf[k]] = @ \cup UNION {Carries(f, LoginOf[k]) : f \in {e}}]
    BY <1>7 DEF WriteFails, Doubted
  <2>2. doubt[l] \subseteq doubt'[l] /\ (l = LoginOf[k] => Carries(e, l) \subseteq doubt'[l])
    BY <2>1 DEF EventInv, TypeOK
  <2>3. UNCHANGED chats
    BY <1>7 DEF WriteFails, pages
  <2> QED BY <1>1, <1>5, <1>6, <2>2, <2>3, DoubtKept
<1>8. CASE Receive(k) /\ l # LoginOf[k]
  <2>1. UNCHANGED doubt /\ chats'[l] = chats[l]
    BY <1>8 DEF Receive, ghosts, EventInv, TypeOK
  <2> QED BY <1>1, <1>5, <1>6, <1>8, <2>1, DoubtKept
<1>9. CASE Receive(k) /\ l = LoginOf[k]
  <2>1. UNCHANGED doubt /\ chats'[l] = IF e.type = "chats" THEN e.chats ELSE chats[l] \cup Carries(e, l)
    BY <1>9 DEF Receive, ghosts, EventInv, TypeOK, ShownChats
  <2>2. e \in OnItsWay(l)
    BY <1>3, <1>9, WhereItIs
  <2>3. ASSUME NEW c \in Of(l), c \notin doubt[l] PROVE Explained(l, c)'
    <3>1. Explained(l, c)
      BY <2>3 DEF DoubtOK
    <3>2. ~OldListComes(c, l)'
      BY <1>5, <3>1 DEF Explained, OldListComes, OnItsWay
    <3>3. e.type = "chats" => c \in e.chats
      BY <2>2, <3>1 DEF Explained, OldListComes, OnItsWay
    <3>4. c \in chats'[l] \/ \E f \in OnItsWay(l)' : c \in Carries(f, l)
      BY <1>6, <2>1, <3>1, <3>3 DEF Explained
    <3> QED BY <3>2, <3>4 DEF Explained, Carries
  <2> QED BY <1>1, <2>1, <2>3 DEF DoubtOK
<1> QED BY <1>7, <1>8, <1>9

\* What a writer takes is on the same way.
LEMMA DoubtTake ==
    ASSUME EventInv, NEW l \in Logins, DoubtOK(l), NEW k \in Conns, WriterTakes(k)
    PROVE  DoubtOK(l)'
<1>1. PICK c \in Conns, e \in Events :
         /\ LoginOf[c] = LoginOf[k]
         /\ hand[k] = NoEvent /\ hand'[k] = e /\ \A j \in Conns \ {k} : hand'[j] = hand[j]
         /\ chan[c] # <<>> /\ e = Head(chan[c]) /\ chan'[c] = Tail(chan[c])
         /\ \A j \in Conns \ {c} : chan'[j] = chan[j]
         /\ UNCHANGED <<saved, from, writerOf, step, event, todo, chats, got, sent, members, doubt>>
  BY TakeFacts
<1>2. /\ In(c)' \subseteq In(c) /\ In(c) \subseteq In(c)' \cup {e} /\ e \in In(c)
      /\ \A j \in Conns \ {c} : In(j)' = In(j)
  <2>1. chan[c] \in Seq(Events)
    BY DEF EventInv, TypeOK
  <2>2. \A j \in Conns \ {c} : In(j)' = In(j)
    BY <1>1 DEF In
  <2> QED BY <1>1, <2>1, <2>2, ChannelAfter
<1>3. e # NoEvent
  BY Kinds
<1>4. /\ With(k)' = In(k)' \cup {e} /\ With(k) = In(k)
      /\ \A j \in Conns \ {k} : With(j)' = In(j)' \cup ({hand[j]} \ {NoEvent})
  <2>1. With(k)' = In(k)' \cup {e} /\ With(k) = In(k)
    BY <1>1, <1>3 DEF With, NoEvent
  <2>2. ASSUME NEW j \in Conns \ {k} PROVE With(j)' = In(j)' \cup ({hand[j]} \ {NoEvent})
    BY <1>1, <2>2 DEF With, NoEvent
  <2> QED BY <2>1, <2>2
<1>5. ASSUME NEW j \in Conns, LoginOf[j] = l, NEW f \in With(j)'
      PROVE  \E i \in Conns : LoginOf[i] = l /\ f \in With(i)
  <2>1. CASE f \in In(j)'
    BY <1>2, <1>5, <2>1 DEF With
  <2>2. CASE j = k /\ f = e
    BY <1>1, <1>2, <1>5, <2>2 DEF With
  <2>3. CASE j # k /\ f \in {hand[j]} \ {NoEvent}
    BY <1>5, <2>3 DEF With
  <2> QED BY <1>4, <1>5, <2>1, <2>2, <2>3
<1>6. ASSUME NEW j \in Conns, LoginOf[j] = l, NEW f \in With(j)
      PROVE  \E i \in Conns : LoginOf[i] = l /\ f \in With(i)'
  <2>1. CASE f \in In(j)'
    BY <1>4, <1>6, <2>1
  <2>2. CASE f = e /\ j = c
    BY <1>1, <1>4, <1>6, <2>2
  <2>3. CASE j # k /\ f \in {hand[j]} \ {NoEvent}
    BY <1>4, <1>6, <2>3
  <2> QED BY <1>1, <1>2, <1>6, <2>1, <2>2, <2>3 DEF With
<1>7. \A q \in Procs : (HoldsFor(q, l)' <=> HoldsFor(q, l)) /\ event'[q] = event[q]
  BY <1>1 DEF HoldsFor, Delivers
<1>8. ASSUME NEW f \in OnItsWay(l)' PROVE f \in OnItsWay(l)
  BY <1>5, <1>7, WhereItIs
<1>9. ASSUME NEW f \in OnItsWay(l) PROVE f \in OnItsWay(l)'
  BY <1>6, <1>7, WhereItIs
<1>10. Of(l)' = Of(l)
  BY <1>1 DEF Of
<1> QED BY <1>1, <1>8, <1>9, <1>10, DoubtKept

\* What nobody will take is doubted.
LEMMA DoubtForget ==
    ASSUME EventInv, NEW l \in Logins, DoubtOK(l), NEW k \in Conns, Forget(k)
    PROVE  DoubtOK(l)'
<1>1. /\ chan' = [chan EXCEPT ![k] = <<>>] /\ chan \in [Conns -> Seq(Events)]
      /\ doubt' = [doubt EXCEPT ![LoginOf[k]] = @ \cup UNION {Carries(e, LoginOf[k]) : e \in In(k)}]
      /\ UNCHANGED <<members, hand, step, event, todo, chats>> /\ Of(l)' = Of(l)
  BY DEF Forget, Doubted, database, writers, process, pages, EventInv, TypeOK, Of
<1>2. \A j \in Conns \ {k} : In(j)' = In(j)
  BY <1>1 DEF In
<1>3. In(k)' = {}
  BY <1>1, ChannelAfter
<1>4. /\ \A j \in Conns : With(j)' \subseteq With(j)
      /\ \A j \in Conns \ {k} : With(j)' = With(j)
      /\ With(k) \subseteq With(k)' \cup In(k)
  BY <1>1, <1>2, <1>3, WithKept
<1>5. \A q \in Procs : (HoldsFor(q, l)' <=> HoldsFor(q, l)) /\ event'[q] = event[q]
  BY <1>1 DEF HoldsFor, Delivers
<1>6. \A e \in OnItsWay(l)' : e \in OnItsWay(l)
  BY <1>4, <1>5, WhereItIs
<1>7. \A e \in OnItsWay(l) : e \in OnItsWay(l)' \/ (l = LoginOf[k] /\ e \in In(k))
  BY <1>4, <1>5, WhereItIs
<1>8. doubt[l] \subseteq doubt'[l] /\ (l = LoginOf[k] => \A e \in In(k) : Carries(e, l) \subseteq doubt'[l])
  BY <1>1 DEF EventInv, TypeOK
<1> QED BY <1>1, <1>6, <1>7, <1>8, DoubtKept

\* Who joins by an INSERT that nobody waits for is doubted.
LEMMA DoubtLate ==
    ASSUME EventInv, NEW l \in Logins, DoubtOK(l), NEW c \in Chats, NEW h \in Logins, JoinsLate(c, h)
    PROVE  DoubtOK(l)'
<1>1. /\ members' = [members EXCEPT ![c] = @ \cup {h}] /\ doubt' = [doubt EXCEPT ![h] = @ \cup {c}]
      /\ UNCHANGED <<chan, hand, step, event, todo, chats>>
  BY DEF JoinsLate, sockets, writers, process, pages
<1>2. doubt[l] \subseteq doubt'[l] /\ (l = h => c \in doubt'[l])
  BY <1>1 DEF EventInv, TypeOK
<1>3. \A d \in Chats : d \in Of(l)' => d \in Of(l) \/ (d = c /\ l = h)
  BY <1>1 DEF Of, EventInv, TypeOK
<1>4. ASSUME NEW d \in Of(l)', d \notin doubt'[l] PROVE Explained(l, d)'
  <2>1. d \in Of(l) /\ d \notin doubt[l]
    BY <1>2, <1>3, <1>4 DEF Of
  <2>2. Explained(l, d)
    BY <2>1 DEF DoubtOK
  <2> QED BY <1>1, <2>2 DEF Explained, OldListComes, OnItsWay, Held, Buffered, In, Carries
<1> QED BY <1>4 DEF DoubtOK

\* What a client that is deleted had buffered is doubted.
LEMMA DoubtDelete ==
    ASSUME EventInv, NEW l \in Logins, DoubtOK(l), NEW k \in Conns, Removes(k),
           UNCHANGED <<members, hand, chats, event, todo>>,
           \A q \in Procs : step'[q] = step[q] \/ (step[q] = "idle" /\ step'[q] = "done")
    PROVE  DoubtOK(l)'
<1>1. Of(l)' = Of(l) /\ chan \in [Conns -> Seq(Events)]
  BY DEF Of, EventInv, TypeOK
<1>2. \A q \in Procs : (HoldsFor(q, l)' <=> HoldsFor(q, l)) /\ event'[q] = event[q]
  BY DEF HoldsFor, Delivers
<1>3. CASE DeleteClient(LoginOf[k])
  <2> DEFINE h == LoginOf[k]
  <2>0. PICK j \in Conns \cup {NoClient} : j = storage[h]
    BY NamesAssumption DEF EventInv, TypeOK
  <2>1. h \in Logins /\ (j # NoClient => j \in Conns /\ LoginOf[j] = h)
    BY <2>0, NamesAssumption DEF EventInv, RegistryOK
  <2>2. /\ chan' = [i \in Conns |-> IF i = j THEN <<>> ELSE chan[i]]
        /\ doubt' = IF j = NoClient THEN doubt
                    ELSE [doubt EXCEPT ![h] = @ \cup UNION {Carries(e, h) : e \in In(j)}]
    BY <1>3, <2>0 DEF DeleteClient, Doubted, In
  <2>3. /\ \A i \in Conns : i # j => With(i)' = With(i)
        /\ j \in Conns => With(j)' \subseteq With(j) /\ With(j) \subseteq With(j)' \cup In(j)
    <3>1. \A i \in Conns : i # j => In(i)' = In(i)
      BY <1>1, <2>2, ChannelAfter
    <3>2. j \in Conns => In(j)' = {}
      BY <1>1, <2>2, ChannelAfter
    <3> QED BY <3>1, <3>2, WithKept
  <2>4. \A e \in OnItsWay(l)' : e \in OnItsWay(l)
    BY <1>2, <2>3, WhereItIs
  <2>5. doubt[l] \subseteq doubt'[l] /\ (l = h /\ j # NoClient => \A e \in In(j) : Carries(e, l) \subseteq doubt'[l])
    BY <2>1, <2>2 DEF EventInv, TypeOK
  <2>6. \A e \in OnItsWay(l) : e \in OnItsWay(l)' \/ (l = h /\ j # NoClient /\ e \in In(j))
    BY <1>2, <2>1, <2>3, NamesAssumption, WhereItIs
  <2>7. \A e \in OnItsWay(l) : e \in OnItsWay(l)' \/ Carries(e, l) \subseteq doubt'[l]
    BY <2>5, <2>6
  <2> QED BY <1>1, <2>4, <2>5, <2>7, DoubtKept
<1>4. CASE UNCHANGED <<registry, chan, excused, doubt>>
  <2>1. \A i \in Conns : With(i)' = With(i)
    BY <1>4 DEF With, In
  <2>2. \A e : e \in OnItsWay(l)' <=> e \in OnItsWay(l)
    BY <1>2, <2>1, WhereItIs
  <2> QED BY <1>1, <1>4, <2>2, DoubtKept
<1> QED BY <1>3, <1>4 DEF Removes

\* So is all that the process held.
LEMMA DoubtAfterEnd ==
    ASSUME EventInv, EventInv', NEW l \in Logins, DoubtOK(l), ProcessEnds
    PROVE  DoubtOK(l)'
<1>1. Of(l)' = Of(l) /\ chats' = chats
  BY DEF ProcessEnds, pages, Of
<1>2. \A q \in Procs : ~HoldsFor(q, l)'
  BY DEF ProcessEnds, HoldsFor, Delivers
<1>3. \A k \in Conns : With(k)' = {}
  BY DEF ProcessEnds, With, In, NoEvent
<1>4. \A e : e \notin OnItsWay(l)'
  BY <1>2, <1>3, WhereItIs
<1>5. doubt'[l] = doubt[l] \cup UNION {Carries(e, l) : e \in OnItsWay(l)}
  BY DEF ProcessEnds, OnItsWay
<1>6. doubt[l] \subseteq doubt'[l] /\ \A e \in OnItsWay(l) : Carries(e, l) \subseteq doubt'[l]
  BY <1>5
<1> QED BY <1>1, <1>4, <1>6, DoubtKept

\* An event that is sent is in the channel of the login it was held for.
LEMMA DoubtSend ==
    ASSUME EventInv, NEW l \in Logins, DoubtOK(l), NEW p \in Procs, SendEvent(p)
    PROVE  DoubtOK(l)'
<1>0. dest[p] \in Conns
  BY DEF SendEvent, EventInv, ProcessOK
<1>k. PICK k \in Conns : k = dest[p]
  BY <1>0
<1>1. /\ k \in Conns /\ LoginOf[k] \in todo[p] /\ event[p] \in Events /\ Delivers(p) /\ ProcessTypes
      /\ chan \in [Conns -> Seq(Events)] /\ chan' = [chan EXCEPT ![k] = Append(@, event[p])]
      /\ Continue(p, todo[p] \ {LoginOf[k]}) /\ UNCHANGED <<members, hand, chats, doubt>>
  BY <1>k, TypeGroups DEF SendEvent, Delivers, EventInv, ProcessOK, TypeOK, database, writers, pages
<1>2. Of(l)' = Of(l)
  BY <1>1 DEF Of
<1>3. With(k)' = With(k) \cup {event[p]} /\ \A j \in Conns \ {k} : With(j)' = With(j)
  <2>1. \A j \in Conns \ {k} : In(j)' = In(j)
    BY <1>1 DEF In
  <2>2. chan'[k] = Append(chan[k], event[p])
    BY <1>1
  <2>3. In(k)' = In(k) \cup {event[p]}
    BY <1>1, <2>2, ChannelAfter
  <2> QED BY <1>1, <2>1, <2>3, WithKept
<1>4. /\ \A q \in Procs \ {p} : step'[q] = step[q] /\ event'[q] = event[q] /\ todo'[q] = todo[q]
      /\ \/ step'[p] \in {"idle", "done"} /\ todo[p] \subseteq {LoginOf[k]}
         \/ step'[p] = "looking" /\ event'[p] = event[p] /\ todo'[p] = todo[p] \ {LoginOf[k]}
  BY <1>1, ContinueFacts
<1>5. /\ \A q \in Procs \ {p} : (HoldsFor(q, l)' <=> HoldsFor(q, l)) /\ event'[q] = event[q]
      /\ HoldsFor(p, l)' => HoldsFor(p, l) /\ event'[p] = event[p]
      /\ HoldsFor(p, l) => (HoldsFor(p, l)' /\ event'[p] = event[p]) \/ l = LoginOf[k]
      /\ HoldsFor(p, LoginOf[k])
  BY <1>1, <1>4 DEF HoldsFor, Delivers
<1>6. ASSUME NEW e PROVE e \in OnItsWay(l)' <=> e \in OnItsWay(l)
  <2>1. ASSUME NEW j \in Conns, LoginOf[j] = l, e \in With(j)' PROVE e \in OnItsWay(l)
    <3>1. e \in With(j) \/ (e = event[p] /\ j = k)
      BY <1>3, <2>1
    <3> QED BY <1>5, <2>1, <3>1, WhereItIs
  <2>2. ASSUME NEW j \in Conns, LoginOf[j] = l, e \in With(j) PROVE e \in With(j)'
    BY <1>3, <2>2
  <2>3. ASSUME HoldsFor(p, l), e = event[p] PROVE e \in OnItsWay(l)'
    <3>1. CASE HoldsFor(p, l)' /\ event'[p] = event[p]
      BY <2>3, <3>1, WhereItIs
    <3>2. CASE l = LoginOf[k]
      BY <1>1, <1>3, <2>3, <3>2, WhereItIs
    <3> QED BY <1>5, <2>3, <3>1, <3>2
  <2>4. ASSUME NEW q \in Procs, HoldsFor(q, l), e = event[q] PROVE e \in OnItsWay(l)'
    BY <1>5, <2>3, <2>4, WhereItIs
  <2>5. ASSUME NEW q \in Procs, HoldsFor(q, l)', e = event'[q] PROVE e \in OnItsWay(l)
    BY <1>5, <2>5, WhereItIs
  <2> QED BY <2>1, <2>2, <2>4, <2>5, WhereItIs
<1> QED BY <1>1, <1>2, <1>6, DoubtKept

\* DoubtInv is inductive.
LEMMA DoubtInductive == DoubtInv /\ [Next]_vars => DoubtInv'
<1> SUFFICES ASSUME EventInv, [Next]_vars, EventInv', NEW l \in Logins, DoubtOK(l)
             PROVE  DoubtOK(l)'
  BY EventInductive DEF DoubtInv
<1>t. TypeOK /\ ProcessTypes
  BY TypeGroups DEF EventInv
<1>c. ASSUME NEW k \in Conns PROVE k \in Procs
  BY DEF Procs
<1>s. UNCHANGED members => Of(l)' = Of(l)
  BY DEF Of
<1>1. ASSUME NEW p \in Procs, ~Delivers(p), ~Delivers(p)', UNCHANGED <<members, chan, hand, chats, doubt>>,
             \A q \in Procs \ {p} : step'[q] = step[q] /\ event'[q] = event[q] /\ todo'[q] = todo[q]
      PROVE  DoubtOK(l)'
  BY <1>1, <1>s, DoubtProcess DEF HoldsFor
<1>2. ASSUME UNCHANGED <<members, chan, hand, chats, doubt, step, event, todo>> PROVE DoubtOK(l)'
  BY <1>2 DEF DoubtOK, Explained, OldListComes, OnItsWay, Held, Buffered, In, Of, Carries
<1>3. ASSUME NEW k \in Conns, ReaderEnds(k) \/ ReadRace(k) \/ WriterEnds(k) PROVE DoubtOK(l)'
  BY <1>3, EndFacts, DoubtDelete
<1>19. ASSUME NEW k \in Conns, Connect(k) \/ ReaderStarts(k) PROVE DoubtOK(l)'
  <2>1. /\ step[k] \in {"off", "starting"} /\ step'[k] \in {"starting", "idle", "done"}
        /\ \A q \in Procs \ {k} : step'[q] = step[q] /\ event'[q] = event[q] /\ todo'[q] = todo[q]
    BY <1>19, <1>c, <1>t DEF Connect, ReaderStarts, TypeOK, EventInv, HandsOK
  <2>2. UNCHANGED <<members, chan, hand, chats, doubt>>
    BY <1>19 DEF Connect, ReaderStarts, database, writers, pages, ghosts
  <2> QED BY <1>1, <1>c, <2>1, <2>2 DEF Delivers
<1>4. ASSUME NEW k \in Conns, NewChat(k) \/ NewUserInChat(k) PROVE DoubtOK(l)'
  <2>1. /\ step[k] = "idle" /\ step'[k] = "joining"
        /\ \A q \in Procs \ {k} : step'[q] = step[q] /\ event'[q] = event[q] /\ todo'[q] = todo[q]
    BY <1>4, <1>c, <1>t DEF NewChat, NewUserInChat, Reads, TypeOK
  <2>2. UNCHANGED <<members, chan, hand, chats, doubt>>
    BY <1>4 DEF NewChat, NewUserInChat, database, sockets, writers, pages, ghosts
  <2> QED BY <1>1, <1>c, <2>1, <2>2 DEF Delivers
<1>5. ASSUME NEW k \in Conns, AddRefused(k) \/ AddFails(k) PROVE DoubtOK(l)'
  <2>1. UNCHANGED <<members, chan, hand, chats, doubt>> /\ step[k] = "joining" /\ Return(k) /\ k \in Procs
    BY <1>5, <1>c DEF AddRefused, AddFails, database, sockets, writers, pages, ghosts
  <2> QED BY <1>1, <1>t, <2>1, ReturnFacts DEF Delivers
<1>6. ASSUME NEW p \in Procs, Posts(p) PROVE DoubtOK(l)'
  <2>1. /\ step[p] \in {"off", "idle"} /\ step'[p] = "members"
        /\ \A q \in Procs \ {p} : step'[q] = step[q] /\ event'[q] = event[q] /\ todo'[q] = todo[q]
        /\ UNCHANGED <<members, chan, hand, chats>>
    BY <1>6, PostFacts
  <2>2. UNCHANGED doubt
    BY <1>6 DEF Posts, Save, ghosts
  <2> QED BY <1>1, <2>1, <2>2 DEF Delivers
<1>7. ASSUME NEW p \in Procs, ChatMembers(p) PROVE DoubtOK(l)'
  <2>1. UNCHANGED <<members, chan, hand, chats, doubt>> /\ step[p] = "members" /\ event[p].type = "message"
    BY <1>7 DEF ChatMembers, database, sockets, writers, pages, EventInv, ProcessOK
  <2>2. event[p] \in Events /\ event[p].id \in 1 .. saved
    BY <1>7, <1>t, <2>1, Kinds DEF EventInv, ProcessOK, InFanOut, ProcessTypes, NoEvent
  <2>3. from[event[p].id] \in MessageRow
    BY <2>2 DEF EventInv, SavedOK
  <2>4. PICK L \in SUBSET Logins : IF L = {} THEN Return(p) ELSE Deliver(p, event[p], L)
    BY <1>7, <1>t, <2>3 DEF ChatMembers, MessageRow, TypeOK
  <2>5. /\ ~Delivers(p)' \/ event'[p] = event[p]
        /\ \A q \in Procs \ {p} : step'[q] = step[q] /\ event'[q] = event[q] /\ todo'[q] = todo[q]
    BY <1>t, <2>2, <2>4, ReturnFacts, DeliverFacts DEF Delivers
  <2> QED BY <1>s, <2>1, <2>5, DoubtProcess DEF HoldsFor, Delivers
<1>8. ASSUME NEW p \in Procs, LookupOffline(p) PROVE DoubtOK(l)'
  <2>1. PICK h \in todo[p] : Continue(p, todo[p] \ {h}) /\ doubt' = Doubted(h, {event[p]})
    BY <1>8 DEF LookupOffline
  <2>2. UNCHANGED <<members, chan, hand, chats>> /\ Delivers(p) /\ todo[p] \subseteq Logins /\ h \in Logins
    BY <1>8, <1>t DEF LookupOffline, database, sockets, writers, pages, Delivers, TypeOK
  <2>3. /\ \A q \in Procs \ {p} : step'[q] = step[q] /\ event'[q] = event[q] /\ todo'[q] = todo[q]
        /\ \/ step'[p] \in {"idle", "done"} /\ todo[p] \subseteq {h}
           \/ step'[p] = "looking" /\ event'[p] = event[p] /\ todo'[p] = todo[p] \ {h}
    BY <1>t, <2>1, <2>2, ContinueFacts
  <2>4. doubt[l] \subseteq doubt'[l] /\ (l = h => Carries(event[p], l) \subseteq doubt'[l])
    BY <1>t, <2>1, <2>2 DEF Doubted, TypeOK
  <2> QED BY <1>s, <2>2, <2>3, <2>4, DoubtProcess DEF HoldsFor, Delivers
<1>9. ASSUME NEW p \in Procs, LookupOnline(p) PROVE DoubtOK(l)'
  <2>1. /\ UNCHANGED <<members, chan, hand, chats, doubt>> /\ step[p] = "looking" /\ step'[p] = "sending"
        /\ \A q \in Procs : event'[q] = event[q] /\ todo'[q] = todo[q]
        /\ \A q \in Procs \ {p} : step'[q] = step[q]
    BY <1>9, <1>t DEF LookupOnline, database, sockets, writers, pages, ghosts, TypeOK
  <2> QED BY <1>s, <2>1, DoubtProcess DEF HoldsFor, Delivers
<1>10. ASSUME NEW p \in Procs, GiveUp(p), Delivers(p), UNCHANGED <<members, chan, hand, chats>> PROVE DoubtOK(l)'
  <2>1. /\ step'[p] \in {"idle", "done"}
        /\ \A q \in Procs \ {p} : step'[q] = step[q] /\ event'[q] = event[q] /\ todo'[q] = todo[q]
    BY <1>10, <1>t, ReturnFacts DEF GiveUp
  <2>2. doubt[l] \subseteq doubt'[l] /\ (l \in todo[p] => Carries(event[p], l) \subseteq doubt'[l])
    BY <1>10 DEF GiveUp
  <2> QED BY <1>10, <1>s, <2>1, <2>2, DoubtProcess DEF HoldsFor, Delivers
<1>11. ASSUME NEW p \in Procs, SendTimeout(p) PROVE DoubtOK(l)'
  BY <1>10, <1>11 DEF SendTimeout, database, sockets, writers, pages, Delivers
<1>12. ASSUME NEW p \in Procs, SendPanics(p) PROVE DoubtOK(l)'
  <2>1. CASE p \in Conns
    BY <1>12, <2>1, DoubtAfterEnd DEF SendPanics
  <2>2. CASE p \notin Conns
    BY <1>10, <1>12, <2>2 DEF SendPanics, database, sockets, writers, pages, Delivers
  <2> QED BY <2>1, <2>2
<1>13. ASSUME Restart \/ \E k \in Conns : WriteRace(k) PROVE DoubtOK(l)'
  BY <1>13, DoubtAfterEnd DEF Restart, WriteRace
<1>14. ASSUME NEW k \in Conns, Handle(k) PROVE DoubtOK(l)'
  <2>1. CASE AllUserChatsFails(k)
    BY <1>2, <2>1 DEF AllUserChatsFails, database, writers, process, pages, ghosts
  <2>2. CASE SendMessage(k)
    BY <1>6, <2>2, Senders
  <2> QED BY <1>4, <1>5, <1>14, <2>1, <2>2, DoubtAdd, DoubtList DEF Handle
<1>15. ASSUME NEW r \in Requests, SendFileMessage(r) PROVE DoubtOK(l)'
  BY <1>6, <1>15, Senders
<1>16. ASSUME NEW p \in Procs, FanOut(p) PROVE DoubtOK(l)'
  BY <1>7, <1>8, <1>9, <1>11, <1>12, <1>16, DoubtSend DEF FanOut
<1>17. ASSUME NEW k \in Conns, Disconnect(k) \/ WriterStarts(k) PROVE DoubtOK(l)'
  BY <1>2, <1>17 DEF Disconnect, WriterStarts, database, writers, process, pages, ghosts
<1>18. CASE UNCHANGED vars
  BY <1>2, <1>18 DEF vars, database, sockets, writers, process, pages, ghosts
<1> QED BY <1>3, <1>13, <1>14, <1>15, <1>16, <1>17, <1>18, <1>19,
           DoubtLeaves, DoubtTake, DoubtForget, DoubtLate DEF Next

\* At first nothing is on its way, and a user who is offline is in doubt of every
\* chat.
LEMMA DoubtInitially == Init => DoubtInv
<1> SUFFICES ASSUME Init, NEW l \in Logins PROVE DoubtOK(l)
  BY EventInitially DEF DoubtInv
<1>1. Of(l) \subseteq chats[l] \cup doubt[l]
  BY DEF Init
<1>2. Held(l) = {} /\ Buffered(l) = {}
  BY DEF Init, Held, Buffered, In
<1>3. \A c : ~OldListComes(c, l)
  BY <1>2 DEF OldListComes
<1> QED BY <1>1, <1>3 DEF DoubtOK, Explained

\* With nothing on its way a page lacks a chat of its user only if an event with
\* the chat was lost, an older list overtook it, or its user was added by an INSERT
\* whose answer was lost, for any number of readers, writers and sockets.
THEOREM MissingChatsAreExplained == Spec => []MissingChatIsExplained
<1>1. ASSUME DoubtInv PROVE MissingChatIsExplained
  <2> SUFFICES ASSUME NEW l \in Logins, OnItsWay(l) = {}, NEW c \in Of(l), c \notin doubt[l]
               PROVE  c \in chats[l]
    BY DEF MissingChatIsExplained, OnItsWay
  <2> QED BY <1>1 DEF DoubtInv, DoubtOK, Explained
<1> QED BY <1>1, DoubtInitially, DoubtInductive, PTL DEF Spec

-----------------------------------------------------------------------------
(***************************************************************************)
(* Who is shown a message, and how often.                                  *)
(***************************************************************************)

\* The members of the chat of a message, its sender aside.
Audience(m) == members[from[m].chat] \ {from[m].sender}

\* Every message that a page shows is saved, its user is in the chat, and is not
\* the one it names as its sender.
ShownToMembers ==
    \A l \in Logins : \A i \in DOMAIN got[l] :
        got[l][i][1] \in 1 .. saved /\ l \in Audience(got[l][i][1])

\* No page shows a message twice.
ShownOnce ==
    \A l \in Logins : \A i, j \in DOMAIN got[l] : got[l][i][1] = got[l][j][1] => i = j

\* A message is sent, and left to be sent, to its audience only.
AudienceOK(m) ==
    /\ m \in 1 .. saved => sent[m] \subseteq Audience(m)
    /\ \A p \in Procs : Sends(p, m) /\ Delivers(p) => todo[p] \subseteq Audience(m)

\* What waits in a channel or with a writer of a login is not on its page.
NotShown(k) == \A m \in Msgs : Keeps(k, m) =>
    \A i \in DOMAIN got[LoginOf[k]] : got[LoginOf[k]][i][1] # m

ShownInv ==
    /\ OrderInv
    /\ \A m \in Msgs : AudienceOK(m)
    /\ \A k \in Conns : NotShown(k)
    /\ ShownOnce

\* Only AddUserToChat writes into chat_user, and nobody leaves a chat.
LEMMA MembersGrow ==
    ASSUME EventInv, [Next]_vars
    PROVE  \A c \in Chats : members[c] \subseteq members'[c]
<1> USE DEF database
<1>t. members \in [Chats -> SUBSET Logins]
  BY DEF EventInv, TypeOK
<1>1. ASSUME NEW k \in Conns,
             \/ Connect(k) \/ Disconnect(k) \/ ReaderStarts(k) \/ WriterStarts(k)
             \/ ReaderEnds(k) \/ ReadRace(k) \/ WriterEnds(k) \/ Forget(k)
             \/ WriterTakes(k) \/ Receive(k) \/ WriteFails(k)
      PROVE  UNCHANGED members
  BY <1>1 DEF Connect, Disconnect, ReaderStarts, WriterStarts, ReaderEnds, ReadRace, WriterEnds, Forget,
              WriterTakes, Receive, WriteFails
<1>2. ASSUME NEW k \in Conns, Handle(k), ~AddUserToChat(k)
      PROVE  UNCHANGED members
  BY <1>2 DEF Handle, NewChat, NewUserInChat, AddRefused, AddFails, AllUserChats, AllUserChatsFails,
              SendMessage, Save
<1>3. ASSUME NEW k \in Conns, AddUserToChat(k)
      PROVE  \A c \in Chats : members[c] \subseteq members'[c]
  BY <1>3, <1>t DEF AddUserToChat
<1>4. ASSUME NEW r \in Requests, SendFileMessage(r) PROVE UNCHANGED members
  BY <1>4 DEF SendFileMessage, Save
<1>5. ASSUME ProcessEnds PROVE UNCHANGED members
  BY <1>5 DEF ProcessEnds
<1>6. ASSUME NEW p \in Procs, FanOut(p) PROVE UNCHANGED members
  BY <1>5, <1>6 DEF FanOut, ChatMembers, LookupOffline, LookupOnline, SendEvent, SendTimeout, SendPanics
<1>7. ASSUME NEW c \in Chats, NEW l \in Logins, JoinsLate(c, l)
      PROVE  \A d \in Chats : members[d] \subseteq members'[d]
  BY <1>7, <1>t DEF JoinsLate
<1>8. CASE UNCHANGED vars
  BY <1>8 DEF vars
<1> QED BY <1>1, <1>2, <1>3, <1>4, <1>5, <1>6, <1>7, <1>8 DEF Next, Restart, WriteRace

\* A handler that waits for the list of members leaves with it, or ends.
LEMMA LeavesWithMembers ==
    ASSUME EventInv, [Next]_vars, NEW q \in Procs, step[q] = "members", Delivers(q)'
    PROVE  ChatMembers(q)
<1>t. TypeOK /\ ProcessTypes
  BY TypeGroups DEF EventInv
<1>c. ASSUME NEW k \in Conns PROVE k \in Procs
  BY NamesAssumption DEF Procs
<1>0. SUFFICES ASSUME ~ChatMembers(q) PROVE ~Delivers(q)'
  OBVIOUS
<1> USE DEF Delivers
<1>1. ASSUME step'[q] = step[q] PROVE ~Delivers(q)'
  BY <1>1
<1>2. ASSUME NEW k \in Conns,
             \/ Disconnect(k) \/ WriterStarts(k) \/ WriterEnds(k) \/ Forget(k)
             \/ WriterTakes(k) \/ Receive(k) \/ WriteFails(k) \/ AllUserChatsFails(k)
      PROVE  ~Delivers(q)'
  BY <1>1, <1>2 DEF Disconnect, WriterStarts, WriterEnds, Forget, WriterTakes, Receive, WriteFails,
                    AllUserChatsFails, process
<1>3. ASSUME NEW k \in Conns,
             \/ Connect(k) \/ ReaderStarts(k) \/ ReaderEnds(k) \/ ReadRace(k)
             \/ NewChat(k) \/ NewUserInChat(k)
      PROVE  ~Delivers(q)'
  <2>1. /\ k \in Procs /\ \A p \in Procs \ {k} : step'[p] = step[p]
        /\ step'[k] \in {"starting", "idle", "done", "joining"}
    BY <1>3, <1>c, <1>t DEF Connect, ReaderStarts, ReaderEnds, ReadRace, NewChat, NewUserInChat, TypeOK
  <2> QED BY <1>1, <2>1
<1>4. ASSUME NEW k \in Conns, AddUserToChat(k) \/ AddRefused(k) \/ AddFails(k) \/ AllUserChats(k)
      PROVE  ~Delivers(q)'
  <2>1. k \in Procs /\ step[k] \in {"joining", "idle"}
    BY <1>4, <1>c DEF AddUserToChat, AddRefused, AddFails, AllUserChats
  <2>2. \A p \in Procs \ {k} : step'[p] = step[p]
    BY <1>4, <1>t, <2>1 DEF AddUserToChat, AddRefused, AddFails, AllUserChats, Deliver, Return, TypeOK
  <2> QED BY <1>1, <2>1, <2>2
<1>5. ASSUME NEW p \in Procs, Posts(p) PROVE ~Delivers(q)'
  <2>1. step'[p] = "members" /\ \A o \in Procs \ {p} : step'[o] = step[o]
    BY <1>5, PostFacts
  <2> QED BY <1>1, <2>1
<1>6. ASSUME NEW p \in Procs, ChatMembers(p) PROVE ~Delivers(q)'
  <2>1. p # q
    BY <1>0, <1>6
  <2>2. step'[q] = step[q]
    BY <1>6, <1>t, <2>1 DEF ChatMembers, Deliver, Return, TypeOK
  <2> QED BY <1>1, <2>2
<1>7. ASSUME NEW p \in Procs, LookupOffline(p) \/ SendEvent(p) PROVE ~Delivers(q)'
  <2>1. p # q /\ Delivers(p) /\ \E l : Continue(p, todo[p] \ {l})
    BY <1>7 DEF LookupOffline, SendEvent
  <2>2. \A r \in Procs \ {p} : step'[r] = step[r]
    BY <1>t, <2>1, ContinueFacts
  <2> QED BY <1>1, <2>1, <2>2
<1>8. ASSUME NEW p \in Procs, LookupOnline(p) PROVE ~Delivers(q)'
  <2>1. p # q /\ step'[q] = step[q]
    BY <1>8, <1>t DEF LookupOnline, TypeOK
  <2> QED BY <1>1, <2>1
<1>9. ASSUME NEW p \in Procs, GiveUp(p), step[p] = "sending" PROVE ~Delivers(q)'
  <2>1. p # q /\ step'[q] = step[q]
    BY <1>9, <1>t, ReturnFacts DEF GiveUp
  <2> QED BY <1>1, <2>1
<1>10. ASSUME ProcessEnds PROVE ~Delivers(q)'
  BY <1>10, <1>1 DEF ProcessEnds
<1>11. ASSUME NEW p \in Procs, SendTimeout(p) \/ SendPanics(p) PROVE ~Delivers(q)'
  BY <1>9, <1>10, <1>11 DEF SendTimeout, SendPanics
<1>12. CASE Restart \/ UNCHANGED vars \/ \E k \in Conns : WriteRace(k)
  BY <1>1, <1>10, <1>12 DEF Restart, WriteRace, vars, process
<1>13. ASSUME NEW p \in Procs, FanOut(p) PROVE ~Delivers(q)'
  BY <1>6, <1>7, <1>8, <1>11, <1>13 DEF FanOut
<1>14. ASSUME NEW k \in Conns, Handle(k) PROVE ~Delivers(q)'
  BY <1>2, <1>3, <1>4, <1>5, <1>14, Senders DEF Handle
<1>15. ASSUME NEW r \in Requests, SendFileMessage(r) PROVE ~Delivers(q)'
  BY <1>5, <1>15, Senders
<1>16. ASSUME NEW c \in Chats, NEW l \in Logins, JoinsLate(c, l) PROVE ~Delivers(q)'
  BY <1>1, <1>16 DEF JoinsLate, process
<1> QED BY <1>2, <1>3, <1>12, <1>13, <1>14, <1>15, <1>16 DEF Next

\* The audience of a message only grows.
LEMMA AudienceGrows ==
    ASSUME EventInv, [Next]_vars, NEW m \in 1 .. saved
    PROVE  /\ m \in 1 .. saved' /\ Audience(m) \subseteq Audience(m)'
<1>t. saved \in Nat /\ saved <= MaxMsgs /\ m \in Msgs /\ from[m] \in MessageRow
  BY BoundsAssumption DEF EventInv, TypeOK, SavedOK, Msgs
<1>1. from'[m] = from[m] /\ m \in 1 .. saved'
  <2>1. CASE UNCHANGED <<saved, from>>
    BY <2>1
  <2>2. ASSUME NEW p \in Procs, Posts(p) PROVE from'[m] = from[m] /\ m \in 1 .. saved'
    <3>1. saved' = saved + 1 /\ m # saved + 1
      BY <1>t, <2>2, PostFacts
    <3>2. from'[m] = from[m]
      BY <1>t, <2>2, <3>1, PostFacts DEF EventInv, TypeOK
    <3> QED BY <1>t, <3>1, <3>2
  <2> QED BY <2>1, <2>2, FromKept
<1>2. members[from[m].chat] \subseteq members'[from[m].chat]
  BY <1>t, MembersGrow DEF MessageRow
<1> QED BY <1>1, <1>2 DEF Audience

\* Nobody is sent, or about to be sent, a message who is not of its audience.
LEMMA AudienceStep ==
    ASSUME OnceInv, EventInv, [Next]_vars, NEW m \in Msgs, AudienceOK(m)
    PROVE  AudienceOK(m)'
<1>t. /\ TypeOK /\ ProcessTypes /\ OnceOK(m)
      /\ \A p \in Procs : ProcessOK(p)
  BY TypeGroups DEF EventInv, OnceInv
<1>g. m \in 1 .. saved => Audience(m) \subseteq Audience(m)'
  BY AudienceGrows
<1>1. CASE Calm
  <2>1. m \in 1 .. saved' => sent'[m] \subseteq Audience(m)'
    BY <1>1, <1>g DEF Calm, AudienceOK
  <2>2. ASSUME NEW p \in Procs, Sends(p, m)', Delivers(p)' PROVE todo'[p] \subseteq Audience(m)'
    <3>1. Sends(p, m) /\ m \in 1 .. saved
      BY <1>1, <2>2, SentIsSaved DEF Calm
    <3>2. CASE Delivers(p)
      BY <1>1, <1>g, <2>2, <3>1, <3>2 DEF Calm, AudienceOK
    <3>3. CASE ~Delivers(p)
      <4>1. ChatMembers(p)
        BY <2>2, <3>1, <3>3, LeavesWithMembers DEF Sends, Delivers
      <4>2. event[p] = Message(m) /\ event[p].id = m /\ event[p] \in Events
        BY <3>1, MessageIds, Kinds DEF Sends
      <4>3. PICK L \in SUBSET (members[from[m].chat] \ {from[m].sender}) :
                IF L = {} THEN Return(p) ELSE Deliver(p, event[p], L)
        BY <4>1, <4>2 DEF ChatMembers
      <4>4. CASE L = {}
        BY <1>t, <2>2, <4>3, <4>4, ReturnFacts DEF Delivers
      <4>5. CASE L # {}
        <5>1. todo'[p] = L
          BY <1>t, <4>3, <4>5 DEF Deliver, TypeOK
        <5> QED BY <1>g, <3>1, <5>1 DEF Audience
      <4> QED BY <4>4, <4>5
    <3> QED BY <3>2, <3>3
  <2> QED BY <2>1, <2>2 DEF AudienceOK, Sends, Delivers, Message, Audience
<1>2. ASSUME NEW p \in Procs, SendEvent(p) PROVE AudienceOK(m)'
  <2>1. PICK k \in Conns : k = dest[p] /\ LoginOf[k] \in todo[p]
    BY <1>2, <1>t DEF SendEvent, ProcessOK
  <2>2. /\ Delivers(p) /\ Continue(p, todo[p] \ {LoginOf[k]}) /\ UNCHANGED saved
        /\ sent'[m] = IF event[p] = Message(m) THEN sent[m] \cup {LoginOf[k]} ELSE sent[m]
    BY <1>2, <2>1 DEF SendEvent, Delivers, database
  <2>3. /\ \A q \in Procs \ {p} : step'[q] = step[q] /\ event'[q] = event[q] /\ todo'[q] = todo[q]
        /\ \/ step'[p] \in {"idle", "done"}
           \/ step'[p] = "looking" /\ event'[p] = event[p] /\ todo'[p] = todo[p] \ {LoginOf[k]}
    BY <1>t, <2>2, ContinueFacts
  <2>4. event[p] = Message(m) => Sends(p, m)
    BY <2>2 DEF Sends, Delivers
  <2>5. m \in 1 .. saved' => sent'[m] \subseteq Audience(m)'
    BY <1>g, <2>1, <2>2, <2>4 DEF AudienceOK
  <2>6. ASSUME NEW q \in Procs, Sends(q, m)', Delivers(q)' PROVE todo'[q] \subseteq Audience(m)'
    <3>1. Sends(q, m) /\ Delivers(q) /\ todo'[q] \subseteq todo[q]
      BY <2>2, <2>3, <2>6 DEF Sends, Delivers
    <3>2. m \in 1 .. saved
      BY <3>1, SentIsSaved
    <3> QED BY <1>g, <3>1, <3>2 DEF AudienceOK
  <2> QED BY <2>5, <2>6 DEF AudienceOK, Sends, Delivers, Message, Audience
<1>3. ASSUME NEW p \in Procs, Posts(p) PROVE AudienceOK(m)'
  <2>1. /\ step'[p] = "members" /\ UNCHANGED sent
        /\ \A q \in Procs \ {p} : step'[q] = step[q] /\ event'[q] = event[q] /\ todo'[q] = todo[q]
    BY <1>3, PostFacts
  <2>2. m \in 1 .. saved' => sent'[m] \subseteq Audience(m)'
    BY <1>g, <1>t, <2>1 DEF AudienceOK, OnceOK
  <2>3. ASSUME NEW q \in Procs, Sends(q, m)', Delivers(q)' PROVE todo'[q] \subseteq Audience(m)'
    <3>1. Sends(q, m) /\ Delivers(q) /\ todo'[q] = todo[q]
      BY <2>1, <2>3 DEF Sends, Delivers
    <3>2. m \in 1 .. saved
      BY <3>1, SentIsSaved
    <3> QED BY <1>g, <3>1, <3>2 DEF AudienceOK
  <2> QED BY <2>2, <2>3 DEF AudienceOK, Sends, Delivers, Message, Audience
<1>4. ASSUME NEW k \in Conns, WriterTakes(k) PROVE AudienceOK(m)'
  <2>1. UNCHANGED <<saved, step, event, todo, sent>>
    BY <1>4, TakeFacts
  <2>2. \A q \in Procs : Sends(q, m) => m \in 1 .. saved
    BY SentIsSaved
  <2> QED BY <1>g, <2>1, <2>2 DEF AudienceOK, Sends, Delivers, Message, Audience
<1> QED BY <1>1, <1>2, <1>3, <1>4, CalmSteps

\* What a page shows is no longer on its way to it.
LEMMA ShownStep ==
    ASSUME OrderInv, [Next]_vars, \A k \in Conns : NotShown(k), ShownOnce
    PROVE  (\A k \in Conns : NotShown(k)') /\ ShownOnce'
<1>t. TypeOK /\ EventInv /\ OnceInv /\ OrderOK /\ \A m \in Msgs : OnceOK(m)
  BY DEF OrderInv, OnceInv, MessageInv, EventInv
<1>c. \A k \in Conns : LoginOf[k] \in Logins
  BY NamesAssumption
<1>k. \A k \in Conns, m \in Msgs : Keeps(k, m)' <=> Holds(k, m)' \/ InHand(k, m)'
  BY DEF Keeps, Holds, InHand, Message
<1>1. ASSUME UNCHANGED got,
             \A m \in Msgs : \A k \in Conns : Keeps(k, m)' =>
                \E j \in Conns : LoginOf[j] = LoginOf[k] /\ Keeps(j, m)
      PROVE  (\A k \in Conns : NotShown(k)') /\ ShownOnce'
  <2>1. ASSUME NEW k \in Conns, NEW m \in Msgs, Keeps(k, m)', NEW i \in DOMAIN got[LoginOf[k]]
        PROVE  got[LoginOf[k]][i][1] # m
    <3>1. PICK j \in Conns : LoginOf[j] = LoginOf[k] /\ Keeps(j, m)
      BY <1>1, <2>1
    <3>2. NotShown(j) /\ i \in DOMAIN got[LoginOf[j]]
      BY <2>1, <3>1
    <3>3. got[LoginOf[j]][i][1] # m
      BY <3>1, <3>2 DEF NotShown
    <3> QED BY <3>1, <3>3
  <2>2. ASSUME NEW k \in Conns PROVE NotShown(k)'
    BY <1>1, <2>1 DEF NotShown, Keeps, Holds, InHand, Message
  <2> QED BY <1>1, <2>2 DEF ShownOnce
<1>2. ASSUME \A k \in Conns : Shrinks(k) /\ Drops(k)
      PROVE  \A k \in Conns : \A m \in Msgs :
                (Holds(k, m)' => Holds(k, m)) /\ (InHand(k, m)' => InHand(k, m))
  BY <1>2, <1>t, ShrunkHolds, DroppedInHand DEF TypeOK
<1>3. CASE Calm /\ UNCHANGED got
  <2>1. \A k \in Conns : \A m \in Msgs : Keeps(k, m)' => Keeps(k, m)
    BY <1>3, <1>2, <1>k DEF Calm, Keeps
  <2> QED BY <1>1, <1>3, <2>1
<1>4. ASSUME NEW p \in Procs, Posts(p) PROVE (\A k \in Conns : NotShown(k)') /\ ShownOnce'
  <2>1. UNCHANGED <<chan, hand, got>>
    BY <1>4, <1>t, PostFacts
  <2>2. \A k \in Conns : \A m \in Msgs : Keeps(k, m)' => Keeps(k, m)
    BY <2>1 DEF Keeps, Holds, InHand, Message
  <2> QED BY <1>1, <2>1, <2>2
<1>5. ASSUME NEW k \in Conns, WriterTakes(k) PROVE (\A j \in Conns : NotShown(j)') /\ ShownOnce'
  <2>1. UNCHANGED got
    BY <1>5, <1>t, TakeFacts
  <2>2. ASSUME NEW m \in Msgs, NEW j \in Conns, Keeps(j, m)'
        PROVE  \E i \in Conns : LoginOf[i] = LoginOf[j] /\ Keeps(i, m)
    <3>1. PICK l \in Logins : l = LoginOf[j]
      BY <1>c
    <3>2. (\E i \in Conns : LoginOf[i] = l /\ Keeps(i, m)') <=> \E i \in Conns : LoginOf[i] = l /\ Keeps(i, m)
      BY <1>t, <1>5, TakeKeeps
    <3> QED BY <2>2, <3>1, <3>2
  <2> QED BY <1>1, <2>1, <2>2
<1>6. ASSUME NEW p \in Procs, SendEvent(p) PROVE (\A k \in Conns : NotShown(k)') /\ ShownOnce'
  <2>t. ProcessTypes /\ ProcessOK(p)
    BY <1>t, TypeGroups DEF EventInv
  <2>1. PICK k \in Conns : k = dest[p] /\ LoginOf[k] \in todo[p]
    BY <1>6, <2>t DEF SendEvent, ProcessOK
  <2>2. PICK e \in Events : e = event[p]
    BY <1>6, <2>t, Kinds DEF SendEvent, ProcessTypes, Delivers
  <2>3. /\ Delivers(p) /\ UNCHANGED <<got, hand>>
        /\ chan'[k] = Append(chan[k], e) /\ \A j \in Conns \ {k} : chan'[j] = chan[j]
    BY <1>6, <1>t, <2>1, <2>2 DEF SendEvent, Delivers, pages, writers, TypeOK
  <2>4. ASSUME NEW j \in Conns PROVE NotShown(j)'
    <3>1. SUFFICES ASSUME NEW m \in Msgs, Keeps(j, m)', NEW i \in DOMAIN got[LoginOf[j]]
                   PROVE  got[LoginOf[j]][i][1] # m
      BY <2>3 DEF NotShown, Keeps, Holds, InHand, Message
    <3>2. CASE Keeps(j, m)
      BY <2>4, <3>1, <3>2 DEF NotShown
    <3>3. CASE ~Keeps(j, m)
      <4>1. j = k /\ Holds(j, m)' /\ ~Holds(j, m)
        BY <2>3, <3>1, <3>3 DEF Keeps, Holds, InHand, Message
      <4>2. chan[k] \in Seq(Events)
        BY <1>t DEF TypeOK
      <4>3. e = Message(m)
        BY <2>3, <4>1, <4>2, AppendHolds
      <4>4. Sends(p, m) /\ OnceOK(m)
        BY <1>t, <2>2, <2>3, <4>3 DEF Sends, Delivers
      <4>5. LoginOf[k] \notin sent[m]
        BY <2>1, <2>3, <4>4 DEF OnceOK
      <4>6. ShownWasSent(LoginOf[k])
        BY <1>t, <1>c DEF OrderOK
      <4> QED BY <3>1, <4>1, <4>5, <4>6 DEF ShownWasSent
    <3> QED BY <3>2, <3>3
  <2>5. ShownOnce'
    BY <2>3 DEF ShownOnce
  <2> QED BY <2>4, <2>5
<1>7. ASSUME NEW k \in Conns, Receive(k) PROVE (\A j \in Conns : NotShown(j)') /\ ShownOnce'
  <2>t. WriterOK(k)
    BY <1>t DEF EventInv
  <2>1. PICK l \in Logins : l = LoginOf[k]
    BY <1>c
  <2>2. PICK e \in Events, c \in Conns : e = hand[k] /\ c = writerOf[k]
    BY <1>7, <1>t, <2>t DEF Receive, TypeOK, WriterOK
  <2>3. /\ UNCHANGED chan /\ hand'[k] = NoEvent /\ \A j \in Conns \ {k} : hand'[j] = hand[j]
        /\ got' = IF e.type = "message" THEN [got EXCEPT ![l] = Append(@, <<e.id, c>>)] ELSE got
    BY <1>7, <1>t, <2>1, <2>2 DEF Receive, TypeOK
  <2>4. \A j \in Conns : \A m \in Msgs : Keeps(j, m)' => Keeps(j, m)
    <3>1. \A j \in Conns : Shrinks(j) /\ Drops(j)
      BY <2>3 DEF Shrinks, Drops
    <3> QED BY <1>k, <1>2, <3>1 DEF Keeps
  <2>5. CASE e.type # "message"
    BY <1>1, <2>3, <2>4, <2>5
  <2>6. CASE e.type = "message"
    <3>1. PICK m \in Msgs : e = Message(m) /\ e.id = m
      BY <2>6, Kinds, MessageIds DEF Added, List
    <3>2. /\ got'[l] = Append(got[l], <<m, c>>) /\ got[l] \in Seq(Msgs \X Conns)
          /\ \A i \in Logins \ {l} : got'[i] = got[i]
      BY <1>t, <2>3, <2>6, <3>1 DEF TypeOK
    <3> DEFINE n == Len(got[l])
    <3>3. /\ n \in Nat /\ DOMAIN got[l] = 1 .. n /\ DOMAIN got'[l] = 1 .. n + 1
          /\ \A i \in 1 .. n : got'[l][i] = got[l][i]
          /\ got'[l][n + 1][1] = m
      BY <3>2, AppendProperties
    <3>4. InHand(k, m) /\ Keeps(k, m) /\ NotShown(k)
      BY <2>2, <3>1 DEF InHand, Keeps
    <3>5. \A i \in 1 .. n : got[l][i][1] # m
      BY <2>1, <3>3, <3>4 DEF NotShown
    <3>6. ASSUME NEW j \in Conns PROVE NotShown(j)'
      <4>1. CASE LoginOf[j] # l
        <5>1. got'[LoginOf[j]] = got[LoginOf[j]]
          BY <1>c, <3>2, <4>1
        <5> QED BY <2>4, <5>1 DEF NotShown, Keeps, Holds, InHand, Message
      <4>2. CASE LoginOf[j] = l
        <5>1. ~Keeps(j, m)'
          <6>1. OnceOK(m) /\ LoginOf[j] = LoginOf[k]
            BY <1>t, <2>1, <4>2
          <6>2. ~Holds(j, m)
            BY <3>4, <6>1 DEF OnceOK
          <6>3. ~Holds(j, m)'
            BY <2>3, <6>2 DEF Holds, Message
          <6>4. ~InHand(j, m)'
            <7>1. CASE j = k
              BY <2>3, <7>1, Kinds DEF InHand, Message
            <7>2. CASE j # k
              BY <2>3, <3>4, <6>1, <7>2 DEF OnceOK, InHand, Message
            <7> QED BY <7>1, <7>2
          <6> QED BY <1>k, <6>3, <6>4
        <5>2. ASSUME NEW o \in Msgs, Keeps(j, o)', NEW i \in DOMAIN got'[l] PROVE got'[l][i][1] # o
          <6>1. Keeps(j, o) /\ o # m
            BY <2>4, <5>1, <5>2 DEF Keeps, Holds, InHand, Message
          <6>2. CASE i \in 1 .. n
            <7>1. got'[l][i] = got[l][i] /\ i \in DOMAIN got[LoginOf[j]] /\ NotShown(j)
              BY <3>3, <4>2, <6>2
            <7>2. got[LoginOf[j]][i][1] # o
              BY <6>1, <7>1 DEF NotShown
            <7> QED BY <4>2, <7>1, <7>2
          <6>3. CASE i = n + 1
            BY <3>3, <6>1, <6>3
          <6> QED BY <3>3, <5>2, <6>2, <6>3
        <5> QED BY <4>2, <5>2 DEF NotShown, Keeps, Holds, InHand, Message
      <4> QED BY <4>1, <4>2
    <3>7. ShownOnce'
      <4>1. SUFFICES ASSUME NEW o \in Logins, NEW i \in DOMAIN got'[o], NEW j \in DOMAIN got'[o],
                            got'[o][i][1] = got'[o][j][1]
                     PROVE  i = j
        BY DEF ShownOnce
      <4>2. CASE o # l
        BY <3>2, <4>1, <4>2 DEF ShownOnce
      <4>3. CASE o = l
        <5>1. (i \in 1 .. n \/ i = n + 1) /\ (j \in 1 .. n \/ j = n + 1)
          BY <3>3, <4>1, <4>3
        <5> QED BY <3>3, <3>5, <4>1, <4>3, <5>1 DEF ShownOnce
      <4> QED BY <4>2, <4>3
    <3> QED BY <3>6, <3>7
  <2> QED BY <2>5, <2>6
<1> QED BY <1>t, <1>3, <1>4, <1>5, <1>6, <1>7, CalmSteps

LEMMA ShownInitially == Init => ShownInv
<1> SUFFICES ASSUME Init PROVE ShownInv
  OBVIOUS
<1>1. OrderInv
  BY OrderInitially
<1>2. /\ \A p \in Procs, m \in Msgs : ~Sends(p, m)
      /\ \A l \in Logins : DOMAIN got[l] = {}
      /\ \A m \in Msgs : sent[m] = {}
      /\ \A k \in Conns : LoginOf[k] \in Logins
  BY NamesAssumption DEF Init, Sends
<1>3. \A m \in Msgs : AudienceOK(m)
  BY <1>2 DEF AudienceOK
<1>4. \A k \in Conns : NotShown(k)
  BY <1>2 DEF NotShown
<1>5. ShownOnce
  BY <1>2 DEF ShownOnce
<1> QED BY <1>1, <1>3, <1>4, <1>5 DEF ShownInv

LEMMA ShownInductive == ShownInv /\ [Next]_vars => ShownInv'
<1> SUFFICES ASSUME ShownInv, [Next]_vars PROVE ShownInv'
  OBVIOUS
<1>1. OrderInv /\ OnceInv /\ EventInv
  BY DEF ShownInv, OrderInv, OnceInv, MessageInv
<1>2. OrderInv'
  BY <1>1, OrderInductive
<1>3. \A m \in Msgs : AudienceOK(m)'
  BY <1>1, AudienceStep DEF ShownInv
<1>4. (\A k \in Conns : NotShown(k)') /\ ShownOnce'
  BY <1>1, ShownStep DEF ShownInv
<1> QED BY <1>2, <1>3, <1>4 DEF ShownInv, Msgs

\* A message is shown only to members of its chat, and never to the login it names
\* as its sender: the list of members, the registry and the channel are read long
\* after each other, and two writers may serve a socket, but none of them brings a
\* message to a page outside its chat.
THEOREM MessagesStayInTheirChats == Spec => []ShownToMembers
<1>1. ASSUME ShownInv PROVE ShownToMembers
  <2>1. SUFFICES ASSUME NEW l \in Logins, NEW i \in DOMAIN got[l]
                 PROVE  got[l][i][1] \in 1 .. saved /\ l \in Audience(got[l][i][1])
    BY DEF ShownToMembers
  <2>2. PICK m \in 1 .. saved : m = got[l][i][1] /\ l \in sent[m]
    BY <1>1, <2>1 DEF ShownInv, OrderInv, OrderOK, ShownWasSent
  <2>3. m \in Msgs
    BY <1>1, BoundsAssumption DEF ShownInv, OrderInv, OnceInv, MessageInv, EventInv, TypeOK, Msgs
  <2>4. sent[m] \subseteq Audience(m)
    BY <1>1, <2>3 DEF ShownInv, AudienceOK
  <2> QED BY <2>2, <2>4 DEF Audience
<1> QED BY <1>1, ShownInitially, ShownInductive, PTL DEF Spec

\* A page never shows a message twice, though its user may have several
\* sockets, which the fan-out may look up one after the other.
THEOREM MessagesAreShownOnce == Spec => []ShownOnce
<1>1. ShownInv => ShownOnce
  BY DEF ShownInv
<1> QED BY <1>1, ShownInitially, ShownInductive, PTL DEF Spec
=============================================================================
