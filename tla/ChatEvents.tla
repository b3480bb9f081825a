----------------------------- MODULE ChatEvents -----------------------------
(***************************************************************************)
(* Which event reaches whom: handleNewChat, handleNewUserInChat,           *)
(* handleAllUserChats, handleSendMessage and the fan-out of a file         *)
(* message, run by the readers of several sockets and by HTTP requests at  *)
(* once, and the chat lists and live messages of the pages they send to.   *)
(*                                                                         *)
(* The registry is that of ClientSessions, with the two goroutines of each *)
(* socket, which serve the client they find under their login: two readers *)
(* or two writers may share one. The list of members is any that           *)
(* getChatMembers may return, which ChatMembership has in detail.          *)
(***************************************************************************)
EXTENDS Naturals, Sequences, FiniteSets

CONSTANTS
    Conns, Requests, Logins,
    LoginOf,    \* the ?login= of each socket
    SendCap,    \* capacity of Client.Send, 32 in clientStorage.go
    Links,      \* what the sockets may be at first: none, open, their pages with the
                \* list of chats, or closed
    OldMembers, \* the chats, 1 .. Len(OldMembers), at first, and their members
    Asks,       \* what each page or client may ask for
    MaxChats,   \* bound: chats
    MaxMsgs,    \* bound: messages
    MaxEvents,  \* bound: events and requests, beside the all_user_chats of a socket
    MaxFaults,  \* bound: lost sockets, failed statements, restarts, races noticed
    NoClient

Chats == 1 .. MaxChats
Msgs == 1 .. MaxMsgs
Procs == Conns \cup Requests

\* new_chat; add_user_to_chat, of a chat and a user; send_message, of a chat and
\* a sender, or a file message.
Inputs == [type : {"new"}] \cup [type : {"add", "send"}, chat : Chats, login : Logins]

ASSUME NamesAssumption ==
    /\ NoClient \notin Conns
    /\ Conns \cap Requests = {}
    /\ LoginOf \in [Conns -> Logins]
    /\ Links \subseteq [Conns -> {"none", "open", "closed"}]
    /\ \A f \in Links : \A j, k \in Conns :
          f[j] = "open" /\ f[k] = "open" /\ LoginOf[j] = LoginOf[k] => j = k
    /\ Asks \in [Procs -> SUBSET Inputs]

ASSUME BoundsAssumption ==
    /\ SendCap \in Nat \ {0} /\ MaxMsgs \in Nat /\ MaxEvents \in Nat /\ MaxFaults \in Nat
    /\ MaxChats \in Nat /\ OldMembers \in Seq(SUBSET Logins) /\ Len(OldMembers) <= MaxChats

VARIABLES
    created,    \* chat: how many rows
    members,    \* chat_user
    late,       \* rows of chat_user whose INSERT nobody waits for, and may still run
    saved,      \* message: how many inserts were answered
    from,       \* chat, sender of each message, and the process that saved it
    storage,    \* clientStorage: the client registered for each login
    link,       \* each socket: none, open, gone (the peer left), closed by DeleteClient
    asked,      \* the all_user_chats that onopen sends has not been read
    chan,       \* Client.Send
    writer,     \* WriteMessage of the session: off, starting, on
    writerOf,   \* `client` of WriteMessage, kept when it has ended
    hand,       \* the event it has taken from the channel, until it is at the page
    readerOf,   \* `client` of ReadMessage
    step,       \* where a reader or a request is
    event,      \* the event its handler delivers
    todo,       \* logins it still has to serve
    dest,       \* the client it is sending to
    chats,      \* state.chats of the page of each login
    got,        \* the live messages of each page, and the socket each came by
    sent,       \* history: logins each message was sent to
    excused,    \* history: logins that a fan-out had a reason to leave out
    doubt,      \* history: chats that a page had a reason not to hear of
    events,
    faults

database == <<created, members, late, saved, from>>
registry == <<storage, link, asked>>
writers == <<writer, writerOf, hand>>
sockets == <<registry, chan, writers, readerOf>>
process == <<step, event, todo, dest>>
bounds == <<events, faults>>
pages == <<chats, got>>
ghosts == <<sent, excused, doubt>>
vars == <<database, sockets, process, pages, ghosts, bounds>>

Added(c, l) == [type |-> "added", chat |-> c, login |-> l]
List(S) == [type |-> "chats", chats |-> S]
Message(m) == [type |-> "message", id |-> m]
Events ==
    {Added(c, l) : c \in Chats, l \in Logins} \cup {List(S) : S \in SUBSET Chats}
        \cup {Message(m) : m \in Msgs}
NoEvent == [type |-> "none"]

Of(l) == {c \in Chats : l \in members[c]}
Fanning(m) == \E p \in Procs :
    step[p] \in {"members", "looking", "sending"} /\ event[p] = Message(m)

\* A channel holds at most SendCap events, a reader is in a handler only with
\* an event to deliver, and no event for a page names a login that is not its own.
TypeOK ==
    /\ created \in 0 .. MaxChats /\ members \in [Chats -> SUBSET Logins]
    /\ late \subseteq Chats \X Logins
    /\ saved \in 0 .. MaxMsgs
    /\ from \in [Msgs -> [chat : Chats, sender : Logins, by : Procs] \cup {NoEvent}]
    /\ storage \in [Logins -> Conns \cup {NoClient}]
    /\ link \in [Conns -> {"none", "open", "gone", "closed"}]
    /\ asked \in [Conns -> BOOLEAN]
    /\ chan \in [Conns -> Seq(Events)]
    /\ \A k \in Conns : Len(chan[k]) <= SendCap
    /\ writer \in [Conns -> {"off", "starting", "on"}]
    /\ writerOf \in [Conns -> Conns \cup {NoClient}]
    /\ hand \in [Conns -> Events \cup {NoEvent}]
    /\ readerOf \in [Conns -> Conns \cup {NoClient}]
    /\ step \in [Procs -> {"off", "starting", "idle", "joining", "members", "looking", "sending", "done"}]
    /\ event \in [Procs -> Events \cup {NoEvent}]
    /\ todo \in [Procs -> SUBSET Logins]
    /\ dest \in [Procs -> Conns \cup {NoClient}]
    /\ \A p \in Procs : step[p] \in {"looking", "sending"} => event[p] # NoEvent /\ todo[p] # {}
    /\ chats \in [Logins -> SUBSET Chats] /\ got \in [Logins -> Seq(Msgs \X Conns)]
    /\ sent \in [Msgs -> SUBSET Logins] /\ excused \in [Msgs -> SUBSET Logins]
    /\ doubt \in [Logins -> SUBSET Chats]
    /\ events \in 0 .. MaxEvents /\ faults \in 0 .. MaxFaults

Init ==
    /\ created = Len(OldMembers)
    /\ members = [c \in Chats |-> IF c <= Len(OldMembers) THEN OldMembers[c] ELSE {}]
    /\ late = {}
    /\ saved = 0
    /\ from = [m \in Msgs |-> NoEvent]
    /\ link \in Links
    /\ storage = [l \in Logins |->
          IF \E k \in Conns : LoginOf[k] = l /\ link[k] = "open"
          THEN CHOOSE k \in Conns : LoginOf[k] = l /\ link[k] = "open"
          ELSE NoClient]
    /\ asked = [k \in Conns |-> FALSE]
    /\ chan = [k \in Conns |-> <<>>]
    /\ writer = [k \in Conns |-> IF link[k] = "open" THEN "on" ELSE "off"]
    /\ writerOf = [k \in Conns |-> IF link[k] = "none" THEN NoClient ELSE k]
    /\ hand = [k \in Conns |-> NoEvent]
    /\ readerOf = [k \in Conns |-> IF link[k] = "none" THEN NoClient ELSE k]
    /\ step = [p \in Procs |->
          IF p \in Requests \/ link[p] = "none" THEN "off"
          ELSE IF link[p] = "open" THEN "idle" ELSE "done"]
    /\ event = [p \in Procs |-> NoEvent]
    /\ todo = [p \in Procs |-> {}]
    /\ dest = [p \in Procs |-> NoClient]
    /\ chats = [l \in Logins |-> IF storage[l] = NoClient THEN {} ELSE Of(l)]
    /\ got = [l \in Logins |-> <<>>]
    /\ sent = [m \in Msgs |-> {}]
    /\ excused = [m \in Msgs |-> {}]
    /\ doubt = [l \in Logins |-> IF storage[l] = NoClient THEN Of(l) ELSE {}]
    /\ events = 0
    /\ faults = 0

Fault == faults < MaxFaults /\ faults' = faults + 1 /\ UNCHANGED events

\* A reader or a request takes on a task.
Starts(p, input) ==
    /\ input \in Asks[p]
    /\ events < MaxEvents /\ events' = events + 1
    /\ UNCHANGED faults

-----------------------------------------------------------------------------
(***************************************************************************)
(* What the history variables record.                                      *)
(***************************************************************************)

\* The chats that the page of l learns from an event.
Carries(e, l) == {c \in Chats :
    \/ e.type = "added" /\ e.login = l /\ e.chat = c
    \/ e.type = "chats" /\ c \in e.chats}

\* Events for the page of l: with a handler, in a channel, or with a writer.
Held(l) == {event[p] : p \in {q \in Procs : step[q] \in {"looking", "sending"} /\ l \in todo[q]}}
In(k) == {chan[k][i] : i \in DOMAIN chan[k]}
Buffered(l) == UNION {In(k) \cup ({hand[k]} \ {NoEvent}) : k \in {j \in Conns : LoginOf[j] = l}}

\* An older list is on its way to l that lacks the chat.
OldListComes(c, l) == \E e \in Held(l) \cup Buffered(l) : e.type = "chats" /\ c \notin e.chats

\* The events of S for l are lost.
Doubted(l, S) == [doubt EXCEPT ![l] = @ \cup UNION {Carries(e, l) : e \in S}]

-----------------------------------------------------------------------------
(***************************************************************************)
(* Sockets: InitConnection, DeleteClient, the peer.                        *)
(***************************************************************************)

\* InitConnection: SaveClient displaces the client of an earlier socket, which
\* lives on, and two goroutines are started. Two sockets of a page may be open
\* at once, since onerror and onclose both start a timer.
Connect(k) ==
    /\ link[k] = "none"
    /\ link' = [link EXCEPT ![k] = "open"]
    /\ storage' = [storage EXCEPT ![LoginOf[k]] = k]
    /\ asked' = [asked EXCEPT ![k] = TRUE]
    /\ writer' = [writer EXCEPT ![k] = "starting"]
    /\ step' = [step EXCEPT ![k] = "starting"]
    /\ UNCHANGED <<database, chan, writerOf, hand, readerOf, event, todo, dest, pages, ghosts, bounds>>

\* GetClient(login): the client of this session, of a newer one, or none.
ReaderStarts(k) ==
    LET client == storage[LoginOf[k]] IN
    /\ step[k] = "starting"
    /\ step' = [step EXCEPT ![k] = IF client = NoClient THEN "done" ELSE "idle"]
    /\ readerOf' = [readerOf EXCEPT ![k] = client]
    /\ UNCHANGED <<database, registry, chan, writers, event, todo, dest, pages, ghosts, bounds>>

WriterStarts(k) ==
    LET client == storage[LoginOf[k]] IN
    /\ writer[k] = "starting"
    /\ writer' = [writer EXCEPT ![k] = IF client = NoClient THEN "off" ELSE "on"]
    /\ writerOf' = [writerOf EXCEPT ![k] = client]
    /\ UNCHANGED <<database, registry, chan, hand, readerOf, process, pages, ghosts, bounds>>

Disconnect(k) ==
    /\ Fault
    /\ link[k] = "open"
    /\ link' = [link EXCEPT ![k] = "gone"]
    /\ asked' = [asked EXCEPT ![k] = FALSE]
    /\ UNCHANGED <<database, storage, chan, writers, readerOf, process, pages, ghosts>>

\* DeleteClient(login): the registered client is closed, whoever calls. What its
\* channel held goes to a closed socket.
DeleteClient(l) ==
    LET k == storage[l] IN
    /\ storage' = [storage EXCEPT ![l] = NoClient]
    /\ link' = [j \in Conns |-> IF j = k THEN "closed" ELSE link[j]]
    /\ asked' = [j \in Conns |-> asked[j] /\ j # k]
    /\ chan' = [j \in Conns |-> IF j = k THEN <<>> ELSE chan[j]]
    /\ excused' = [m \in Msgs |-> IF Fanning(m) THEN excused[m] \cup {l} ELSE excused[m]]
    /\ doubt' = IF k = NoClient THEN doubt
                ELSE Doubted(l, In(k))

\* The goroutine of k with the client c fails and deletes the client of its
\* login, or it finds its own context cancelled and just returns.
GoroutineEnds(k, c) ==
    \/ link[c] # "open" /\ DeleteClient(LoginOf[k])
    \/ link[k] = "closed" /\ UNCHANGED <<registry, chan, excused, doubt>>

ReaderEnds(k) ==
    /\ step[k] = "idle"
    /\ GoroutineEnds(k, readerOf[k])
    /\ step' = [step EXCEPT ![k] = "done"]
    /\ UNCHANGED <<database, writers, readerOf, event, todo, dest, pages, sent, bounds>>

\* Two goroutines read one socket, and each may get half a frame.
ReadRace(k) ==
    /\ step[k] = "idle"
    /\ \E j \in Conns \ {k} : step[j] = "idle" /\ readerOf[j] = readerOf[k]
    /\ Fault
    /\ DeleteClient(LoginOf[k])
    /\ step' = [step EXCEPT ![k] = "done"]
    /\ UNCHANGED <<database, writers, readerOf, event, todo, dest, pages, sent>>

\* The channel is closed, or the heartbeat cannot be written.
WriterEnds(k) ==
    /\ writer[k] = "on" /\ hand[k] = NoEvent
    /\ GoroutineEnds(k, writerOf[k])
    /\ writer' = [writer EXCEPT ![k] = "off"]
    /\ UNCHANGED <<database, writerOf, hand, readerOf, process, pages, sent, bounds>>

\* Nobody will take what a client that nobody serves has buffered.
Forget(k) ==
    /\ chan[k] # <<>>
    /\ storage[LoginOf[k]] # k
    /\ \A j \in Conns : writer[j] = "on" => writerOf[j] # k
    /\ \A p \in Procs : step[p] = "sending" => dest[p] # k
    /\ chan' = [chan EXCEPT ![k] = <<>>]
    /\ doubt' = Doubted(LoginOf[k], In(k))
    /\ UNCHANGED <<database, registry, writers, readerOf, process, pages, sent, excused, bounds>>

-----------------------------------------------------------------------------
(***************************************************************************)
(* Handlers, up to the event they deliver.                                 *)
(***************************************************************************)

\* ReadMessage handles the events of its socket one by one, the
\* all_user_chats of onopen first.
Reads(k, input) ==
    /\ step[k] = "idle" /\ link[readerOf[k]] = "open" /\ ~asked[readerOf[k]]
    /\ Starts(k, input)

\* A handler goes on to deliver e to the logins of L.
Deliver(p, e, L) ==
    /\ step' = [step EXCEPT ![p] = "looking"]
    /\ event' = [event EXCEPT ![p] = e]
    /\ todo' = [todo EXCEPT ![p] = L]
    /\ UNCHANGED dest

\* The handler returns; a request is done.
Return(p) ==
    /\ step' = [step EXCEPT ![p] = IF p \in Conns THEN "idle" ELSE "done"]
    /\ event' = [event EXCEPT ![p] = NoEvent]
    /\ todo' = [todo EXCEPT ![p] = {}]
    /\ dest' = [dest EXCEPT ![p] = NoClient]

\* handleNewChat: CreateChat commits the chat before anybody is in it. (One that
\* commits unanswered leaves what an INSERT that never runs leaves.)
NewChat(k) ==
    /\ Reads(k, [type |-> "new"])
    /\ created < MaxChats
    /\ created' = created + 1
    /\ step' = [step EXCEPT ![k] = "joining"]
    /\ event' = [event EXCEPT ![k] = Added(created + 1, LoginOf[k])]
    /\ UNCHANGED <<members, late, saved, from, sockets, todo, dest, pages, ghosts>>

\* handleNewUserInChat: anybody names a chat and a user, and is not asked who
\* he is.
NewUserInChat(k) ==
    /\ \E c \in 1 .. created, l \in Logins :
          /\ Reads(k, [type |-> "add", chat |-> c, login |-> l])
          /\ event' = [event EXCEPT ![k] = Added(c, l)]
    /\ step' = [step EXCEPT ![k] = "joining"]
    /\ UNCHANGED <<database, sockets, todo, dest, pages, ghosts>>

\* Mutant: the event goes to the login of the socket that asked.
AddUserToChatTellsTheAdder(k) ==
    LET c == event[k].chat l == event[k].login IN
    /\ step[k] = "joining"
    /\ l \notin members[c]
    /\ members' = [members EXCEPT ![c] = @ \cup {l}]
    /\ Deliver(k, event[k], {LoginOf[k]})
    /\ doubt' = IF OldListComes(c, l) THEN [doubt EXCEPT ![l] = @ \cup {c}] ELSE doubt
    /\ UNCHANGED <<created, late, saved, from, sockets, pages, sent, excused, bounds>>

\* AddUserToChat inserts, and the user is told.
AddUserToChat(k) ==
    LET c == event[k].chat l == event[k].login IN
    /\ step[k] = "joining"
    /\ l \notin members[c]
    /\ members' = [members EXCEPT ![c] = @ \cup {l}]
    /\ Deliver(k, event[k], {l})
    /\ doubt' = IF OldListComes(c, l) THEN [doubt EXCEPT ![l] = @ \cup {c}] ELSE doubt
    /\ UNCHANGED <<created, late, saved, from, sockets, pages, sent, excused, bounds>>

\* The user is in the chat already, or the chat is full: nobody is told. A new
\* chat is then left without members.
AddRefused(k) ==
    /\ step[k] = "joining"
    /\ Return(k)
    /\ UNCHANGED <<database, sockets, pages, ghosts, bounds>>

\* Mutant: an insert that fails is announced all the same.
AddFailsSilently(k) ==
    /\ step[k] = "joining"
    /\ Fault
    /\ Deliver(k, event[k], {event[k].login})
    /\ UNCHANGED <<database, sockets, pages, ghosts>>

\* The INSERT is not answered within the five seconds of the handler, which
\* tells nobody: it has run, runs later, or never.
AddFails(k) ==
    /\ step[k] = "joining"
    /\ Fault
    /\ late' = late \cup {<<event[k].chat, event[k].login>>}
    /\ Return(k)
    /\ UNCHANGED <<created, members, saved, from, sockets, pages, ghosts>>

JoinsLate(c, l) ==
    /\ <<c, l>> \in late
    /\ late' = late \ {<<c, l>>}
    /\ l \notin members[c]
    /\ members' = [members EXCEPT ![c] = @ \cup {l}]
    /\ doubt' = [doubt EXCEPT ![l] = @ \cup {c}]
    /\ UNCHANGED <<created, saved, from, sockets, process, pages, sent, excused, bounds>>

\* handleAllUserChats: the query, whose rows may stop early unnoticed
\* (GetAllUserChats does not read rows.Err() either).
AllUserChats(k) ==
    LET l == LoginOf[k] c == readerOf[k] IN
    /\ step[k] = "idle" /\ link[c] = "open" /\ asked[c]
    /\ asked' = [asked EXCEPT ![c] = FALSE]
    /\ \E S \in SUBSET Of(l) :
          /\ IF S = Of(l) THEN UNCHANGED bounds ELSE Fault
          /\ Deliver(k, List(S), {l})
          /\ doubt' = [doubt EXCEPT ![l] =
                {d \in @ \cup (Of(l) \ S) : d \notin S \/ OldListComes(d, l)}]
    /\ UNCHANGED <<database, storage, link, chan, writers, readerOf, pages, sent, excused>>

\* The query fails: the page gets no list and does not ask again.
AllUserChatsFails(k) ==
    LET c == readerOf[k] IN
    /\ step[k] = "idle" /\ link[c] = "open" /\ asked[c]
    /\ Fault
    /\ asked' = [asked EXCEPT ![c] = FALSE]
    /\ UNCHANGED <<database, storage, link, chan, writers, readerOf, process, pages, ghosts>>

\* SaveMessage, or CreateFileMessage in a request: the next id of message. Of an
\* insert that is not answered nobody is told.
Save(p, c, l) ==
    /\ saved < MaxMsgs
    /\ saved' = saved + 1
    /\ from' = [from EXCEPT ![saved + 1] = [chat |-> c, sender |-> l, by |-> p]]
    /\ step' = [step EXCEPT ![p] = "members"]
    /\ event' = [event EXCEPT ![p] = Message(saved + 1)]
    /\ UNCHANGED <<created, members, late, sockets, todo, dest, pages, ghosts>>

\* handleSendMessage takes the sender from the payload as it is.
SendMessage(k) ==
    \E c \in 1 .. created, l \in Logins :
        Reads(k, [type |-> "send", chat |-> c, login |-> l]) /\ Save(k, c, l)

\* SendFileMessage has found that the sender is a member.
SendFileMessage(r) ==
    /\ step[r] = "off"
    /\ \E l \in Logins : \E c \in Of(l) :
          Starts(r, [type |-> "send", chat |-> c, login |-> l]) /\ Save(r, c, l)

\* getChatMembers: some members, in no order; the sender is skipped.
ChatMembers(p) ==
    LET m == event[p].id IN
    /\ step[p] = "members"
    /\ \E L \in SUBSET (members[from[m].chat] \ {from[m].sender}) :
          /\ IF L = {} THEN Return(p) ELSE Deliver(p, event[p], L)
          /\ excused' = [excused EXCEPT ![m] = {l \in Logins : l \notin L \/ storage[l] = NoClient}]
    /\ UNCHANGED <<database, sockets, pages, sent, doubt, bounds>>

-----------------------------------------------------------------------------
(***************************************************************************)
(* Delivery: GetClient, then a send with a timeout of three seconds.       *)
(***************************************************************************)

\* The loop goes on with the logins left, if any.
Continue(p, left) == IF left = {} THEN Return(p) ELSE Deliver(p, event[p], left)

\* Mutant: the loop ends at the first member who is offline.
LookupOfflineReturns(p) ==
    /\ step[p] = "looking"
    /\ \E l \in todo[p] : storage[l] = NoClient /\ doubt' = Doubted(l, {event[p]})
    /\ Return(p)
    /\ UNCHANGED <<database, sockets, pages, sent, excused, bounds>>

LookupOffline(p) ==
    /\ step[p] = "looking"
    /\ \E l \in todo[p] :
          /\ storage[l] = NoClient
          /\ Continue(p, todo[p] \ {l})
          /\ doubt' = Doubted(l, {event[p]})
    /\ UNCHANGED <<database, sockets, pages, sent, excused, bounds>>

LookupOnline(p) ==
    /\ step[p] = "looking"
    /\ \E l \in todo[p] :
          /\ storage[l] # NoClient
          /\ dest' = [dest EXCEPT ![p] = storage[l]]
    /\ step' = [step EXCEPT ![p] = "sending"]
    /\ UNCHANGED <<database, sockets, event, todo, pages, ghosts, bounds>>

\* Mutant: buffered one event too many.
HasRoomForOneMore(k) == Len(chan[k]) <= SendCap

HasRoom(k) == Len(chan[k]) < SendCap

\* Mutant: every socket of the login gets the event.
SendEventToAllSockets(p) ==
    LET k == dest[p] IN
    /\ step[p] = "sending"
    /\ link[k] # "closed"
    /\ HasRoom(k)
    /\ chan' = [j \in Conns |->
          IF j = k \/ (LoginOf[j] = LoginOf[k] /\ link[j] = "open" /\ HasRoom(j))
          THEN Append(chan[j], event[p]) ELSE chan[j]]
    /\ sent' = [m \in Msgs |-> IF event[p] = Message(m) THEN sent[m] \cup {LoginOf[k]} ELSE sent[m]]
    /\ Continue(p, todo[p] \ {LoginOf[k]})
    /\ UNCHANGED <<database, registry, writers, readerOf, pages, excused, doubt, bounds>>

SendEvent(p) ==
    LET k == dest[p] IN
    /\ step[p] = "sending"
    /\ link[k] # "closed"
    /\ HasRoom(k)
    /\ chan' = [chan EXCEPT ![k] = Append(@, event[p])]
    /\ sent' = [m \in Msgs |-> IF event[p] = Message(m) THEN sent[m] \cup {LoginOf[k]} ELSE sent[m]]
    /\ Continue(p, todo[p] \ {LoginOf[k]})
    /\ UNCHANGED <<database, registry, writers, readerOf, pages, excused, doubt, bounds>>

\* The rest of the logins get nothing.
GiveUp(p) ==
    /\ Return(p)
    /\ excused' = [m \in Msgs |-> IF event[p] = Message(m) THEN excused[m] \cup todo[p] ELSE excused[m]]
    /\ doubt' = [l \in Logins |-> IF l \in todo[p] THEN doubt[l] \cup Carries(event[p], l) ELSE doubt[l]]

\* Mutant: the send of a message waits for room for ever.
SendWaits(p) ==
    /\ step[p] = "sending"
    /\ event[p].type = "added"
    /\ link[dest[p]] # "closed"
    /\ ~HasRoom(dest[p])
    /\ GiveUp(p)
    /\ UNCHANGED <<database, sockets, pages, sent, bounds>>

\* <-time.After(3 s) on a full channel: the handler returns. handleAllUserChats
\* has no timeout.
SendTimeout(p) ==
    /\ step[p] = "sending"
    /\ event[p].type # "chats"
    /\ link[dest[p]] # "closed"
    /\ ~HasRoom(dest[p])
    /\ GiveUp(p)
    /\ UNCHANGED <<database, sockets, pages, sent, bounds>>

\* Everything in the memory of the process is gone; the pages reconnect. An
\* INSERT that was under way may still run.
ProcessEnds ==
    /\ storage' = [l \in Logins |-> NoClient]
    /\ link' = [k \in Conns |-> IF link[k] = "none" THEN "none" ELSE "closed"]
    /\ asked' = [k \in Conns |-> FALSE]
    /\ chan' = [k \in Conns |-> <<>>]
    /\ writer' = [k \in Conns |-> "off"]
    /\ hand' = [k \in Conns |-> NoEvent]
    /\ step' = [p \in Procs |-> IF step[p] = "off" THEN "off" ELSE "done"]
    /\ event' = [p \in Procs |-> NoEvent]
    /\ todo' = [p \in Procs |-> {}]
    /\ dest' = [p \in Procs |-> NoClient]
    /\ excused' = [m \in Msgs |-> IF Fanning(m) THEN Logins ELSE excused[m]]
    /\ doubt' = [l \in Logins |-> doubt[l] \cup UNION {Carries(e, l) : e \in Held(l) \cup Buffered(l)}]
    /\ late' = late \cup {<<event[p].chat, event[p].login>> : p \in {q \in Procs : step[q] = "joining"}}
    /\ UNCHANGED <<created, members, saved, from, writerOf, readerOf, pages, sent>>

\* A send on a closed channel panics: net/http recovers a request, a reader
\* takes the process with it.
SendPanics(p) ==
    /\ step[p] = "sending"
    /\ link[dest[p]] = "closed"
    /\ IF p \in Conns THEN ProcessEnds ELSE GiveUp(p) /\ UNCHANGED <<database, sockets, pages, sent>>
    /\ UNCHANGED bounds

Restart == Fault /\ ProcessEnds

-----------------------------------------------------------------------------
(***************************************************************************)
(* WriteMessage, and the page.                                             *)
(***************************************************************************)

\* case msg := <-client.Send
WriterTakes(k) ==
    LET c == writerOf[k] IN
    /\ writer[k] = "on" /\ hand[k] = NoEvent
    /\ chan[c] # <<>>
    /\ hand' = [hand EXCEPT ![k] = Head(chan[c])]
    /\ chan' = [chan EXCEPT ![c] = Tail(@)]
    /\ UNCHANGED <<database, registry, writer, writerOf, readerOf, process, pages, ghosts, bounds>>

\* onAllUserChats replaces the list, onAddUserToChat adds to it.
ShownChats(l, e) == IF e.type = "chats" THEN e.chats ELSE chats[l] \cup Carries(e, l)

\* Mutant: what is written stays with the writer, to be written again.
ReceiveAgain(k) ==
    LET e == hand[k] l == LoginOf[k] c == writerOf[k] IN
    /\ e # NoEvent /\ link[c] = "open"
    /\ Len(got[l]) < MaxMsgs
    /\ chats' = [chats EXCEPT ![l] = ShownChats(l, e)]
    /\ got' = IF e.type = "message" THEN [got EXCEPT ![l] = Append(@, <<e.id, c>>)] ELSE got
    /\ UNCHANGED <<database, sockets, process, ghosts, bounds>>

\* Conn.WriteMessage, and onmessage: an event on the network counts as in the
\* writer's hand, and goes the way of the socket.
Receive(k) ==
    LET e == hand[k] l == LoginOf[k] c == writerOf[k] IN
    /\ e # NoEvent /\ link[c] = "open"
    /\ hand' = [hand EXCEPT ![k] = NoEvent]
    /\ chats' = [chats EXCEPT ![l] = ShownChats(l, e)]
    /\ got' = IF e.type = "message" THEN [got EXCEPT ![l] = Append(@, <<e.id, c>>)] ELSE got
    /\ UNCHANGED <<database, registry, chan, writer, writerOf, readerOf, process, ghosts, bounds>>

\* The error of Conn.WriteMessage is ignored: the event is lost.
WriteFails(k) ==
    /\ hand[k] # NoEvent /\ link[writerOf[k]] # "open"
    /\ hand' = [hand EXCEPT ![k] = NoEvent]
    /\ doubt' = Doubted(LoginOf[k], {hand[k]})
    /\ UNCHANGED <<database, registry, chan, writer, writerOf, readerOf, process, pages, sent, excused, bounds>>

\* Two goroutines write to one socket: gorilla/websocket panics if it notices.
WriteRace(k) ==
    /\ hand[k] # NoEvent
    /\ \E j \in Conns \ {k} : hand[j] # NoEvent /\ writerOf[j] = writerOf[k]
    /\ Fault
    /\ ProcessEnds

-----------------------------------------------------------------------------
Handle(k) ==
    \/ NewChat(k) \/ NewUserInChat(k) \/ AddUserToChat(k) \/ AddRefused(k) \/ AddFails(k)
    \/ AllUserChats(k) \/ AllUserChatsFails(k) \/ SendMessage(k)

FanOut(p) ==
    \/ ChatMembers(p) \/ LookupOffline(p) \/ LookupOnline(p)
    \/ SendEvent(p) \/ SendTimeout(p) \/ SendPanics(p)

Next ==
    \/ \E k \in Conns :
          \/ Connect(k) \/ Disconnect(k) \/ ReaderStarts(k) \/ WriterStarts(k)
          \/ ReaderEnds(k) \/ ReadRace(k) \/ WriterEnds(k) \/ Forget(k) \/ Handle(k)
          \/ WriterTakes(k) \/ Receive(k) \/ WriteFails(k) \/ WriteRace(k)
    \/ \E c \in Chats, l \in Logins : JoinsLate(c, l)
    \/ \E r \in Requests : SendFileMessage(r)
    \/ \E p \in Procs : FanOut(p)
    \/ Restart

Spec == Init /\ [][Next]_vars

\* A handler that can go on does. Nothing is assumed of the peers: none has to
\* take an event from its socket, or to leave it.
Fairness == \A p \in Procs : WF_vars(FanOut(p))

FairSpec == Spec /\ Fairness

-----------------------------------------------------------------------------
(***************************************************************************)
(* Properties.                                                             *)
(***************************************************************************)

\* No page shows, and no event on its way announces, a chat that its user is
\* not in, although lists and single chats come from different readers.
NoPhantomChats ==
    \A l \in Logins :
        /\ chats[l] \subseteq Of(l)
        /\ \A e \in Held(l) \cup Buffered(l) : Carries(e, l) \subseteq Of(l)

\* A page lacks a chat of its user, with nothing on its way, only if an event
\* with the chat was lost, an older list was on its way when the user was added
\* (two readers may overtake each other), or the INSERT of the user was not
\* answered, so that nobody was told.
MissingChatIsExplained ==
    \A l \in Logins : Held(l) \cup Buffered(l) = {} => Of(l) \ chats[l] \subseteq doubt[l]

\* A socket that two WriteMessage goroutines found has no order: one takes an
\* event, the other takes the next and writes first.
HasOneWriter(c) == \A j, k \in Conns : writerOf[j] = c /\ writerOf[k] = c => j = k

\* Messages that one reader goroutine (or one request) saved come by one socket,
\* served by one writer goroutine, in the order they were saved in. Across a
\* reconnect of either side they need not: the old reader may still be in its
\* fan-out. Two readers of one sender's socket are two goroutines.
SenderOrderKept ==
    \A l \in Logins : \A i, j \in DOMAIN got[l] :
        /\ i < j
        /\ got[l][i][2] = got[l][j][2]
        /\ HasOneWriter(got[l][i][2])
        /\ from[got[l][i][1]].by = from[got[l][j][1]].by
        => got[l][i][1] < got[l][j][1]

\* When a fan-out is over, a member of its list who was registered all the
\* time was sent the message, unless a channel was full for three seconds, or the
\* process or the request panicked.
ListedAndOnlineIsServed ==
    \A m \in 1 .. saved : ~Fanning(m) => Logins \ excused[m] \subseteq sent[m]

\* A fan-out ends, whatever the peers do: a member who takes nothing holds it
\* up for three seconds.
FanOutEnds == \A m \in Msgs : Fanning(m) ~> ~Fanning(m)

Delivery == INSTANCE BestEffort WITH
    Messages <- Msgs,
    open <- {m \in Msgs : Fanning(m)},
    over <- {m \in 1 .. saved : ~Fanning(m)},
    offered <- sent,
    queued <- [m \in Msgs |-> {l \in Logins : Message(m) \in Buffered(l)}],
    shown <- [m \in Msgs |-> {l \in Logins : \E i \in DOMAIN got[l] : got[l][i][1] = m}]

\* Messages are delivered as BestEffort promises: offered to a login at most
\* once, never after the fan-out, never brought back once lost.
KeepsBestEffort == Delivery!Spec
=============================================================================
