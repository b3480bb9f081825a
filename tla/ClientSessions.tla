--------------------------- MODULE ClientSessions ---------------------------
(***************************************************************************)
(* WebSocket sessions of the message service: the registry of online       *)
(* clients (clientStorage), the reader and the writer goroutine that       *)
(* InitConnection starts for every socket, and every send of an event into *)
(* a client's buffered channel, by a reader's handler or by an HTTP        *)
(* request that fans a file message out.                                   *)
(*                                                                         *)
(* SaveClient makes one models.Client for one socket, so a client, its     *)
(* socket, its channel and its context share one identifier of Conns.      *)
(* Messages are not told apart here: a channel is the number it buffers.   *)
(***************************************************************************)
EXTENDS Naturals

CONSTANTS
    Conns,      \* sockets ever accepted by InitConnection
    Requests,   \* HTTP requests that call fanOutMessage
    Logins,
    LoginOf,    \* the ?login= of each socket
    SendCap,    \* capacity of Client.Send: 32 in clientStorage.go
    MaxEvents,  \* bound: events read and requests served, together
    NoClient

ASSUME NamesAssumption ==
    /\ NoClient \notin Conns
    /\ Conns \cap Requests = {}
    /\ LoginOf \in [Conns -> Logins]

ASSUME BoundsAssumption == SendCap \in Nat \ {0} /\ MaxEvents \in Nat

VARIABLES
    storage,    \* clientStorage.storage: the client registered for a login
    conn,       \* each socket: none, open, broken (peer gone), closed by DeleteClient
    ctx,        \* the context of each socket's goroutines
    queued,     \* number of events buffered in each Client.Send
    closed,     \* close(client.Send) was executed
    before,     \* history: the clients saved before this one
    reader,     \* program counter of ReadMessage, and of a request's fan-out
    readerOf,   \* `client` of ReadMessage: what GetClient returned when it started
    job,        \* the handler that a process runs: its kind, the logins it
                \* still has to serve and the client it is sending to
    writer,     \* program counter of WriteMessage
    writerOf,   \* `client` of WriteMessage
    events,     \* handlers started so far, up to MaxEvents
    process     \* the message service itself

vars == <<storage, conn, ctx, queued, closed, before, reader, readerOf, job,
          writer, writerOf, events, process>>

Clients == Conns \cup {NoClient}
Procs == Conns \cup Requests

Kinds == {"none", "deliver", "allChats", "history"}
ReaderStates == {"none", "starting", "checking", "reading", "looking", "sending", "done"}
WriterStates == {"none", "starting", "select", "writing", "done"}

Idle == [kind |-> "none", todo |-> {}, dest |-> NoClient]

\* One type invariant: the channel never holds more than its capacity
\* (make(chan json.RawMessage, 32)), and every program counter is a place of
\* ReadMessage, WriteMessage or fanOutMessage.
TypeOK ==
    /\ storage \in [Logins -> Clients]
    /\ conn \in [Conns -> {"none", "open", "broken", "closed"}]
    /\ ctx \in [Conns -> {"live", "cancelled"}]
    /\ queued \in [Conns -> 0 .. SendCap]
    /\ closed \in [Conns -> BOOLEAN]
    /\ before \in [Conns -> SUBSET Conns]
    /\ reader \in [Procs -> ReaderStates]
    /\ readerOf \in [Conns -> Clients]
    /\ job \in [Procs -> [kind : Kinds, todo : SUBSET Logins, dest : Clients]]
    /\ writer \in [Conns -> WriterStates]
    /\ writerOf \in [Conns -> Clients]
    /\ events \in 0 .. MaxEvents
    /\ process \in {"up", "sendOnClosed", "concurrentWrite"}

Init ==
    /\ storage = [l \in Logins |-> NoClient]
    /\ conn = [k \in Conns |-> "none"]
    /\ ctx = [k \in Conns |-> "live"]
    /\ queued = [k \in Conns |-> 0]
    /\ closed = [k \in Conns |-> FALSE]
    /\ before = [k \in Conns |-> {}]
    /\ reader = [p \in Procs |-> "none"]
    /\ readerOf = [k \in Conns |-> NoClient]
    /\ job = [p \in Procs |-> Idle]
    /\ writer = [k \in Conns |-> "none"]
    /\ writerOf = [k \in Conns |-> NoClient]
    /\ events = 0
    /\ process = "up"

\* An unrecovered panic: every goroutine, channel and entry is gone.
Crash(why) ==
    /\ process' = why
    /\ storage' = [l \in Logins |-> NoClient]
    /\ conn' = [k \in Conns |-> "none"]
    /\ ctx' = [k \in Conns |-> "live"]
    /\ queued' = [k \in Conns |-> 0]
    /\ closed' = [k \in Conns |-> FALSE]
    /\ before' = [k \in Conns |-> {}]
    /\ reader' = [p \in Procs |-> "none"]
    /\ readerOf' = [k \in Conns |-> NoClient]
    /\ job' = [p \in Procs |-> Idle]
    /\ writer' = [k \in Conns |-> "none"]
    /\ writerOf' = [k \in Conns |-> NoClient]
    /\ events' = 0

channels == <<conn, ctx, queued, closed>>
readers == <<reader, readerOf, job, events>>
writers == <<writer, writerOf>>

-----------------------------------------------------------------------------
(***************************************************************************)
(* clientStorage.                                                          *)
(***************************************************************************)

\* Mutant: an entry that exists is kept.
SaveClientKeepsFirst(k) ==
    /\ storage' = [storage EXCEPT ![LoginOf[k]] = IF @ = NoClient THEN k ELSE @]
    /\ before' = [before EXCEPT ![k] = {j \in Conns : conn[j] # "none"}]

\* SaveClient under c.mut: the entry of the login is overwritten. A client
\* that was registered there is neither closed nor cancelled.
SaveClient(k) ==
    /\ storage' = [storage EXCEPT ![LoginOf[k]] = k]
    /\ before' = [before EXCEPT ![k] = {j \in Conns : conn[j] # "none"}]

\* Mutant: the entry stays in the map.
DeleteClientKeepsEntry(l) ==
    /\ UNCHANGED storage
    /\ ctx' = [k \in Conns |-> IF k = storage[l] THEN "cancelled" ELSE ctx[k]]
    /\ conn' = [k \in Conns |-> IF k = storage[l] THEN "closed" ELSE conn[k]]
    /\ closed' = [k \in Conns |-> closed[k] \/ k = storage[l]]

\* Mutant: the channel is closed and the entry removed, CloseHandling and
\* Conn.Close are not called.
DeleteClientLeaksSocket(l) ==
    /\ storage' = [storage EXCEPT ![l] = NoClient]
    /\ UNCHANGED <<ctx, conn>>
    /\ closed' = [k \in Conns |-> closed[k] \/ k = storage[l]]

\* DeleteClient(login) under c.mut: whatever client is registered NOW is
\* cancelled, its socket and its channel are closed, its entry is removed.
DeleteClient(l) ==
    /\ storage' = [storage EXCEPT ![l] = NoClient]
    /\ ctx' = [k \in Conns |-> IF k = storage[l] THEN "cancelled" ELSE ctx[k]]
    /\ conn' = [k \in Conns |-> IF k = storage[l] THEN "closed" ELSE conn[k]]
    /\ closed' = [k \in Conns |-> closed[k] \/ k = storage[l]]

-----------------------------------------------------------------------------
(***************************************************************************)
(* InitConnection, and the peer.                                           *)
(***************************************************************************)

\* Upgrade, SaveClient, `go ReadMessage`, `go WriteMessage`. The goroutines
\* look their client up by login when they are first scheduled.
InitConnection(k) ==
    /\ conn[k] = "none"
    /\ conn' = [conn EXCEPT ![k] = "open"]
    /\ SaveClient(k)
    /\ reader' = [reader EXCEPT ![k] = "starting"]
    /\ writer' = [writer EXCEPT ![k] = "starting"]
    /\ UNCHANGED <<ctx, queued, closed, readerOf, job, writerOf, events, process>>

\* The browser leaves or the network fails: reads and pings now fail.
PeerGone(k) ==
    /\ conn[k] = "open"
    /\ conn' = [conn EXCEPT ![k] = "broken"]
    /\ UNCHANGED <<storage, ctx, queued, closed, before, readers, writers, process>>

-----------------------------------------------------------------------------
(***************************************************************************)
(* ReadMessage.                                                            *)
(***************************************************************************)

\* ReadMessage returns; its `client` goes with it.
ReaderExits(k) ==
    /\ reader' = [reader EXCEPT ![k] = "done"]
    /\ readerOf' = [readerOf EXCEPT ![k] = NoClient]

\* client, err := GetClient(login): offline ends the goroutine at once.
ReaderStart(k) ==
    LET client == storage[LoginOf[k]] IN
    /\ reader[k] = "starting"
    /\ reader' = [reader EXCEPT ![k] = IF client = NoClient THEN "done" ELSE "checking"]
    /\ readerOf' = [readerOf EXCEPT ![k] = client]
    /\ UNCHANGED <<storage, channels, before, job, events, writers, process>>

\* select { case <-ctx.Done(): return; default: conn.ReadMessage() }
ReaderCheck(k) ==
    /\ reader[k] = "checking"
    /\ IF ctx[k] = "cancelled"
       THEN ReaderExits(k)
       ELSE reader' = [reader EXCEPT ![k] = "reading"] /\ UNCHANGED readerOf
    /\ UNCHANGED <<storage, channels, before, job, events, writers, process>>

\* Mutant: the reader returns without DeleteClient.
ReaderFailsSilently(k) ==
    /\ ReaderExits(k)
    /\ UNCHANGED <<storage, ctx, conn, closed>>
    /\ UNCHANGED <<queued, before, job, events, writers, process>>

\* err != nil: DeleteClient(client.Login) and return.
ReaderFails(k) ==
    /\ ReaderExits(k)
    /\ DeleteClient(LoginOf[readerOf[k]])
    /\ UNCHANGED <<queued, before, job, events, writers, process>>

ReadError(k) ==
    /\ reader[k] = "reading"
    /\ conn[readerOf[k]] # "open"
    /\ ReaderFails(k)

\* Two goroutines read one socket, which gorilla/websocket does not support:
\* either may read an error from frames cut in two.
ReadRace(k) ==
    /\ reader[k] = "reading"
    /\ conn[readerOf[k]] = "open"
    /\ \E j \in Conns \ {k} : reader[j] = "reading" /\ readerOf[j] = readerOf[k]
    /\ ReaderFails(k)

\* An event arrives and its handler has something to deliver. `deliver` is
\* handleNewChat, handleNewUserInChat, handleSendMessage and an early
\* sendHistoryError. A handler that delivers nothing leaves all of this alone.
ReadEvent(k) ==
    /\ reader[k] = "reading"
    /\ conn[readerOf[k]] = "open"
    /\ events < MaxEvents
    /\ events' = events + 1
    /\ reader' = [reader EXCEPT ![k] = "looking"]
    /\ \E kind \in {"deliver", "allChats", "history"} :
       \E todo \in IF kind = "deliver" THEN SUBSET Logins \ {{}} ELSE {{LoginOf[k]}} :
          job' = [job EXCEPT ![k] = [kind |-> kind, todo |-> todo, dest |-> NoClient]]
    /\ UNCHANGED <<storage, channels, before, readerOf, writers, process>>

-----------------------------------------------------------------------------
(***************************************************************************)
(* Delivery: GetClient(login), then select { client.Send <- event; 3 s }.  *)
(* p is a reader or an HTTP request; the client looked up may be deleted   *)
(* before the send.                                                        *)
(***************************************************************************)

\* The handler returns: a reader loops, a request is finished.
Return(p) ==
    /\ reader' = [reader EXCEPT ![p] = IF p \in Conns THEN "checking" ELSE "done"]
    /\ job' = [job EXCEPT ![p] = Idle]

\* SendFileMessage reaches fanOutMessage.
StartRequest(r) ==
    /\ reader[r] = "none"
    /\ events < MaxEvents
    /\ events' = events + 1
    /\ reader' = [reader EXCEPT ![r] = "looking"]
    /\ \E todo \in SUBSET Logins \ {{}} :
          job' = [job EXCEPT ![r] = [kind |-> "deliver", todo |-> todo, dest |-> NoClient]]
    /\ UNCHANGED <<storage, channels, before, readerOf, writers, process>>

\* The loop goes on with the logins left, if any.
Continue(p, left) ==
    IF left = {} THEN Return(p)
    ELSE /\ reader' = [reader EXCEPT ![p] = "looking"]
         /\ job' = [job EXCEPT ![p] = [kind |-> @.kind, todo |-> left, dest |-> NoClient]]

\* A history page that cannot be delivered is answered by sendHistoryError,
\* which looks the login up again and delivers with the same timeout.
HistoryFails(p) ==
    /\ reader' = [reader EXCEPT ![p] = "looking"]
    /\ job' = [job EXCEPT ![p] = [kind |-> "deliver", todo |-> @.todo, dest |-> NoClient]]

\* GetClient(l) fails: the member is skipped, a single answer is dropped.
LookupOffline(p) ==
    /\ reader[p] = "looking"
    /\ \E l \in job[p].todo :
          /\ storage[l] = NoClient
          /\ IF job[p].kind = "history"
             THEN HistoryFails(p)
             ELSE Continue(p, job[p].todo \ {l})
    /\ UNCHANGED <<storage, channels, before, readerOf, writers, events, process>>

LookupOnline(p) ==
    /\ reader[p] = "looking"
    /\ \E l \in job[p].todo :
          /\ storage[l] # NoClient
          /\ job' = [job EXCEPT ![p] = [kind |-> @.kind, todo |-> @.todo, dest |-> storage[l]]]
    /\ reader' = [reader EXCEPT ![p] = "sending"]
    /\ UNCHANGED <<storage, channels, before, readerOf, writers, events, process>>

\* Mutant: the channel is unbounded.
HasRoomAlways(c) == queued[c] >= 0

HasRoom(c) == queued[c] < SendCap

SendEvent(p) ==
    LET c == job[p].dest IN
    /\ reader[p] = "sending"
    /\ ~closed[c]
    /\ HasRoom(c)
    /\ queued' = [queued EXCEPT ![c] = @ + 1]
    /\ Continue(p, job[p].todo \ {LoginOf[c]})
    /\ UNCHANGED <<storage, conn, ctx, closed, before, readerOf, writers, events, process>>

\* <-time.After(3 s) while the channel is full: the remaining logins are given
\* up. handleAllUserChats sends without a timeout.
SendTimeout(p) ==
    LET c == job[p].dest IN
    /\ reader[p] = "sending"
    /\ job[p].kind # "allChats"
    /\ ~closed[c]
    /\ ~HasRoom(c)
    /\ IF job[p].kind = "history" THEN HistoryFails(p) ELSE Return(p)
    /\ UNCHANGED <<storage, channels, before, readerOf, writers, events, process>>

\* A send on a closed channel panics. net/http recovers a request's
\* goroutine; a panic in ReadMessage ends the process.
SendPanics(p) ==
    /\ reader[p] = "sending"
    /\ closed[job[p].dest]
    /\ IF p \in Conns
       THEN Crash("sendOnClosed")
       ELSE /\ Return(p)
            /\ UNCHANGED <<storage, channels, before, readerOf, writers, events, process>>

-----------------------------------------------------------------------------
(***************************************************************************)
(* WriteMessage.                                                           *)
(***************************************************************************)

WriterStart(k) ==
    LET client == storage[LoginOf[k]] IN
    /\ writer[k] = "starting"
    /\ writer' = [writer EXCEPT ![k] = IF client = NoClient THEN "done" ELSE "select"]
    /\ writerOf' = [writerOf EXCEPT ![k] = client]
    /\ UNCHANGED <<storage, channels, before, readers, process>>

WriterExits(k) ==
    /\ writer' = [writer EXCEPT ![k] = "done"]
    /\ writerOf' = [writerOf EXCEPT ![k] = NoClient]

\* case <-ctx.Done(): return
WriterCancelled(k) ==
    /\ writer[k] = "select"
    /\ ctx[k] = "cancelled"
    /\ WriterExits(k)
    /\ UNCHANGED <<storage, channels, before, readers, process>>

\* case msg := <-client.Send, also what a closed channel still buffers.
WriterTakes(k) ==
    /\ writer[k] = "select"
    /\ queued[writerOf[k]] > 0
    /\ queued' = [queued EXCEPT ![writerOf[k]] = @ - 1]
    /\ writer' = [writer EXCEPT ![k] = "writing"]
    /\ UNCHANGED <<storage, conn, ctx, closed, before, readers, writerOf, process>>

\* conn.WriteMessage returns; its error is ignored. No write deadline is
\* set, so on an open socket with a peer that does not read this may wait.
WriterWrote(k) ==
    /\ writer[k] = "writing"
    /\ writer' = [writer EXCEPT ![k] = "select"]
    /\ UNCHANGED <<storage, channels, before, readers, writerOf, process>>

\* Two goroutines write one socket: gorilla/websocket panics when it notices.
WriteRace(k) ==
    /\ writer[k] = "writing"
    /\ \E j \in Conns \ {k} : writer[j] = "writing" /\ writerOf[j] = writerOf[k]
    /\ Crash("concurrentWrite")

WriterFails(k) ==
    /\ WriterExits(k)
    /\ DeleteClient(LoginOf[k])
    /\ UNCHANGED <<queued, before, readers, process>>

\* !ok: the channel is closed and drained; DeleteClient(login).
WriterSeesClose(k) ==
    /\ writer[k] = "select"
    /\ closed[writerOf[k]]
    /\ queued[writerOf[k]] = 0
    /\ WriterFails(k)

\* The heartbeat cannot be written; DeleteClient(login).
HeartbeatError(k) ==
    /\ writer[k] = "select"
    /\ conn[writerOf[k]] # "open"
    /\ WriterFails(k)

-----------------------------------------------------------------------------
Delivery(p) ==
    \/ LookupOffline(p) \/ LookupOnline(p)
    \/ SendEvent(p) \/ SendTimeout(p) \/ SendPanics(p)

ReaderStep(k) == ReaderStart(k) \/ ReaderCheck(k) \/ ReadError(k) \/ Delivery(k)

WriterStep(k) ==
    WriterStart(k) \/ WriterCancelled(k) \/ WriterTakes(k) \/ WriterSeesClose(k) \/ HeartbeatError(k)

Next ==
    /\ process = "up"
    /\ \/ \E k \in Conns :
             \/ InitConnection(k) \/ PeerGone(k) \/ ReadEvent(k) \/ ReadRace(k)
             \/ ReaderStep(k) \/ WriterStep(k) \/ WriterWrote(k) \/ WriteRace(k)
       \/ \E r \in Requests : StartRequest(r) \/ Delivery(r)

Spec == Init /\ [][Next]_vars

\* The Go scheduler runs every goroutine that can run. Nothing is assumed of
\* the peer: it may connect, leave, send or stop reading as it likes, so a
\* write is certain to return only once the socket is no longer open.
Fairness ==
    /\ \A k \in Conns :
          /\ WF_vars(process = "up" /\ ReaderStep(k))
          /\ WF_vars(process = "up" /\ WriterStep(k))
          /\ WF_vars(process = "up" /\ WriterWrote(k) /\ conn[writerOf[k]] # "open")
    /\ \A r \in Requests : WF_vars(process = "up" /\ Delivery(r))

FairSpec == Spec /\ Fairness

-----------------------------------------------------------------------------
(***************************************************************************)
(* Properties.                                                             *)
(***************************************************************************)

\* A registered client has an open channel, a live context and a socket that
\* the server has not closed; a client whose channel is closed is torn down as
\* a whole and is out of the map. This is what makes DeleteClient, which any
\* goroutine of any session of the login may call, close each channel once (a
\* second close panics).
RegistryConsistent ==
    /\ \A l \in Logins : storage[l] # NoClient =>
          /\ LoginOf[storage[l]] = l
          /\ conn[storage[l]] \in {"open", "broken"}
          /\ ctx[storage[l]] = "live"
          /\ ~closed[storage[l]]
    /\ \A k \in Conns :
          /\ closed[k] <=> ctx[k] = "cancelled"
          /\ closed[k] <=> conn[k] = "closed"

\* A registered client is served: its own reader and
\* its own writer are about to start or are running on this client. No exit
\* path of ReadMessage or WriteMessage leaves an entry that nobody reads.
ReaderServes(k) ==
    \/ reader[k] = "starting"
    \/ reader[k] \in {"checking", "reading", "looking", "sending"} /\ readerOf[k] = k

WriterServes(k) ==
    \/ writer[k] = "starting"
    \/ writer[k] \in {"select", "writing"} /\ writerOf[k] = k

RegisteredIsServed ==
    \A l \in Logins : storage[l] # NoClient =>
        ReaderServes(storage[l]) /\ WriterServes(storage[l])

\* A goroutine that was scheduled late works on the client it finds under its
\* login: its own, or one saved after it, of the same login; never an older one.
NeverOlder(k, c) == c # NoClient => LoginOf[c] = LoginOf[k] /\ (c = k \/ k \in before[c])

GoroutinesNeverOlder == \A k \in Conns : NeverOlder(k, readerOf[k]) /\ NeverOlder(k, writerOf[k])

\* DeleteClient(login) removes whatever client is registered, so a goroutine of
\* an old session can evict a new one. What the code does guarantee: the
\* evicting goroutine belongs to that client's session or to an earlier session
\* of the same login.
OwnOrEarlierEvicts ==
    \A l \in Logins : storage[l] # NoClient /\ storage'[l] = NoClient /\ process' = "up" =>
        \E k \in Conns :
            /\ \/ reader[k] = "reading" /\ reader'[k] = "done"
               \/ writer[k] = "select" /\ writer'[k] = "done"
            /\ LoginOf[k] = l
            /\ k = storage[l] \/ k \in before[storage[l]]

EvictedByOwnOrEarlierSession == [][OwnOrEarlierEvicts]_vars

\* The registry does not keep the dead: a client whose peer is gone is
\* eventually unregistered (deleted, or displaced by a newer session), even when
\* other peers stall for ever, unless a panic ended the process.
DeadPeerIsDropped ==
    \A k \in Conns :
        conn[k] = "broken" ~> storage[LoginOf[k]] # k \/ process # "up"

\* Both goroutines of a session that was torn down end, unless the reader sits
\* in the send without a timeout of handleAllUserChats on a full channel, the
\* writer in a write to an open socket, or the process panicked.
ReaderStuck(k) ==
    reader[k] = "sending" /\ job[k].kind = "allChats" /\ ~HasRoom(job[k].dest)

WriterStuck(k) == writer[k] = "writing" /\ conn[writerOf[k]] = "open"

TornDownSessionEnds ==
    \A k \in Conns :
        closed[k] ~> \/ process # "up"
                     \/ /\ reader[k] = "done" \/ ReaderStuck(k)
                        /\ writer[k] = "done" \/ WriterStuck(k)

\* handleSendMessage (messageService.go:425 "user is offline. Send
\* notification") treats a member that goes offline as one to skip: a send never
\* meets the closed channel of a deleted client.
OfflineMemberIsSkipped == process # "sendOnClosed"
=============================================================================
