# SimplyChat in TLA+

Specifications of SimplyChat (a chat with an API gateway, a message service, a
file service and a browser client), the TLC runs that check them on small
instances, and TLAPS proofs of what matters most for every instance.

## 1. The system

| part | state it keeps | operations | interacts with |
|---|---|---|---|
| WebSocket sessions (`messageService/internal/transport/websocket.go`, `clientStorage.go`, `ReadMessage`, `WriteMessage`) | `map[login]*Client` under an RWMutex; per client a socket, a channel of 32 events, a context | `InitConnection`, `SaveClient`, `GetClient`, `DeleteClient`, the reader and writer goroutine of each socket | every handler that sends an event to a login |
| Chats and members (`messageStorage.go`, `chatMembersStorage.go`, `getChatMembers`) | tables `chat`, `chat_user`; a Redis set `chat:<id>` with a TTL | `CreateChat`, `AddUserToChat`, `getChatMembers` | message handlers, fan-out |
| Events and fan-out (`handleNewChat`, `handleNewUserInChat`, `handleAllUserChats`, `handleSendMessage`, `SaveMessage`, `fanOutMessage`) | table `message`; what a handler has still to deliver; the pages' chat lists | write a row, look the members up, send to each login that is online; in the page, replace the list or add to it | members, sessions, file messages |
| History (`GetMessageHistory`, `aggregateHistoryRows`, `handleGetMessageHistory`) | tables `message`, `message_attachment` (read) | keyset pages, newest first | the browser's paging |
| File messages (`sendFileMessage.go`, `CreateFileMessage`, `tx.go`, the file service client) | `message`, `message_attachment` | upload each file, save the message, compensate on failure, fan out | file service, members, sessions |
| File service (`fileService/internal`) | table of metadata, S3 objects | `Upload`, `GetContent`, `GetDownloadLink`, `Delete` in stages | PostgreSQL, S3 |
| Access to files (`fileMessagesHandler.go` of the gateway, `CheckFileAccess`, `GetContent`) | none between requests | ask the message service, pass the request on, read row and object, stream | file messages, file service |
| Message service HTTP (`transport/http`, `router.go`) | none | parse and validate an upload, check access to a file | sessions, messages |
| Login (`authHandler.go`, `authService.go`, `auth.js`, `api.js`) | two cookies and `userLogin` in localStorage, shared by the tabs; each page's own `state.login` | login, register, logout, check and refresh of tokens | auth service, every request |
| WebSocket link (`gatewayService.go`, `chatHandler.go`, `ws.js`) | two connections per link, timers of the page | token check, dial, proxy in both directions, reconnect | login, message service |
| Browser client (`apiGateway/static/js`) | active chat, chat and message lists, paging flags, the socket | connect and reconnect, optimistic send, history pages, realtime messages | gateway |
| Auth service | git submodule, empty here | | gateway, over gRPC |

What is hard here: every goroutine of the message service looks clients up by
login under a lock it releases before it uses them; a login may reconnect before
its old session has noticed; PostgreSQL, Redis, S3 and the file service fail or
answer late between any two steps; nothing is transactional across them; a
verdict on access, a list of members or of chats is used long after it was read; the
browser's lists are merged from optimistic entries, realtime events and pages, and
its tabs share cookies that answers set in any order.

### What makes each part correct

- **Sessions.** Every channel is closed once; a registered client is live and is
  read and written by its own goroutines; a goroutine that starts late never
  works for an older session or another login; only the client's own or an
  earlier session of its login evicts it; a dead peer leaves the registry; a
  torn-down session's goroutines end; a member that goes offline during a
  fan-out is skipped.
- **Chats and members.** The cached list is a list the chat really had; it names
  no stranger; it does not live for ever unless a command to Redis failed or was not
  answered; a chat exceeds its capacity by the inserts under way at most.
- **Events and fan-out.** A page never shows a chat its user is not in, and lacks
  one only for a reason; a listed member who stays online is sent the message; it is
  offered once and never after its fan-out; the messages of one reader reach a
  page in their order; a fan-out ends, whatever its receivers do.
- **Login.** When no request is under way, cookies, localStorage and new pages name
  one user; a logout is final for all tabs.
- **Access to files.** Only files of saved messages of the reader's chats are served,
  and a message that was announced has its files.
- **History.** Pages put together are the history: no gap, no message cut in two
  at a page boundary; asking comes to an end; "the whole history is loaded" is
  true when it is shown.
- **File messages.** A message is saved whole or not at all; an announced message
  keeps its files; a file without a message has a cause; a failed call left
  nothing.
- **File service.** An identifier that was handed out is readable until its
  deletion is asked for; what was removed stays removed; a deletion leaves no
  object behind.
- **Link (gateway and browser).** The page never gives up while it can still
  connect, and opens no more sockets than failures explain; a broken link is
  replaced; a proxy whose user is gone lets the login go offline, unless a later
  connection has taken the login over.

PROJECT.json lists the hazards behind these, each with the line where it bites.

## 2. Modules

`<M>Proofs` EXTENDS `<M>` and holds theorems (MessageFilesProofs those of FileMessages
and FileDownloads); `MC<M>` EXTENDS `<M>` and holds the
constants of TLC's instances. No module declares a recursive operator. Operators
named in a comment "Mutant: ..." stand before the action they distort; they are
ways the code could be wrong, and every property is violated by at least one of
them.

### ClientSessions

Code: `websocket.go` (`InitConnection`), `clientStorage.go`, and from
`messageService.go` `ReadMessage`, `WriteMessage` and every send on `client.Send`.

| state | code |
|---|---|
| `storage` | `clientStorage.storage`, guarded by `mut` |
| `conn`, `ctx`, `queued`, `closed` | `Client.Conn`, `Client.Ctx`, the length of `Client.Send`, whether it was closed |
| `reader`, `readerOf`, `writer`, `writerOf` | where the two goroutines of a socket are, and their local `client` |
| `job` | the handler a reader or an HTTP request runs: logins still to serve, the client found for the next send |
| `process` | up, or ended by a panic |
| `before`, `events` | history of earlier sessions; a bound |

A critical section of `mut` is one step: `SaveClient` and `DeleteClient` hold the
lock from their first line to their last, and `DeleteClient` cancels, closes
and removes under it. `GetClient` is a step of its own (`LookupOnline`,
`ReaderStart`, `WriterStart`), because its lock is released before the client is
used. The handlers differ here by how they deliver: `deliver` stands for those
that send with a timeout of three seconds to one or more logins, `allChats` for
`handleAllUserChats`, which sends without one, `history` for a page, whose failed
delivery is followed by `sendHistoryError`. Two goroutines that read or write
one gorilla connection at the same time are outside what the library supports;
`ReadRace` and `WriteRace` take the outcomes it can have (a read error; the panic
"concurrent write to websocket connection").

### ChatMembership

Code: `CreateChat`, `AddUserToChat` and `GetAllChatMembers` of
`messageStorage.go`, `chatMembersStorage.go`, `getChatMembers`, and the handlers that
call them. A worker is a goroutine inside one `getChatMembers`; every SQL statement and
Redis command is a step and may fail.

`AddUserToChat` is its INSERT, an action of the database and not of a worker: whoever
sent it may have waited for the answer, given up after five seconds, or died with the
process, and the row is committed or not all the same. It is two steps, `CountMembers`
and `InsertMember`: one statement, but under READ COMMITTED its count does not see an
insert that has not committed, and `counted` holds the logins in between. Any number may
be there at once.

A Redis command that fails is one of three: it had no effect (`FillCacheFails`), it
has run and its answer is lost (`FillCacheUnanswered`, the failing half of `TouchCache`), or
it runs later (`lateSadd`, `LateSadd`, `lateExpire`, `LateExpire`). When SADD is not answered,
`CreateMembersList` returns and no EXPIRE follows. `past`, `crowd`, `cut` and `noExpire` are
history: what the members were, how many were `counted` at once, whether a query
ended early, whether the key was made by a SADD whose EXPIRE never came.

### FileStore and FileService

`FileStore` is the abstract specification: three states for a file, the
identifiers handed out, the deletions asked for. `FileService` is `Upload` and
`Delete` of `service.go` with the commands of `repository.go` and `storage.go`, each
a step. A command that fails may have taken effect, may take effect later
(`late`), or not at all. `withRetry` is the operator `WithRetry`.
`Promise == INSTANCE FileStore WITH file <- [f \in Files |-> FileOf(f)]` is the
refinement mapping: stored is "a live row and its object", and `known` and `asked`
are the same on both sides.

### FileMessages

`SendFileMessage` composed with the file service through `FileStore`, which the
module EXTENDS: a call may do to the service only what `FileStore` allows a caller
(`HandOut` is an upload that was answered, `AskRemoval` a Delete that was sent) and
the service moves on its own (`Unanswered`, `Remove`). Since FileService implements
FileStore, what holds here holds with the real service in its place. The
transaction of `CreateFileMessage` is written row by row and becomes visible at its
commit; the answer to COMMIT may be lost. An upload is sent (`SendFile`) before it is
answered (`UploadFile`); one that is not answered may be stored for ever, or later, and
`sent` remembers whose it was, so that `OrphansHaveACause` is about every file the
service stores and not only about those whose identifier somebody knows.

### FileDownloads

EXTENDS FileMessages with readers: `ContentFile` and `DownloadFile` of the gateway,
`UserHasAccessToFile` of the message service, `GetContent` of the file service. The
verdict on access, its arrival at the gateway, the read of the row and the read of
the object are steps of their own, and anything in FileMessages may happen between
them; each may also fail, or take longer than the five seconds of the gateway's client.

### BestEffort and ChatEvents

`BestEffort` is the abstract specification of live delivery: which fan-outs are under
way or over, and for each message the logins it was offered to, is on the way to,
and was shown to. ChatEvents is the code: `handleNewChat`, `handleNewUserInChat`,
`handleAllUserChats`, `handleSendMessage`, the fan-out of `SendFileMessage`, and
the page that the events come to.

| state | code |
|---|---|
| `created`, `members`, `saved`, `from` | rows of `chat`, `chat_user`, `message` |
| `late` | INSERTs of `AddUserToChat` that nobody waits for and that may still commit |
| `storage`, `link`, `chan`, `asked` | the registry, each socket, `Client.Send`, the `all_user_chats` of `onopen` that was not read yet |
| `writer`, `writerOf`, `hand` | `WriteMessage` of each session, the `client` it found, the event it has taken and not yet written |
| `readerOf` | the `client` that `ReadMessage` found |
| `step`, `event`, `todo`, `dest` | the handler that a reader or a request runs: what it delivers, to whom still, which client it found |
| `chats`, `got` | `state.chats` of each page; the live messages it was given, with the socket each came by |
| `sent`, `excused`, `doubt` | history: who was sent a message, whom a fan-out had a reason to leave out, which chats a page had a reason to miss |

A handler is three kinds of step: the row it writes (`AddUserToChat`, `Save`), the
lookup of one login (`LookupOnline`, `LookupOffline`), one send (`SendEvent`,
`SendTimeout`, `SendPanics`), so that other readers and requests, `DeleteClient` and the
writers come between any two. A goroutine of a new socket looks its client up
(`ReaderStarts`, `WriterStarts`) after `SaveClient` and may find a newer one, so two readers
or two writers may serve one client: each takes events from the one channel
(`WriterTakes`) and writes them (`Receive`) in steps of its own. What such a socket brings
has no order, and `SenderOrderKept` is about sockets that one writer found
(`HasOneWriter`). `handleSendMessage` and `handleNewUserInChat` take chat, sender and user
from the event as they are, and so do the actions; which events a page or client may
ask for is the constant `Asks`. `AddFails` is an INSERT that was not answered: it
has no effect, or `JoinsLate` commits it with nobody to tell the user.
`Forget` empties the channel of a client that nobody serves or sends to any more. Logins are served in any order, since a Redis set has
none. `excused` is assigned only where the code has given up on somebody: not on the
list, offline at the lookup, deleted from the registry, left over at a timeout or a
panic. `doubt` is the same for chats, with the INSERT that nobody waited for as one more reason.

### HistoryPaging

Both ends of the history: the queries of `GetMessageHistory`
(`BeforeCursor`, `Newest`, `RowsOf`), `aggregateHistoryRows`, the handler
`handleGetMessageHistory`, and in the browser `loadMessageHistory`,
`mergeHistoryPage`, `pushRealtimeMessage` and the loading flags. Between them are a
queue of requests of the present socket (`Query`), those that the reader of a lost socket
had already buffered and still handles (`left`, `LateQuery`), answers that are computed and
not yet sent, and a FIFO of events to the browser. Ids, `added_at` and commits have three
different orders. `base` and `lost` say what the browser can be expected to hold, `cut`
and `stale` when it got a page that was cut short, or one that was older than its first.

### BrowserLink

`ws.js` and `api.js` of the browser, `ConnectToChat`, the token handlers and `WsProxy` of
the gateway. Calls that wait for `checkAuth` or `refreshTokens` and timers are
counters, each link has its two connections as the gateway sees them, and the two
goroutines of `WsProxy`. An end that is gone fails reads at once but may take one
more write, as TCP does. Of the message service it has what decides about the link:
`registered`, the client that `SaveClient` stored last for the login and to which alone events
go (`EventComes`); `readers` and `writers`, its goroutines; and `DeleteClient(login)`, which
closes whatever client is registered, so that the end of one session may close the
connection of a newer one (`SessionEnds`). `LoseBackend` is the network only. The auth service enters as: a token is valid or not.

### BrowserLogin

`Login`, `Register`, `Logout`, `HandleUpdateTokens`, `HandleCheckAuth` of the gateway, and
`auth.js`, `api.js`, `app.js` and the start of `ws.js` in several tabs of one browser. A
request is sent with the cookies of that moment, is answered by the gateway
(`Gateway`), its answer's headers set cookies (`AnswerArrives`), and later its
script runs (`LoginResponds`, `RefreshResponds`, `LogoutResponds`): three steps, which the
requests of several tabs interleave. Leaving a page cancels the script, not the
cookies. The auth service is an external part: it gives out, renews, replaces and
ends refresh tokens.

### What composes what

FileMessages is composed with FileService through FileStore, and FileDownloads runs
beside FileMessages. ChatEvents composes the handlers with a registry: that of
ClientSessions, with its goroutines that look a client up by login, and with members:
its `ChatMembers` takes any subset of the members, which includes every stale list of
ChatMembership. ClientSessions takes the other side as a free choice (any set
of logins), as does HistoryPaging (any loss). BrowserLink has of the registry the one entry
of its login, and which session's end clears it. BrowserLink and BrowserLogin divide the browser's side: one has sockets and
valid or invalid tokens, the other has whose tokens they are, and no sockets but
"open" and "lost".

## 3. Runs

| run | instance | what it shows |
|---|---|---|
| `sessions` | two sockets of one login, one HTTP request, channel of 1, two events | registry, service and eviction in every interleaving; dead peers are dropped, torn-down sessions end |
| `sessions_panic` | three sockets of two logins, one event | finding: a send meets a channel that DeleteClient has closed |
| `membership` | one chat, three logins, two lookups at once, any INSERTs, one late SADD, capacities 2 and 3 | the list in Redis is a past membership, overshoot, expiry |
| `membership_cache` | same | finding: a cached list lacks a new member |
| `file_service` | two files, two Delete calls at once, two attempts per S3 command | the implementation of FileStore, and deletion |
| `file_messages` | two calls, up to two files each, three identifiers, one reader who joins the chat | messages are whole, told files stay and are served, every stored file without a message has a cause and is not served |
| `file_messages_failed_save` | two calls, without the reader | finding: "save file message failed" although it was saved |
| `history` | two old messages, one new, two values of `added_at`, pages of 1, one message with three attachments, one fault, one late answer | no holes, whole messages, paging ends |
| `history_cut` | three old messages | finding: a cut query is shown as the whole history |
| `browser_link` | two links at a time, two faults | bounded connections, the link comes back, a user who is gone is released |
| `chat_events` | two scenes of three sockets, three users and one HTTP request; two chats, two messages, two events, one fault, channel of 1 | who hears of what, the order, the implementation of BestEffort, fan-outs end |
| `browser_login` | two tabs, two users, two logins, two requests at once, one fault | one name, logout is final |

Why the bounds are enough:

- *Sessions.* A hazard here needs an old session and a new one of the same login,
  and a sender beside them: two sockets and a request, whose set of logins is free. With
  a channel of 1 one event fills it, and the timeout, the blocked send and the close of a
  channel that still buffers all happen; with two events a handler may begin when
  another one's event is still buffered. `sessions_panic` has a third socket
  as the sender, since only a reader's panic ends the process.
- *Members.* Chats share no state, so one chat is enough. Two lookups race with
  INSERTs, expiry, a late EXPIRE and one late SADD (`MaxLate`), which is a third fill; three
  logins overfill a private chat, all at once if they like.
- *Files.* Two Delete calls of one file, or of two, with a retry each; the third
  identifier is the file whose upload nobody hears of. One reader asks for one file
  after the other; readers share no state.
- *History.* A page of 1 makes every message a page boundary, two values of
  `added_at` for three messages force ties, and an old `added_at` for the new message
  makes it appear behind the cursor. The one fault may be a lost socket, whose requests
  and answers then race with those of the next. `Limit + 1 < 3` lets a limit on rows cut
  the message with three attachments.
- *Events.* An order can only go wrong between two events (`MaxEvents`) of one socket,
  of two, or of a socket and a request; `MaxMsgs` and `MaxChats` 2 let both be
  messages, or a new chat beside an old one. A channel of 1 is full after the first. One
  fault (`MaxFaults`) is a lost socket, a failed or cut statement, an INSERT that is not
  answered, a restart, or a race that gorilla/websocket notices. `Links` has two scenes. In one
  the pages of ann and bob are open and ann's may connect again, with the old reader still
  at work; bob's page asks for anything, ann's for her chats. In the other bob has gone
  and two sockets of ann open at once: four goroutines look up two clients, in every
  order, while a file message of bob comes. What other scenes, and pages that ask for
  anything, would add is covered by the proofs, which know no such limits, and not by the
  run; `FanOutEnds` is checked in the two scenes only.
- *Login.* Two tabs and two requests at once (`MaxCalls`) are what a race of answers
  needs; two sessions (`MaxSessions`) let a second user log in after the first, with a
  page of the first still there. One fault (`MaxFaults`) is a lost answer or socket, a
  call that fails, a refresh token that is replaced, or a reload.
- *Link.* Two links overlap (old and new socket of a page, or of two pages one after
  the other); two faults can lose a user and then the backend of the next link, or a backend
  and a token. A number of an ended link is used again, and so is that of a link that is
  stuck for good (`Stuck`), so there may be any number of links in sequence. That
  the old session's `DeleteClient` overtakes a whole reconnection is a race, and in
  `SessionEnds` it counts as a fault; every other eviction of a newer client is free.

Deadlock is not checked where the system may rest: sockets, calls and files are
finite, and the process may have panicked. It is checked in the membership runs,
where there is always a call to make.

Fairness. In ClientSessions: the Go scheduler runs every goroutine that can run, and
a write to a socket that is no longer open returns. Nothing is assumed of peers:
they may stall for ever, so a write to an open socket may too, and
`TornDownSessionEnds` names that exception and the send without a timeout of
`handleAllUserChats`. In HistoryPaging: the readers handle and answer what they were asked (`Service`), a socket
delivers or is opened again, and the browser's timers run; that the user opens the chat and keeps scrolling is the premise of `PagingEnds`.
In ChatEvents: a handler that can go on does (`FanOut`), which the timeout of three
seconds makes true of every send but that of a chat list; nothing is assumed of writers or
peers, so `FanOutEnds` holds although no page takes an event. In BrowserLogin: scripts run,
requests are answered and tokens expire; nobody has to log in, and `LogoutIsFinal` has
as its premise that in the end nobody does.
In BrowserLink: requests are answered (perhaps with an error), timers fire,
goroutines run, and the heartbeat finds a connection that has ended (`SessionEnds`). Two premises there are not of the code: that the user keeps
sending (`LinkComesBack`) and that events for the user keep coming
to the client that is registered (`GoneUserIsReleased`). Both are needed. Without the first, a proxy whose backend
has gone sits in `ReadMessage` on the user's connection and the page shows an open
socket that is dead, until its user sends something, which is lost
(`gatewayService.go:123` waits for both goroutines before it closes anything).
Without the second, the same happens the other way round, and the login stays
online. It is no premise about a proxy that a later connection of the login has
superseded: that one gets no events, only pings, and if its user is gone it stays until
the message service restarts. `GoneUserIsReleased` exempts it by name (`Superseded`).

## 4. Findings

Each is a run in which TLC finds the state.

1. **A send can end the message service** (`sessions_panic`). `handleSendMessage`
   takes a member that is offline as one to skip, but between `GetClient` and the send
   the client may be deleted and its channel closed. In a reader goroutine the
   panic ends the process; in an HTTP request net/http recovers it.
2. **A cached member list outlives its membership** (`membership_cache`). No insert
   tells Redis, and every send renews the expiry, so a new member gets no live
   messages for as long as the chat is busy.
3. **A failed save may have saved** (`file_messages_failed_save`). When only the
   answer to COMMIT is lost, the files of a message that is in the history are
   deleted.
4. **A cut query passes for the end of the history** (`history_cut`). `rows.Err()` is
   never read, the page says that there is no more, and the browser tells its
   user that the whole history is loaded.

What contradicts no comment or test is no finding, and is listed as a hazard where a
property stops short of it. One of these came up in a proof: **a page that is late by a
reconnect can leave a hole**. The reader of the old socket has read a page but not yet
sent it; the page asks again through the new socket and gets a newer page, and then the
old one, whose cursor it takes. What was committed between the two, has not come live and
lies between the two cursors is never asked for again. `HistoryHasNoHoles` stops short
of it by `stale`: with `MaxId = 4` in HistoryPaging.cfg (two new messages) and without
`~stale`, TLC finds the hole in 16 states; the invariant behind the proof does not
go through without it. The others are the link that stays open after its backend has gone
(section 3), a chat that grows beyond its capacity by the inserts under way
(`OvershootBounded`; those count that their callers gave up), a chat that an older list takes off the page again
(`MissingChatIsExplained`), a member whom nobody tells that he is one, because his INSERT
committed after its five seconds (same), messages of one user that change places after a
reconnect or where two writers serve one socket (`SenderOrderKept` is about one reader and
one writer), a proxy that a reconnection leaves behind (`GoneUserIsReleased`), an access token that comes back after a logout and lasts its fifteen
minutes (`LogoutIsFinal`).

## 5. Proofs

All for any values of the constants under the named assumptions: identifiers of
different kinds are different (and "no call" is not a call), `LoginOf` is a function, capacities, `SendCap`,
`MaxFiles` and `MaxRetries` are positive naturals, and the sets that are counted
(`Workers`, `Logins`) are finite.

- **ClientSessionsProofs.** `TypeCorrect`, `RegistrySafe`, `RegisteredServed`,
  `NeverAnOlderClient` and `EvictionIsOwnOrEarlier`, from `TypeOK /\ Safe`.
  `RegistryConsistent` alone is not inductive: a goroutine that deletes must hold a
  client of its own login (`HoldsClient`), and for `RegisteredIsServed` and eviction the
  registered client must be the last one saved for its login (`RegisteredIsLatest`), so
  that a goroutine which starts late and finds a client finds its own or a newer one.
  `DeleteSafe`, `StartSafe` and `DeliverySafe` carry the large steps, and `SafeInductive`
  puts the actions together. The action property follows from the same invariant.
- **ChatMembershipProofs.** `MembershipTypeCorrect` and `CacheNeverInvents` from
  `CacheInv`: memberships only grow, so what `members` has been is a chain
  (`PastIsChain`), and the union of two past memberships, which a race of two SADDs
  leaves in Redis, is the larger of them; a late SADD holds a past membership as well.
  `OvershootIsBounded` from `CapacityInv`: a count below the capacity leaves room for the
  insert that counted, and all other logins that are `counted` were so at one time.
  `KeysWithoutTTLAreExplained` from `KeyInv`: a key that SADD makes has the EXPIRE of that
  call still before it, and whatever keeps that EXPIRE from coming is recorded: it fails, a
  restart cuts it off, the SADD is not answered, or runs when nobody waits.
- **FileServiceProofs.** `FileServiceTypeCorrect` and `FileServiceKeepsPromise`, the
  implementation of FileStore: initial states map to initial states, every step
  maps to a step of FileStore or a stutter. `UploadInv` and `DeleteInv` say which
  commands can still be late at every stage of a file, which is what makes a
  late `remove` or `delete` harmless to a file that somebody knows. `RemovalInv`
  adds that whoever may still delete a row has seen its object go, and gives
  `DeletionLeavesNothing`; that a row answered as deleted stays so
  (`AnsweredDeletesAreFinal`) follows from the same invariants.
- **MessageFilesProofs**, for FileMessages and FileDownloads. `FileMessagesTypeCorrect`,
  `MessagesAreWhole`, `AnnouncedFilesStay` and `OrphansAreExplained`: `CallInv` follows a
  call through its stages: the rows of an open transaction are already whole when COMMIT
  is sent, and files are asked to be removed only in calls that told nobody. The promise
  of FileStore (`KnownIsStored`) is used, never the inside of the service; a stored file
  was sent by a call, and one that was answered is known to it. For the
  readers, `OnlyFilesOfMessages` and `AnnouncedFilesAreServed` from
  `DInv`: what was admitted stays a file of a saved message, because saved rows are not
  touched again (`SavedRowsStay`) and nobody leaves a chat; and a 404 means that a removal
  was asked for, which only a call that compensates does.
- **ChatEventsProofs.** `ChatEventsTypeCorrect` and `ChatsAreReal` from `EventInv`: what an
  event carries is true of its receiver from the moment its handler has it, through every
  channel, to the page, because memberships only grow. `ListedAreServed` from
  `MessageInv`: of the members of a list, everybody is excused, served or still to be
  served, by the one process that fans the message out. `DeliveryIsBestEffort`, the
  implementation of BestEffort, from `OnceInv`: nobody who is still to be served was sent
  the message, and of a login at most one channel or one writer has it, once; so a send is
  `Offer`, a write to an open socket is `Show`, a save is `Post`, a take is a stutter
  (`TakeKeeps`), and everything else (`CalmSteps`) is `Lose`, or nothing. `SenderOrder` from
  `OrderInv`: a process works at the last message it saved, a channel holds the messages of
  one process in order, what waits in it is later than what its writers have in hand
  (`HandFirst`) and than what its socket has shown, and what its only writer has in hand
  is later than what it has shown (`HandAfterShown`). That two writers are never one again
  (`WritersKept`) makes the exemption a fact about the socket and not about the moment.
  `MissingChatsAreExplained` from `DoubtInv`: a chat that is not in doubt is on the page or
  in an event on its way, and no older list is on its way that would take it off again;
  every step that drops an event, adds somebody while an older list is on its way, or adds
  somebody whom nobody will tell, puts the chats concerned in doubt. `MessagesStayInTheirChats` and `MessagesAreShownOnce`, which
  no run states, from `ShownInv`: a message is sent, and left to be sent, to its audience
  only, and what waits in a channel or with a writer is not yet on the page of its login.
- **HistoryPagingProofs.** `PagingTypeCorrect`, `ListHasNoHoles` and
  `MessagesOfTheListAreWhole`, for a table and pages of any size. First the key: `OlderThan`
  is a total order (`KeyIsAnOrder`), a set has an oldest and a newest message, the newest
  `n` of a set leave nothing newer out (`NewestOfASet`), and all rows of a message carry
  all its attachments (`RowsCarryMessages`); so a page of a query that came through holds
  everything from its cursor to the one it was asked for (`PageIsComplete`). Then
  `HoleInv`: every page under way fits the list it will be merged into (`Fits`), every
  request is for what is older than a cursor down to which the list is whole (`Asked`),
  and a committed message is in the list, on its way, or lost (`LiveFits`).
- **BrowserLinkProofs.** `LinkTypeCorrect`: a proxy that has ended holds no connection; it
  needs that what is not made yet is not held (`NotMade`), and that the message service has
  goroutines only for connections that were dialed (`Dialed`). `AttemptsBounded` from `PageInv`:
  a step moves an attempt from one place to another, a lost socket becomes one timer or
  two, and nothing of a chat page is left on the login page.
- **BrowserLoginProofs.** `LoginTypeCorrect` and `BrowserIsOneUsers` from `LoginInv`.
  `OneName` speaks of a browser at rest and is far from inductive: between the moment the
  cookies of a login are stored and the moment its script runs, the browser has two users,
  the cookies' and the pages'. `Undisturbed` says what holds at every moment before a
  request was overtaken: at most one login is in that gap (`Pending`), then the cookies
  are its user's alone; else one user owns the cookies, the stored name and every page; and
  every other request under way was sent with the cookie of now, so its answer cannot bring
  another user back. `StructInv` adds that a page waits for the request it sent, that the
  login page has no logout button, and that sessions belong to accounts. TLC checked
  `LoginInv` on the instance of the run before it was proved.

Only model-checked: the liveness properties, `DeadPeerIsDropped`, `TornDownSessionEnds`,
`PagingEnds`, `LinkComesBack`, `GoneUserIsReleased`, `FanOutEnds` and `LogoutIsFinal`
(liveness under fairness and ENABLED are beyond the proof system's backends). Every
invariant and every action property that a passing run checks is a theorem. The instances
are complete: TLC visits every state of each.

## 6. Not modelled

- *The browser's own messages* (an entry under `Date.now()` that no event
  reconciles), rendering, and the selection of files: lists that only the user's clicks
  change. The entry that is shown twice is a hazard in PROJECT.json.
- *What happens to a page's lists across a reconnect*: the page does not ask for what it
  missed, and nothing promises that it does.
- *HTTP parsing, MIME detection, spooling, size limits*: they convert, and are
  the choice to accept or reject. That `deleteCookie` sets the attributes of the cookie it
  deletes is left to the browser: a deletion takes effect.
- *Reads without a state of their own*: `GetMetadata`, `GetDownloadLink`, `ChatExists`,
  and `AddMemberToList` and `DeleteMemberFromList`, which nothing calls.
- *The auth service*: a submodule that is empty here; BrowserLogin says what is assumed
  of it.
- *Generated code, configuration, start-up, the old script*, which is commented out.

## 7. Plan

Done: ClientSessions, ChatMembership, FileStore and FileService, FileMessages,
HistoryPaging, BrowserLink, then ChatEvents with BestEffort, FileDownloads and
BrowserLogin, with the theorems above.

What would come next, in the order of its worth:

1. The optimistic entries of the browser in HistoryPaging: when an own message
   is shown twice and when once.
2. FileMessages over FileService as one theorem: the properties of FileMessages
   for the composed system, from the two theorems above.
