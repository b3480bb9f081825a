--------------------------- MODULE HistoryPaging ---------------------------
(***************************************************************************)
(* The history of one chat: GetMessageHistory pages it backwards by the    *)
(* key (added_at, id), and the browser merges pages and live messages into *)
(* one list, asking for the next page when the user scrolls to the top.    *)
(*                                                                         *)
(* A message gets its id when it is inserted and its added_at when its     *)
(* transaction starts, and it is visible from its commit on: the three     *)
(* orders differ. Requests and answers may be late, lost, or answered      *)
(* after the browser has reconnected.                                      *)
(***************************************************************************)
EXTENDS Naturals, Sequences, FiniteSets

CONSTANTS
    MaxId,      \* bound: ids of message, 1 .. MaxId
    Old,        \* messages in the table before the browser opens the chat
    MaxTime,    \* bound: values of added_at
    FilesOf,    \* how many rows of message_attachment each message has
    Limit,      \* the page size: MESSAGE_HISTORY_PAGE_SIZE, 50
    MaxFaults,  \* bound: lost connections, failed queries, lost answers
    MaxLate     \* bound: requests and answers under way when a request times out

Ids == 1 .. MaxId

ASSUME BoundsAssumption ==
    /\ MaxId \in Nat /\ MaxTime \in Nat /\ Limit \in Nat \ {0}
    /\ Old \subseteq Ids
    /\ FilesOf \in [Ids -> Nat]
    /\ MaxFaults \in Nat /\ MaxLate \in Nat

VARIABLES
    table,      \* every id: unused, open (not committed) or committed
    at,         \* added_at of every message
    announcing, \* committed messages whose fan-out has not come to the browser
    online,     \* the browser's socket is open
    session,    \* how many sockets the browser has opened
    requests,   \* get_message_history events of the socket, not handled yet
    left,       \* those that the readers of lost sockets have still to handle
    answers,    \* answers that are computed and not yet in Client.Send
    wire,       \* events on the way to the browser
    items,      \* chatState.items, itemIds: the messages the browser has
    partial,    \* those of them that lack an attachment
    cursor,     \* chatState.nextCursor: a message, 0 for null
    hasMore,    \* chatState.hasMore
    initialized,
    loading,    \* isLoadingInitial, isLoadingOlder; the timer runs with either
    base,       \* history: what was committed when the first page was read
    lost,       \* history: messages whose event did not reach the browser
    cut,        \* history: the browser got a page of a query that was cut short
    stale,      \* history: it got one that was read before base, after base was
    faults

database == <<table, at, announcing>>
link == <<online, session>>
traffic == <<requests, left, answers, wire>>
browser == <<items, partial, cursor, hasMore, initialized, loading>>
ghosts == <<base, lost, cut, stale>>
vars == <<database, link, traffic, browser, ghosts, faults>>

Pages == [items : SUBSET Ids, partial : SUBSET Ids, hasMore : BOOLEAN, next : 0 .. MaxId,
          seen : SUBSET Ids, cut : BOOLEAN]
Error == [error |-> TRUE]
IsPage(event) == "next" \in DOMAIN event

\* Only a list that has had a page asks for an older one; there is a cursor to
\* ask with just when there is more to ask for; and a message that lacks an
\* attachment is one of the list.
TypeOK ==
    /\ table \in [Ids -> {"unused", "open", "committed"}]
    /\ at \in [Ids -> 0 .. MaxTime]
    /\ announcing \subseteq Ids
    /\ online \in BOOLEAN
    /\ session \in 0 .. MaxFaults + 1
    /\ requests \in Seq(0 .. MaxId)
    /\ left \subseteq [session : 0 .. MaxFaults, before : 0 .. MaxId]
    /\ \A a \in answers : IsPage(a.event) => a.event \in Pages
    /\ \A i \in DOMAIN wire : IsPage(wire[i]) => wire[i] \in Pages
    /\ partial \subseteq items /\ items \subseteq Ids
    /\ cursor \in 0 .. MaxId
    /\ hasMore \in BOOLEAN /\ initialized \in BOOLEAN
    /\ loading \in {"no", "initial", "older"}
    /\ loading = "older" => initialized
    /\ initialized => (hasMore <=> cursor # 0)
    /\ base \cup lost \subseteq Ids
    /\ cut \in BOOLEAN /\ stale \in BOOLEAN
    /\ faults \in 0 .. MaxFaults

Init ==
    /\ table = [m \in Ids |-> IF m \in Old THEN "committed" ELSE "unused"]
    /\ at \in [Ids -> 0 .. MaxTime]
    /\ \A m \in Ids : at[m] = 0 <=> m \notin Old
    /\ announcing = {}
    /\ online = TRUE
    /\ session = 0
    /\ requests = <<>>
    /\ left = {}
    /\ answers = {}
    /\ wire = <<>>
    /\ items = {}
    /\ partial = {}
    /\ cursor = 0
    /\ hasMore = TRUE
    /\ initialized = FALSE
    /\ loading = "no"
    /\ base = {}
    /\ lost = Old
    /\ cut = FALSE
    /\ stale = FALSE
    /\ faults = 0

Fault == faults < MaxFaults /\ faults' = faults + 1

Committed == {m \in Ids : table[m] = "committed"}

-----------------------------------------------------------------------------
(***************************************************************************)
(* Writers.                                                                *)
(***************************************************************************)

\* The id is the next of the sequence; added_at is the start of the
\* transaction, which may be any time ago.
Insert(m) ==
    /\ table[m] = "unused"
    /\ \A n \in 1 .. m - 1 : table[n] # "unused"
    /\ table' = [table EXCEPT ![m] = "open"]
    /\ \E t \in 1 .. MaxTime : at' = [at EXCEPT ![m] = t]
    /\ UNCHANGED <<announcing, link, traffic, browser, ghosts, faults>>

CommitMessage(m) ==
    /\ table[m] = "open"
    /\ table' = [table EXCEPT ![m] = "committed"]
    /\ announcing' = announcing \cup {m}
    /\ UNCHANGED <<at, link, traffic, browser, ghosts, faults>>

\* The loop of handleSendMessage over the members comes to the browser's
\* login. An event for a client that is offline, or in a loop that ended
\* before, is lost.
FanOut(m) ==
    /\ m \in announcing
    /\ announcing' = announcing \ {m}
    /\ \/ /\ online
          /\ wire' = Append(wire, [message |-> m])
          /\ UNCHANGED lost
       \/ lost' = lost \cup {m} /\ UNCHANGED wire
    /\ UNCHANGED <<table, at, link, requests, left, answers, browser, base, cut, stale, faults>>

-----------------------------------------------------------------------------
(***************************************************************************)
(* GetMessageHistory.                                                      *)
(***************************************************************************)

\* order by added_at desc, id desc
OlderThan(m, n) == at[m] < at[n] \/ (at[m] = at[n] /\ m < n)

\* Mutant: the key is added_at alone.
BeforeCursorByTime(m, before) == before # 0 => at[m] < at[before]

\* $2 is null or (added_at, id) < ($2, $3)
BeforeCursor(m, before) == before # 0 => OlderThan(m, before)

\* limit n
Newest(n, S) == {m \in S : Cardinality({k \in S : OlderThan(m, k)}) < n}

\* The rows of the join: one for each attachment, one with nulls without any.
RowsOf(S) == UNION {{m} \X (IF FilesOf[m] = 0 THEN {0} ELSE 1 .. FilesOf[m]) : m \in S}

RowBefore(row, other) ==
    \/ OlderThan(other[1], row[1])
    \/ row[1] = other[1] /\ row[2] < other[2]

\* What rows.Next() yields: all rows, or those before the connection or the
\* deadline ended the loop, which nobody tells apart: rows.Err() is not read.
Yields(rows) == {rows} \cup {{r \in rows : RowBefore(r, end)} : end \in rows}

\* Mutant: the limit is that of the rows, not of the messages.
PageRowsLimitingRows(before) ==
    LET rows == RowsOf({m \in Committed : BeforeCursor(m, before)})
    IN  {r \in rows : Cardinality({q \in rows : RowBefore(q, r)}) < Limit + 1}

\* paged_messages, one message more than the page holds, and their rows.
PageRows(before) ==
    RowsOf(Newest(Limit + 1, {m \in Committed : BeforeCursor(m, before)}))

\* aggregateHistoryRows: one message for all its rows, with the attachments
\* of those that came.
Aggregated(rows) == {r[1] : r \in rows}
Lacking(rows, S) ==
    {m \in S : Cardinality({r \in rows : r[1] = m /\ r[2] # 0}) < FilesOf[m]}

\* The page: the message beyond the limit only says that there is more, and
\* the oldest one of the page is the next cursor.
PageOf(rows, all) ==
    LET history == Aggregated(rows)
        page == Newest(Limit, history)
        more == Cardinality(history) > Limit
    IN  [items |-> page,
         partial |-> Lacking(rows, page),
         hasMore |-> more,
         next |-> IF more THEN CHOOSE m \in page : \A k \in page : ~OlderThan(k, m) ELSE 0,
         seen |-> Committed,
         cut |-> rows # all]

\* ReadMessage handles the requests of one socket one by one. The chat exists
\* and the user is a member; any of the three queries may fail.
Handle(reader, before) ==
    /\ \A a \in answers : a.session # reader
    /\ LET all == PageRows(before)
           Answer(event) == answers' = answers \cup {[session |-> reader, event |-> event]}
       IN  \/ \E rows \in Yields(all) :
                 /\ Answer(PageOf(rows, all))
                 /\ IF rows = all THEN UNCHANGED faults ELSE Fault
           \/ Fault /\ Answer(Error)
    /\ UNCHANGED <<database, link, wire, browser, ghosts>>

Query ==
    /\ requests # <<>>
    /\ requests' = Tail(requests)
    /\ UNCHANGED left
    /\ Handle(session, Head(requests))

\* The reader of a socket that is lost handles what it still had to read.
LateQuery(request) ==
    /\ request \in left
    /\ left' = left \ {request}
    /\ UNCHANGED requests
    /\ Handle(request.session, request.before)

\* What is left to send when the client is offline or its channel full for
\* three seconds: a page becomes an error, an error is dropped.
Unsent(a) == IF IsPage(a.event) THEN {[a EXCEPT !.event = Error]} ELSE {}

\* The answer goes to the client that is registered now, whichever socket the
\* request came from.
SendAnswer(a) ==
    /\ a \in answers
    /\ \/ /\ online
          /\ answers' = answers \ {a}
          /\ wire' = Append(wire, a.event)
          /\ UNCHANGED faults
       \/ /\ answers' = (answers \ {a}) \cup Unsent(a)
          /\ IF online THEN Fault ELSE UNCHANGED faults
          /\ UNCHANGED wire
    /\ UNCHANGED <<database, link, requests, left, browser, ghosts>>

-----------------------------------------------------------------------------
(***************************************************************************)
(* The browser.                                                            *)
(***************************************************************************)

\* sendEvent drops the event when the socket is not open.
SendRequest(before) ==
    requests' = IF online THEN Append(requests, before) ELSE requests

\* handleChatSelected, loadMessageHistory without a cursor.
SelectChat ==
    /\ ~initialized
    /\ loading = "no"
    /\ loading' = "initial"
    /\ SendRequest(0)
    /\ UNCHANGED <<database, link, left, answers, wire, items, partial, cursor, hasMore, initialized,
                   ghosts, faults>>

\* maybeLoadOlderHistory, loadMessageHistory with a cursor.
ScrollToTop ==
    /\ initialized
    /\ loading = "no"
    /\ hasMore
    /\ cursor # 0
    /\ loading' = "older"
    /\ SendRequest(cursor)
    /\ UNCHANGED <<database, link, left, answers, wire, items, partial, cursor, hasMore, initialized,
                   ghosts, faults>>

\* Mutant: the flag of an older page stays up.
StopLoadingInitialOnly == loading' = IF loading = "initial" THEN "no" ELSE loading

\* finishHistoryLoading: both flags down, the timer stopped.
StopLoading == loading' = "no"

\* failHistoryLoading, after ten seconds. The answer may still come.
RequestTimeout ==
    /\ loading # "no"
    /\ Len(requests) + Cardinality(left) + Cardinality(answers) + Len(SelectSeq(wire, IsPage)) <= MaxLate
    /\ StopLoading
    /\ UNCHANGED <<database, link, traffic, items, partial, cursor, hasMore, initialized,
                   ghosts, faults>>

\* Mutant: next_cursor ?? nextCursor, a null keeps the cursor.
MergePageKeepsCursor(page) ==
    /\ items' = items \cup page.items
    /\ partial' = IF loading = "older" THEN partial \cup (page.partial \ items)
                  ELSE (partial \ page.items) \cup page.partial
    /\ cursor' = IF page.next = 0 THEN cursor ELSE page.next
    /\ hasMore' = page.hasMore
    /\ initialized' = TRUE

\* mergeHistoryPage: a page that was asked for as an older one adds what is
\* new; any other also replaces what the list has already.
MergePage(page) ==
    /\ items' = items \cup page.items
    /\ partial' = IF loading = "older" THEN partial \cup (page.partial \ items)
                  ELSE (partial \ page.items) \cup page.partial
    /\ cursor' = page.next
    /\ hasMore' = page.hasMore
    /\ initialized' = TRUE

ReceivePage ==
    /\ wire # <<>>
    /\ LET page == Head(wire) IN
       /\ IsPage(page)
       /\ MergePage(page)
       /\ base' = IF initialized THEN base ELSE page.seen
       /\ cut' = (cut \/ page.cut)
       /\ stale' = (stale \/ (initialized /\ ~(base \subseteq page.seen)))
    /\ StopLoading
    /\ wire' = Tail(wire)
    /\ UNCHANGED <<database, link, requests, left, answers, lost, faults>>

\* onMessageHistoryError: failHistoryLoading.
ReceiveError ==
    /\ wire # <<>>
    /\ Head(wire) = Error
    /\ StopLoading
    /\ wire' = Tail(wire)
    /\ UNCHANGED <<database, link, requests, left, answers, items, partial, cursor, hasMore, initialized,
                   ghosts, faults>>

\* pushRealtimeMessage: a message that the list has already is skipped.
ReceiveMessage ==
    /\ wire # <<>>
    /\ "message" \in DOMAIN Head(wire)
    /\ items' = items \cup {Head(wire).message}
    /\ wire' = Tail(wire)
    /\ UNCHANGED <<database, link, requests, left, answers, partial, cursor, hasMore, initialized,
                   loading, ghosts, faults>>

\* What was on the way to the browser is lost, and of its requests those that
\* have not come to the reader; the lists and flags of the page stay.
Disconnect ==
    /\ online
    /\ Fault
    /\ online' = FALSE
    /\ requests' = <<>>
    /\ \E read \in 0 .. Len(requests) :
          left' = left \cup {[session |-> session, before |-> requests[i]] : i \in 1 .. read}
    /\ wire' = <<>>
    /\ lost' = lost \cup {wire[i].message : i \in {j \in DOMAIN wire : "message" \in DOMAIN wire[j]}}
    /\ UNCHANGED <<database, session, answers, browser, base, cut, stale>>

\* connectWebSocket, five seconds later.
Reconnect ==
    /\ ~online
    /\ online' = TRUE
    /\ session' = session + 1
    /\ UNCHANGED <<database, traffic, browser, ghosts, faults>>

Receive == ReceivePage \/ ReceiveError \/ ReceiveMessage

Service ==
    \/ Query
    \/ \E request \in left : LateQuery(request)
    \/ \E a \in answers : SendAnswer(a)

Next ==
    \/ \E m \in Ids : Insert(m) \/ CommitMessage(m) \/ FanOut(m)
    \/ Service
    \/ SelectChat \/ ScrollToTop \/ RequestTimeout
    \/ Receive
    \/ Disconnect \/ Reconnect

Spec == Init /\ [][Next]_vars

\* The message service handles and answers requests, the socket delivers or is
\* opened again, the timer of the browser fires. That the user opens the chat and
\* keeps scrolling is the premise of PagingEnds, not a promise of the code.
Fairness ==
    /\ WF_vars(Service)
    /\ WF_vars(Receive \/ Reconnect)
    /\ WF_vars(RequestTimeout)
    /\ WF_vars(SelectChat \/ ScrollToTop)

FairSpec == Spec /\ Fairness

-----------------------------------------------------------------------------
(***************************************************************************)
(* Properties.                                                             *)
(***************************************************************************)

OnTheWay == {wire[i].message : i \in {j \in DOMAIN wire : "message" \in DOMAIN wire[j]}}

\* The messages the browser's list has come to: all of them, or those from the
\* cursor on.
Covered == {m \in Committed : hasMore => cursor # 0 /\ ~OlderThan(m, cursor)}

\* The list has no hole: what was there when the first page was read, and what
\* was fanned out since and not lost, is in the list as far back as it goes,
\* in whatever order ids, added_at, commits, pages and live messages come. It
\* stops short of a page that the reader of an earlier socket was late with:
\* the browser takes its cursor for its own, and nobody asks again for what was
\* committed in between and lies behind the cursor of the first page.
HistoryHasNoHoles ==
    initialized /\ ~cut /\ ~stale =>
        (Covered \cap base) \cup (Committed \ (lost \cup announcing \cup OnTheWay)) \subseteq items

\* A message in the list has all its attachments, wherever a page ends.
ItemsAreWhole == ~cut => partial = {}

\* A user who keeps scrolling comes to the beginning of the history, through
\* timeouts, late and repeated answers and reconnects.
PagingEnds == <>[](initialized /\ ~hasMore)

\* setHistoryComplete tells the user that the whole history is loaded when a
\* list that is not empty has no more pages. It should then hold what was there
\* when the first page was read.
WholeHistoryIsLoaded == initialized /\ ~hasMore /\ items # {} => base \subseteq items
=============================================================================
