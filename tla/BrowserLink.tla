----------------------------- MODULE BrowserLink -----------------------------
(***************************************************************************)
(* The link between one page of the browser and the message service:       *)
(* connectWebSocket with its checks and retries, the gateway's handshake   *)
(* under the access_token cookie, and WsProxy, which pumps events between  *)
(* the user's connection and one it dials to the message service, which    *)
(* registers one client per login: the one that connected last.            *)
(*                                                                         *)
(* Events have no content here. The connections of the gateway are seen    *)
(* from its side: an end that is gone fails reads at once, but may take    *)
(* one more write before writes fail too, as TCP does.                     *)
(***************************************************************************)
EXTENDS Naturals, FiniteSets

CONSTANTS
    MaxLinks,   \* bound: links at one time; an ended one is used again
    MaxFaults   \* bound: lost connections, failed requests, expiries, logouts

ASSUME BoundsAssumption == MaxLinks \in Nat \ {0} /\ MaxFaults \in Nat

Links == 1 .. MaxLinks

VARIABLES
    page,       \* the page that is shown: chat, or auth.html
    access,     \* the access_token cookie is there and valid
    refresh,    \* the refresh_token cookie is there and valid
    checking,   \* calls of connectWebSocket that wait for checkAuth
    refreshing, \* calls of connectWebSocket that wait for refreshTokens
    timers,     \* timers that will call connectWebSocket
    newest,     \* state.socket, 0 for null
    sock,       \* readyState of each socket, none before it is made
    proxy,      \* what the gateway does for the socket
    user,       \* userConn
    back,       \* msgServiceConn
    up,         \* the goroutine from userConn to msgServiceConn runs
    down,       \* the goroutine from msgServiceConn to userConn runs
    sent,       \* an event of the browser waits in userConn
    lost,       \* history: sockets this page has lost
    registered, \* clientStorage: the link that is the login's client, 0 for none
    readers,    \* links whose ReadMessage runs in the message service
    writers,    \* links whose WriteMessage runs there
    evicted,    \* clients that DeleteClient closed and whose goroutines still run
    faults

cookies == <<access, refresh>>
calls == <<checking, refreshing, timers>>
browser == <<page, calls, newest, sock, lost>>
pumps == <<up, down, sent>>
gateway == <<proxy, user, back, pumps>>
service == <<registered, readers, writers, evicted>>
vars == <<cookies, browser, gateway, service, faults>>

\* What the gateway knows of a connection: gone, the peer has left; reset,
\* a write has found out.
Ends == {"none", "open", "gone", "reset", "closed"}

Live == {c \in Links : sock[c] \in {"connecting", "open"}}

\* Its connection is there, but a later one is the login's client, or none is.
Superseded(c) == back[c] = "open" /\ registered # c

\* Links that have ended, on every side.
Free == {c \in Links : /\ sock[c] \in {"none", "closed"} /\ proxy[c] \in {"none", "ended"}
                       /\ c \notin readers \cup writers}

\* Links without a user that no event will ever come to.
Stuck == {c \in Links : /\ sock[c] = "closed" /\ proxy[c] = "running" /\ Superseded(c)
                        /\ ~up[c]}

\* The numbers that the next socket may have: a stuck link is followed as long
\* as there is another.
Reusable == IF Free # {} THEN Free ELSE Stuck

\* Sockets the page has, is about to have or will try for.
Attempts == Cardinality(Live) + checking + refreshing + timers

\* A proxy that has returned holds no connection, and its goroutines run only
\* while it does. The registered client is served by both of its goroutines.
TypeOK ==
    /\ page \in {"chat", "auth"}
    /\ access \in BOOLEAN /\ refresh \in BOOLEAN
    /\ checking \in Nat /\ refreshing \in Nat /\ timers \in Nat /\ lost \in Nat
    /\ newest \in 0 .. MaxLinks
    /\ sock \in [Links -> {"none", "connecting", "open", "closed"}]
    /\ proxy \in [Links -> {"none", "dialing", "running", "ended"}]
    /\ user \in [Links -> Ends] /\ back \in [Links -> Ends]
    /\ up \in [Links -> BOOLEAN] /\ down \in [Links -> BOOLEAN]
    /\ sent \in [Links -> BOOLEAN]
    /\ \A c \in Links :
          /\ up[c] \/ down[c] => proxy[c] = "running"
          /\ proxy[c] = "ended" => {user[c], back[c]} \subseteq {"none", "closed"}
    /\ readers \cup writers \subseteq Links
    /\ evicted \subseteq readers \cup writers
    /\ registered \in {0} \cup ((readers \cap writers) \ evicted)
    /\ faults \in 0 .. MaxFaults

\* The chat page is loaded with the cookies of a login.
Init ==
    /\ page = "chat"
    /\ access = TRUE
    /\ refresh = TRUE
    /\ checking = 1
    /\ refreshing = 0
    /\ timers = 0
    /\ newest = 0
    /\ sock = [c \in Links |-> "none"]
    /\ proxy = [c \in Links |-> "none"]
    /\ user = [c \in Links |-> "none"]
    /\ back = [c \in Links |-> "none"]
    /\ up = [c \in Links |-> FALSE]
    /\ down = [c \in Links |-> FALSE]
    /\ sent = [c \in Links |-> FALSE]
    /\ lost = 0
    /\ registered = 0
    /\ readers = {}
    /\ writers = {}
    /\ evicted = {}
    /\ faults = 0

Fault == faults < MaxFaults /\ faults' = faults + 1

-----------------------------------------------------------------------------
(***************************************************************************)
(* connectWebSocket.                                                       *)
(***************************************************************************)

\* new WebSocket(...): the page's socket from now on. The one before, if it
\* is still there, keeps its handlers and its timers.
OpenSocket ==
    \E c \in Reusable :
        /\ \A d \in Reusable : c <= d
        /\ newest' = c
        /\ sock' = [sock EXCEPT ![c] = "connecting"]
        /\ proxy' = [proxy EXCEPT ![c] = "none"]
        /\ user' = [user EXCEPT ![c] = "none"]
        /\ back' = [back EXCEPT ![c] = "none"]
        /\ down' = [down EXCEPT ![c] = FALSE]
        /\ readers' = readers \ {c}
        /\ writers' = writers \ {c}
        /\ evicted' = evicted \ {c}
        /\ sent' = [sent EXCEPT ![c] = FALSE]
        /\ UNCHANGED <<registered, up>>

\* window.location.href, or the tab's new page: sockets and timers go with the
\* old page.
LeavePage ==
    /\ page' = "auth"
    /\ checking' = 0 /\ refreshing' = 0 /\ timers' = 0
    /\ newest' = 0
    /\ sock' = [c \in Links |-> IF c \in Live THEN "closed" ELSE sock[c]]
    /\ user' = [c \in Links |-> IF user[c] = "open" THEN "gone" ELSE user[c]]
    /\ lost' = 0

\* getValidatedAccessToken, HandleCheckAuth: the cookie came, its signature and
\* claims are good and it has not expired.
ValidAccessToken == access

\* checkAuth is answered 200.
CheckAuthSucceeds ==
    /\ checking > 0
    /\ ValidAccessToken
    /\ checking' = checking - 1
    /\ OpenSocket
    /\ UNCHANGED <<cookies, page, refreshing, timers, lost, faults>>

\* 401, or a request that fails: the page does not tell them apart.
CheckAuthFails ==
    /\ checking > 0
    /\ IF ValidAccessToken THEN Fault ELSE UNCHANGED faults
    /\ checking' = checking - 1
    /\ refreshing' = refreshing + 1
    /\ UNCHANGED <<cookies, page, timers, newest, sock, lost, gateway, service>>

\* A new access_token cookie; the refresh_token cookie stays.
HandleUpdateTokens ==
    /\ refresh
    /\ access' = TRUE
    /\ UNCHANGED refresh

RefreshSucceeds ==
    /\ refreshing > 0
    /\ HandleUpdateTokens
    /\ refreshing' = refreshing - 1
    /\ OpenSocket
    /\ UNCHANGED <<page, checking, timers, lost, faults>>

\* The refresh token is not accepted, or the request fails.
RefreshFails ==
    /\ refreshing > 0
    /\ IF refresh THEN Fault ELSE UNCHANGED faults
    /\ LeavePage
    /\ UNCHANGED <<cookies, proxy, back, pumps, service>>

\* Mutant: setInterval for setTimeout.
ReconnectEveryFiveSeconds ==
    /\ timers > 0
    /\ checking < 2
    /\ checking' = checking + 1
    /\ UNCHANGED <<cookies, page, refreshing, timers, newest, sock, lost, gateway,
                   faults, service>>

\* Five seconds after onerror or onclose.
Reconnect ==
    /\ timers > 0
    /\ timers' = timers - 1
    /\ checking' = checking + 1
    /\ UNCHANGED <<cookies, page, refreshing, newest, sock, lost, gateway, faults, service>>

\* The socket of a page closes abnormally: onclose, and for a failed handshake
\* or a connection error onerror before it, each start a timer.
Lose(c) ==
    /\ sock' = [sock EXCEPT ![c] = "closed"]
    /\ lost' = lost + 1
    /\ \E n \in 1 .. 2 :
          /\ sock[c] = "connecting" => n = 2
          /\ timers' = timers + n

\* sendEvent: through state.socket, when that is open. What is sent to a
\* gateway that has closed the connection is lost.
SendEvent ==
    sent' = [c \in Links |-> sent[c] \/ (c = newest /\ sock'[c] = "open" /\ proxy[c] # "ended")]

\* The answer to the handshake arrives; onopen sends all_user_chats.
Opened(c) ==
    /\ sock[c] = "connecting"
    /\ user[c] # "none"
    /\ sock' = [sock EXCEPT ![c] = "open"]
    /\ SendEvent
    /\ UNCHANGED <<cookies, page, calls, newest, lost, proxy, user, back, up, down,
                   faults, service>>

UserSends ==
    /\ \E c \in Links : c = newest /\ sock[c] = "open" /\ ~sent[c] /\ proxy[c] # "ended"
    /\ UNCHANGED sock
    /\ SendEvent
    /\ UNCHANGED <<cookies, page, calls, newest, lost, proxy, user, back, up, down,
                   faults, service>>

\* The gateway refused the handshake, or has closed userConn, without a close
\* frame.
SeesEnd(c) ==
    /\ \/ sock[c] = "connecting" /\ proxy[c] = "ended" /\ user[c] = "none"
       \/ sock[c] = "open" /\ user[c] = "closed"
    /\ Lose(c)
    /\ UNCHANGED <<cookies, page, checking, refreshing, newest, gateway, faults, service>>

\* The network between the browser and the gateway fails.
LoseUser(c) ==
    /\ Fault
    /\ c \in Live
    /\ Lose(c)
    /\ user' = [user EXCEPT ![c] = IF @ = "open" THEN "gone" ELSE @]
    /\ UNCHANGED <<cookies, page, checking, refreshing, newest, proxy, back, pumps, service>>

\* Both cookies are deleted, or the auth service fails and both stay.
HandleLogout ==
    \/ access' = FALSE /\ refresh' = FALSE
    \/ UNCHANGED cookies

\* The logout button: the page leaves whatever /logout answered.
Logout ==
    /\ page = "chat"
    /\ Fault
    /\ HandleLogout
    /\ LeavePage
    /\ UNCHANGED <<proxy, back, pumps, service>>

\* Login or Register set both cookies, and auth.html loads the chat page.
Login ==
    /\ page = "auth"
    /\ page' = "chat"
    /\ access' = TRUE /\ refresh' = TRUE
    /\ checking' = 1
    /\ UNCHANGED <<refreshing, timers, newest, sock, lost, gateway, faults, service>>

\* Fifteen minutes pass; the auth service ends a refresh token.
Expire ==
    /\ Fault
    /\ \/ access /\ access' = FALSE /\ UNCHANGED refresh
       \/ refresh /\ refresh' = FALSE /\ UNCHANGED access
    /\ UNCHANGED <<browser, gateway, service>>

-----------------------------------------------------------------------------
(***************************************************************************)
(* ConnectToChat and WsProxy.                                              *)
(***************************************************************************)

\* The token is validated, the connection upgraded, WsProxy started.
ConnectToChat(c) ==
    /\ sock[c] = "connecting"
    /\ proxy[c] = "none"
    /\ IF ValidAccessToken
       THEN /\ proxy' = [proxy EXCEPT ![c] = "dialing"]
            /\ user' = [user EXCEPT ![c] = "open"]
       ELSE proxy' = [proxy EXCEPT ![c] = "ended"] /\ UNCHANGED user
    /\ UNCHANGED <<cookies, browser, back, pumps, faults, service>>

\* InitConnection, SaveClient: the login's client from now on, and its two
\* goroutines. The one before keeps its connection.
SaveClient(c) ==
    /\ registered' = c
    /\ readers' = readers \cup {c}
    /\ writers' = writers \cup {c}
    /\ UNCHANGED evicted

\* GetMsgServiceConn, and the two goroutines of the proxy.
Dial(c) ==
    /\ proxy[c] = "dialing"
    /\ proxy' = [proxy EXCEPT ![c] = "running"]
    /\ back' = [back EXCEPT ![c] = "open"]
    /\ up' = [up EXCEPT ![c] = TRUE]
    /\ down' = [down EXCEPT ![c] = TRUE]
    /\ SaveClient(c)
    /\ UNCHANGED <<cookies, browser, user, sent, faults>>

\* The message service cannot be reached, or its answer is lost: only userConn
\* is closed.
DialFails(c) ==
    /\ proxy[c] = "dialing"
    /\ Fault
    /\ proxy' = [proxy EXCEPT ![c] = "ended"]
    /\ user' = [user EXCEPT ![c] = "closed"]
    /\ sent' = [sent EXCEPT ![c] = FALSE]
    /\ \/ UNCHANGED <<back, service>>
       \/ back' = [back EXCEPT ![c] = "closed"] /\ SaveClient(c)
    /\ UNCHANGED <<cookies, browser, up, down>>

\* The network between the gateway and the message service fails.
LoseBackend(c) ==
    /\ Fault
    /\ back[c] = "open"
    /\ back' = [back EXCEPT ![c] = "gone"]
    /\ UNCHANGED <<cookies, browser, proxy, user, pumps, service>>

\* The message service restarts, and knows no client.
Restart ==
    /\ Fault
    /\ back' = [c \in Links |-> IF back[c] = "open" THEN "gone" ELSE back[c]]
    /\ registered' = 0
    /\ readers' = {} /\ writers' = {} /\ evicted' = {}
    /\ UNCHANGED <<cookies, browser, proxy, user, pumps>>

\* GetClient(login): an event for the user goes to the registered client only.
\* One on its way when a later client takes over counts as read before.
EventComes(c) == registered = c /\ back[c] = "open"

\* DeleteClient(login) closes whatever client is registered now, be it a newer
\* one than that of the goroutine that calls it.
DeleteClient ==
    /\ registered' = 0
    /\ back' = [c \in Links |-> IF c = registered /\ back[c] = "open" THEN "gone" ELSE back[c]]
    /\ evicted' = (evicted \cup {registered}) \cap (readers' \cup writers')

\* ReadMessage, or WriteMessage with its heartbeat, finds the connection of its
\* client at an end and deletes the login's client. One whose client was evicted
\* may see the cancelled context first and return without. It can return at once:
\* that a whole reconnection overtakes it is a race, and counts as a fault.
SessionEnds(c) ==
    /\ back[c] # "open"
    /\ \/ c \in readers /\ readers' = readers \ {c} /\ UNCHANGED writers
       \/ c \in writers /\ writers' = writers \ {c} /\ UNCHANGED readers
    /\ \/ /\ DeleteClient
          /\ IF c \in evicted /\ registered # 0 THEN Fault ELSE UNCHANGED faults
       \/ /\ c \in evicted
          /\ evicted' = evicted \cap (readers' \cup writers')
          /\ UNCHANGED <<registered, back, faults>>
    /\ UNCHANGED <<cookies, browser, proxy, user, pumps>>

\* A write to a peer that is gone may still succeed once.
CanWrite(end) == end \in {"open", "gone"}
CannotWrite(end) == end \in {"gone", "reset"}
AfterWrite(end) == IF end = "gone" THEN "reset" ELSE end

UpForwards(c) ==
    /\ up[c]
    /\ sent[c]
    /\ CanWrite(back[c])
    /\ sent' = [sent EXCEPT ![c] = FALSE]
    /\ back' = [back EXCEPT ![c] = AfterWrite(@)]
    /\ UNCHANGED <<cookies, browser, proxy, user, up, down, faults, service>>

\* Mutant: an event that cannot be written is dropped and the loop goes on.
UpSkips(c) ==
    /\ up[c]
    /\ sent[c] /\ CannotWrite(back[c])
    /\ sent' = [sent EXCEPT ![c] = FALSE]
    /\ UNCHANGED <<cookies, browser, proxy, user, back, up, down, faults, service>>

\* ReadMessage or WriteMessage returns an error: break.
UpStops(c) ==
    /\ up[c]
    /\ \/ ~sent[c] /\ user[c] # "open"
       \/ sent[c] /\ CannotWrite(back[c])
    /\ up' = [up EXCEPT ![c] = FALSE]
    /\ UNCHANGED <<cookies, browser, proxy, user, back, down, sent, faults, service>>

DownForwards(c) ==
    /\ down[c]
    /\ EventComes(c)
    /\ CanWrite(user[c])
    /\ user' = [user EXCEPT ![c] = AfterWrite(@)]
    /\ UNCHANGED <<cookies, browser, proxy, back, pumps, faults, service>>

\* Mutant: an error of the write is ignored.
DownStopsOnReadErrors(c) ==
    /\ down[c]
    /\ back[c] # "open"
    /\ down' = [down EXCEPT ![c] = FALSE]
    /\ UNCHANGED <<cookies, browser, proxy, user, back, up, sent, faults, service>>

DownStops(c) ==
    /\ down[c]
    /\ \/ back[c] # "open"
       \/ EventComes(c) /\ CannotWrite(user[c])
    /\ down' = [down EXCEPT ![c] = FALSE]
    /\ UNCHANGED <<cookies, browser, proxy, user, back, up, sent, faults, service>>

\* Mutant: the connection to the message service is not closed.
ReturnLeaksBackend(c) ==
    /\ proxy[c] = "running"
    /\ ~up[c] /\ ~down[c]
    /\ proxy' = [proxy EXCEPT ![c] = "ended"]
    /\ user' = [user EXCEPT ![c] = "closed"]
    /\ UNCHANGED <<cookies, browser, back, pumps, faults, service>>

\* wg.Wait() returns, and both connections are closed: only when both
\* goroutines have stopped. What was not read is dropped.
Return(c) ==
    /\ proxy[c] = "running"
    /\ ~up[c] /\ ~down[c]
    /\ proxy' = [proxy EXCEPT ![c] = "ended"]
    /\ user' = [user EXCEPT ![c] = "closed"]
    /\ back' = [back EXCEPT ![c] = "closed"]
    /\ sent' = [sent EXCEPT ![c] = FALSE]
    /\ UNCHANGED <<cookies, browser, up, down, faults, service>>

-----------------------------------------------------------------------------
Connect ==
    \/ CheckAuthSucceeds \/ CheckAuthFails
    \/ RefreshSucceeds \/ RefreshFails
    \/ Reconnect

Proxy(c) ==
    \/ ConnectToChat(c) \/ Dial(c)
    \/ UpForwards(c) \/ UpStops(c)
    \/ DownForwards(c) \/ DownStops(c)
    \/ Return(c)

Next ==
    \/ Connect \/ UserSends \/ Logout \/ Login \/ Expire \/ Restart
    \/ \E c \in Links :
          \/ Opened(c) \/ SeesEnd(c) \/ LoseUser(c)
          \/ Proxy(c) \/ DialFails(c) \/ LoseBackend(c)
          \/ SessionEnds(c)

Spec == Init /\ [][Next]_vars

\* Requests are answered, timers fire and goroutines run. That the user keeps
\* sending is the premise of LinkComesBack, that events for the user keep
\* coming, to the client that is registered, the premise of GoneUserIsReleased:
\* the code has no deadline that would do without them. The heartbeat finds a
\* connection that has ended.
Fairness ==
    /\ WF_vars(CheckAuthSucceeds \/ CheckAuthFails)
    /\ WF_vars(RefreshSucceeds \/ RefreshFails)
    /\ WF_vars(Reconnect)
    /\ WF_vars(UserSends)
    /\ \A c \in Links :
          /\ WF_vars(Opened(c) \/ SeesEnd(c))
          /\ WF_vars(ConnectToChat(c) \/ Dial(c) \/ Return(c))
          /\ WF_vars(UpForwards(c) \/ UpStops(c))
          /\ WF_vars(DownForwards(c) \/ DownStops(c))
          /\ WF_vars(SessionEnds(c))

FairSpec == Spec /\ Fairness

-----------------------------------------------------------------------------
(***************************************************************************)
(* Properties.                                                             *)
(***************************************************************************)

\* A chat page always has a socket, or a call or a timer that will make one,
\* and every socket it loses adds at most one to what it has: onerror and
\* onclose both start a timer.
ConnectionsBounded == page = "chat" => Attempts \in 1 .. 1 + lost

\* The page's socket reaches the message service.
Linked(c) == sock[c] = "open" /\ proxy[c] = "running" /\ back[c] = "open"

\* Once faults end, the page of a user who keeps sending has a socket that
\* reaches the message service, or asks for a login. Without the premise it
\* does not: a proxy whose backend is gone waits for the user's next event.
LinkComesBack == <>[](page = "auth" \/ \E c \in Links : c = newest /\ Linked(c))

\* A proxy whose user is gone ends and closes the connection that keeps the
\* login online, at the latest when events for the user come: unless a later
\* connection of the login takes the events, which leaves it as it is for good.
GoneUserIsReleased ==
    \A c \in Links : sock[c] = "closed" /\ proxy[c] # "none" ~>
        proxy[c] = "ended" \/ Superseded(c)
=============================================================================
