-------------------------- MODULE BrowserLinkProofs --------------------------
(***************************************************************************)
(* For any number of links and faults: a proxy that has ended holds no     *)
(* connection, and a chat page keeps trying, with at most one socket, call *)
(* or timer more than it has lost sockets.                                 *)
(***************************************************************************)
EXTENDS BrowserLink, FiniteSetTheorems, TLAPS

-----------------------------------------------------------------------------
(***************************************************************************)
(* The connections of a proxy.                                             *)
(***************************************************************************)

\* What a proxy has not made it does not hold.
NotMade == \A c \in Links :
    /\ proxy[c] = "none" => user[c] = "none" /\ back[c] = "none"
    /\ proxy[c] = "dialing" => back[c] = "none"

\* The message service has goroutines only for what the gateway has dialed.
Dialed == \A c \in readers \cup writers : proxy[c] \notin {"none", "dialing"}

LinkInv == TypeOK /\ NotMade /\ Dialed

\* The variables of the message service.
ServiceTypes ==
    /\ readers \cup writers \subseteq Links
    /\ evicted \subseteq readers \cup writers
    /\ registered \in {0} \cup ((readers \cap writers) \ evicted)
    /\ Dialed

\* The variables of the gateway alone.
GatewayTypes ==
    /\ proxy \in [Links -> {"none", "dialing", "running", "ended"}]
    /\ user \in [Links -> Ends] /\ back \in [Links -> Ends]
    /\ up \in [Links -> BOOLEAN] /\ down \in [Links -> BOOLEAN]
    /\ sent \in [Links -> BOOLEAN]
    /\ \A c \in Links :
          /\ up[c] \/ down[c] => proxy[c] = "running"
          /\ proxy[c] = "ended" => {user[c], back[c]} \subseteq {"none", "closed"}
    /\ NotMade

BrowserTypes ==
    /\ page \in {"chat", "auth"}
    /\ access \in BOOLEAN /\ refresh \in BOOLEAN
    /\ checking \in Nat /\ refreshing \in Nat /\ timers \in Nat /\ lost \in Nat
    /\ newest \in 0 .. MaxLinks
    /\ sock \in [Links -> {"none", "connecting", "open", "closed"}]
    /\ faults \in 0 .. MaxFaults

\* LinkInv by the side it is about.
LEMMA Sides == LinkInv <=> BrowserTypes /\ GatewayTypes /\ ServiceTypes
BY DEF LinkInv, TypeOK, BrowserTypes, GatewayTypes, ServiceTypes

\* A new socket takes the number of a link that has ended, or is stuck.
LEMMA OpenSocketTypes ==
    ASSUME BrowserTypes, GatewayTypes, ServiceTypes, OpenSocket
    PROVE  GatewayTypes' /\ ServiceTypes' /\ newest' \in 0 .. MaxLinks
           /\ sock' \in [Links -> {"none", "connecting", "open", "closed"}]
<1>1. PICK c \in Reusable :
         /\ newest' = c
         /\ sock' = [sock EXCEPT ![c] = "connecting"]
         /\ proxy' = [proxy EXCEPT ![c] = "none"]
         /\ user' = [user EXCEPT ![c] = "none"]
         /\ back' = [back EXCEPT ![c] = "none"]
         /\ down' = [down EXCEPT ![c] = FALSE]
         /\ readers' = readers \ {c}
         /\ writers' = writers \ {c}
         /\ evicted' = evicted \ {c}
         /\ sent' = [sent EXCEPT ![c] = FALSE]
         /\ UNCHANGED <<registered, up>>
  BY DEF OpenSocket
<1>2. c \in Links /\ ~up[c] /\ c # registered
  <2>1. CASE c \in Free
    BY <2>1, BoundsAssumption DEF Free, GatewayTypes, ServiceTypes, Links
  <2>2. CASE c \in Stuck
    BY <2>2 DEF Stuck, Superseded
  <2> QED BY <1>1, <2>1, <2>2 DEF Reusable
<1>3. GatewayTypes'
  BY <1>1, <1>2 DEF GatewayTypes, NotMade, Ends
<1>4. ServiceTypes'
  BY <1>1, <1>2 DEF ServiceTypes, Dialed, GatewayTypes
<1> QED BY <1>1, <1>2, <1>3, <1>4, BoundsAssumption DEF BrowserTypes, Links

\* A link that was not dialed has no goroutines in the message service, and so
\* gets its own.
LEMMA SaveClientTypes ==
    ASSUME ServiceTypes, GatewayTypes, NEW c \in Links, proxy[c] = "dialing", SaveClient(c),
           NEW state \in {"running", "ended"}, proxy' = [proxy EXCEPT ![c] = state]
    PROVE  ServiceTypes'
<1>1. c \notin readers \cup writers
  BY DEF ServiceTypes, Dialed
<1> QED BY <1>1 DEF ServiceTypes, Dialed, SaveClient, GatewayTypes

\* The end of a session closes one connection more, of the registered client.
LEMMA SessionEndsTypes ==
    ASSUME ServiceTypes, GatewayTypes, NEW c \in Links, SessionEnds(c)
    PROVE  ServiceTypes' /\ GatewayTypes'
<1>1. /\ readers' \subseteq readers /\ writers' \subseteq writers
      /\ \A d \in Links : d # c => (d \in readers' <=> d \in readers) /\ (d \in writers' <=> d \in writers)
  BY DEF SessionEnds
<1>2. UNCHANGED <<proxy, user, up, down, sent>>
  BY DEF SessionEnds, pumps
<1>3. CASE DeleteClient
  <2>1. /\ registered' = 0
        /\ back' = [d \in Links |-> IF d = registered /\ back[d] = "open" THEN "gone" ELSE back[d]]
        /\ evicted' \subseteq readers' \cup writers'
    BY <1>3 DEF DeleteClient
  <2>2. ServiceTypes'
    BY <1>1, <1>2, <2>1 DEF ServiceTypes, Dialed
  <2>3. back' \in [Links -> Ends]
    BY <2>1 DEF GatewayTypes, Ends
  <2>4. \A d \in Links : proxy[d] # "running" => back'[d] = back[d]
    BY <2>1 DEF GatewayTypes, NotMade
  <2>5. GatewayTypes'
    BY <1>2, <2>3, <2>4 DEF GatewayTypes, NotMade
  <2> QED BY <2>2, <2>5
<1>4. CASE c \in evicted /\ evicted' = evicted \cap (readers' \cup writers') /\ UNCHANGED <<registered, back>>
  <2>1. ServiceTypes'
    BY <1>1, <1>2, <1>4 DEF ServiceTypes, Dialed
  <2>2. GatewayTypes'
    BY <1>2, <1>4 DEF GatewayTypes, NotMade
  <2> QED BY <2>1, <2>2
<1> QED BY <1>3, <1>4 DEF SessionEnds

\* The page is left, and with it its ends of the connections.
LEMMA LeavePageTypes ==
    ASSUME BrowserTypes, GatewayTypes, LeavePage, UNCHANGED <<proxy, back, pumps>>
    PROVE  GatewayTypes' /\ newest' \in 0 .. MaxLinks /\ page' = "auth"
           /\ {checking', refreshing', timers', lost'} \subseteq Nat
           /\ sock' \in [Links -> {"none", "connecting", "open", "closed"}]
<1>1. GatewayTypes'
  BY DEF LeavePage, GatewayTypes, NotMade, Ends, pumps
<1>2. sock' \in [Links -> {"none", "connecting", "open", "closed"}]
  BY DEF LeavePage, BrowserTypes
<1> QED BY <1>1, <1>2, BoundsAssumption DEF LeavePage

\* LinkInv is inductive.
LEMMA LinkInductive == LinkInv /\ [Next]_vars => LinkInv'
<1> SUFFICES ASSUME LinkInv, [Next]_vars PROVE BrowserTypes' /\ GatewayTypes' /\ ServiceTypes'
  BY Sides DEF LinkInv, TypeOK, NotMade, Dialed, BrowserTypes, GatewayTypes, ServiceTypes
<1>t. BrowserTypes /\ GatewayTypes /\ ServiceTypes
  BY Sides
<1>f. Fault => faults' \in 0 .. MaxFaults
  BY <1>t, BoundsAssumption DEF Fault, BrowserTypes
<1>b. UNCHANGED <<cookies, browser, faults>> => BrowserTypes'
  BY <1>t DEF BrowserTypes, cookies, browser, calls
<1>g. UNCHANGED gateway => GatewayTypes'
  BY <1>t DEF GatewayTypes, NotMade, gateway, pumps
<1>s. UNCHANGED <<service, proxy>> => ServiceTypes'
  BY <1>t DEF ServiceTypes, Dialed, service
<1>1. CASE CheckAuthSucceeds
  BY <1>1, <1>t, OpenSocketTypes DEF CheckAuthSucceeds, BrowserTypes, cookies
<1>2. CASE CheckAuthFails
  BY <1>2, <1>t, <1>f, <1>g, <1>s DEF CheckAuthFails, BrowserTypes, cookies, gateway
<1>3. CASE RefreshSucceeds
  BY <1>3, <1>t, OpenSocketTypes DEF RefreshSucceeds, HandleUpdateTokens, BrowserTypes
<1>4. CASE RefreshFails
  BY <1>4, <1>t, <1>f, <1>s, LeavePageTypes DEF RefreshFails, BrowserTypes, cookies
<1>5. CASE Reconnect
  BY <1>5, <1>t, <1>g, <1>s DEF Reconnect, BrowserTypes, cookies, gateway
<1>6. CASE UserSends
  <2>1. sent' \in [Links -> BOOLEAN]
    BY <1>6, <1>t DEF UserSends, SendEvent, GatewayTypes
  <2> QED BY <1>6, <1>t, <1>b, <1>s, <2>1 DEF UserSends, browser, GatewayTypes, NotMade
<1>7. CASE Logout
  BY <1>7, <1>t, <1>f, <1>s, LeavePageTypes DEF Logout, HandleLogout, BrowserTypes, cookies
<1>8. CASE Login
  BY <1>8, <1>t, <1>g, <1>s DEF Login, BrowserTypes, gateway
<1>9. CASE Expire
  BY <1>9, <1>t, <1>f, <1>g, <1>s DEF Expire, BrowserTypes, browser, calls, gateway
<1>10. ASSUME NEW c \in Links, Opened(c) PROVE BrowserTypes' /\ GatewayTypes' /\ ServiceTypes'
  <2>1. sent' \in [Links -> BOOLEAN]
    BY <1>10, <1>t DEF Opened, SendEvent, GatewayTypes
  <2> QED BY <1>10, <1>t, <1>s, <2>1 DEF Opened, BrowserTypes, GatewayTypes, NotMade, cookies, calls
<1>11. ASSUME NEW c \in Links, SeesEnd(c) PROVE BrowserTypes' /\ GatewayTypes' /\ ServiceTypes'
  BY <1>11, <1>t, <1>g, <1>s DEF SeesEnd, Lose, BrowserTypes, cookies, gateway
<1>12. ASSUME NEW c \in Links, LoseUser(c) PROVE BrowserTypes' /\ GatewayTypes' /\ ServiceTypes'
  <2>1. BrowserTypes'
    BY <1>12, <1>t, <1>f DEF LoseUser, Lose, BrowserTypes, cookies
  <2>2. GatewayTypes'
    BY <1>12, <1>t DEF LoseUser, GatewayTypes, NotMade, Ends, pumps
  <2> QED BY <1>12, <1>s, <2>1, <2>2 DEF LoseUser
<1>13. ASSUME NEW c \in Links, ConnectToChat(c) PROVE GatewayTypes' /\ ServiceTypes'
  <2>1. GatewayTypes'
    BY <1>13, <1>t DEF ConnectToChat, GatewayTypes, NotMade, Ends, pumps
  <2>2. c \notin readers \cup writers
    BY <1>13, <1>t DEF ConnectToChat, ServiceTypes, Dialed
  <2>3. ServiceTypes'
    BY <1>13, <1>t, <2>2 DEF ConnectToChat, GatewayTypes, ServiceTypes, Dialed, service
  <2> QED BY <2>1, <2>3
<1>14. ASSUME NEW c \in Links, Dial(c) PROVE GatewayTypes' /\ ServiceTypes'
  <2>1. GatewayTypes'
    BY <1>14, <1>t DEF Dial, GatewayTypes, NotMade, Ends
  <2> QED BY <1>14, <1>t, <2>1, SaveClientTypes DEF Dial
<1>15. ASSUME NEW c \in Links, UpForwards(c) \/ DownForwards(c) PROVE GatewayTypes' /\ ServiceTypes'
  <2>3. ServiceTypes'
    BY <1>15, <1>s DEF UpForwards, DownForwards, pumps
  <2>1. CASE UpForwards(c)
    <3>1. AfterWrite(back[c]) \in Ends /\ proxy[c] = "running" /\ back[c] # "none"
      BY <2>1, <1>t DEF UpForwards, CanWrite, AfterWrite, GatewayTypes, Ends
    <3>2. back' \in [Links -> Ends] /\ \A d \in Links : d # c => back'[d] = back[d]
      BY <2>1, <3>1, <1>t DEF UpForwards, GatewayTypes
    <3>3. sent' \in [Links -> BOOLEAN]
      BY <2>1, <1>t DEF UpForwards, GatewayTypes
    <3>4. UNCHANGED <<proxy, user, up, down>>
      BY <2>1 DEF UpForwards
    <3>5. GatewayTypes'
      BY <3>1, <3>2, <3>3, <3>4, <1>t DEF GatewayTypes, NotMade
    <3> QED BY <2>3, <3>5
  <2>2. CASE DownForwards(c)
    <3>1. AfterWrite(user[c]) \in Ends /\ proxy[c] = "running"
      BY <2>2, <1>t DEF DownForwards, CanWrite, AfterWrite, GatewayTypes, Ends
    <3>2. user' \in [Links -> Ends] /\ \A d \in Links : d # c => user'[d] = user[d]
      BY <2>2, <3>1, <1>t DEF DownForwards, GatewayTypes
    <3>3. UNCHANGED <<proxy, back, up, down, sent>>
      BY <2>2 DEF DownForwards, pumps
    <3>5. GatewayTypes'
      BY <3>1, <3>2, <3>3, <1>t DEF GatewayTypes, NotMade
    <3> QED BY <2>3, <3>5
  <2> QED BY <1>15, <2>1, <2>2
<1>16. ASSUME NEW c \in Links, UpStops(c) \/ DownStops(c) PROVE GatewayTypes' /\ ServiceTypes'
  BY <1>16, <1>t, <1>s DEF UpStops, DownStops, GatewayTypes, NotMade
<1>17. ASSUME NEW c \in Links, Return(c) PROVE GatewayTypes' /\ ServiceTypes'
  <2>1. GatewayTypes'
    BY <1>17, <1>t DEF Return, GatewayTypes, NotMade, Ends
  <2>2. ServiceTypes'
    BY <1>17, <1>t DEF Return, GatewayTypes, ServiceTypes, Dialed, service
  <2> QED BY <2>1, <2>2
<1>18. ASSUME NEW c \in Links, DialFails(c) PROVE BrowserTypes' /\ GatewayTypes' /\ ServiceTypes'
  <2>1. GatewayTypes'
    BY <1>18, <1>t DEF DialFails, GatewayTypes, NotMade, Ends
  <2>2. ServiceTypes'
    <3>1. proxy[c] = "dialing" /\ proxy' = [proxy EXCEPT ![c] = "ended"]
      BY <1>18 DEF DialFails
    <3>2. CASE UNCHANGED service
      BY <1>t, <3>1, <3>2 DEF GatewayTypes, ServiceTypes, Dialed, service
    <3>3. CASE SaveClient(c)
      BY <1>t, <3>1, <3>3, SaveClientTypes
    <3> QED BY <1>18, <3>2, <3>3 DEF DialFails
  <2> QED BY <1>18, <1>t, <1>f, <2>1, <2>2 DEF DialFails, BrowserTypes, cookies, browser, calls
<1>19. ASSUME NEW c \in Links, LoseBackend(c) PROVE BrowserTypes' /\ GatewayTypes' /\ ServiceTypes'
  <2>1. GatewayTypes'
    BY <1>19, <1>t DEF LoseBackend, GatewayTypes, NotMade, Ends, pumps
  <2> QED BY <1>19, <1>t, <1>f, <1>s, <2>1 DEF LoseBackend, BrowserTypes, cookies, browser, calls
<1>20. ASSUME NEW c \in Links, SessionEnds(c) PROVE BrowserTypes' /\ GatewayTypes' /\ ServiceTypes'
  <2>1. BrowserTypes'
    BY <1>20, <1>t, <1>f DEF SessionEnds, BrowserTypes, cookies, browser, calls
  <2> QED BY <1>20, <1>t, <2>1, SessionEndsTypes
<1>21. ASSUME NEW c \in Links, Proxy(c) PROVE BrowserTypes' /\ GatewayTypes' /\ ServiceTypes'
  <2>1. UNCHANGED <<cookies, browser, faults>>
    BY <1>21 DEF Proxy, ConnectToChat, Dial, UpForwards, UpStops, DownForwards, DownStops, Return
  <2> QED BY <1>21, <1>b, <2>1, <1>13, <1>14, <1>15, <1>16, <1>17 DEF Proxy
<1>22. CASE UNCHANGED vars
  BY <1>22, <1>b, <1>g, <1>s DEF vars, gateway
<1>23. CASE Restart
  <2>1. GatewayTypes'
    BY <1>23, <1>t DEF Restart, GatewayTypes, NotMade, Ends, pumps
  <2>2. ServiceTypes'
    BY <1>23 DEF Restart, ServiceTypes, Dialed
  <2> QED BY <1>23, <1>t, <1>f, <2>1, <2>2 DEF Restart, BrowserTypes, cookies, browser, calls
<1> QED BY <1>1, <1>2, <1>3, <1>4, <1>5, <1>6, <1>7, <1>8, <1>9, <1>10, <1>11, <1>12, <1>18, <1>19,
           <1>20, <1>21, <1>22, <1>23 DEF Next, Connect

\* LinkInv holds at first.
LEMMA LinkInitially == Init => LinkInv
BY BoundsAssumption DEF Init, LinkInv, TypeOK, NotMade, Dialed, Ends

\* Types, and a proxy that has returned holds no connection of either side.
THEOREM LinkTypeCorrect == Spec => []TypeOK
<1>1. LinkInv => TypeOK
  BY DEF LinkInv
<1> QED BY <1>1, LinkInitially, LinkInductive, PTL DEF Spec

-----------------------------------------------------------------------------
(***************************************************************************)
(* What a page has and will try for.                                       *)
(***************************************************************************)

\* On the login page nothing is left of the chat page.
PageInv ==
    /\ page = "chat" => Attempts \in 1 .. 1 + lost
    /\ page = "auth" => /\ Live = {} /\ lost = 0
                      /\ checking = 0 /\ refreshing = 0 /\ timers = 0

AttemptsInv == LinkInv /\ PageInv

\* A set of links can be counted.
LEMMA LinksAreFinite == \A S \in SUBSET Links : IsFiniteSet(S) /\ Cardinality(S) \in Nat
<1> SUFFICES ASSUME NEW S \in SUBSET Links PROVE IsFiniteSet(S) /\ Cardinality(S) \in Nat
  OBVIOUS
<1>1. IsFiniteSet(Links)
  BY FS_Interval, BoundsAssumption DEF Links
<1>2. IsFiniteSet(S)
  BY <1>1, FS_Subset
<1> QED BY <1>2, FS_CardinalityType

\* Attempts is a number, before and after a step.
LEMMA LiveCounted == Live \subseteq Links /\ Cardinality(Live) \in Nat
BY LinksAreFinite DEF Live

\* A new socket is one more.
LEMMA OpenSocketCounts ==
    ASSUME BrowserTypes, OpenSocket
    PROVE  Cardinality(Live') = Cardinality(Live) + 1
<1>1. PICK c \in Reusable : sock' = [sock EXCEPT ![c] = "connecting"]
  BY DEF OpenSocket
<1>2. c \in Links /\ c \notin Live
  BY DEF Reusable, Free, Stuck, Live
<1>3. Live' = Live \cup {c}
  BY <1>1, <1>2 DEF Live, BrowserTypes
<1> QED BY <1>2, <1>3, LiveCounted, LinksAreFinite, FS_AddElement

\* A socket that is lost is one less, for one or two timers.
LEMMA LoseCounts ==
    ASSUME BrowserTypes, NEW c \in Live, Lose(c)
    PROVE  /\ Cardinality(Live') = Cardinality(Live) - 1
           /\ lost' = lost + 1
           /\ timers' \in {timers + 1, timers + 2}
<1>1. sock' = [sock EXCEPT ![c] = "closed"] /\ lost' = lost + 1
  BY DEF Lose
<1>2. Live' = Live \ {c}
  BY <1>1 DEF Live, BrowserTypes
<1>3. PICK n \in 1 .. 2 : timers' = timers + n
  BY DEF Lose
<1>4. timers' \in {timers + 1, timers + 2}
  BY <1>3 DEF BrowserTypes
<1>5. Cardinality(Live') = Cardinality(Live) - 1
  BY <1>2, LiveCounted, LinksAreFinite, FS_RemoveElement
<1> QED BY <1>1, <1>4, <1>5

\* No socket survives its page.
LEMMA LeavePageCounts == ASSUME BrowserTypes, LeavePage PROVE PageInv'
<1>1. Live' = {}
  BY DEF LeavePage, Live, BrowserTypes
<1> QED BY <1>1 DEF LeavePage, PageInv

\* A page with a call, a timer or a socket is the chat page.
LEMMA BusyPageIsChat ==
    ASSUME BrowserTypes, PageInv, checking > 0 \/ refreshing > 0 \/ timers > 0 \/ Live # {}
    PROVE  page = "chat" /\ Attempts \in 1 .. 1 + lost
BY DEF BrowserTypes, PageInv

\* A step that only moves what the page has keeps how much it has.
LEMMA PageIsSteady ==
    ASSUME UNCHANGED <<page, lost>>, Live' = Live,
           checking' + refreshing' + timers' = checking + refreshing + timers,
           page = "chat", Attempts \in 1 .. 1 + lost,
           {checking, refreshing, timers, checking', refreshing', timers'} \subseteq Nat
    PROVE  PageInv'
<1>1. Attempts' = Attempts
  BY LiveCounted DEF Attempts
<1> QED BY <1>1 DEF PageInv

\* A step that opens a socket for a call keeps how much there is.
LEMMA SocketForACall ==
    ASSUME BrowserTypes, OpenSocket, UNCHANGED <<page, lost>>,
           checking' + refreshing' + timers' = checking + refreshing + timers - 1,
           page = "chat", Attempts \in 1 .. 1 + lost,
           {checking', refreshing', timers'} \subseteq Nat
    PROVE  PageInv'
<1>1. Attempts' = Attempts
  BY OpenSocketCounts, LiveCounted DEF Attempts, BrowserTypes
<1> QED BY <1>1 DEF PageInv

\* A socket is lost: one timer takes its place, or two.
LEMMA TimersForALostSocket ==
    ASSUME BrowserTypes, PageInv, NEW c \in Live, Lose(c), UNCHANGED <<page, checking, refreshing>>
    PROVE  PageInv'
<1>1. page = "chat" /\ Attempts \in 1 .. 1 + lost
  BY BusyPageIsChat
<1>2. Attempts' \in {Attempts, Attempts + 1}
  BY LoseCounts, LiveCounted DEF Attempts, BrowserTypes
<1>3. Attempts' \in 1 .. 1 + lost'
  BY <1>1, <1>2, LoseCounts DEF BrowserTypes
<1> QED BY <1>1, <1>3 DEF PageInv

\* A step that leaves the page alone.
LEMMA PageUntouched ==
    ASSUME PageInv, UNCHANGED <<page, calls, lost>>, Live' = Live
    PROVE  PageInv'
<1>1. Attempts' = Attempts
  BY DEF Attempts, calls
<1> QED BY <1>1 DEF PageInv, calls

\* The chat page is loaded.
LEMMA LoginStarts == ASSUME PageInv, Login PROVE PageInv'
<1>1. Live = {} /\ lost = 0 /\ refreshing = 0 /\ timers = 0
  BY DEF Login, PageInv
<1>2. Live' = {} /\ page' = "chat" /\ lost' = 0 /\ checking' = 1 /\ refreshing' = 0 /\ timers' = 0
  BY <1>1 DEF Login, Live
<1>3. Attempts' = 1
  BY <1>2, FS_EmptySet DEF Attempts
<1> QED BY <1>2, <1>3 DEF PageInv

\* AttemptsInv is inductive.
LEMMA AttemptsInductive == AttemptsInv /\ [Next]_vars => AttemptsInv'
<1> SUFFICES ASSUME AttemptsInv, [Next]_vars PROVE PageInv'
  BY LinkInductive DEF AttemptsInv
<1>t. BrowserTypes /\ BrowserTypes' /\ PageInv
  BY Sides, LinkInductive DEF AttemptsInv, LinkInv, TypeOK, BrowserTypes
<1>n. {checking, refreshing, timers, checking', refreshing', timers'} \subseteq Nat
  BY <1>t DEF BrowserTypes
<1>u. UNCHANGED <<page, calls, lost, sock>> => PageInv'
  BY <1>t, PageUntouched DEF Live
<1>1. CASE CheckAuthSucceeds
  <2>1. page = "chat" /\ Attempts \in 1 .. 1 + lost
    BY <1>1, <1>t, BusyPageIsChat DEF CheckAuthSucceeds
  <2>2. checking' + refreshing' + timers' = checking + refreshing + timers - 1
    BY <1>1, <1>n DEF CheckAuthSucceeds
  <2> QED BY <1>1, <1>t, <1>n, <2>1, <2>2, SocketForACall DEF CheckAuthSucceeds
<1>2. CASE CheckAuthFails
  <2>1. page = "chat" /\ Attempts \in 1 .. 1 + lost
    BY <1>2, <1>t, BusyPageIsChat DEF CheckAuthFails
  <2>2. checking' + refreshing' + timers' = checking + refreshing + timers
    BY <1>2, <1>n DEF CheckAuthFails
  <2> QED BY <1>2, <1>n, <2>1, <2>2, PageIsSteady DEF CheckAuthFails, Live
<1>3. CASE RefreshSucceeds
  <2>1. page = "chat" /\ Attempts \in 1 .. 1 + lost
    BY <1>3, <1>t, BusyPageIsChat DEF RefreshSucceeds
  <2>2. checking' + refreshing' + timers' = checking + refreshing + timers - 1
    BY <1>3, <1>n DEF RefreshSucceeds
  <2> QED BY <1>3, <1>t, <1>n, <2>1, <2>2, SocketForACall DEF RefreshSucceeds
<1>4. CASE RefreshFails
  BY <1>4, <1>t, LeavePageCounts DEF RefreshFails
<1>5. CASE Reconnect
  <2>1. page = "chat" /\ Attempts \in 1 .. 1 + lost
    BY <1>5, <1>t, BusyPageIsChat DEF Reconnect
  <2>2. checking' + refreshing' + timers' = checking + refreshing + timers
    BY <1>5, <1>n DEF Reconnect
  <2> QED BY <1>5, <1>n, <2>1, <2>2, PageIsSteady DEF Reconnect, Live
<1>6. CASE Logout
  BY <1>6, <1>t, LeavePageCounts DEF Logout
<1>7. CASE Login
  BY <1>7, <1>t, LoginStarts
<1>8. ASSUME NEW c \in Links, Opened(c) PROVE PageInv'
  <2>1. Live' = Live
    BY <1>8, <1>t DEF Opened, Live, BrowserTypes
  <2> QED BY <1>8, <1>t, <2>1, PageUntouched DEF Opened
<1>9. ASSUME NEW c \in Links, SeesEnd(c) \/ LoseUser(c) PROVE PageInv'
  <2>1. c \in Live /\ Lose(c) /\ UNCHANGED <<page, checking, refreshing>>
    BY <1>9 DEF SeesEnd, LoseUser, Live
  <2> QED BY <1>t, <2>1, TimersForALostSocket
<1>10. CASE UserSends \/ Expire \/ Restart \/ UNCHANGED vars
  BY <1>10, <1>u DEF UserSends, Expire, Restart, vars, browser
<1>11. ASSUME NEW c \in Links, DialFails(c) \/ LoseBackend(c) \/ SessionEnds(c) \/ Proxy(c) PROVE PageInv'
  <2>1. UNCHANGED browser
    BY <1>11 DEF DialFails, LoseBackend, SessionEnds, Proxy, ConnectToChat, Dial, UpForwards, UpStops,
                 DownForwards, DownStops, Return
  <2> QED BY <1>u, <2>1 DEF browser
<1> QED BY <1>1, <1>2, <1>3, <1>4, <1>5, <1>6, <1>7, <1>8, <1>9, <1>10, <1>11 DEF Next, Connect

\* AttemptsInv holds at first: the page has one call.
LEMMA AttemptsInitially == Init => AttemptsInv
<1> SUFFICES ASSUME Init PROVE PageInv
  BY LinkInitially DEF AttemptsInv
<1>1. Live = {}
  BY DEF Init, Live
<1>2. Attempts = 1
  BY <1>1, FS_EmptySet DEF Init, Attempts
<1> QED BY <1>2 DEF Init, PageInv

\* A chat page never stops trying, and tries at most once more for each socket
\* it has lost, however many connections fail.
THEOREM AttemptsBounded == Spec => []ConnectionsBounded
<1>1. AttemptsInv => ConnectionsBounded
  BY DEF AttemptsInv, PageInv, ConnectionsBounded
<1> QED BY <1>1, AttemptsInitially, AttemptsInductive, PTL DEF Spec
=============================================================================
