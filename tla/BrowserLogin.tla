---------------------------- MODULE BrowserLogin ----------------------------
(***************************************************************************)
(* Who a browser is logged in as. Its tabs share two cookies, which        *)
(* answers of the gateway set and delete, and userLogin in localStorage,   *)
(* which the scripts set; each page keeps the name it started with. The    *)
(* answers of several tabs arrive in any order.                            *)
(*                                                                         *)
(* The auth service is external: it gives out refresh tokens, renews       *)
(* access tokens for those it accepts, and ends them at logout.            *)
(***************************************************************************)
EXTENDS Naturals, Sequences, FiniteSets

CONSTANTS
    Tabs, Logins, NoLogin, NoToken, NoCall,
    Registered,     \* users that have an account at first
    MaxSessions,    \* bound: logins that succeed
    MaxCalls,       \* bound: requests under way at once
    MaxFaults       \* bound: lost sockets and answers, failed calls, reloads

ASSUME LoginAssumption ==
    /\ NoLogin \notin Logins /\ Registered \subseteq Logins
    /\ MaxSessions \in Nat /\ MaxCalls \in Nat /\ MaxFaults \in Nat

VARIABLES
    users,      \* auth service: accounts
    owner,      \* auth service: the user of each refresh token given out
    valid,      \* auth service: the refresh tokens it accepts
    access,     \* the access_token cookie
    refresh,    \* the refresh_token cookie, 0 when there is none
    userLogin,  \* localStorage
    page,       \* what each tab shows, or is doing
    me,         \* state.login of the page
    ready,      \* pages whose logout button works
    call,       \* the requests under way: of the page, and of the logout button
    fresh,      \* history: tabs whose page started with a user after the last login
    overlap,    \* history: cookies came while another request was under way
    faults

authService == <<users, owner, valid>>
cookies == <<access, refresh>>
tabs == <<page, me, ready>>
vars == <<authService, cookies, userLogin, tabs, call, fresh, overlap, faults>>

Sessions == 1 .. MaxSessions
Calls == Tabs \X {"page", "logout"}
Token(l) == [login |-> l, fresh |-> TRUE]
Kinds == {"login", "register", "refresh", "logout"}

Call == [kind : Kinds, login : Logins \cup {NoLogin}, cookie : Sessions \cup {0},
         stage : {"sent", "answered", "arrived"}, answer : {"none", "ok", "error", "lost"}]

ASSUME NoCallAssumption == NoCall \notin Call

\* A cookie holds a token that the auth service gave out, and a call that was
\* answered well names one.
TypeOK ==
    /\ users \subseteq Logins /\ owner \in Seq(Logins) /\ Len(owner) <= MaxSessions
    /\ valid \subseteq DOMAIN owner
    /\ access \in [login : users, fresh : BOOLEAN] \cup {NoToken}
    /\ refresh \in DOMAIN owner \cup {0}
    /\ userLogin \in users \cup {NoLogin}
    /\ page \in [Tabs -> {"auth", "start", "checking", "refreshing", "connecting", "chat"}]
    /\ me \in [Tabs -> users \cup {NoLogin}] /\ ready \subseteq Tabs
    /\ call \in [Calls -> Call \cup {NoCall}]
    /\ \A c \in Calls : call[c] # NoCall /\ call[c].answer = "ok" => call[c].cookie \in DOMAIN owner
    /\ fresh \subseteq Tabs /\ overlap \in BOOLEAN /\ faults \in 0 .. MaxFaults

Init ==
    /\ users = Registered /\ owner = <<>> /\ valid = {}
    /\ access = NoToken /\ refresh = 0 /\ userLogin = NoLogin
    /\ page = [t \in Tabs |-> "start"]
    /\ me = [t \in Tabs |-> NoLogin] /\ ready = {}
    /\ call = [c \in Calls |-> NoCall]
    /\ fresh = {} /\ overlap = FALSE /\ faults = 0

Fault == faults < MaxFaults /\ faults' = faults + 1

\* A new document: what the old one was waiting for is cancelled.
Leave(t, p) ==
    /\ page' = [page EXCEPT ![t] = p]
    /\ me' = [me EXCEPT ![t] = NoLogin] /\ ready' = ready \ {t}
    /\ call' = [c \in Calls |-> IF c[1] = t THEN NoCall ELSE call[c]]

Send(c, kind, l, cookie) ==
    /\ call[c] = NoCall
    /\ Cardinality({d \in Calls : call[d] # NoCall}) < MaxCalls
    /\ call' = [call EXCEPT ![c] = [kind |-> kind, login |-> l, cookie |-> cookie,
                                    stage |-> "sent", answer |-> "none"]]

-----------------------------------------------------------------------------
(***************************************************************************)
(* The gateway.                                                            *)
(***************************************************************************)

\* The login of a token that is in date.
ValidateAccessToken(token) ==
    IF token # NoToken /\ token.fresh THEN token.login ELSE NoLogin

Arrives(c, kind) == call[c] # NoCall /\ call[c].stage = "sent" /\ call[c].kind = kind

Answer(c, cookie) ==
    call' = [call EXCEPT ![c].stage = "answered", ![c].answer = "ok", ![c].cookie = cookie]

\* Without cookies to store, it matters only when the script sees the answer.
Refuse(c, answer) ==
    call' = [call EXCEPT ![c] = [@ EXCEPT !.stage = "arrived", !.answer = answer, !.cookie = 0,
                                    !.login = NoLogin]]

\* The auth service starts a session; the tokens are in the answer.
NewSession(c) ==
    /\ Len(owner) < MaxSessions
    /\ owner' = Append(owner, call[c].login)
    /\ valid' = valid \cup {Len(owner')}
    /\ Answer(c, Len(owner'))

\* The auth service refuses, or it fails.
Fails(c) ==
    /\ Refuse(c, "error")
    /\ IF call[c].kind \in {"refresh", "logout"} /\ call[c].cookie \notin valid
       THEN UNCHANGED faults ELSE Fault
    /\ UNCHANGED authService

HandleLogin(c) ==
    /\ Arrives(c, "login")
    /\ \/ call[c].login \in users /\ NewSession(c) /\ UNCHANGED <<users, faults>>
       \/ Fails(c)
    /\ UNCHANGED <<cookies, userLogin, tabs, fresh, overlap>>

HandleRegister(c) ==
    /\ Arrives(c, "register")
    /\ \/ call[c].login \notin users /\ NewSession(c) /\ users' = users \cup {call[c].login} /\ UNCHANGED faults
       \/ Fails(c)
    /\ UNCHANGED <<cookies, userLogin, tabs, fresh, overlap>>

\* Mutant: the missing cookie is not noticed.
HandleUpdateTokensWithoutCookie(c) ==
    /\ Arrives(c, "refresh")
    /\ IF call[c].cookie \in valid \cup {0} THEN Answer(c, call[c].cookie) /\ UNCHANGED faults ELSE Fails(c)
    /\ UNCHANGED <<authService, cookies, userLogin, tabs, fresh, overlap>>

\* The auth service renews the access token, and may replace the refresh token.
Renew(cookie) ==
    \/ UNCHANGED <<authService, faults>>
    \/ Fault /\ valid' = valid \ {cookie} /\ UNCHANGED <<users, owner>>

\* The handler passes on an access token, and never a new refresh token: if the
\* auth service replaced it, the cookie is worth nothing from now on.
HandleUpdateTokens(c) ==
    /\ Arrives(c, "refresh")
    /\ \/ /\ call[c].cookie \in valid
          /\ Answer(c, call[c].cookie)
          /\ Renew(call[c].cookie)
       \/ Fails(c)
    /\ UNCHANGED <<cookies, userLogin, tabs, fresh, overlap>>

EndSession(cookie) == valid' = valid \ {cookie} /\ UNCHANGED <<users, owner>>

\* Without the cookie nobody is asked. Whether the auth service minds a token
\* that it has ended is its own affair.
HandleLogout(c) ==
    /\ Arrives(c, "logout")
    /\ \/ /\ call[c].cookie # 0
          /\ Answer(c, call[c].cookie)
          /\ EndSession(call[c].cookie)
          /\ UNCHANGED faults
       \/ Fails(c)
    /\ UNCHANGED <<cookies, userLogin, tabs, fresh, overlap>>

\* Access tokens last 15 minutes, as the cookie does, whose absence is answered
\* the same way.
Expire ==
    /\ access # NoToken /\ access.fresh
    /\ access' = [access EXCEPT !.fresh = FALSE]
    /\ UNCHANGED <<authService, refresh, userLogin, tabs, call, fresh, overlap, faults>>

-----------------------------------------------------------------------------
(***************************************************************************)
(* The browser: Set-Cookie.                                                *)
(***************************************************************************)

\* Mutant: login sets the refresh token only, the access token is renewed anyway.
StoreRefreshOnly(c) ==
    /\ access' = CASE call[c].kind = "logout" -> NoToken
                    [] call[c].kind = "refresh" -> Token(owner[call[c].cookie])
                    [] call[c].kind \in {"login", "register"} -> access
    /\ refresh' = CASE call[c].kind \in {"login", "register"} -> call[c].cookie
                    [] call[c].kind = "refresh" -> refresh
                    [] call[c].kind = "logout" -> 0

\* Login and Register set both cookies, HandleUpdateTokens one, Logout deletes both.
Store(c) ==
    /\ access' = IF call[c].kind = "logout" THEN NoToken ELSE Token(owner[call[c].cookie])
    /\ refresh' = CASE call[c].kind \in {"login", "register"} -> call[c].cookie
                    [] call[c].kind = "refresh" -> refresh
                    [] call[c].kind = "logout" -> 0

\* Other requests are under way, whose cookies are older, or not yet stored.
Others(c) == \E d \in Calls \ {c} : call[d] # NoCall

\* The headers of an answer are here; the script has not run.
AnswerArrives(c) ==
    /\ call[c] # NoCall /\ call[c].stage = "answered"
    /\ call' = [call EXCEPT ![c].stage = "arrived"]
    /\ Store(c)
    /\ overlap' = (Others(c) \/ (overlap /\ call[c].kind \notin {"login", "register"}))
    /\ UNCHANGED <<authService, userLogin, tabs, fresh, faults>>

\* The request or its answer is lost: fetch throws. Only logout tells that from
\* an answer that is not ok.
AnswerLost(c) ==
    /\ Fault
    /\ call[c] # NoCall /\ call[c].stage # "arrived"
    /\ Refuse(c, IF call[c].kind = "logout" THEN "lost" ELSE "error")
    /\ UNCHANGED <<authService, cookies, userLogin, tabs, fresh, overlap>>

-----------------------------------------------------------------------------
(***************************************************************************)
(* auth.html.                                                              *)
(***************************************************************************)

\* A new user registers; what is not answered with tokens changes nothing. The
\* last guard is the bound on logins.
Submit(t) ==
    /\ page[t] = "auth"
    /\ Len(owner) < MaxSessions
    /\ \E l \in Logins :
          Send(<<t, "page">>, IF l \in users THEN "login" ELSE "register", l, 0)
    /\ UNCHANGED <<authService, cookies, userLogin, tabs, fresh, overlap, faults>>

LoginResponds(t) ==
    LET c == <<t, "page">> IN
    /\ call[c] # NoCall /\ call[c].stage = "arrived" /\ page[t] = "auth"
    /\ IF call[c].answer = "ok"
       THEN userLogin' = call[c].login /\ fresh' = {} /\ Leave(t, "start")
       ELSE call' = [call EXCEPT ![c] = NoCall] /\ UNCHANGED <<userLogin, fresh, tabs>>
    /\ UNCHANGED <<authService, cookies, overlap, faults>>

-----------------------------------------------------------------------------
(***************************************************************************)
(* index.html: app.js and connectWebSocket.                                *)
(***************************************************************************)

Start(t) ==
    /\ page[t] = "start"
    /\ me' = [me EXCEPT ![t] = userLogin]
    /\ page' = [page EXCEPT ![t] = IF userLogin = NoLogin THEN "auth" ELSE "checking"]
    /\ fresh' = IF userLogin = NoLogin THEN fresh ELSE fresh \cup {t}
    /\ UNCHANGED <<authService, cookies, userLogin, call, ready, overlap, faults>>

\* connectWebSocket opens the socket; when it returns for the first time, the
\* logout button is given its handler.
OpenSocket(t) ==
    /\ page' = [page EXCEPT ![t] = "connecting"]
    /\ ready' = ready \cup {t}
    /\ UNCHANGED me

\* checkAuth; a request that fails counts as a token that was refused.
CheckAuth(t) ==
    /\ page[t] = "checking"
    /\ \/ /\ ValidateAccessToken(access) # NoLogin
          /\ OpenSocket(t)
          /\ UNCHANGED faults
       \/ /\ \/ ValidateAccessToken(access) = NoLogin /\ UNCHANGED faults
             \/ Fault
          /\ page' = [page EXCEPT ![t] = "refreshing"]
          /\ UNCHANGED <<me, ready>>
    /\ UNCHANGED <<authService, cookies, userLogin, call, fresh, overlap>>

RefreshTokens(t) ==
    /\ page[t] = "refreshing"
    /\ Send(<<t, "page">>, "refresh", NoLogin, refresh)
    /\ UNCHANGED <<authService, cookies, userLogin, tabs, fresh, overlap, faults>>

\* Mutant: a refusal is tried again.
RefreshRetries(t) ==
    LET c == <<t, "page">> IN
    /\ call[c] # NoCall /\ call[c].stage = "arrived" /\ page[t] = "refreshing"
    /\ page' = [page EXCEPT ![t] = IF call[c].answer = "ok" THEN "connecting" ELSE "checking"]
    /\ call' = [call EXCEPT ![c] = NoCall]
    /\ UNCHANGED <<authService, cookies, userLogin, me, ready, fresh, overlap, faults>>

RefreshResponds(t) ==
    LET c == <<t, "page">> IN
    /\ call[c] # NoCall /\ call[c].stage = "arrived" /\ page[t] = "refreshing"
    /\ IF call[c].answer = "ok"
       THEN OpenSocket(t) /\ call' = [call EXCEPT ![c] = NoCall] /\ UNCHANGED fresh
       ELSE Leave(t, "auth") /\ fresh' = fresh \ {t}
    /\ UNCHANGED <<authService, cookies, userLogin, overlap, faults>>

\* The handshake carries the cookie of now, and state.login; if it is refused,
\* connectWebSocket starts again.
Connect(t) ==
    /\ page[t] = "connecting"
    /\ page' = [page EXCEPT ![t] =
          IF ValidateAccessToken(access) # NoLogin THEN "chat" ELSE "checking"]
    /\ UNCHANGED <<authService, cookies, userLogin, me, ready, call, fresh, overlap, faults>>

LoseSocket(t) ==
    /\ Fault
    /\ page[t] = "chat"
    /\ page' = [page EXCEPT ![t] = "checking"]
    /\ UNCHANGED <<authService, cookies, userLogin, me, ready, call, fresh, overlap>>

Logout(t) ==
    /\ t \in ready
    /\ Send(<<t, "logout">>, "logout", NoLogin, refresh)
    /\ UNCHANGED <<authService, cookies, userLogin, tabs, fresh, overlap, faults>>

\* Whatever the answer says, the page forgets its user; only when there is no
\* answer it stays.
LogoutResponds(t) ==
    LET c == <<t, "logout">> IN
    /\ call[c] # NoCall /\ call[c].stage = "arrived"
    /\ IF call[c].answer = "lost"
       THEN call' = [call EXCEPT ![c] = NoCall] /\ UNCHANGED <<userLogin, tabs, fresh>>
       ELSE userLogin' = NoLogin /\ Leave(t, "auth") /\ fresh' = fresh \ {t}
    /\ UNCHANGED <<authService, cookies, overlap, faults>>

\* The user reloads, or leaves auth.html before its script has run.
Reload(t) ==
    /\ Fault
    /\ page[t] # "start"
    /\ Leave(t, "start") /\ fresh' = fresh \ {t}
    /\ overlap' = (overlap \/ \E c \in Calls :
          c[1] = t /\ call[c] # NoCall /\ call[c].kind \in {"login", "register"}
              /\ call[c].stage = "arrived")
    /\ UNCHANGED <<authService, cookies, userLogin>>

-----------------------------------------------------------------------------
Gateway(c) == HandleLogin(c) \/ HandleRegister(c) \/ HandleUpdateTokens(c) \/ HandleLogout(c)

Script(t) ==
    \/ Start(t) \/ LoginResponds(t) \/ CheckAuth(t) \/ RefreshTokens(t)
    \/ RefreshResponds(t) \/ Connect(t) \/ LogoutResponds(t)

Next ==
    \/ \E c \in Calls : Gateway(c) \/ AnswerArrives(c) \/ AnswerLost(c)
    \/ \E t \in Tabs : Script(t) \/ Submit(t) \/ LoseSocket(t) \/ Logout(t) \/ Reload(t)
    \/ Expire

Spec == Init /\ [][Next]_vars

\* Scripts run, requests are answered, tokens expire. Nobody has to log in.
Fairness ==
    /\ \A c \in Calls : WF_vars(Gateway(c) \/ AnswerArrives(c))
    /\ \A t \in Tabs : WF_vars(Script(t))
    /\ WF_vars(Expire)

FairSpec == Spec /\ Fairness

-----------------------------------------------------------------------------
(***************************************************************************)
(* Properties.                                                             *)
(***************************************************************************)

\* The names in use: of uploads, of the session, of new pages, of the text
\* messages of pages that started since the last login.
Names ==
    {ValidateAccessToken(access), userLogin} \cup {owner[s] : s \in {refresh} \ {0}}
        \cup {me[t] : t \in fresh}

\* Once all requests are through, the browser is one user's: the cookies, which
\* name the sender of uploads, userLogin and the pages, which name the sender of
\* texts, agree, unless cookies came while another request was under way.
OneName ==
    (\A c \in Calls : call[c] = NoCall) /\ ~overlap => Cardinality(Names \ {NoLogin}) <= 1

\* Logout is final: a refresh of another tab may be answered after it and bring
\* an access token back, but without a refresh token that ends, and every page is
\* then at the login page or lives on the socket it has.
LogoutIsFinal ==
    <>[](refresh = 0) =>
        <>[]( /\ ValidateAccessToken(access) = NoLogin
              /\ \A t \in Tabs : page[t] \in {"chat", "auth"})
=============================================================================
