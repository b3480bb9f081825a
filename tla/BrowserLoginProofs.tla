------------------------- MODULE BrowserLoginProofs -------------------------
(***************************************************************************)
(* For any number of tabs, users, sessions and faults: once the requests   *)
(* are through, the browser is one user's, unless cookies came while       *)
(* another request was under way.                                          *)
(*                                                                         *)
(* That is not inductive: between the moment the cookies of a login are    *)
(* stored and the moment its script runs, the browser has two users, the   *)
(* cookies' and the pages'. Undisturbed says who they are; it needs that   *)
(* every other request then under way was sent with the cookie of now, and *)
(* that a page cannot log in and log out at once (CallOK, PageOK).         *)
(***************************************************************************)
EXTENDS BrowserLogin, FiniteSetTheorems, SequenceTheorems, TLAPS

LoginKinds == {"login", "register"}

\* The cookies of a login are stored, and its script has not run.
Pending(c) ==
    /\ call[c] # NoCall /\ call[c].kind \in LoginKinds
    /\ call[c].stage = "arrived" /\ call[c].answer = "ok"

\* What a request is at each of its stages. A login that went well is of a user
\* with an account, and its cookie is of a session of that user.
CallOK(c) ==
    call[c] # NoCall =>
        /\ call[c].cookie \in DOMAIN owner \cup {0}
        /\ call[c].kind = "logout" <=> c[2] = "logout"
        /\ call[c].stage = "sent" => call[c].answer = "none"
        /\ call[c].stage = "answered" => call[c].answer = "ok"
        /\ call[c].kind \in LoginKinds /\ call[c].stage = "sent" => call[c].login \in Logins
        /\ call[c].kind \in LoginKinds /\ call[c].answer = "ok" =>
              call[c].login \in users /\ owner[call[c].cookie] = call[c].login

\* A page waits for the request it sent, and the login page has no logout button.
PageOK(t) ==
    /\ call[<<t, "page">>] # NoCall =>
          page[t] = IF call[<<t, "page">>].kind = "refresh" THEN "refreshing" ELSE "auth"
    /\ call[<<t, "logout">>] # NoCall => t \in ready
    /\ page[t] \in {"auth", "start"} => t \notin ready

\* The cookies name nobody but l.
CookiesOf(l) ==
    /\ ValidateAccessToken(access) \in {l, NoLogin}
    /\ refresh # 0 => owner[refresh] = l

\* Nor does anything else.
BrowserOf(l) ==
    /\ CookiesOf(l)
    /\ userLogin \in {l, NoLogin}
    /\ \A t \in fresh : me[t] \in {l, NoLogin}

Undisturbed ==
    /\ \A c \in Calls :
          call[c] # NoCall /\ call[c].kind \notin LoginKinds /\ call[c].stage # "arrived" =>
              call[c].cookie = refresh
    /\ \A c, d \in Calls : Pending(c) /\ Pending(d) => c = d
    /\ \A c \in Calls : Pending(c) => CookiesOf(call[c].login)
    /\ (\A c \in Calls : ~Pending(c)) => \E l \in Logins \cup {NoLogin} : BrowserOf(l)

StructInv ==
    /\ TypeOK
    /\ \A s \in DOMAIN owner : owner[s] \in users
    /\ \A c \in Calls : CallOK(c)
    /\ \A t \in Tabs : PageOK(t)

LoginInv == StructInv /\ (~overlap => Undisturbed)
-----------------------------------------------------------------------------
(***************************************************************************)
(* What the operators that change a request do to the table of requests.   *)
(***************************************************************************)

\* A request is of the page or of the logout button of a tab.
LEMMA CallsOfTabs ==
    /\ \A t \in Tabs : <<t, "page">> \in Calls /\ <<t, "logout">> \in Calls
    /\ \A c \in Calls : c[1] \in Tabs /\ (c = <<c[1], "page">> \/ c = <<c[1], "logout">>)
    /\ \A t \in Tabs : <<t, "page">>[1] = t /\ <<t, "page">>[2] = "page"
    /\ \A t \in Tabs : <<t, "logout">>[1] = t /\ <<t, "logout">>[2] = "logout"
BY DEF Calls

\* An answer keeps the kind and the login of its request.
LEMMA AnswerFacts ==
    ASSUME TypeOK, NEW c \in Calls, call[c] # NoCall,
           NEW cookie \in Sessions \cup {0}, Answer(c, cookie)
    PROVE  /\ call' \in [Calls -> Call \cup {NoCall}]
           /\ \A d \in Calls \ {c} : call'[d] = call[d]
           /\ call'[c] # NoCall
           /\ call'[c].kind = call[c].kind /\ call'[c].login = call[c].login
           /\ call'[c].cookie = cookie
           /\ call'[c].stage = "answered" /\ call'[c].answer = "ok"
<1>1. call \in [Calls -> Call \cup {NoCall}] /\ call[c] \in Call
  BY DEF TypeOK
<1>2. DOMAIN call' = Calls /\ \A d \in Calls \ {c} : call'[d] = call[d]
  BY <1>1 DEF Answer
<1>3. call'[c] \in Call
  BY <1>1 DEF Answer, Call
<1>4. call'[c].kind = call[c].kind
  BY <1>1 DEF Answer, Call
<1>5. call'[c].login = call[c].login
  BY <1>1 DEF Answer, Call
<1>6. call'[c].cookie = cookie
  BY <1>1 DEF Answer, Call
<1>7. call'[c].stage = "answered" /\ call'[c].answer = "ok"
  BY <1>1 DEF Answer, Call
<1>8. call' \in [Calls -> Call \cup {NoCall}]
  BY <1>1, <1>2, <1>3 DEF Answer
<1> QED BY <1>2, <1>3, <1>4, <1>5, <1>6, <1>7, <1>8, NoCallAssumption

\* A refusal is over at once and names nobody.
LEMMA RefuseFacts ==
    ASSUME TypeOK, NEW c \in Calls, call[c] # NoCall,
           NEW answer \in {"error", "lost"}, Refuse(c, answer)
    PROVE  /\ call' \in [Calls -> Call \cup {NoCall}]
           /\ \A d \in Calls \ {c} : call'[d] = call[d]
           /\ call'[c] # NoCall
           /\ call'[c].kind = call[c].kind /\ call'[c].cookie = 0
           /\ call'[c].stage = "arrived" /\ call'[c].answer = answer
<1>1. call \in [Calls -> Call \cup {NoCall}] /\ call[c] \in Call
  BY DEF TypeOK
<1>2. DOMAIN call' = Calls /\ \A d \in Calls \ {c} : call'[d] = call[d]
  BY <1>1 DEF Refuse
<1>3. call'[c] \in Call
  BY <1>1 DEF Refuse, Call
<1>4. call'[c].kind = call[c].kind
  BY <1>1 DEF Refuse, Call
<1>5. call'[c].cookie = 0
  BY <1>1 DEF Refuse, Call
<1>6. call'[c].stage = "arrived" /\ call'[c].answer = answer
  BY <1>1 DEF Refuse, Call
<1>7. call' \in [Calls -> Call \cup {NoCall}]
  BY <1>1, <1>2, <1>3 DEF Refuse
<1> QED BY <1>2, <1>3, <1>4, <1>5, <1>6, <1>7, NoCallAssumption

\* A new request takes a free place.
LEMMA SendFacts ==
    ASSUME TypeOK, NEW c \in Calls, NEW kind \in Kinds, NEW l \in Logins \cup {NoLogin},
           NEW cookie \in Sessions \cup {0}, Send(c, kind, l, cookie)
    PROVE  /\ call' \in [Calls -> Call \cup {NoCall}]
           /\ \A d \in Calls \ {c} : call'[d] = call[d]
           /\ call[c] = NoCall /\ call'[c] # NoCall
           /\ call'[c].kind = kind /\ call'[c].login = l /\ call'[c].cookie = cookie
           /\ call'[c].stage = "sent" /\ call'[c].answer = "none"
<1> DEFINE r == [kind |-> kind, login |-> l, cookie |-> cookie,
                 stage |-> "sent", answer |-> "none"]
<1>1. call \in [Calls -> Call \cup {NoCall}]
  BY DEF TypeOK
<1>2. call' = [call EXCEPT ![c] = r] /\ call[c] = NoCall
  BY DEF Send
<1>3. r \in Call /\ r # NoCall
  BY NoCallAssumption DEF Call
<1> HIDE DEF r
<1>4. call' \in [Calls -> Call \cup {NoCall}] /\ call'[c] = r /\ \A d \in Calls \ {c} : call'[d] = call[d]
  BY <1>1, <1>2, <1>3
<1> QED BY <1>2, <1>3, <1>4 DEF r

\* The headers of an answer change nothing but where it is.
LEMMA ArrivesFacts ==
    ASSUME TypeOK, NEW c \in Calls, AnswerArrives(c)
    PROVE  /\ call' \in [Calls -> Call \cup {NoCall}]
           /\ \A d \in Calls \ {c} : call'[d] = call[d]
           /\ call[c] # NoCall /\ call[c].stage = "answered" /\ call'[c] # NoCall
           /\ call'[c].kind = call[c].kind /\ call'[c].login = call[c].login
           /\ call'[c].cookie = call[c].cookie
           /\ call'[c].stage = "arrived" /\ call'[c].answer = call[c].answer
<1>1. call \in [Calls -> Call \cup {NoCall}] /\ call[c] \in Call
  BY DEF TypeOK, AnswerArrives
<1>2. DOMAIN call' = Calls /\ \A d \in Calls \ {c} : call'[d] = call[d]
  BY <1>1 DEF AnswerArrives
<1>3. call'[c] \in Call
  BY <1>1 DEF AnswerArrives, Call
<1>4. call'[c].kind = call[c].kind
  BY <1>1 DEF AnswerArrives, Call
<1>5. call'[c].login = call[c].login /\ call'[c].cookie = call[c].cookie
  BY <1>1 DEF AnswerArrives, Call
<1>6. call'[c].stage = "arrived" /\ call'[c].answer = call[c].answer
  BY <1>1 DEF AnswerArrives, Call
<1>7. call' \in [Calls -> Call \cup {NoCall}]
  BY <1>1, <1>2, <1>3 DEF AnswerArrives
<1> QED BY <1>2, <1>3, <1>4, <1>5, <1>6, <1>7, NoCallAssumption DEF AnswerArrives

\* A script that has seen its answer frees the place.
LEMMA DoneFacts ==
    ASSUME TypeOK, NEW c \in Calls, call' = [call EXCEPT ![c] = NoCall]
    PROVE  /\ call' \in [Calls -> Call \cup {NoCall}]
           /\ \A d \in Calls \ {c} : call'[d] = call[d]
           /\ call'[c] = NoCall
BY DEF TypeOK

\* A new document has no request, no name and no logout button.
LEMMA LeaveFacts ==
    ASSUME TypeOK, NEW t \in Tabs, NEW p \in {"auth", "start"}, Leave(t, p)
    PROVE  /\ call' \in [Calls -> Call \cup {NoCall}]
           /\ \A c \in Calls : call'[c] = IF c[1] = t THEN NoCall ELSE call[c]
           /\ page'[t] = p /\ \A s \in Tabs \ {t} : page'[s] = page[s] /\ me'[s] = me[s]
           /\ page' \in [Tabs -> {"auth", "start", "checking", "refreshing", "connecting", "chat"}]
           /\ me' \in [Tabs -> users \cup {NoLogin}]
           /\ ready' = ready \ {t}
BY DEF TypeOK, Leave
-----------------------------------------------------------------------------
(***************************************************************************)
(* A request is answered, refused or lost.                                 *)
(***************************************************************************)

\* Sessions are numbered from 1 in the order they start.
LEMMA OwnerFacts ==
    ASSUME TypeOK
    PROVE  /\ Len(owner) \in Nat /\ DOMAIN owner = 1 .. Len(owner)
           /\ DOMAIN owner \subseteq Sessions /\ 0 \notin DOMAIN owner
           /\ \A s \in DOMAIN owner : owner[s] \in Logins
<1>1. owner \in Seq(Logins) /\ Len(owner) <= MaxSessions
  BY DEF TypeOK
<1>2. Len(owner) \in Nat /\ DOMAIN owner = 1 .. Len(owner)
  BY <1>1, LenProperties
<1>3. \A s \in DOMAIN owner : owner[s] \in Logins
  BY <1>1, <1>2, ElementOfSeq
<1> QED BY <1>1, <1>2, <1>3, LoginAssumption DEF Sessions

\* The auth service forgets no account and no session, and a session is of a
\* user with an account.
AuthGrows ==
    /\ users \subseteq users' /\ users' \subseteq Logins
    /\ owner' \in Seq(Logins) /\ Len(owner') <= MaxSessions
    /\ DOMAIN owner \subseteq DOMAIN owner'
    /\ \A s \in DOMAIN owner : owner'[s] = owner[s]
    /\ \A s \in DOMAIN owner' : owner'[s] \in users'
    /\ valid' \subseteq DOMAIN owner'

\* The answer names a session: the new one of a login, or the one asked with.
AnswerOK(c) ==
    /\ call'[c].stage = "answered" /\ call'[c].answer = "ok"
    /\ call'[c].login = call[c].login
    /\ call'[c].cookie \in DOMAIN owner'
    /\ call[c].kind \notin LoginKinds => call'[c].cookie = call[c].cookie
    /\ call[c].kind \in LoginKinds =>
          call[c].login \in users' /\ owner'[call'[c].cookie] = call[c].login

AnswerNotOK(c) ==
    /\ call'[c].stage = "arrived" /\ call'[c].answer \in {"error", "lost"}
    /\ call'[c].cookie = 0

Answered(c) ==
    /\ call' \in [Calls -> Call \cup {NoCall}]
    /\ \A d \in Calls \ {c} : call'[d] = call[d]
    /\ call[c] # NoCall /\ call[c].stage # "arrived"
    /\ call'[c] # NoCall /\ call'[c].kind = call[c].kind
    /\ AnswerOK(c) \/ AnswerNotOK(c)
    /\ AuthGrows
    /\ faults' \in 0 .. MaxFaults
    /\ UNCHANGED <<cookies, userLogin, tabs, fresh, overlap>>

LEMMA AuthStays ==
    ASSUME StructInv, UNCHANGED <<users, owner>>, valid' \subseteq valid
    PROVE  AuthGrows
BY DEF StructInv, TypeOK, AuthGrows

LEMMA FaultFacts ==
    ASSUME TypeOK, Fault
    PROVE  faults' \in 0 .. MaxFaults
BY LoginAssumption DEF TypeOK, Fault

\* A login starts the next session.
LEMMA NewSessionFacts ==
    ASSUME StructInv, NEW c \in Calls, call[c] # NoCall, call[c].kind \in LoginKinds,
           call[c].login \in Logins, users' = users \cup {call[c].login}, NewSession(c)
    PROVE  /\ AuthGrows /\ AnswerOK(c)
           /\ call' \in [Calls -> Call \cup {NoCall}]
           /\ \A d \in Calls \ {c} : call'[d] = call[d]
           /\ call'[c] # NoCall /\ call'[c].kind = call[c].kind
<1>1. owner \in Seq(Logins) /\ call[c].login \in Logins /\ TypeOK
  BY DEF StructInv, TypeOK
<1>2. /\ owner' \in Seq(Logins) /\ Len(owner') = Len(owner) + 1
      /\ \A s \in 1 .. Len(owner) : owner'[s] = owner[s]
      /\ owner'[Len(owner) + 1] = call[c].login
  BY <1>1, AppendProperties DEF NewSession
<1>3. DOMAIN owner' = 1 .. Len(owner) + 1
  BY <1>1, <1>2, LenProperties
<1>4. Len(owner) \in Nat /\ DOMAIN owner = 1 .. Len(owner) /\ Len(owner) + 1 <= MaxSessions
  BY <1>1, OwnerFacts, LoginAssumption DEF NewSession
<1>5. /\ call' \in [Calls -> Call \cup {NoCall}]
      /\ \A d \in Calls \ {c} : call'[d] = call[d]
      /\ call'[c] # NoCall /\ call'[c].kind = call[c].kind /\ call'[c].login = call[c].login
      /\ call'[c].cookie = Len(owner')
      /\ call'[c].stage = "answered" /\ call'[c].answer = "ok"
  <2>1. Len(owner') \in Sessions \cup {0} /\ Answer(c, Len(owner'))
    BY <1>2, <1>4 DEF NewSession, Sessions
  <2>2. PICK k \in Sessions \cup {0} : k = Len(owner')
    BY <2>1
  <2>3. Answer(c, k)
    BY <2>1, <2>2
  <2> QED BY <1>1, <2>2, <2>3, AnswerFacts
<1>6. AnswerOK(c)
  BY <1>2, <1>3, <1>4, <1>5 DEF AnswerOK
<1>7. AuthGrows
  <2>1. valid \subseteq DOMAIN owner /\ users \subseteq Logins /\ \A s \in DOMAIN owner : owner[s] \in users
    BY DEF StructInv, TypeOK
  <2>2. valid' = valid \cup {Len(owner) + 1}
    BY <1>2 DEF NewSession
  <2>3. \A s \in DOMAIN owner' : s \in DOMAIN owner \/ s = Len(owner) + 1
    BY <1>3, <1>4
  <2> QED BY <1>1, <1>2, <1>3, <1>4, <2>1, <2>2, <2>3 DEF AuthGrows
<1> QED BY <1>5, <1>6, <1>7

\* What the gateway answers, and what becomes of a request that is lost.
LEMMA GatewayAnswers ==
    ASSUME StructInv, NEW c \in Calls, Gateway(c) \/ AnswerLost(c)
    PROVE  Answered(c)
<1>1. TypeOK /\ faults \in 0 .. MaxFaults /\ valid \subseteq DOMAIN owner /\ DOMAIN owner \subseteq Sessions
  BY OwnerFacts DEF StructInv, TypeOK
<1>2. ASSUME NEW kind \in {"login", "register"}, Arrives(c, kind), NewSession(c),
             IF kind = "login" THEN call[c].login \in users /\ UNCHANGED users
                               ELSE users' = users \cup {call[c].login},
             UNCHANGED <<faults, cookies, userLogin, tabs, fresh, overlap>>
      PROVE  Answered(c)
  <2>1. call[c] # NoCall /\ call[c].kind \in LoginKinds /\ call[c].stage = "sent"
    BY <1>2 DEF Arrives, LoginKinds
  <2>2. call[c].login \in Logins /\ users' = users \cup {call[c].login}
    BY <1>2, <2>1 DEF StructInv, CallOK
  <2> QED BY <1>1, <1>2, <2>1, <2>2, NewSessionFacts DEF Answered
<1>3. ASSUME NEW kind \in Kinds, Arrives(c, kind), Fails(c),
             UNCHANGED <<cookies, userLogin, tabs, fresh, overlap>>
      PROVE  Answered(c)
  <2>1. call[c] # NoCall /\ call[c].stage = "sent" /\ Refuse(c, "error")
    BY <1>3 DEF Arrives, Fails
  <2>2. /\ call' \in [Calls -> Call \cup {NoCall}]
        /\ \A d \in Calls \ {c} : call'[d] = call[d]
        /\ call'[c] # NoCall /\ call'[c].kind = call[c].kind
        /\ AnswerNotOK(c)
    BY <1>1, <2>1, RefuseFacts DEF AnswerNotOK
  <2>3. AuthGrows
    BY <1>3, AuthStays DEF Fails, authService
  <2>4. faults' \in 0 .. MaxFaults
    BY <1>1, <1>3, FaultFacts DEF Fails
  <2> QED BY <1>3, <2>1, <2>2, <2>3, <2>4 DEF Answered
<1>4. ASSUME NEW kind \in {"refresh", "logout"}, Arrives(c, kind), call[c].cookie \in DOMAIN owner,
             Answer(c, call[c].cookie), UNCHANGED <<users, owner>>, valid' \subseteq valid,
             faults' \in 0 .. MaxFaults, UNCHANGED <<cookies, userLogin, tabs, fresh, overlap>>
      PROVE  Answered(c)
  <2>1. call[c] # NoCall /\ call[c].stage = "sent" /\ call[c].kind = kind
    BY <1>4 DEF Arrives
  <2>2. PICK k \in Sessions \cup {0} : k = call[c].cookie
    BY <1>1, <1>4
  <2>3. Answer(c, k)
    BY <1>4, <2>2
  <2>4. /\ call' \in [Calls -> Call \cup {NoCall}]
        /\ \A d \in Calls \ {c} : call'[d] = call[d]
        /\ call'[c] # NoCall
        /\ call'[c].kind = call[c].kind /\ call'[c].login = call[c].login
        /\ call'[c].cookie = k
        /\ call'[c].stage = "answered" /\ call'[c].answer = "ok"
    BY <1>1, <2>1, <2>3, AnswerFacts
  <2>5. AnswerOK(c)
    BY <1>4, <2>1, <2>2, <2>4 DEF AnswerOK, LoginKinds
  <2>6. AuthGrows
    BY <1>4, AuthStays
  <2> QED BY <1>4, <2>1, <2>4, <2>5, <2>6 DEF Answered
<1>5. CASE HandleLogin(c)
  <2>1. Arrives(c, "login") /\ UNCHANGED <<cookies, userLogin, tabs, fresh, overlap>>
    BY <1>5 DEF HandleLogin
  <2>2. CASE Fails(c)
    BY <1>3, <2>1, <2>2 DEF Kinds
  <2>3. CASE call[c].login \in users /\ NewSession(c) /\ UNCHANGED <<users, faults>>
    BY <1>2, <2>1, <2>3
  <2> QED BY <1>5, <2>2, <2>3 DEF HandleLogin
<1>6. CASE HandleRegister(c)
  <2>1. Arrives(c, "register") /\ UNCHANGED <<cookies, userLogin, tabs, fresh, overlap>>
    BY <1>6 DEF HandleRegister
  <2>2. CASE Fails(c)
    BY <1>3, <2>1, <2>2 DEF Kinds
  <2>3. CASE NewSession(c) /\ users' = users \cup {call[c].login} /\ UNCHANGED faults
    BY <1>2, <2>1, <2>3
  <2> QED BY <1>6, <2>2, <2>3 DEF HandleRegister
<1>7. CASE HandleUpdateTokens(c)
  <2>1. Arrives(c, "refresh") /\ UNCHANGED <<cookies, userLogin, tabs, fresh, overlap>>
    BY <1>7 DEF HandleUpdateTokens
  <2>2. CASE Fails(c)
    BY <1>3, <2>1, <2>2 DEF Kinds
  <2>3. CASE call[c].cookie \in valid /\ Answer(c, call[c].cookie) /\ Renew(call[c].cookie)
    <3>1. UNCHANGED <<users, owner>> /\ valid' \subseteq valid /\ faults' \in 0 .. MaxFaults
      BY <1>1, <2>3, FaultFacts DEF Renew, authService
    <3> QED BY <1>1, <1>4, <2>1, <2>3, <3>1
  <2> QED BY <1>7, <2>2, <2>3 DEF HandleUpdateTokens
<1>8. CASE HandleLogout(c)
  <2>1. Arrives(c, "logout") /\ UNCHANGED <<cookies, userLogin, tabs, fresh, overlap>>
    BY <1>8 DEF HandleLogout
  <2>2. CASE Fails(c)
    BY <1>3, <2>1, <2>2 DEF Kinds
  <2>3. CASE call[c].cookie # 0 /\ Answer(c, call[c].cookie) /\ EndSession(call[c].cookie) /\ UNCHANGED faults
    <3>1. call[c].cookie \in DOMAIN owner
      BY <2>1, <2>3 DEF StructInv, CallOK, Arrives
    <3>2. UNCHANGED <<users, owner>> /\ valid' \subseteq valid /\ faults' \in 0 .. MaxFaults
      BY <1>1, <2>3 DEF EndSession
    <3> QED BY <1>4, <2>1, <2>3, <3>1, <3>2
  <2> QED BY <1>8, <2>2, <2>3 DEF HandleLogout
<1>9. CASE AnswerLost(c)
  <2>1. PICK a \in {"error", "lost"} : a = IF call[c].kind = "logout" THEN "lost" ELSE "error"
    OBVIOUS
  <2>2. /\ call[c] # NoCall /\ call[c].stage # "arrived" /\ Refuse(c, a) /\ Fault
        /\ UNCHANGED <<authService, cookies, userLogin, tabs, fresh, overlap>>
    BY <1>9, <2>1 DEF AnswerLost
  <2>3. /\ call' \in [Calls -> Call \cup {NoCall}]
        /\ \A d \in Calls \ {c} : call'[d] = call[d]
        /\ call'[c] # NoCall /\ call'[c].kind = call[c].kind
        /\ AnswerNotOK(c)
    BY <1>1, <2>2, RefuseFacts DEF AnswerNotOK
  <2>4. AuthGrows /\ faults' \in 0 .. MaxFaults
    BY <1>1, <2>2, AuthStays, FaultFacts DEF authService
  <2> QED BY <2>2, <2>3, <2>4 DEF Answered
<1> QED BY <1>5, <1>6, <1>7, <1>8, <1>9 DEF Gateway
\* An answer in the browser's hands changes neither the cookies nor the pages.
LEMMA AnsweredKeeps ==
    ASSUME LoginInv, NEW c \in Calls, Answered(c)
    PROVE  LoginInv'
<1> USE DEF Answered, AuthGrows, cookies, tabs
<1>1. StructInv
  BY DEF LoginInv
<1>2. TypeOK'
  <2>1. \A d \in Calls : call'[d] # NoCall /\ call'[d].answer = "ok" => call'[d].cookie \in DOMAIN owner'
    <3>1. SUFFICES ASSUME NEW d \in Calls, call'[d] # NoCall, call'[d].answer = "ok"
                   PROVE  call'[d].cookie \in DOMAIN owner'
      OBVIOUS
    <3>2. CASE d = c
      BY <3>1, <3>2 DEF AnswerOK, AnswerNotOK
    <3>3. CASE d # c
      BY <1>1, <3>1, <3>3 DEF StructInv, TypeOK
    <3> QED BY <3>2, <3>3
  <2>2. /\ access' \in [login : users', fresh : BOOLEAN] \cup {NoToken}
        /\ userLogin' \in users' \cup {NoLogin} /\ me' \in [Tabs -> users' \cup {NoLogin}]
    BY <1>1 DEF StructInv, TypeOK
  <2> QED BY <1>1, <2>1, <2>2 DEF StructInv, TypeOK
<1>3. \A d \in Calls : CallOK(d)'
  <2>1. SUFFICES ASSUME NEW d \in Calls, call'[d] # NoCall PROVE CallOK(d)'
    BY DEF CallOK
  <2>2. CASE d = c
    BY <1>1, <2>1, <2>2 DEF StructInv, CallOK, AnswerOK, AnswerNotOK
  <2>3. CASE d # c
    <3>1. call[d] # NoCall /\ call[d] \in Call /\ call'[d] = call[d] /\ CallOK(d)
      BY <1>1, <2>1, <2>3 DEF StructInv, TypeOK
    <3>2. call[d].answer = "ok" => call[d].cookie \in DOMAIN owner
      BY <1>1, <3>1 DEF StructInv, TypeOK
    <3> QED BY <3>1, <3>2 DEF CallOK
  <2> QED BY <2>2, <2>3
<1>4. \A t \in Tabs : PageOK(t)'
  <2>1. SUFFICES ASSUME NEW t \in Tabs PROVE PageOK(t)'
    OBVIOUS
  <2>2. \A d \in Calls : (call'[d] # NoCall <=> call[d] # NoCall) /\ call'[d].kind = call[d].kind
    OBVIOUS
  <2> QED BY <1>1, <2>2, CallsOfTabs DEF StructInv, PageOK
<1>5. StructInv'
  BY <1>2, <1>3, <1>4 DEF StructInv
<1>6. ASSUME ~overlap' PROVE Undisturbed'
  <2>1. Undisturbed
    BY <1>6 DEF LoginInv
  <2>2. \A d \in Calls : Pending(d)' <=> Pending(d)
    BY DEF Pending, AnswerOK, AnswerNotOK
  <2>3. \A d \in Calls : Pending(d) => call'[d] = call[d]
    BY DEF Pending
  <2>4. refresh # 0 => refresh \in DOMAIN owner
    BY <1>1 DEF StructInv, TypeOK
  <2>5. \A l : CookiesOf(l) => CookiesOf(l)'
    BY <2>4 DEF CookiesOf, ValidateAccessToken
  <2>6. \A d \in Calls : call'[d] # NoCall /\ call'[d].kind \notin LoginKinds /\ call'[d].stage # "arrived" =>
              call'[d].cookie = refresh'
    BY <2>1 DEF Undisturbed, AnswerOK, AnswerNotOK
  <2>7. \A d, e \in Calls : Pending(d)' /\ Pending(e)' => d = e
    BY <2>1, <2>2 DEF Undisturbed
  <2>8. \A d \in Calls : Pending(d)' => CookiesOf(call[d].login)'
    BY <2>1, <2>2, <2>3, <2>5 DEF Undisturbed, CookiesOf
  <2>9. \A l : BrowserOf(l) => BrowserOf(l)'
    BY <2>5 DEF BrowserOf
  <2>10. (\A d \in Calls : ~Pending(d)') => \E l \in Logins \cup {NoLogin} : BrowserOf(l)'
    BY <2>1, <2>2, <2>9 DEF Undisturbed
  <2> QED BY <2>6, <2>7, <2>8, <2>10 DEF Undisturbed
<1> QED BY <1>5, <1>6 DEF LoginInv
-----------------------------------------------------------------------------
(***************************************************************************)
(* The headers of an answer arrive: the cookies change.                    *)
(***************************************************************************)

\* Cookies that come while nothing else is under way are a login's, whose
\* script is still to run, or those of the user the browser has, or none.
LEMMA ArrivalKeeps ==
    ASSUME LoginInv, NEW c \in Calls, AnswerArrives(c)
    PROVE  LoginInv'
<1>1. StructInv /\ TypeOK
  BY DEF LoginInv, StructInv
<1>2. /\ call' \in [Calls -> Call \cup {NoCall}]
      /\ \A d \in Calls \ {c} : call'[d] = call[d]
      /\ call[c] # NoCall /\ call[c].stage = "answered" /\ call'[c] # NoCall
      /\ call'[c].kind = call[c].kind /\ call'[c].login = call[c].login
      /\ call'[c].cookie = call[c].cookie
      /\ call'[c].stage = "arrived" /\ call'[c].answer = call[c].answer
  BY <1>1, ArrivesFacts
<1>3. call[c] \in Call /\ call[c].answer = "ok" /\ call[c].cookie \in DOMAIN owner
  BY <1>1, <1>2 DEF StructInv, TypeOK, CallOK
<1>4. UNCHANGED <<users, owner, valid, userLogin, page, me, ready, fresh, faults>>
  BY DEF AnswerArrives, authService, tabs
<1>5. owner[call[c].cookie] \in users
  BY <1>1, <1>3 DEF StructInv
<1>6. access' \in [login : users, fresh : BOOLEAN] \cup {NoToken} /\ refresh' \in DOMAIN owner \cup {0}
  <2>1. refresh \in DOMAIN owner \cup {0} /\ call[c].kind \in Kinds
    BY <1>1, <1>3 DEF TypeOK, Call
  <2>2. access' = IF call[c].kind = "logout" THEN NoToken ELSE Token(owner[call[c].cookie])
    BY DEF AnswerArrives, Store
  <2>3. access' \in [login : users, fresh : BOOLEAN] \cup {NoToken}
    BY <1>5, <2>2 DEF Token
  <2>4. refresh' \in {call[c].cookie, refresh, 0}
    BY <2>1 DEF AnswerArrives, Store, Kinds
  <2> QED BY <1>3, <2>1, <2>3, <2>4
<1>7. overlap' \in BOOLEAN
  BY DEF AnswerArrives, Others
<1>8. TypeOK'
  <2>1. \A d \in Calls : call'[d] # NoCall /\ call'[d].answer = "ok" => call'[d].cookie \in DOMAIN owner
    BY <1>1, <1>2 DEF TypeOK
  <2> QED BY <1>1, <1>2, <1>4, <1>6, <1>7, <2>1 DEF TypeOK
<1>9. \A d \in Calls : CallOK(d)'
  BY <1>1, <1>2, <1>4 DEF StructInv, CallOK
<1>10. \A t \in Tabs : PageOK(t)'
  <2>1. SUFFICES ASSUME NEW t \in Tabs PROVE PageOK(t)'
    OBVIOUS
  <2>2. \A d \in Calls : (call'[d] # NoCall <=> call[d] # NoCall) /\ call'[d].kind = call[d].kind
    BY <1>2
  <2> QED BY <1>1, <1>4, <2>2, CallsOfTabs DEF StructInv, PageOK
<1>11. StructInv'
  BY <1>1, <1>4, <1>8, <1>9, <1>10 DEF StructInv
<1>12. ASSUME ~overlap' PROVE Undisturbed'
  <2>1. \A d \in Calls \ {c} : call[d] = NoCall /\ call'[d] = NoCall
    BY <1>2, <1>12 DEF AnswerArrives, Others
  <2>2. \A d \in Calls : call'[d] # NoCall /\ call'[d].kind \notin LoginKinds /\ call'[d].stage # "arrived" =>
              call'[d].cookie = refresh'
    BY <1>2, <2>1
  <2>3. \A d, e \in Calls : Pending(d)' /\ Pending(e)' => d = e
    BY <2>1 DEF Pending
  <2>4. CASE call[c].kind \in LoginKinds
    <3>1. call[c].login \in users /\ owner[call[c].cookie] = call[c].login
      BY <1>1, <1>2, <1>3, <2>4 DEF StructInv, CallOK
    <3>2. access' = Token(call[c].login) /\ refresh' = call[c].cookie
      BY <2>4, <3>1 DEF AnswerArrives, Store, LoginKinds
    <3>3. Pending(c)'
      BY <1>2, <1>3, <2>4 DEF Pending
    <3>4. CookiesOf(call[c].login)'
      BY <1>2, <1>4, <3>1, <3>2 DEF CookiesOf, ValidateAccessToken, Token
    <3>5. \A d \in Calls : Pending(d)' => d = c
      BY <2>3, <3>3
    <3> QED BY <2>2, <2>3, <3>3, <3>4, <3>5 DEF Undisturbed
  <2>5. CASE call[c].kind \notin LoginKinds
    <3>1. Undisturbed
      BY <1>12, <2>5 DEF LoginInv, AnswerArrives, LoginKinds
    <3>2. \A d \in Calls : ~Pending(d) /\ ~Pending(d)'
      BY <1>2, <2>1, <2>5 DEF Pending
    <3>3. PICK l \in Logins \cup {NoLogin} : BrowserOf(l)
      BY <3>1, <3>2 DEF Undisturbed
    <3>4. CookiesOf(l)'
      <4>1. CASE call[c].kind = "logout"
        <5>1. access' = NoToken /\ refresh' = 0
          BY <4>1 DEF AnswerArrives, Store
        <5> QED BY <5>1 DEF CookiesOf, ValidateAccessToken
      <4>2. CASE call[c].kind = "refresh"
        <5>1. call[c].cookie = refresh /\ refresh # 0
          BY <1>2, <1>3, <3>1, <4>2, <1>1, OwnerFacts DEF Undisturbed, LoginKinds
        <5>2. owner[refresh] = l
          BY <3>3, <5>1 DEF BrowserOf, CookiesOf
        <5>3. access' = Token(l) /\ refresh' = refresh
          BY <4>2, <5>1, <5>2 DEF AnswerArrives, Store
        <5> QED BY <1>4, <5>2, <5>3 DEF CookiesOf, ValidateAccessToken, Token
      <4> QED BY <1>3, <2>5, <4>1, <4>2 DEF Call, Kinds, LoginKinds
    <3>5. BrowserOf(l)'
      BY <1>4, <3>3, <3>4 DEF BrowserOf
    <3> QED BY <2>2, <2>3, <3>2, <3>5 DEF Undisturbed
  <2> QED BY <2>4, <2>5
<1> QED BY <1>11, <1>12 DEF LoginInv
-----------------------------------------------------------------------------
(***************************************************************************)
(* The scripts of the pages, and the user.                                 *)
(***************************************************************************)

\* A request that leaves the browser carries the cookie of now.
Leaves(c) ==
    /\ call'[c] # NoCall /\ call'[c].stage = "sent" /\ call'[c].answer = "none"
    /\ call'[c].cookie = IF call'[c].kind \in LoginKinds THEN 0 ELSE refresh
    /\ call'[c].kind \in LoginKinds => call'[c].login \in Logins
    /\ call'[c].kind = "logout" <=> c[2] = "logout"

PageTypes ==
    /\ userLogin \in users \cup {NoLogin}
    /\ page \in [Tabs -> {"auth", "start", "checking", "refreshing", "connecting", "chat"}]
    /\ me \in [Tabs -> users \cup {NoLogin}] /\ ready \subseteq Tabs
    /\ fresh \subseteq Tabs /\ overlap \in BOOLEAN /\ faults \in 0 .. MaxFaults

\* A script starts requests and ends them; the rest is the server's.
Scripted ==
    /\ UNCHANGED <<authService, cookies>>
    /\ call' \in [Calls -> Call \cup {NoCall}]
    /\ \A c \in Calls : call'[c] \in {NoCall, call[c]} \/ Leaves(c)
    /\ PageTypes'
    /\ \A t \in Tabs : PageOK(t)'

LEMMA TypesOfPages ==
    ASSUME LoginInv
    PROVE  TypeOK /\ StructInv /\ PageTypes /\ call \in [Calls -> Call \cup {NoCall}]
BY DEF LoginInv, StructInv, TypeOK, PageTypes

LEMMA ScriptKeepsStruct ==
    ASSUME StructInv, Scripted
    PROVE  StructInv'
<1> USE DEF authService, cookies
<1>1. TypeOK
  BY DEF StructInv
<1>2. UNCHANGED <<users, owner, valid, access, refresh>> /\ PageTypes'
  BY DEF Scripted
<1>3. \A c \in Calls : call'[c] # NoCall /\ call'[c].answer = "ok" => call'[c].cookie \in DOMAIN owner
  <2>1. SUFFICES ASSUME NEW c \in Calls, call'[c] # NoCall, call'[c].answer = "ok"
                 PROVE  call'[c].cookie \in DOMAIN owner
    OBVIOUS
  <2>2. ~Leaves(c)
    BY <2>1 DEF Leaves
  <2>3. call'[c] = call[c]
    BY <2>1, <2>2 DEF Scripted
  <2> QED BY <1>1, <2>1, <2>3 DEF TypeOK
<1>4. TypeOK'
  BY <1>1, <1>2, <1>3 DEF TypeOK, PageTypes, Scripted
<1>5. \A c \in Calls : CallOK(c)'
  <2>1. SUFFICES ASSUME NEW c \in Calls, call'[c] # NoCall PROVE CallOK(c)'
    BY DEF CallOK
  <2>2. CASE call'[c] = call[c]
    BY <1>2, <2>1, <2>2 DEF StructInv, CallOK
  <2>3. CASE Leaves(c)
    <3>1. refresh \in DOMAIN owner \cup {0}
      BY <1>1 DEF TypeOK
    <3> QED BY <1>2, <2>3, <3>1 DEF CallOK, Leaves
  <2> QED BY <2>1, <2>2, <2>3 DEF Scripted
<1> QED BY <1>2, <1>4, <1>5 DEF StructInv, Scripted

\* The cookies stay, or one expires, and no script of a login that is stored runs.
LEMMA UndisturbedKept ==
    ASSUME StructInv, Undisturbed, UNCHANGED <<owner, refresh>>,
           \A c \in Calls : call'[c] \in {NoCall, call[c]} \/ Leaves(c),
           \A c \in Calls : Pending(c) => call'[c] = call[c],
           \A l : CookiesOf(l) => CookiesOf(l)',
           \A l \in Logins \cup {NoLogin} : BrowserOf(l) => BrowserOf(l)'
    PROVE  Undisturbed'
<1>1. \A c \in Calls : Pending(c)' <=> Pending(c)
  <2>1. SUFFICES ASSUME NEW c \in Calls PROVE Pending(c)' <=> Pending(c)
    OBVIOUS
  <2>2. CASE call'[c] = call[c]
    BY <2>2 DEF Pending
  <2>3. CASE call'[c] # call[c]
    <3>1. ~Pending(c)
      BY <2>3
    <3>2. ~Pending(c)'
      BY <2>3 DEF Pending, Leaves
    <3> QED BY <3>1, <3>2
  <2> QED BY <2>2, <2>3
<1>2. \A c \in Calls : call'[c] # NoCall /\ call'[c].kind \notin LoginKinds /\ call'[c].stage # "arrived" =>
          call'[c].cookie = refresh'
  BY DEF Undisturbed, Leaves
<1>3. \A c, d \in Calls : Pending(c)' /\ Pending(d)' => c = d
  BY <1>1 DEF Undisturbed
<1>4. \A c \in Calls : Pending(c)' => CookiesOf(call[c].login)'
  BY <1>1 DEF Undisturbed, CookiesOf
<1>5. (\A c \in Calls : ~Pending(c)') => \E l \in Logins \cup {NoLogin} : BrowserOf(l)'
  BY <1>1 DEF Undisturbed
<1> QED BY <1>2, <1>3, <1>4, <1>5 DEF Undisturbed

\* Most scripts leave the names of the browser alone, or forget some.
LEMMA ScriptKeeps ==
    ASSUME LoginInv, Scripted, ~overlap' => ~overlap,
           ~overlap' => \A c \in Calls : Pending(c) => call'[c] = call[c],
           userLogin' \in {userLogin, NoLogin},
           \A t \in fresh' : me'[t] = userLogin \/ (t \in fresh /\ me'[t] = me[t])
    PROVE  LoginInv'
<1>1. StructInv /\ StructInv'
  BY ScriptKeepsStruct DEF LoginInv
<1>2. ASSUME ~overlap' PROVE Undisturbed'
  <2>1. Undisturbed /\ UNCHANGED <<users, owner, access, refresh>>
    BY <1>2 DEF LoginInv, Scripted, authService, cookies
  <2>2. \A l : CookiesOf(l) => CookiesOf(l)'
    BY <2>1 DEF CookiesOf, ValidateAccessToken
  <2>3. \A l \in Logins \cup {NoLogin} : BrowserOf(l) => BrowserOf(l)'
    BY <2>2 DEF BrowserOf
  <2> QED BY <1>1, <1>2, <2>1, <2>2, <2>3, UndisturbedKept DEF Scripted
<1> QED BY <1>1, <1>2 DEF LoginInv

-----------------------------------------------------------------------------
\* A request takes a free place.
LEMMA SendScripted ==
    ASSUME LoginInv, NEW c \in Calls, NEW kind \in Kinds, NEW l \in Logins \cup {NoLogin},
           NEW cookie \in Sessions \cup {0}, Send(c, kind, l, cookie),
           cookie = IF kind \in LoginKinds THEN 0 ELSE refresh,
           kind \in LoginKinds => l \in Logins,
           kind = "logout" <=> c[2] = "logout",
           kind # "logout" => page[c[1]] = IF kind = "refresh" THEN "refreshing" ELSE "auth",
           kind = "logout" => c[1] \in ready,
           UNCHANGED <<authService, cookies, userLogin, tabs, fresh, overlap, faults>>
    PROVE  LoginInv'
<1> USE DEF tabs
<1>1. TypeOK /\ StructInv /\ PageTypes
  BY TypesOfPages
<1>2. /\ call' \in [Calls -> Call \cup {NoCall}]
      /\ \A d \in Calls \ {c} : call'[d] = call[d]
      /\ call[c] = NoCall /\ call'[c] # NoCall
      /\ call'[c].kind = kind /\ call'[c].login = l /\ call'[c].cookie = cookie
      /\ call'[c].stage = "sent" /\ call'[c].answer = "none"
  BY <1>1, SendFacts
<1>3. \A d \in Calls : call'[d] \in {NoCall, call[d]} \/ Leaves(d)
  BY <1>2 DEF Leaves
<1>4. PageTypes'
  BY <1>1 DEF PageTypes, authService
<1>5. \A t \in Tabs : PageOK(t)'
  <2>1. SUFFICES ASSUME NEW t \in Tabs PROVE PageOK(t)'
    OBVIOUS
  <2>2. <<t, "page">> \in Calls /\ <<t, "logout">> \in Calls /\ PageOK(t)
    BY <1>1, CallsOfTabs DEF StructInv
  <2>3. call'[<<t, "page">>] # NoCall =>
            page'[t] = IF call'[<<t, "page">>].kind = "refresh" THEN "refreshing" ELSE "auth"
    <3>1. CASE c = <<t, "page">>
      BY <1>2, <3>1
    <3>2. CASE c # <<t, "page">>
      BY <1>2, <2>2, <3>2 DEF PageOK
    <3> QED BY <3>1, <3>2
  <2>4. call'[<<t, "logout">>] # NoCall => t \in ready'
    <3>1. CASE c = <<t, "logout">>
      BY <1>2, <3>1
    <3>2. CASE c # <<t, "logout">>
      BY <1>2, <2>2, <3>2 DEF PageOK
    <3> QED BY <3>1, <3>2
  <2> QED BY <2>2, <2>3, <2>4 DEF PageOK
<1>6. Scripted
  BY <1>2, <1>3, <1>4, <1>5 DEF Scripted
<1>7. \A d \in Calls : Pending(d) => call'[d] = call[d]
  BY <1>2 DEF Pending
<1> QED BY <1>6, <1>7, ScriptKeeps
LEMMA SubmitKeeps ==
    ASSUME LoginInv, NEW t \in Tabs, Submit(t)
    PROVE  LoginInv'
<1>1. PICK l \in Logins : Send(<<t, "page">>, IF l \in users THEN "login" ELSE "register", l, 0)
  BY DEF Submit
<1>2. PICK kind \in {"login", "register"} : kind = IF l \in users THEN "login" ELSE "register"
  OBVIOUS
<1>3. PICK c \in Calls : c = <<t, "page">>
  BY CallsOfTabs
<1>4. Send(c, kind, l, 0)
  BY <1>1, <1>2, <1>3
<1>5. /\ page[t] = "auth" /\ c[1] = t /\ c[2] = "page"
      /\ UNCHANGED <<authService, cookies, userLogin, tabs, fresh, overlap, faults>>
  BY <1>3 DEF Submit
<1>6. kind \in LoginKinds /\ kind \in Kinds
  BY DEF LoginKinds, Kinds
<1> QED BY <1>4, <1>5, <1>6, SendScripted

LEMMA RefreshTokensKeeps ==
    ASSUME LoginInv, NEW t \in Tabs, RefreshTokens(t)
    PROVE  LoginInv'
<1>1. PICK c \in Calls : c = <<t, "page">>
  BY CallsOfTabs
<1>2. PICK k \in Sessions \cup {0} : k = refresh
  BY TypesOfPages, OwnerFacts DEF TypeOK
<1>3. Send(c, "refresh", NoLogin, k)
  BY <1>1, <1>2 DEF RefreshTokens
<1>4. /\ page[t] = "refreshing" /\ c[1] = t /\ c[2] = "page"
      /\ UNCHANGED <<authService, cookies, userLogin, tabs, fresh, overlap, faults>>
  BY <1>1 DEF RefreshTokens
<1>5. "refresh" \notin LoginKinds /\ "refresh" \in Kinds
  BY DEF LoginKinds, Kinds
<1> QED BY <1>2, <1>3, <1>4, <1>5, SendScripted

LEMMA LogoutKeeps ==
    ASSUME LoginInv, NEW t \in Tabs, Logout(t)
    PROVE  LoginInv'
<1>1. PICK c \in Calls : c = <<t, "logout">>
  BY CallsOfTabs
<1>2. PICK k \in Sessions \cup {0} : k = refresh
  BY TypesOfPages, OwnerFacts DEF TypeOK
<1>3. Send(c, "logout", NoLogin, k)
  BY <1>1, <1>2 DEF Logout
<1>4. /\ t \in ready /\ c[1] = t /\ c[2] = "logout"
      /\ UNCHANGED <<authService, cookies, userLogin, tabs, fresh, overlap, faults>>
  BY <1>1 DEF Logout
<1>5. "logout" \notin LoginKinds /\ "logout" \in Kinds
  BY DEF LoginKinds, Kinds
<1> QED BY <1>2, <1>3, <1>4, <1>5, SendScripted

\* A page that is waiting for no request goes on.
LEMMA PageStepKeeps ==
    ASSUME LoginInv, NEW t \in Tabs, call[<<t, "page">>] = NoCall,
           NEW p \in {"auth", "checking", "refreshing", "connecting", "chat"},
           page' = [page EXCEPT ![t] = p],
           ready' = ready \/ (ready' = ready \cup {t} /\ p = "connecting"),
           p = "auth" => t \notin ready,
           me' \in {me, [me EXCEPT ![t] = userLogin]},
           fresh' = fresh \/ (fresh' = fresh \cup {t} /\ me' = [me EXCEPT ![t] = userLogin]),
           faults' \in 0 .. MaxFaults,
           UNCHANGED <<authService, cookies, userLogin, call, overlap>>
    PROVE  LoginInv'
<1>1. TypeOK /\ StructInv /\ PageTypes
  BY TypesOfPages
<1>2. PageTypes'
  BY <1>1 DEF PageTypes, authService
<1>3. \A s \in Tabs : PageOK(s)'
  <2>1. SUFFICES ASSUME NEW s \in Tabs PROVE PageOK(s)'
    OBVIOUS
  <2>2. PageOK(s) /\ page \in [Tabs -> {"auth", "start", "checking", "refreshing", "connecting", "chat"}]
    BY <1>1 DEF StructInv, PageTypes
  <2>3. CASE s = t
    <3>1. page'[t] = p
      BY <2>2
    <3> QED BY <2>2, <2>3, <3>1 DEF PageOK
  <2>4. CASE s # t
    <3>1. page'[s] = page[s] /\ (s \in ready' <=> s \in ready)
      BY <2>2, <2>4
    <3> QED BY <2>2, <3>1 DEF PageOK
  <2> QED BY <2>3, <2>4
<1>4. Scripted
  <2>1. call' \in [Calls -> Call \cup {NoCall}] /\ \A c \in Calls : call'[c] \in {NoCall, call[c]}
    BY <1>1 DEF TypeOK
  <2> QED BY <1>2, <1>3, <2>1 DEF Scripted
<1>5. \A s \in fresh' : me'[s] = userLogin \/ (s \in fresh /\ me'[s] = me[s])
  <2>1. me \in [Tabs -> users \cup {NoLogin}] /\ fresh \subseteq Tabs
    BY <1>1 DEF PageTypes
  <2> QED BY <2>1
<1> QED BY <1>4, <1>5, ScriptKeeps

\* What the page is doing tells that it waits for nothing.
LEMMA NotWaiting ==
    ASSUME LoginInv, NEW t \in Tabs, page[t] \notin {"auth", "refreshing"}
    PROVE  call[<<t, "page">>] = NoCall
BY DEF LoginInv, StructInv, PageOK

LEMMA StartKeeps ==
    ASSUME LoginInv, NEW t \in Tabs, Start(t)
    PROVE  LoginInv'
<1>1. page[t] = "start" /\ t \notin ready
  BY DEF Start, LoginInv, StructInv, PageOK
<1>2. PICK p \in {"auth", "checking"} : p = IF userLogin = NoLogin THEN "auth" ELSE "checking"
  OBVIOUS
<1>3. /\ page' = [page EXCEPT ![t] = p] /\ me' = [me EXCEPT ![t] = userLogin]
      /\ fresh' = fresh \/ fresh' = fresh \cup {t}
      /\ UNCHANGED <<authService, cookies, userLogin, call, ready, overlap, faults>>
  BY <1>2 DEF Start
<1>4. call[<<t, "page">>] = NoCall /\ faults' \in 0 .. MaxFaults
  BY <1>1, <1>3, NotWaiting, TypesOfPages DEF PageTypes
<1> QED BY <1>1, <1>3, <1>4, PageStepKeeps

LEMMA CheckAuthKeeps ==
    ASSUME LoginInv, NEW t \in Tabs, CheckAuth(t)
    PROVE  LoginInv'
<1>1. call[<<t, "page">>] = NoCall
  BY NotWaiting DEF CheckAuth
<1>2. faults' \in 0 .. MaxFaults
  BY TypesOfPages, FaultFacts DEF CheckAuth, PageTypes
<1>3. CASE OpenSocket(t)
  BY <1>1, <1>2, <1>3, PageStepKeeps DEF CheckAuth, OpenSocket
<1>4. CASE page' = [page EXCEPT ![t] = "refreshing"] /\ UNCHANGED <<me, ready>>
  BY <1>1, <1>2, <1>4, PageStepKeeps DEF CheckAuth
<1> QED BY <1>3, <1>4 DEF CheckAuth

LEMMA ConnectKeeps ==
    ASSUME LoginInv, NEW t \in Tabs, Connect(t) \/ LoseSocket(t)
    PROVE  LoginInv'
<1>1. call[<<t, "page">>] = NoCall
  BY NotWaiting DEF Connect, LoseSocket
<1>2. faults' \in 0 .. MaxFaults
  BY TypesOfPages, FaultFacts DEF Connect, LoseSocket, PageTypes
<1>3. PICK p \in {"chat", "checking"} : page' = [page EXCEPT ![t] = p]
  BY DEF Connect, LoseSocket
<1> QED BY <1>1, <1>2, <1>3, PageStepKeeps DEF Connect, LoseSocket

\* A token that expires names nobody.
LEMMA ExpireKeeps ==
    ASSUME LoginInv, Expire
    PROVE  LoginInv'
<1> USE DEF Expire, authService, tabs
<1>1. StructInv /\ TypeOK
  BY TypesOfPages
<1>2. access \in [login : users, fresh : BOOLEAN]
  BY <1>1 DEF TypeOK
<1>3. access' \in [login : users, fresh : BOOLEAN] /\ access'.fresh = FALSE
  BY <1>2
<1>4. StructInv'
  BY <1>1, <1>3 DEF StructInv, TypeOK, CallOK, PageOK
<1>5. ASSUME ~overlap' PROVE Undisturbed'
  <2>1. Undisturbed
    BY <1>5 DEF LoginInv
  <2>2. \A l : CookiesOf(l) => CookiesOf(l)'
    BY <1>3 DEF CookiesOf, ValidateAccessToken
  <2>3. \A l \in Logins \cup {NoLogin} : BrowserOf(l) => BrowserOf(l)'
    BY <2>2 DEF BrowserOf
  <2> QED BY <1>1, <2>1, <2>2, <2>3, UndisturbedKept
<1> QED BY <1>4, <1>5 DEF LoginInv
\* A new document waits for nothing and has no logout button.
LEMMA LeaveScripted ==
    ASSUME LoginInv, NEW t \in Tabs, NEW p \in {"auth", "start"}, Leave(t, p),
           userLogin' \in users \cup {NoLogin}, fresh' \subseteq fresh,
           overlap' \in BOOLEAN, faults' \in 0 .. MaxFaults,
           UNCHANGED <<authService, cookies>>
    PROVE  Scripted
<1>1. TypeOK /\ StructInv /\ PageTypes
  BY TypesOfPages
<1>2. /\ call' \in [Calls -> Call \cup {NoCall}]
      /\ \A c \in Calls : call'[c] = IF c[1] = t THEN NoCall ELSE call[c]
      /\ page'[t] = p /\ \A s \in Tabs \ {t} : page'[s] = page[s] /\ me'[s] = me[s]
      /\ page' \in [Tabs -> {"auth", "start", "checking", "refreshing", "connecting", "chat"}]
      /\ me' \in [Tabs -> users \cup {NoLogin}]
      /\ ready' = ready \ {t}
  BY <1>1, LeaveFacts
<1>3. PageTypes'
  BY <1>1, <1>2 DEF PageTypes, authService
<1>4. \A s \in Tabs : PageOK(s)'
  <2>1. SUFFICES ASSUME NEW s \in Tabs PROVE PageOK(s)'
    OBVIOUS
  <2>2. <<s, "page">> \in Calls /\ <<s, "logout">> \in Calls /\ PageOK(s)
    BY <1>1, CallsOfTabs DEF StructInv
  <2>3. CASE s = t
    <3>1. call'[<<s, "page">>] = NoCall /\ call'[<<s, "logout">>] = NoCall /\ s \notin ready'
      BY <1>2, <2>2, <2>3, CallsOfTabs
    <3> QED BY <3>1 DEF PageOK
  <2>4. CASE s # t
    <3>1. /\ call'[<<s, "page">>] = call[<<s, "page">>]
          /\ call'[<<s, "logout">>] = call[<<s, "logout">>]
          /\ page'[s] = page[s] /\ (s \in ready' <=> s \in ready)
      BY <1>2, <2>2, <2>4, CallsOfTabs
    <3> QED BY <2>2, <3>1 DEF PageOK
  <2> QED BY <2>3, <2>4
<1> QED BY <1>2, <1>3, <1>4 DEF Scripted

\* An answer that names no user ends a request and nothing else.
LEMMA DoneKeeps ==
    ASSUME LoginInv, NEW c \in Calls, ~Pending(c), call' = [call EXCEPT ![c] = NoCall],
           UNCHANGED <<authService, cookies, userLogin, tabs, fresh, overlap, faults>>
    PROVE  LoginInv'
<1>1. TypeOK /\ StructInv /\ PageTypes
  BY TypesOfPages
<1>2. /\ call' \in [Calls -> Call \cup {NoCall}]
      /\ \A d \in Calls \ {c} : call'[d] = call[d]
      /\ call'[c] = NoCall
  BY <1>1, DoneFacts
<1>3. \A d \in Calls : call'[d] \in {NoCall, call[d]}
  BY <1>2
<1>4. PageTypes'
  BY <1>1 DEF PageTypes, authService, tabs
<1>5. \A t \in Tabs : PageOK(t)'
  <2>1. SUFFICES ASSUME NEW t \in Tabs PROVE PageOK(t)'
    OBVIOUS
  <2>2. /\ call'[<<t, "page">>] \in {NoCall, call[<<t, "page">>]}
        /\ call'[<<t, "logout">>] \in {NoCall, call[<<t, "logout">>]}
    BY <1>3, CallsOfTabs
  <2> QED BY <1>1, <2>2 DEF StructInv, PageOK, tabs
<1>6. Scripted
  BY <1>2, <1>3, <1>4, <1>5 DEF Scripted
<1>7. \A d \in Calls : Pending(d) => call'[d] = call[d]
  BY <1>2
<1> QED BY <1>6, <1>7, ScriptKeeps DEF tabs

\* The script of a login makes the pages the cookies' user's.
LEMMA LoginRespondsKeeps ==
    ASSUME LoginInv, NEW t \in Tabs, LoginResponds(t)
    PROVE  LoginInv'
<1>1. PICK c \in Calls : c = <<t, "page">>
  BY CallsOfTabs
<1>2. /\ call[c] # NoCall /\ call[c].stage = "arrived" /\ page[t] = "auth"
      /\ UNCHANGED <<authService, cookies, overlap, faults>>
  BY <1>1 DEF LoginResponds
<1>3. TypeOK /\ StructInv /\ PageTypes /\ call[c] \in Call
  BY <1>2, TypesOfPages DEF TypeOK
<1>4. CASE call[c].answer = "ok"
  <2>1. userLogin' = call[c].login /\ fresh' = {} /\ Leave(t, "start")
    BY <1>1, <1>2, <1>4 DEF LoginResponds
  <2>2. call[c].kind # "logout" /\ call[c].kind # "refresh"
    <3>1. PageOK(t) /\ CallOK(c) /\ c[2] = "page"
      BY <1>1, <1>3, CallsOfTabs DEF StructInv
    <3> QED BY <1>1, <1>2, <3>1 DEF PageOK, CallOK
  <2>3. Pending(c)
    BY <1>2, <1>3, <1>4, <2>2 DEF Pending, LoginKinds, Call, Kinds
  <2>4. call[c].login \in users
    BY <1>3, <2>3 DEF StructInv, CallOK, Pending
  <2>5. Scripted
    BY <1>2, <1>3, <2>1, <2>4, LeaveScripted DEF PageTypes
  <2>6. StructInv'
    BY <1>3, <2>5, ScriptKeepsStruct
  <2>7. ASSUME ~overlap' PROVE Undisturbed'
    <3>1. Undisturbed
      BY <1>2, <2>7 DEF LoginInv
    <3>2. /\ \A d \in Calls : call'[d] = IF d[1] = t THEN NoCall ELSE call[d]
          /\ c[1] = t
      BY <1>1, <1>3, <2>1, LeaveFacts
    <3>3. \A d \in Calls : ~Pending(d)'
      <4>1. SUFFICES ASSUME NEW d \in Calls, Pending(d)' PROVE FALSE
        OBVIOUS
      <4>2. call'[d] = call[d] /\ d[1] # t
        BY <3>2, <4>1 DEF Pending
      <4>3. Pending(d)
        BY <4>1, <4>2 DEF Pending
      <4> QED BY <2>3, <3>1, <3>2, <4>2, <4>3 DEF Undisturbed
    <3>4. PICK l \in Logins \cup {NoLogin} : l = call[c].login
      BY <1>3, <2>4 DEF TypeOK
    <3>5. CookiesOf(l)
      BY <2>3, <3>1, <3>4 DEF Undisturbed, CookiesOf
    <3>6. BrowserOf(l)'
      BY <1>2, <2>1, <3>4, <3>5 DEF BrowserOf, CookiesOf, ValidateAccessToken, authService, cookies
    <3>7. \A d \in Calls : call'[d] # NoCall /\ call'[d].kind \notin LoginKinds /\ call'[d].stage # "arrived" =>
              call'[d].cookie = refresh'
      BY <1>2, <3>1, <3>2 DEF Undisturbed, cookies
    <3> QED BY <3>3, <3>6, <3>7 DEF Undisturbed
  <2> QED BY <2>6, <2>7 DEF LoginInv
<1>5. CASE call[c].answer # "ok"
  <2>1. /\ call' = [call EXCEPT ![c] = NoCall]
        /\ UNCHANGED <<authService, cookies, userLogin, tabs, fresh, overlap, faults>>
    BY <1>1, <1>2, <1>5 DEF LoginResponds
  <2>2. ~Pending(c)
    BY <1>5 DEF Pending
  <2> QED BY <2>1, <2>2, DoneKeeps
<1> QED BY <1>4, <1>5

\* A page that leaves forgets its user, and maybe the browser's.
LEMMA LeaveKeeps ==
    ASSUME LoginInv, NEW t \in Tabs, NEW p \in {"auth", "start"}, Leave(t, p),
           ~overlap' => ~overlap /\ ~Pending(<<t, "page">>),
           userLogin' \in {userLogin, NoLogin}, fresh' = fresh \ {t},
           overlap' \in BOOLEAN, faults' \in 0 .. MaxFaults,
           UNCHANGED <<authService, cookies>>
    PROVE  LoginInv'
<1>1. TypeOK /\ StructInv /\ PageTypes
  BY TypesOfPages
<1>2. userLogin' \in users \cup {NoLogin}
  BY <1>1 DEF PageTypes
<1>3. Scripted
  BY <1>2, LeaveScripted
<1>4. /\ \A c \in Calls : call'[c] = IF c[1] = t THEN NoCall ELSE call[c]
      /\ \A s \in Tabs \ {t} : me'[s] = me[s]
  BY <1>1, LeaveFacts
<1>5. ASSUME ~overlap' PROVE \A c \in Calls : Pending(c) => call'[c] = call[c]
  <2>1. SUFFICES ASSUME NEW c \in Calls, Pending(c), c[1] = t PROVE FALSE
    BY <1>4
  <2>2. c = <<t, "page">> \/ c = <<t, "logout">>
    BY <2>1, CallsOfTabs
  <2>3. c # <<t, "page">>
    BY <1>5, <2>1
  <2>4. c[2] = "logout" /\ call[c] # NoCall /\ call[c].kind \in LoginKinds
    BY <2>1, <2>2, <2>3 DEF Pending
  <2> QED BY <1>1, <2>4 DEF StructInv, CallOK, LoginKinds
<1>6. \A s \in fresh' : s \in fresh /\ me'[s] = me[s]
  BY <1>1, <1>4 DEF PageTypes
<1> QED BY <1>3, <1>5, <1>6, ScriptKeeps
LEMMA RefreshRespondsKeeps ==
    ASSUME LoginInv, NEW t \in Tabs, RefreshResponds(t)
    PROVE  LoginInv'
<1>1. PICK c \in Calls : c = <<t, "page">>
  BY CallsOfTabs
<1>2. /\ call[c] # NoCall /\ call[c].stage = "arrived" /\ page[t] = "refreshing"
      /\ UNCHANGED <<authService, cookies, userLogin, overlap, faults>>
  BY <1>1 DEF RefreshResponds
<1>3. TypeOK /\ StructInv /\ PageTypes
  BY TypesOfPages
<1>4. ~Pending(c)
  <2>1. PageOK(t)
    BY <1>3 DEF StructInv
  <2> QED BY <1>1, <1>2, <2>1 DEF PageOK, Pending, LoginKinds
<1>5. CASE call[c].answer = "ok"
  <2>1. /\ page' = [page EXCEPT ![t] = "connecting"] /\ ready' = ready \cup {t} /\ UNCHANGED me
        /\ call' = [call EXCEPT ![c] = NoCall] /\ UNCHANGED fresh
    BY <1>1, <1>2, <1>5 DEF RefreshResponds, OpenSocket
  <2>2. /\ call' \in [Calls -> Call \cup {NoCall}]
        /\ \A d \in Calls \ {c} : call'[d] = call[d]
        /\ call'[c] = NoCall
    BY <1>3, <2>1, DoneFacts
  <2>3. PageTypes'
    BY <1>2, <1>3, <2>1 DEF PageTypes, authService
  <2>4. \A s \in Tabs : PageOK(s)'
    <3>1. SUFFICES ASSUME NEW s \in Tabs PROVE PageOK(s)'
      OBVIOUS
    <3>2. /\ PageOK(s)
          /\ <<s, "page">> \in Calls /\ <<s, "logout">> \in Calls
          /\ page \in [Tabs -> {"auth", "start", "checking", "refreshing", "connecting", "chat"}]
      BY <1>3, CallsOfTabs DEF StructInv, PageTypes
    <3>3. call'[<<s, "logout">>] = call[<<s, "logout">>]
      BY <1>1, <2>2, <3>2
    <3>4. CASE s = t
      <4>1. page'[s] = "connecting" /\ call'[<<s, "page">>] = NoCall /\ s \in ready'
        BY <1>1, <2>1, <2>2, <3>2, <3>4
      <4> QED BY <4>1 DEF PageOK
    <3>5. CASE s # t
      <4>1. /\ page'[s] = page[s] /\ (s \in ready' <=> s \in ready)
            /\ call'[<<s, "page">>] = call[<<s, "page">>]
        BY <1>1, <2>1, <2>2, <3>2, <3>5
      <4> QED BY <3>2, <3>3, <4>1 DEF PageOK
    <3> QED BY <3>4, <3>5
  <2>5. Scripted
    BY <1>2, <2>2, <2>3, <2>4 DEF Scripted
  <2>6. \A d \in Calls : Pending(d) => call'[d] = call[d]
    BY <1>4, <2>2
  <2> QED BY <1>2, <2>1, <2>5, <2>6, ScriptKeeps
<1>6. CASE call[c].answer # "ok"
  <2>1. Leave(t, "auth") /\ fresh' = fresh \ {t}
    BY <1>1, <1>2, <1>6 DEF RefreshResponds
  <2>2. ~Pending(<<t, "page">>) /\ overlap' \in BOOLEAN /\ faults' \in 0 .. MaxFaults
    BY <1>1, <1>2, <1>3, <1>4 DEF PageTypes
  <2> QED BY <1>2, <2>1, <2>2, LeaveKeeps
<1> QED BY <1>5, <1>6

LEMMA LogoutRespondsKeeps ==
    ASSUME LoginInv, NEW t \in Tabs, LogoutResponds(t)
    PROVE  LoginInv'
<1>1. PICK c \in Calls : c = <<t, "logout">>
  BY CallsOfTabs
<1>2. /\ call[c] # NoCall /\ call[c].stage = "arrived"
      /\ UNCHANGED <<authService, cookies, overlap, faults>>
  BY <1>1 DEF LogoutResponds
<1>3. TypeOK /\ StructInv /\ PageTypes
  BY TypesOfPages
<1>4. CASE call[c].answer = "lost"
  <2>1. call' = [call EXCEPT ![c] = NoCall] /\ UNCHANGED <<userLogin, tabs, fresh>>
    BY <1>1, <1>2, <1>4 DEF LogoutResponds
  <2>2. ~Pending(c)
    BY <1>4 DEF Pending
  <2> QED BY <1>2, <2>1, <2>2, DoneKeeps
<1>5. CASE call[c].answer # "lost"
  <2>1. userLogin' = NoLogin /\ Leave(t, "auth") /\ fresh' = fresh \ {t}
    BY <1>1, <1>2, <1>5 DEF LogoutResponds
  <2>2. ~Pending(<<t, "page">>)
    <3>1. PageOK(t) /\ <<t, "page">> \in Calls
      BY <1>3, CallsOfTabs DEF StructInv
    <3>2. t \in ready
      BY <1>1, <1>2, <3>1 DEF PageOK
    <3>3. call[<<t, "page">>] # NoCall => call[<<t, "page">>].kind = "refresh"
      BY <3>1, <3>2 DEF PageOK
    <3> QED BY <3>3 DEF Pending, LoginKinds
  <2>3. overlap' \in BOOLEAN /\ faults' \in 0 .. MaxFaults
    BY <1>2, <1>3 DEF PageTypes
  <2> QED BY <1>2, <2>1, <2>2, <2>3, LeaveKeeps
<1> QED BY <1>4, <1>5

LEMMA ReloadKeeps ==
    ASSUME LoginInv, NEW t \in Tabs, Reload(t)
    PROVE  LoginInv'
<1>1. /\ Fault /\ Leave(t, "start") /\ fresh' = fresh \ {t}
      /\ UNCHANGED <<authService, cookies, userLogin>>
  BY DEF Reload
<1>2. TypeOK /\ PageTypes
  BY TypesOfPages
<1>3. faults' \in 0 .. MaxFaults
  BY <1>1, <1>2, FaultFacts
<1>4. overlap' \in BOOLEAN
  BY DEF Reload
<1>5. ~overlap' => ~overlap
  BY DEF Reload
<1>6. ~overlap' => ~Pending(<<t, "page">>)
  <2>1. SUFFICES ASSUME Pending(<<t, "page">>) PROVE overlap'
    OBVIOUS
  <2>2. PICK c \in Calls : c = <<t, "page">>
    BY CallsOfTabs
  <2>3. /\ c[1] = t /\ call[c] # NoCall /\ call[c].kind \in {"login", "register"}
        /\ call[c].stage = "arrived"
    BY <2>1, <2>2 DEF Pending, LoginKinds
  <2> QED BY <2>3 DEF Reload
<1> QED BY <1>1, <1>3, <1>4, <1>5, <1>6, LeaveKeeps

-----------------------------------------------------------------------------
LEMMA LoginInvInitially == Init => LoginInv
<1> SUFFICES ASSUME Init PROVE LoginInv
  OBVIOUS
<1> USE DEF Init
<1>1. owner \in Seq(Logins) /\ Len(owner) = 0 /\ DOMAIN owner = {}
  <2>1. owner \in Seq(Logins) /\ Len(owner) = 0
    BY EmptySeq
  <2> QED BY <2>1, LenProperties
<1>2. TypeOK
  <2>1. call \in [Calls -> Call \cup {NoCall}] /\ \A c \in Calls : call[c] = NoCall
    OBVIOUS
  <2>2. page \in [Tabs -> {"auth", "start", "checking", "refreshing", "connecting", "chat"}]
    OBVIOUS
  <2>3. me \in [Tabs -> users \cup {NoLogin}]
    OBVIOUS
  <2>4. Len(owner) <= MaxSessions /\ 0 \in 0 .. MaxFaults /\ Registered \subseteq Logins
    BY <1>1, LoginAssumption
  <2> HIDE DEF Init
  <2>5. /\ users = Registered /\ valid = {} /\ access = NoToken /\ refresh = 0 /\ userLogin = NoLogin
        /\ ready = {} /\ fresh = {} /\ overlap = FALSE /\ faults = 0
    BY DEF Init
  <2> QED BY <1>1, <2>1, <2>2, <2>3, <2>4, <2>5 DEF TypeOK
<1>3. StructInv
  BY <1>1, <1>2, CallsOfTabs DEF StructInv, CallOK, PageOK
<1>4. BrowserOf(NoLogin)
  BY DEF BrowserOf, CookiesOf, ValidateAccessToken
<1>5. Undisturbed
  BY <1>4 DEF Undisturbed, Pending
<1> QED BY <1>3, <1>5 DEF LoginInv

LEMMA LoginInvInductive == LoginInv /\ [Next]_vars => LoginInv'
<1> SUFFICES ASSUME LoginInv, [Next]_vars PROVE LoginInv'
  OBVIOUS
<1>1. ASSUME NEW c \in Calls, Gateway(c) \/ AnswerArrives(c) \/ AnswerLost(c) PROVE LoginInv'
  <2>1. CASE AnswerArrives(c)
    BY <2>1, ArrivalKeeps
  <2>2. CASE Gateway(c) \/ AnswerLost(c)
    BY <2>2, GatewayAnswers, AnsweredKeeps DEF LoginInv
  <2> QED BY <1>1, <2>1, <2>2
<1>2. ASSUME NEW t \in Tabs, Script(t) PROVE LoginInv'
  BY <1>2, StartKeeps, LoginRespondsKeeps, CheckAuthKeeps, RefreshTokensKeeps,
     RefreshRespondsKeeps, ConnectKeeps, LogoutRespondsKeeps DEF Script
<1>3. ASSUME NEW t \in Tabs, Submit(t) \/ LoseSocket(t) \/ Logout(t) \/ Reload(t) PROVE LoginInv'
  BY <1>3, SubmitKeeps, ConnectKeeps, LogoutKeeps, ReloadKeeps
<1>4. CASE Expire
  BY <1>4, ExpireKeeps
<1>5. CASE UNCHANGED vars
  <2> USE <1>5 DEF vars, authService, cookies, tabs
  <2>1. StructInv'
    BY DEF LoginInv, StructInv, TypeOK, CallOK, PageOK
  <2>2. ASSUME ~overlap' PROVE Undisturbed'
    BY <2>2 DEF LoginInv, Undisturbed, Pending, CookiesOf, BrowserOf, ValidateAccessToken
  <2> QED BY <2>1, <2>2 DEF LoginInv
<1> QED BY <1>1, <1>2, <1>3, <1>4, <1>5 DEF Next

\* All the names of a browser of one user are that user's.
LEMMA OneUserOneName ==
    ASSUME LoginInv
    PROVE  OneName
<1>1. SUFFICES ASSUME \A c \in Calls : call[c] = NoCall, ~overlap
               PROVE  Cardinality(Names \ {NoLogin}) <= 1
  BY DEF OneName
<1>2. PICK l \in Logins \cup {NoLogin} : BrowserOf(l)
  BY <1>1 DEF LoginInv, Undisturbed, Pending
<1>3. Names \ {NoLogin} \subseteq {l}
  BY <1>2 DEF Names, BrowserOf, CookiesOf
<1>4. IsFiniteSet({l}) /\ Cardinality({l}) = 1
  BY FS_Singleton
<1>5. Cardinality(Names \ {NoLogin}) <= Cardinality({l})
  BY <1>3, <1>4, FS_Subset
<1> QED BY <1>4, <1>5

\* Cookies, sessions, pages and requests have their types, and an answer that is
\* ok names a session the auth service started: Set-Cookie never stores another.
THEOREM LoginTypeCorrect == Spec => []TypeOK
<1>1. LoginInv => TypeOK
  BY DEF LoginInv, StructInv
<1> QED BY <1>1, LoginInvInitially, LoginInvInductive, PTL DEF Spec

\* Once all requests are through, uploads, the session, and the texts of all
\* pages that started since the last login are of one user: the two cookies that
\* tabs share and localStorage do not drift apart, however many tabs log in and
\* out, unless cookies came while another request was under way.
THEOREM BrowserIsOneUsers == Spec => []OneName
BY LoginInvInitially, LoginInvInductive, OneUserOneName, PTL DEF Spec
=============================================================================
