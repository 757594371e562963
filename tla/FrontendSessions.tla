-------------------------- MODULE FrontendSessions --------------------------
(***************************************************************************)
(* The frontend server (frontend/main.go) between the browsers and the     *)
(* API: login, logout, me and the proxy, each in a goroutine of its own    *)
(* over the shared session map, with the part of the page                  *)
(* (frontend/static/js/app.js) that follows who is signed in.              *)
(*                                                                         *)
(* A call starts in a browser, with the cookie the browser has then, goes  *)
(* through the frontend server and perhaps the API, and ends with the      *)
(* answer's Set-Cookie in the browser and then with the script that waits  *)
(* for it.  Answers are lost, pages reloaded, and both servers restarted.  *)
(* One page of each browser is followed; other tabs share its cookie, and  *)
(* sign in and out there without its knowing.                              *)
(***************************************************************************)
EXTENDS TokenAuth, Naturals

CONSTANTS
    Browsers, Calls,
    Sids,           \* session ids that generateSessionID may draw
    ServerKeys,     \* API_KEY of the frontend server; None in multi-user mode
    OwnHeaders,     \* tokens that clients put in an Authorization of their own
    Proxied,        \* [method, path] of the API calls a browser makes
    Configs,        \* environments of the API server
    MaxFaults, MaxUpsets

NoSid == "no session"
Keep == "keep"  \* an answer without Set-Cookie

ASSUME SessionAssumption ==
    /\ NoSid \notin Sids /\ Keep \notin Sids
    /\ ServerKeys \subseteq Tokens \union {None}
    /\ OwnHeaders \subseteq Tokens \union {None}
    /\ Configs \subseteq Environments
    /\ \E env \in Configs : Servers(env) # {}
    /\ MaxFaults \in Nat /\ MaxUpsets \in Nat

VARIABLES
    api,        \* the API server's readonly flag and token store
    apiKey,     \* s.apiKey
    sessions,   \* s.sessions: session id -> token
    used,       \* session ids drawn so far
    cookie,     \* cookie[b]: arc_session in browser b
    page,       \* page[b]: authenticated, multiUserMode, the control shown
    call,       \* call[c]: where a call is and what it carries
    faults, upsets,
    typed,      \* typed[b]: tokens that were submitted in browser b
    ended,      \* sessions that were logged out
    crossed     \* crossed[b]: since the page of b was loaded, two calls about
                \* its session overlapped, another tab signed in or out, or the
                \* frontend was restarted

server == <<apiKey, sessions, used>>
browser == <<cookie, page>>
history == <<typed, ended, crossed>>
vars == <<api, server, browser, call, faults, upsets, history>>

NoSessions == [s \in {} |-> None]

NoReq == [method |-> None, path |-> None]
Answers == {None, "ok", "refused", "index", "unavailable", "in", "out", "single key"}

\* Where a call is: not sent, in one of the servers, its answer under way, its
\* script about to run, the page about to be rendered, over.
InServer == {"frontend", "store", "api", "cut"}
Places == InServer \union {"idle", "answer", "script", "render", "over"}

Call ==
    [op : {"login", "logout", "me", "proxy"},
     place : Places,
     browser : Browsers,
     listening : BOOLEAN,               \* the page still waits for the answer
     tab : BOOLEAN,                     \* another tab of the browser does
     sid : Sids \union {NoSid},         \* the cookie it was sent with
     token : Tokens \union {None},      \* in the body, or to the API
     own : Tokens \union {None},        \* an Authorization header of its own
     req : Proxied \union {NoReq},
     answer : Answers,
     setCookie : Sids \union {NoSid, Keep},
     executed : BOOLEAN]                \* the API ran the handler

Idle(b) ==
    [op |-> "me", place |-> "idle", browser |-> b, listening |-> FALSE,
     tab |-> FALSE, sid |-> NoSid, token |-> None, own |-> None, req |-> NoReq,
     answer |-> None, setCookie |-> Keep, executed |-> FALSE]

\* renderAuthControls
Shown(auth, multi) ==
    IF ~multi THEN "none" ELSE IF auth THEN "sign out" ELSE "sign in"

Page(auth, multi) ==
    [auth |-> auth, multi |-> multi, controls |-> Shown(auth, multi)]

MultiUser == apiKey = None

\* The servers run, every browser shows the page, nobody has signed in yet.
Init ==
    /\ \E env \in Configs : api \in Servers(env)
    /\ apiKey \in ServerKeys
    /\ sessions = NoSessions
    /\ used = {}
    /\ cookie = [b \in Browsers |-> NoSid]
    /\ page = [b \in Browsers |-> Page(~MultiUser, MultiUser)]
    /\ call \in {[c \in Calls |-> Idle(b)] : b \in Browsers}
    /\ faults = 0 /\ upsets = 0
    /\ typed = [b \in Browsers |-> {}]
    /\ ended = {}
    /\ crossed = [b \in Browsers |-> FALSE]

-----------------------------------------------------------------------------
(* The browser sends. *)

AboutSession(c, b) == call[c].browser = b /\ call[c].op # "proxy"

\* The frontend server or the browser still has to do something for the call.
Open(c) == call[c].listening \/ call[c].tab \/ call[c].place \in {"frontend", "store"}

\* A call about the session of b has not come to its end.
Unsettled(b) == \E c \in Calls : AboutSession(c, b) /\ Open(c)

\* fetch: the request takes the cookie along that the browser has now.
Request(b, op) ==
    [Idle(b) EXCEPT !.op = op, !.place = "frontend", !.listening = TRUE,
                    !.sid = cookie[b]]

Update(c, k) == call' = [call EXCEPT ![c] = k]

Send(c, request) ==
    /\ call[c].place = "idle"
    /\ Update(c, request)
    /\ UNCHANGED <<browser, ended>>

Crosses(b) == crossed' = [crossed EXCEPT ![b] = @ \/ Unsettled(b)]

\* submitLogin; an empty token is not sent.
SubmitLogin(c, b) ==
    /\ page[b].controls = "sign in"
    /\ \E t \in Tokens :
        /\ Send(c, [Request(b, "login") EXCEPT !.token = t])
        /\ typed' = [typed EXCEPT ![b] = @ \union {t}]
    /\ Crosses(b)

Logout(c, b) ==
    /\ page[b].controls = "sign out"
    /\ Send(c, Request(b, "logout"))
    /\ Crosses(b)
    /\ UNCHANGED typed

\* Any call below /api/, of the page or of another client with its cookie,
\* which may have an Authorization header of its own.
Fetch(c, b) ==
    /\ \E req \in Proxied, own \in OwnHeaders :
        Send(c, [Request(b, "proxy") EXCEPT !.own = own, !.req = req])
    /\ UNCHANGED <<typed, crossed>>

\* The page is loaded afresh: what its scripts waited for is dropped.
Reload(c, b) ==
    /\ call[c].place = "idle"
    /\ page' = [page EXCEPT ![b] = Page(FALSE, FALSE)]
    /\ call' = [d \in Calls |->
                  IF d = c THEN Request(b, "me")
                  ELSE IF call[d].browser = b
                  THEN [call[d] EXCEPT !.listening = FALSE]
                  ELSE call[d]]
    /\ crossed' = [crossed EXCEPT ![b] =
                     \E d \in Calls :
                        /\ AboutSession(d, b)
                        /\ call[d].tab \/ call[d].place \in {"frontend", "store"}]
    /\ UNCHANGED <<cookie, typed, ended>>

-----------------------------------------------------------------------------
(* The frontend server and the API. *)

Move(c, place) == Update(c, [call[c] EXCEPT !.place = place])

\* set is the session of a Set-Cookie: NoSid clears the cookie.
Reply(c, answer, set) ==
    Update(c, [call[c] EXCEPT !.place = "answer", !.answer = answer,
                              !.setCookie = set])

Fault ==
    faults < MaxFaults /\ faults' = faults + 1

\* A restart of a server, a login or a logout in another tab.
Upset ==
    upsets < MaxUpsets /\ upsets' = upsets + 1

\* validateTokenAgainstBackend: the API lets a GET of the list pass.
Accepted(token) == Admits(api, "GET", "runners", Bearer(token))

\* handleLogin up to the answer of the API.  In single-key mode there is no
\* such route and the request gets index.html.  An API that cannot be reached
\* refuses the token as well.
LoginValidate(c) ==
    /\ call[c].op = "login" /\ call[c].place = "frontend"
    /\ \/ /\ ~MultiUser
          /\ Reply(c, "index", Keep)
          /\ UNCHANGED faults
       \/ /\ MultiUser
          /\ IF Accepted(call[c].token) THEN Move(c, "store")
             ELSE Reply(c, "refused", Keep)
          /\ UNCHANGED faults
       \/ /\ MultiUser /\ Fault
          /\ Reply(c, "refused", Keep)
    /\ UNCHANGED <<server, ended>>

\* generateSessionID, s.sessions.Store
LoginStore(c) ==
    /\ call[c].op = "login" /\ call[c].place = "store"
    /\ \E s \in Sids \ used :
        /\ sessions' = [x \in DOMAIN sessions \union {s} |->
                          IF x = s THEN call[c].token ELSE sessions[x]]
        /\ used' = used \union {s}
        /\ Reply(c, "ok", s)
    /\ UNCHANGED <<apiKey, faults, ended>>

\* Mutant: the session is only forgotten by the browser.
NotDeleted(s) == sessions

\* Mutant: the session stays, with an empty token.
Emptied(s) == [x \in DOMAIN sessions |-> IF x = s THEN None ELSE sessions[x]]

\* s.sessions.Delete
Deleted(s) == [x \in DOMAIN sessions \ {s} |-> sessions[x]]

HandleLogout(c) ==
    /\ call[c].op = "logout" /\ call[c].place = "frontend"
    /\ IF MultiUser
       THEN /\ sessions' = Deleted(call[c].sid)
            /\ ended' = ended \union ({call[c].sid} \ {NoSid})
            /\ Reply(c, "ok", NoSid)
       ELSE /\ UNCHANGED <<sessions, ended>>
            /\ Reply(c, "index", Keep)
    /\ UNCHANGED <<apiKey, used, faults>>

HandleMe(c) ==
    /\ call[c].op = "me" /\ call[c].place = "frontend"
    /\ Reply(c, IF ~MultiUser THEN "single key"
                ELSE IF call[c].sid \in DOMAIN sessions THEN "in" ELSE "out", Keep)
    /\ UNCHANGED <<server, faults, ended>>

\* resolveToken
Resolved(c) ==
    IF ~MultiUser THEN apiKey
    ELSE IF call[c].sid \in DOMAIN sessions THEN sessions[call[c].sid]
    ELSE None

\* Mutant: a header of the client's own passes when there is no session.
ForwardedAnyway(c) == IF Resolved(c) # None THEN Resolved(c) ELSE call[c].own

\* The Authorization header of the client is replaced or removed.
Forwarded(c) == Resolved(c)

HandleProxy(c) ==
    /\ call[c].op = "proxy" /\ call[c].place = "frontend"
    /\ Update(c, [call[c] EXCEPT !.place = "api", !.token = Forwarded(c)])
    /\ UNCHANGED <<server, faults, ended>>

Header(token) == IF token = None THEN NoHeader ELSE Bearer(token)

Admitted(c) ==
    Admits(api, call[c].req.method, call[c].req.path, Header(call[c].token))

\* The API answers; or the frontend gives up on it after 60 seconds or a
\* broken connection, whether the handler has run by then or not.
Serve(c) ==
    /\ call[c].op = "proxy" /\ call[c].place = "api"
    /\ LET ran == Admitted(c) IN
       \/ /\ Update(c, [call[c] EXCEPT !.place = "answer", !.executed = ran,
                              !.answer = IF ran THEN "ok" ELSE "refused"])
          /\ UNCHANGED faults
       \/ /\ Fault
          /\ \E done \in {FALSE, ran} :
              Update(c, [call[c] EXCEPT !.place = "answer", !.executed = done,
                              !.answer = "unavailable"])
    /\ UNCHANGED <<server, ended>>

\* The frontend server is restarted; its environment may have changed.  What
\* it has passed on to the API may still run there.
RestartFrontend ==
    /\ Upset
    /\ apiKey' \in ServerKeys
    /\ sessions' = NoSessions
    /\ \E ran \in [Calls -> BOOLEAN] :
        /\ \A c \in Calls : ran[c] => call[c].place = "api" /\ Admitted(c)
        /\ call' = [c \in Calls |->
                      IF call[c].place \in InServer
                      THEN [call[c] EXCEPT !.place = "cut", !.executed = ran[c]]
                      ELSE call[c]]
    /\ crossed' = [b \in Browsers |-> TRUE]
    /\ UNCHANGED <<api, used, browser, faults, typed, ended>>

RestartApi ==
    /\ Upset
    /\ \E env \in Configs : api' \in Servers(env)
    /\ UNCHANGED <<server, browser, call, faults, history>>

-----------------------------------------------------------------------------
(* The browser receives. *)

\* The headers of the answer arrive: the cookie is set, or cleared, whatever
\* it has become in the meantime.
SetCookie(c) ==
    /\ call[c].place = "answer"
    /\ LET b == call[c].browser IN
       cookie' = IF call[c].setCookie = Keep THEN cookie
                 ELSE [cookie EXCEPT ![b] = call[c].setCookie]

Deliver(c) ==
    /\ SetCookie(c) /\ call[c].listening
    /\ Move(c, "script")
    /\ UNCHANGED <<page, faults>>

\* Mutant: a login counts although it was refused.
AfterAnyLogin(p, op, answer) ==
    CASE op = "login" -> [p EXCEPT !.auth = TRUE]
      [] op = "logout" -> Page(FALSE, p.multi)
      [] op = "me" -> [p EXCEPT !.auth = answer \in {"in", "single key"},
                                !.multi = answer \in {"in", "out"}]
      [] OTHER -> p

\* What the script that waited for the call makes of its end; None stands for
\* a fetch that fails.  An index.html in place of JSON fails a login as well.
AfterCall(p, op, answer) ==
    CASE op = "login" -> [p EXCEPT !.auth = @ \/ answer = "ok"]
      [] op = "logout" -> Page(FALSE, p.multi)
      [] op = "me" -> [p EXCEPT !.auth = answer \in {"in", "single key"},
                                !.multi = answer \in {"in", "out"}]
      [] OTHER -> p

\* Mutant: a login does not render.
RendersOnLoad(c) == call[c].op = "me"

\* checkAuthState and submitLogin render only after loadDefaults.
RendersLater(c) ==
    call[c].op = "me" \/ (call[c].op = "login" /\ call[c].answer = "ok")

Over(c) == Update(c, [call[c] EXCEPT !.place = "over", !.listening = FALSE])

RunScript(c) ==
    /\ call[c].place = "script" /\ call[c].listening
    /\ page' = [page EXCEPT ![call[c].browser] =
                   AfterCall(@, call[c].op, call[c].answer)]
    /\ IF RendersLater(c) THEN Move(c, "render")
       ELSE Over(c)
    /\ UNCHANGED <<cookie, faults>>

\* The connection to the browser breaks: the fetch fails, while the frontend
\* server goes on with the call unless it is gone itself; or it breaks after
\* the headers, and the JSON that login and me are answered with is not whole.
Lose(c) ==
    /\ call[c].listening
    /\ \/ call[c].place = "cut" /\ UNCHANGED faults
       \/ call[c].place \in {"frontend", "store", "api", "answer"} /\ Fault
       \/ call[c].place = "script" /\ call[c].op \in {"login", "me"} /\ Fault
    /\ page' = [page EXCEPT ![call[c].browser] = AfterCall(@, call[c].op, None)]
    /\ Update(c, [call[c] EXCEPT !.listening = FALSE])
    /\ UNCHANGED cookie

\* renderUI
Render(c) ==
    /\ call[c].place = "render" /\ call[c].listening
    /\ LET b == call[c].browser IN
       page' = [page EXCEPT ![b] = Page(page[b].auth, page[b].multi)]
    /\ Over(c)
    /\ UNCHANGED <<cookie, faults>>

-----------------------------------------------------------------------------
(* The other tabs of a browser. *)

FromTab(b, op) == [Request(b, op) EXCEPT !.listening = FALSE, !.tab = TRUE]

\* Another tab, whose controls are its own, signs in or out with the cookie that
\* they share.
TabSends(c, b) ==
    /\ Upset
    /\ \/ \E t \in Tokens :
            /\ Send(c, [FromTab(b, "login") EXCEPT !.token = t])
            /\ typed' = [typed EXCEPT ![b] = @ \union {t}]
       \/ /\ Send(c, FromTab(b, "logout"))
          /\ UNCHANGED typed
    /\ crossed' = [crossed EXCEPT ![b] = TRUE]
    /\ UNCHANGED faults

\* Its answer arrives; or the tab loses the connection or is closed.
TabReceives(c) ==
    /\ call[c].tab
    /\ \/ SetCookie(c) /\ UNCHANGED faults
       \/ call[c].place = "cut" /\ UNCHANGED <<cookie, faults>>
       \/ call[c].place \in {"frontend", "store", "answer"} /\ Fault /\ UNCHANGED cookie
    /\ Update(c, [call[c] EXCEPT !.tab = FALSE])
    /\ UNCHANGED <<page, upsets, history>>

OtherTabs ==
    /\ \E c \in Calls : TabReceives(c) \/ \E b \in Browsers : TabSends(c, b)
    /\ UNCHANGED <<api, server>>

-----------------------------------------------------------------------------

BrowserSends ==
    /\ \E c \in Calls, b \in Browsers :
        SubmitLogin(c, b) \/ Logout(c, b) \/ Fetch(c, b) \/ Reload(c, b)
    /\ UNCHANGED <<api, server, faults, upsets>>

ServerHandles(c) ==
    /\ \/ LoginValidate(c) \/ LoginStore(c) \/ HandleLogout(c)
       \/ HandleMe(c) \/ HandleProxy(c) \/ Serve(c)
    /\ UNCHANGED <<api, browser, upsets, typed, crossed>>

BrowserReceives(c) ==
    /\ Deliver(c) \/ RunScript(c) \/ Lose(c) \/ Render(c)
    /\ UNCHANGED <<api, server, upsets, history>>

Next ==
    \/ BrowserSends
    \/ \E c \in Calls : ServerHandles(c) \/ BrowserReceives(c)
    \/ OtherTabs
    \/ RestartFrontend \/ RestartApi

Spec == Init /\ [][Next]_vars

-----------------------------------------------------------------------------

\* Every variable has its type.
TypeOK ==
    /\ \E env \in Configs : api \in Servers(env)
    /\ apiKey \in ServerKeys
    /\ used \subseteq Sids /\ DOMAIN sessions \subseteq used
    /\ \A s \in DOMAIN sessions : sessions[s] \in Tokens
    /\ cookie \in [Browsers -> Sids \union {NoSid}]
    /\ page \in [Browsers -> [auth : BOOLEAN, multi : BOOLEAN,
                              controls : {"none", "sign in", "sign out"}]]
    /\ call \in [Calls -> Call]
    /\ faults \in Nat /\ upsets \in Nat
    /\ typed \in [Browsers -> SUBSET Tokens]
    /\ ended \subseteq used
    /\ crossed \in [Browsers -> BOOLEAN]

\* handleLogout, handleProxy: a session that was logged out is gone for good,
\* whatever calls with its cookie are still under way, and no login brings it
\* back.
EndedStaysEnded == ended \cap DOMAIN sessions = {}

\* handleProxy, the middlewares: a write runs in the API only with a token that
\* the API accepts at that moment, and that is either the server's own or was
\* submitted in the same browser: not one from another session, nor a header
\* of the client's own, nor one that was valid at login only.
WritesAreAuthorized ==
    [][\A c \in Calls :
          /\ call'[c].executed /\ ~call[c].executed
          /\ call[c].req.method \notin {"GET", "HEAD"}
          => /\ Validate(api, call[c].token) # None
             /\ \/ call[c].token \in ServerKeys \ {None}
                \/ call[c].token \in typed[call[c].browser]]_vars

\* Cookies and answers hold session ids that were drawn.
SidsAreDrawn ==
    /\ \A b \in Browsers : cookie[b] \in used \union {NoSid}
    /\ \A c \in Calls : /\ call[c].sid \in used \union {NoSid}
                        /\ call[c].setCookie \in used \union {NoSid, Keep}

\* What a browser has, sends or is about to get is a session of its own.
Own(s, b) == s \in DOMAIN sessions => sessions[s] \in typed[b]

SessionsAreOwn ==
    /\ \A b \in Browsers : Own(cookie[b], b)
    /\ \A c \in Calls : /\ Own(call[c].sid, call[c].browser)
                        /\ Own(call[c].setCookie, call[c].browser)

TokensAreOwn ==
    \A c \in Calls :
        /\ call[c].op = "login" => call[c].token \in typed[call[c].browser]
        /\ call[c].place = "api"
            => call[c].token \in typed[call[c].browser] \union ServerKeys \union {None}

\* The inductive invariant: sessions and tokens do not cross browsers.
SessionInv ==
    /\ TypeOK /\ EndedStaysEnded
    /\ SidsAreDrawn /\ SessionsAreOwn /\ TokensAreOwn

\* Nothing is under way in the page of the browser.
Quiet(b) ==
    \A c \in Calls : call[c].browser = b => ~call[c].listening

\* app.js, handleLogin, handleLogout: when nothing is under way in a page, one
\* that lets its user edit has a live session, and unless an answer was lost one
\* that has it lets him edit.  That is so from a load of the page on, whatever
\* was before, until logins and logouts overlap, another tab of the browser
\* signs in or out, or the frontend is restarted: none of these tells the page.
PageKnowsItsSession ==
    MultiUser => \A b \in Browsers :
        Quiet(b) /\ ~crossed[b] =>
            /\ page[b].auth => cookie[b] \in DOMAIN sessions
            /\ faults = 0 /\ cookie[b] \in DOMAIN sessions => page[b].auth

\* renderUI: when nothing is under way in a page it shows the control
\* that belongs to what it takes for true, however its calls have overlapped.
ControlsFollow ==
    \A b \in Browsers :
        Quiet(b) => page[b].controls = Shown(page[b].auth, page[b].multi)

-----------------------------------------------------------------------------
(* Behind ControlsFollow and PageKnowsItsSession. *)

\* Somebody in the browser b is about to render, or the controls are right.
ControlsLag(b) ==
    \/ page[b].controls = Shown(page[b].auth, page[b].multi)
    \/ \E c \in Calls : call[c].browser = b /\ call[c].listening /\ call[c].place = "render"

\* While checkAuthState waits the page is as it was loaded and offers nothing,
\* so that no login or logout starts beside it.
Alone(c, b) ==
    /\ page[b].controls = "none"
    /\ call[c].place # "render" => page[b] = Page(FALSE, FALSE)
    /\ \A d \in Calls \ {c} : AboutSession(d, b) => ~call[d].listening

LoadsAlone ==
    \A c \in Calls :
        call[c].op = "me" /\ call[c].listening => Alone(c, call[c].browser)

\* The browser b has the session s, sends it or is about to get it.
Holds(b, s) ==
    \/ cookie[b] = s
    \/ \E c \in Calls : call[c].browser = b /\ s \in {call[c].sid, call[c].setCookie}

SidsStayHome ==
    \A a, b \in Browsers : \A s \in Sids : Holds(a, s) /\ Holds(b, s) => a = b

\* The proxy sets no cookie, and the page renders nothing for it.
ProxyKeeps ==
    \A c \in Calls : call[c].op = "proxy" =>
        call[c].setCookie = Keep /\ call[c].place # "render"

\* What another tab waits for is about the session, and upsets the page.
TabsCross ==
    \A c \in Calls :
        call[c].tab => call[c].op # "proxy" /\ crossed[call[c].browser]

HasSession(b) == cookie[b] \in DOMAIN sessions

Agrees(b) ==
    /\ page[b].auth => HasSession(b)
    /\ faults = 0 /\ HasSession(b) => page[b].auth

\* What the page of b may rely on while it waits for the call c.
Expected(c, b) ==
    LET k == call[c] IN
    \/ /\ k.op = "me" /\ ~page[b].auth
       /\ \/ k.place = "frontend" /\ k.sid = cookie[b]
          \/ /\ k.place \in {"answer", "script"} /\ k.setCookie = Keep
             /\ k.answer = IF HasSession(b) THEN "in" ELSE "out"
    \/ /\ k.op = "login" /\ Agrees(b)
       /\ \/ k.place \in {"frontend", "store"}
          \/ /\ k.place = "answer"
             /\ IF k.answer = "ok" THEN k.setCookie \in DOMAIN sessions
                ELSE k.setCookie = Keep
          \/ k.place = "script" /\ k.answer # "ok"
    \/ k.op = "login" /\ k.place = "script" /\ k.answer = "ok" /\ HasSession(b)
    \/ k.op = "logout" /\ k.place = "frontend" /\ k.sid = cookie[b] /\ Agrees(b)
    \/ /\ k.op = "logout" /\ k.place \in {"answer", "script"}
       /\ k.setCookie = NoSid /\ ~HasSession(b)
    \/ k.op \in {"me", "login"} /\ k.place = "render" /\ Agrees(b)

\* Calls about the session of b follow one another, and the page agrees with
\* the session in between.
Settling(b) ==
    /\ \A c \in Calls : AboutSession(c, b) =>
        /\ call[c].listening => Expected(c, b)
        /\ call[c].op = "logout" /\ call[c].place = "frontend" /\ ~call[c].listening
            => ~page[b].auth
    /\ \A c, d \in Calls :
        AboutSession(c, b) /\ Open(c) /\ AboutSession(d, b) /\ Open(d) => c = d
    /\ (\A c \in Calls : AboutSession(c, b) => ~call[c].listening) => Agrees(b)

\* The inductive invariant, on top of SessionInv: what the pages know.
LoginInv ==
    /\ LoadsAlone /\ SidsStayHome /\ ProxyKeeps /\ TabsCross
    /\ \A b \in Browsers :
        /\ ControlsLag(b)
        /\ MultiUser /\ ~crossed[b] => Settling(b)

=============================================================================
