----------------------- MODULE FrontendSessionsProofs -----------------------
(***************************************************************************)
(* Theorems about the sessions of the frontend server, for any number of   *)
(* browsers, calls, tokens, environments, faults and upsets.             *)
(***************************************************************************)
EXTENDS FrontendSessions, TLAPS

LEMMA RequestType ==
    ASSUME TypeOK, NEW b \in Browsers, NEW op \in {"login", "logout", "me", "proxy"}
    PROVE  Request(b, op) \in Call
BY DEF TypeOK, Request, Idle, Call, Places, InServer, Answers

\* A call stays a call when some of its fields get values of their types.
LEMMA CallFields ==
    ASSUME NEW k \in Call
    PROVE  /\ \A place \in Places : [k EXCEPT !.place = place] \in Call
           /\ [k EXCEPT !.listening = FALSE] \in Call
           /\ [k EXCEPT !.tab = FALSE] \in Call
           /\ [k EXCEPT !.listening = FALSE, !.tab = TRUE] \in Call
           /\ \A token \in Tokens : [k EXCEPT !.token = token] \in Call
           /\ \A own \in Tokens \union {None}, req \in Proxied :
                [k EXCEPT !.own = own, !.req = req] \in Call
           /\ \A place \in Places : [k EXCEPT !.place = place, !.listening = FALSE] \in Call
           /\ \A place \in Places, ran \in BOOLEAN :
                [k EXCEPT !.place = place, !.executed = ran] \in Call
           /\ \A token \in Tokens \union {None} :
                [k EXCEPT !.place = "api", !.token = token] \in Call
           /\ \A ran \in BOOLEAN, answer \in Answers :
                [k EXCEPT !.place = "answer", !.executed = ran, !.answer = answer] \in Call
           /\ \A answer \in Answers, set \in Sids \union {NoSid, Keep} :
                [k EXCEPT !.place = "answer", !.answer = answer, !.setCookie = set] \in Call
<1>1. \A place \in Places : [k EXCEPT !.place = place] \in Call
    BY DEF Call
<1>2. [k EXCEPT !.listening = FALSE] \in Call
    BY DEF Call
<1>3. \A token \in Tokens : [k EXCEPT !.token = token] \in Call
    BY DEF Call
<1>10. [k EXCEPT !.tab = FALSE] \in Call
    BY DEF Call
<1>11. [k EXCEPT !.listening = FALSE, !.tab = TRUE] \in Call
    BY DEF Call
<1>4. \A own \in Tokens \union {None}, req \in Proxied :
            [k EXCEPT !.own = own, !.req = req] \in Call
    BY DEF Call
<1>5. \A place \in Places : [k EXCEPT !.place = place, !.listening = FALSE] \in Call
    BY DEF Call
<1>6. \A place \in Places, ran \in BOOLEAN :
            [k EXCEPT !.place = place, !.executed = ran] \in Call
    BY DEF Call
<1>7. \A token \in Tokens \union {None} :
            [k EXCEPT !.place = "api", !.token = token] \in Call
    BY DEF Call, Places, InServer
<1>8. \A ran \in BOOLEAN, answer \in Answers :
            [k EXCEPT !.place = "answer", !.executed = ran, !.answer = answer] \in Call
    BY DEF Call, Places, InServer
<1>9. \A answer \in Answers, set \in Sids \union {NoSid, Keep} :
            [k EXCEPT !.place = "answer", !.answer = answer, !.setCookie = set] \in Call
    BY DEF Call, Places, InServer
<1> QED BY <1>1, <1>2, <1>3, <1>4, <1>5, <1>6, <1>7, <1>8, <1>9, <1>10, <1>11

LEMMA UpdateType ==
    ASSUME TypeOK, NEW c \in Calls, NEW k \in Call, Update(c, k)
    PROVE  call' \in [Calls -> Call] /\ \A d \in Calls : call'[d] = IF d = c THEN k ELSE call[d]
BY DEF TypeOK, Update

LEMMA PageType ==
    ASSUME NEW auth \in BOOLEAN, NEW multi \in BOOLEAN
    PROVE  Page(auth, multi) \in [auth : BOOLEAN, multi : BOOLEAN,
                                  controls : {"none", "sign in", "sign out"}]
BY DEF Page, Shown

LEMMA AfterCallType ==
    ASSUME TypeOK, NEW b \in Browsers, NEW op, NEW answer
    PROVE  AfterCall(page[b], op, answer)
             \in [auth : BOOLEAN, multi : BOOLEAN,
                  controls : {"none", "sign in", "sign out"}]
<1> DEFINE P == [auth : BOOLEAN, multi : BOOLEAN,
                 controls : {"none", "sign in", "sign out"}]
<1>1. page[b] \in P
    BY DEF TypeOK
<1>2. CASE op = "login"
    BY <1>1, <1>2 DEF AfterCall
<1>3. CASE op = "logout"
    BY <1>1, <1>3, PageType DEF AfterCall
<1>4. CASE op = "me"
    <2> DEFINE auth == answer \in {"in", "single key"}
               multi == answer \in {"in", "out"}
    <2>1. AfterCall(page[b], op, answer)
            = [page[b] EXCEPT !.auth = auth, !.multi = multi]
        BY <1>4 DEF AfterCall
    <2>2. auth \in BOOLEAN /\ multi \in BOOLEAN
        OBVIOUS
    <2> HIDE DEF auth, multi
    <2> QED BY <1>1, <2>1, <2>2
<1>5. CASE op \notin {"login", "logout", "me"}
    BY <1>1, <1>5 DEF AfterCall
<1> QED BY <1>2, <1>3, <1>4, <1>5


-----------------------------------------------------------------------------
(* Type correctness. *)

LEMMA TypeInit == Init => TypeOK
<1> SUFFICES ASSUME Init PROVE TypeOK
    OBVIOUS
<1>1. \A b \in Browsers : Idle(b) \in Call
    BY DEF Idle, Call, Places, Answers
<1>2. page \in [Browsers -> [auth : BOOLEAN, multi : BOOLEAN,
                             controls : {"none", "sign in", "sign out"}]]
    BY PageType DEF Init, MultiUser
<1>3. call \in [Calls -> Call]
    BY <1>1 DEF Init
<1>4. /\ used \subseteq Sids /\ DOMAIN sessions \subseteq used
      /\ \A s \in DOMAIN sessions : sessions[s] \in Tokens
    BY DEF Init, NoSessions
<1> QED BY <1>2, <1>3, <1>4 DEF Init, TypeOK

LEMMA SendsType ==
    ASSUME TypeOK, BrowserSends
    PROVE  TypeOK'
<1> USE DEF TypeOK
<1>0. UNCHANGED <<api, server, faults, upsets>>
    BY DEF BrowserSends
<1>1. PICK c \in Calls, b \in Browsers :
        SubmitLogin(c, b) \/ Logout(c, b) \/ Fetch(c, b) \/ Reload(c, b)
    BY DEF BrowserSends
<1>2. CASE SubmitLogin(c, b)
    <2>1. PICK tok \in Tokens :
            /\ Update(c, [Request(b, "login") EXCEPT !.token = tok])
            /\ typed' = [typed EXCEPT ![b] = @ \union {tok}]
        BY <1>2 DEF SubmitLogin, Send
    <2>2. [Request(b, "login") EXCEPT !.token = tok] \in Call
        BY RequestType, CallFields
    <2>3. call' \in [Calls -> Call]
        BY <2>1, <2>2, UpdateType
    <2>4. UNCHANGED <<cookie, page, ended>> /\ crossed' \in [Browsers -> BOOLEAN]
        BY <1>2 DEF SubmitLogin, Send, browser, Crosses, Unsettled
    <2>5. typed' \in [Browsers -> SUBSET Tokens]
        BY <2>1
    <2> QED BY <1>0, <2>3, <2>4, <2>5 DEF server
<1>3. CASE Logout(c, b)
    <2>1. call' \in [Calls -> Call]
        BY <1>3, RequestType, UpdateType DEF Logout, Send
    <2>2. UNCHANGED <<cookie, page, typed, ended>> /\ crossed' \in [Browsers -> BOOLEAN]
        BY <1>3 DEF Logout, Send, browser, Crosses, Unsettled
    <2> QED BY <1>0, <2>1, <2>2 DEF server
<1>4. CASE Fetch(c, b)
    <2>1. PICK req \in Proxied, own \in OwnHeaders :
            Update(c, [Request(b, "proxy") EXCEPT !.own = own, !.req = req])
        BY <1>4 DEF Fetch, Send
    <2>2. [Request(b, "proxy") EXCEPT !.own = own, !.req = req] \in Call
        BY RequestType, CallFields, SessionAssumption
    <2>3. call' \in [Calls -> Call]
        BY <2>1, <2>2, UpdateType
    <2>4. UNCHANGED <<cookie, page, typed, ended, crossed>>
        BY <1>4 DEF Fetch, Send, browser
    <2> QED BY <1>0, <2>3, <2>4 DEF server
<1>5. CASE Reload(c, b)
    <2>1. \A d \in Calls : [call[d] EXCEPT !.listening = FALSE] \in Call
        BY CallFields
    <2>2. Request(b, "me") \in Call
        BY RequestType
    <2>3. call' \in [Calls -> Call]
        BY <1>5, <2>1, <2>2 DEF Reload
    <2>4. page' \in [Browsers -> [auth : BOOLEAN, multi : BOOLEAN,
                                  controls : {"none", "sign in", "sign out"}]]
        BY <1>5, PageType DEF Reload
    <2>5. UNCHANGED <<cookie, typed, ended>> /\ crossed' \in [Browsers -> BOOLEAN]
        BY <1>5 DEF Reload
    <2> QED BY <1>0, <2>3, <2>4, <2>5 DEF server
<1> QED BY <1>1, <1>2, <1>3, <1>4, <1>5

LEMMA HandlesType ==
    ASSUME TypeOK, SidsAreDrawn, TokensAreOwn, NEW c \in Calls, ServerHandles(c)
    PROVE  TypeOK'
<1> USE DEF TypeOK
<1>0. UNCHANGED <<api, browser, upsets, typed, crossed>>
    BY DEF ServerHandles
<1>a. ASSUME NEW answer \in Answers, NEW set \in Sids \union {NoSid, Keep}
      PROVE  [call[c] EXCEPT !.place = "answer", !.answer = answer,
                             !.setCookie = set] \in Call
    BY CallFields DEF Places
<1>b. ASSUME NEW answer \in Answers, NEW set \in Sids \union {NoSid, Keep},
             Reply(c, answer, set)
      PROVE  call' \in [Calls -> Call]
    BY <1>a, <1>b, UpdateType DEF Reply
<1>c. /\ {"ok", "refused", "index", "unavailable", "in", "out", "single key"}
            \subseteq Answers
      /\ {NoSid, Keep} \subseteq Sids \union {NoSid, Keep}
    BY DEF Answers
<1>1. CASE LoginValidate(c)
    <2>a. UNCHANGED server /\ UNCHANGED ended /\ (faults' = faults \/ Fault)
        BY <1>1 DEF LoginValidate
    <2>b. faults \in Nat
        OBVIOUS
    <2>0. UNCHANGED <<apiKey, sessions, used, ended>> /\ faults' \in Nat
        <3> HIDE DEF TypeOK
        <3> QED BY <2>a, <2>b DEF Fault, server
    <2>1. CASE Move(c, "store")
        <3>1. [call[c] EXCEPT !.place = "store"] \in Call
            BY CallFields DEF Places, InServer
        <3>2. call' \in [Calls -> Call]
            BY <2>1, <3>1, UpdateType DEF Move
        <3> QED BY <1>0, <2>0, <3>2 DEF browser
    <2>2. CASE Reply(c, "refused", Keep) \/ Reply(c, "index", Keep)
        <3>1. call' \in [Calls -> Call]
            BY <1>b, <1>c, <2>2
        <3> QED BY <1>0, <2>0, <3>1 DEF browser
    <2> QED BY <1>1, <2>1, <2>2 DEF LoginValidate
<1>2. CASE LoginStore(c)
    <2>1. PICK s \in Sids \ used :
            /\ sessions' = [x \in DOMAIN sessions \union {s} |->
                              IF x = s THEN call[c].token ELSE sessions[x]]
            /\ used' = used \union {s}
            /\ Reply(c, "ok", s)
        BY <1>2 DEF LoginStore
    <2>2. call' \in [Calls -> Call]
        BY <1>b, <1>c, <2>1
    <2>3. UNCHANGED <<apiKey, faults, ended>>
        BY <1>2 DEF LoginStore
    <2>4. /\ used' \subseteq Sids /\ DOMAIN sessions' \subseteq used'
          /\ \A x \in DOMAIN sessions' : sessions'[x] \in Tokens
        <3>1. call[c].token \in Tokens
            BY <1>2 DEF LoginStore, TokensAreOwn, Call
        <3> QED BY <2>1, <3>1
    <2> QED BY <1>0, <2>1, <2>2, <2>3, <2>4 DEF browser
<1>3. CASE HandleLogout(c)
    <2>1. call' \in [Calls -> Call]
        BY <1>3, <1>b, <1>c DEF HandleLogout
    <2>2. UNCHANGED <<apiKey, used, faults>>
        BY <1>3 DEF HandleLogout
    <2>3. /\ DOMAIN sessions' \subseteq used /\ ended' \subseteq used
          /\ \A x \in DOMAIN sessions' : sessions'[x] \in Tokens
        <3>1. CASE /\ sessions' = Deleted(call[c].sid)
                   /\ ended' = ended \union ({call[c].sid} \ {NoSid})
            BY <3>1 DEF Deleted, SidsAreDrawn
        <3>2. CASE UNCHANGED <<sessions, ended>>
            BY <3>2
        <3> QED BY <1>3, <3>1, <3>2 DEF HandleLogout
    <2> QED BY <1>0, <2>1, <2>2, <2>3 DEF browser
<1>4. CASE HandleMe(c)
    <2>1. call' \in [Calls -> Call]
        BY <1>4, <1>b, <1>c DEF HandleMe
    <2> QED BY <1>0, <1>4, <2>1 DEF HandleMe, browser, server
<1>5. CASE HandleProxy(c)
    <2>1. Forwarded(c) \in Tokens \union {None}
        BY SessionAssumption DEF Forwarded, Resolved
    <2>2. [call[c] EXCEPT !.place = "api", !.token = Forwarded(c)] \in Call
        BY <2>1, CallFields DEF Places, InServer
    <2>3. call' \in [Calls -> Call]
        BY <1>5, <2>2, UpdateType DEF HandleProxy
    <2> QED BY <1>0, <1>5, <2>3 DEF HandleProxy, browser, server
<1>6. CASE Serve(c)
    <2>1. PICK ran \in BOOLEAN, answer \in Answers :
            Update(c, [call[c] EXCEPT !.place = "answer", !.executed = ran,
                                      !.answer = answer])
        BY <1>6, <1>c DEF Serve, Admitted, Admits, BearerAuth, ReadonlyBearerAuth
    <2>2. [call[c] EXCEPT !.place = "answer", !.executed = ran, !.answer = answer] \in Call
        BY CallFields DEF Places
    <2>3. call' \in [Calls -> Call]
        BY <2>1, <2>2, UpdateType
    <2>a. UNCHANGED server /\ UNCHANGED ended /\ (faults' = faults \/ Fault)
        BY <1>6 DEF Serve
    <2>b. faults \in Nat
        OBVIOUS
    <2>4. UNCHANGED <<apiKey, sessions, used, ended>> /\ faults' \in Nat
        <3> HIDE DEF TypeOK
        <3> QED BY <2>a, <2>b DEF Fault, server
    <2> QED BY <1>0, <2>3, <2>4 DEF browser
<1> QED BY <1>1, <1>2, <1>3, <1>4, <1>5, <1>6 DEF ServerHandles

LEMMA ReceivesType ==
    ASSUME TypeOK, SidsAreDrawn, NEW c \in Calls, BrowserReceives(c)
    PROVE  TypeOK'
<1> USE DEF TypeOK
<1>0. UNCHANGED <<api, apiKey, sessions, used, upsets, typed, ended, crossed>>
    BY DEF BrowserReceives, server, history
<1>1. CASE Deliver(c)
    <2>1. call' \in [Calls -> Call]
        BY <1>1, CallFields, UpdateType DEF Deliver, Move, Places
    <2>2. call[c].browser \in Browsers
          /\ call[c].setCookie \in Sids \union {NoSid, Keep}
        BY DEF Call
    <2>3. UNCHANGED <<page, faults>>
          /\ cookie' \in [Browsers -> Sids \union {NoSid}]
        BY <1>1, <2>2 DEF Deliver, SetCookie
    <2> QED BY <1>0, <2>1, <2>3
<1>2. CASE RunScript(c)
    <2>1. call' \in [Calls -> Call]
        BY <1>2, CallFields, UpdateType DEF RunScript, Move, Over, Places
    <2>2. call[c].browser \in Browsers
        BY DEF Call
    <2>3. UNCHANGED <<cookie, faults>>
          /\ page' \in [Browsers -> [auth : BOOLEAN, multi : BOOLEAN,
                                     controls : {"none", "sign in", "sign out"}]]
        BY <1>2, <2>2, AfterCallType DEF RunScript
    <2> QED BY <1>0, <2>1, <2>3
<1>3. CASE Lose(c)
    <2>1. call' \in [Calls -> Call]
        BY <1>3, CallFields, UpdateType DEF Lose
    <2>2. call[c].browser \in Browsers /\ faults \in Nat
        BY DEF Call
    <2>3. UNCHANGED cookie
          /\ page' \in [Browsers -> [auth : BOOLEAN, multi : BOOLEAN,
                                     controls : {"none", "sign in", "sign out"}]]
        BY <1>3, <2>2, AfterCallType DEF Lose
    <2>4. faults' \in Nat
        <3> HIDE DEF TypeOK
        <3> QED BY <1>3, <2>2 DEF Lose, Fault
    <2> QED BY <1>0, <2>1, <2>3, <2>4
<1>4. CASE Render(c)
    <2>1. call' \in [Calls -> Call]
        BY <1>4, CallFields, UpdateType DEF Render, Over, Places
    <2>2. call[c].browser \in Browsers
        BY DEF Call
    <2>3. UNCHANGED <<cookie, faults>>
          /\ page' \in [Browsers -> [auth : BOOLEAN, multi : BOOLEAN,
                                     controls : {"none", "sign in", "sign out"}]]
        BY <1>4, <2>2, PageType DEF Render
    <2> QED BY <1>0, <2>1, <2>3
<1> QED BY <1>1, <1>2, <1>3, <1>4 DEF BrowserReceives

LEMMA RestartType ==
    ASSUME TypeOK, RestartFrontend \/ RestartApi
    PROVE  TypeOK'
<1> USE DEF TypeOK
<1>1. CASE RestartFrontend
    <2>1. \A d \in Calls, ran \in BOOLEAN :
            [call[d] EXCEPT !.place = "cut", !.executed = ran] \in Call
        BY CallFields DEF Places, InServer
    <2>2. call' \in [Calls -> Call]
        <3>1. PICK ran \in [Calls -> BOOLEAN] :
                call' = [d \in Calls |->
                           IF call[d].place \in InServer
                           THEN [call[d] EXCEPT !.place = "cut", !.executed = ran[d]]
                           ELSE call[d]]
            BY <1>1 DEF RestartFrontend
        <3> QED BY <2>1, <3>1
    <2>3. /\ UNCHANGED <<api, used, cookie, page, faults, typed, ended>>
          /\ apiKey' \in ServerKeys /\ sessions' = NoSessions
          /\ Upset
          /\ crossed' = [b \in Browsers |-> TRUE]
        BY <1>1 DEF RestartFrontend, browser
    <2>4. upsets \in Nat
        OBVIOUS
    <2>5. upsets' \in Nat
        <3> HIDE DEF TypeOK
        <3> QED BY <2>3, <2>4 DEF Upset
    <2>6. /\ DOMAIN sessions' \subseteq used
          /\ \A s \in DOMAIN sessions' : sessions'[s] \in Tokens
        BY <2>3 DEF NoSessions
    <2> QED BY <2>2, <2>3, <2>5, <2>6
<1>2. CASE RestartApi
    <2>1. UNCHANGED <<apiKey, sessions, used, cookie, page, call, faults, history>>
        BY <1>2 DEF RestartApi, server, browser
    <2>2. upsets \in Nat
        OBVIOUS
    <2>3. upsets' \in Nat
        <3> HIDE DEF TypeOK
        <3> QED BY <1>2, <2>2 DEF RestartApi, Upset
    <2>4. (\E env \in Configs : api \in Servers(env))'
        BY <1>2 DEF RestartApi
    <2> QED BY <2>1, <2>3, <2>4 DEF history
<1> QED BY <1>1, <1>2

LEMMA TabsType ==
    ASSUME TypeOK, SidsAreDrawn, OtherTabs
    PROVE  TypeOK'
<1> USE DEF TypeOK
<1>0. UNCHANGED <<api, apiKey, sessions, used>> /\ upsets \in Nat /\ faults \in Nat
    BY DEF OtherTabs, server
<1>1. ASSUME NEW c \in Calls, NEW b \in Browsers, TabSends(c, b)
      PROVE  TypeOK'
    <2>1. UNCHANGED <<cookie, page, faults, ended>> /\ Upset
          /\ crossed' \in [Browsers -> BOOLEAN]
        BY <1>1 DEF TabSends, Send, browser
    <2>2. upsets' \in Nat
        <3> HIDE DEF TypeOK
        <3> QED BY <1>0, <2>1 DEF Upset
    <2>3. FromTab(b, "login") \in Call /\ FromTab(b, "logout") \in Call
        BY RequestType, CallFields DEF FromTab
    <2>4. PICK k \in Call : Update(c, k)
        <3>1. CASE Update(c, FromTab(b, "logout"))
            BY <2>3, <3>1
        <3>2. CASE \E tok \in Tokens : Update(c, [FromTab(b, "login") EXCEPT !.token = tok])
            BY <2>3, <3>2, CallFields
        <3> QED BY <1>1, <3>1, <3>2 DEF TabSends, Send
    <2>5. call' \in [Calls -> Call]
        BY <2>4, UpdateType
    <2>6. typed' \in [Browsers -> SUBSET Tokens]
        <3>1. \/ UNCHANGED typed
              \/ \E tok \in Tokens : typed' = [typed EXCEPT ![b] = @ \union {tok}]
            BY <1>1 DEF TabSends
        <3>2. \A tok \in Tokens :
                [typed EXCEPT ![b] = @ \union {tok}] \in [Browsers -> SUBSET Tokens]
            OBVIOUS
        <3> QED BY <3>1, <3>2
    <2> QED BY <1>0, <2>1, <2>2, <2>5, <2>6
<1>2. ASSUME NEW c \in Calls, TabReceives(c)
      PROVE  TypeOK'
    <2>1. UNCHANGED <<page, upsets, typed, ended, crossed>> /\ (faults' = faults \/ Fault)
        BY <1>2 DEF TabReceives, history
    <2>2. faults' \in Nat
        <3> HIDE DEF TypeOK
        <3> QED BY <1>0, <2>1 DEF Fault
    <2>3. call' \in [Calls -> Call]
        BY <1>2, CallFields, UpdateType DEF TabReceives
    <2>4. call[c].browser \in Browsers
          /\ call[c].setCookie \in Sids \union {NoSid, Keep}
        BY DEF Call
    <2>5. cookie' \in [Browsers -> Sids \union {NoSid}]
        BY <1>2, <2>4 DEF TabReceives, SetCookie
    <2> QED BY <1>0, <2>1, <2>2, <2>3, <2>5
<1> QED BY <1>1, <1>2 DEF OtherTabs

-----------------------------------------------------------------------------
(* Sessions and tokens do not cross browsers. *)

\* What neither the browser's reception nor a restart changes in a call.
Kept(d) ==
    /\ call'[d].browser = call[d].browser
    /\ call'[d].op = call[d].op
    /\ call'[d].sid = call[d].sid
    /\ call'[d].token = call[d].token
    /\ call'[d].setCookie = call[d].setCookie
    /\ call'[d].place = "api" => call[d].place = "api"

LEMMA KeptInv ==
    ASSUME SessionInv, TypeOK', \A d \in Calls : Kept(d),
           UNCHANGED <<used, typed, ended>>,
           sessions' = sessions \/ sessions' = NoSessions,
           \A b \in Browsers :
              cookie'[b] = cookie[b]
              \/ \E d \in Calls : /\ call[d].browser = b
                                  /\ call[d].setCookie # Keep
                                  /\ cookie'[b] = call[d].setCookie
    PROVE  SessionInv'
<1>1. EndedStaysEnded'
    BY DEF SessionInv, EndedStaysEnded, NoSessions
<1>2. SidsAreDrawn'
    BY DEF SessionInv, SidsAreDrawn, Kept
<1>3. SessionsAreOwn'
    BY DEF SessionInv, SessionsAreOwn, Own, Kept, NoSessions
<1>4. TokensAreOwn'
    BY DEF SessionInv, TokensAreOwn, Kept, TypeOK, Call
<1> QED BY <1>1, <1>2, <1>3, <1>4 DEF SessionInv

LEMMA ReceivesInv ==
    ASSUME SessionInv, NEW c \in Calls, BrowserReceives(c)
    PROVE  SessionInv'
<1>0. TypeOK'
    BY ReceivesType DEF SessionInv
<1>1. UNCHANGED <<sessions, used, typed, ended>>
    BY DEF BrowserReceives, server, history
<1>2. call \in [Calls -> Call]
    BY DEF SessionInv, TypeOK
<1>3. PICK k \in {[call[c] EXCEPT !.place = "script"],
                  [call[c] EXCEPT !.place = "render"],
                  [call[c] EXCEPT !.place = "over", !.listening = FALSE],
                  [call[c] EXCEPT !.listening = FALSE]} :
        Update(c, k)
    BY DEF BrowserReceives, Deliver, SetCookie, RunScript, Lose, Render, Over, Move
<1>4. \A d \in Calls : Kept(d)
    <2>1. \A d \in Calls \ {c} : Kept(d)
        BY <1>2, <1>3 DEF Update, Kept
    <2>2. call'[c] = k
        BY <1>2, <1>3 DEF Update
    <2>3. call[c] \in Call
        BY <1>2
    <2>4. /\ k.browser = call[c].browser /\ k.op = call[c].op
          /\ k.sid = call[c].sid /\ k.token = call[c].token
          /\ k.setCookie = call[c].setCookie
        BY <2>3 DEF Call
    <2>5. k.place = "api" => call[c].place = "api"
        BY <2>3 DEF Call
    <2> QED BY <2>1, <2>2, <2>4, <2>5 DEF Kept
<1>5. \A b \in Browsers :
        cookie'[b] = cookie[b]
        \/ (call[c].browser = b /\ call[c].setCookie # Keep
            /\ cookie'[b] = call[c].setCookie)
    BY DEF BrowserReceives, Deliver, SetCookie, RunScript, Lose, Render, SessionInv, TypeOK
<1> QED BY <1>0, <1>1, <1>4, <1>5, KeptInv

LEMMA RestartInv ==
    ASSUME SessionInv, RestartFrontend \/ RestartApi
    PROVE  SessionInv'
<1>0. TypeOK'
    BY RestartType DEF SessionInv
<1>1. UNCHANGED <<used, cookie, typed, ended>>
      /\ (sessions' = sessions \/ sessions' = NoSessions)
    BY DEF RestartFrontend, RestartApi, server, browser, history
<1>2. call \in [Calls -> Call]
    BY DEF SessionInv, TypeOK
<1>3. \A d \in Calls : Kept(d)
    <2>1. CASE RestartFrontend
        <3>1. ASSUME NEW d \in Calls
              PROVE  Kept(d)
            <4>1. call[d] \in Call
                BY <1>2
            <4>2. PICK ran \in BOOLEAN :
                    call'[d] = IF call[d].place \in InServer
                               THEN [call[d] EXCEPT !.place = "cut", !.executed = ran]
                               ELSE call[d]
                BY <2>1 DEF RestartFrontend
            <4>3. CASE call[d].place \in InServer
                BY <4>1, <4>2, <4>3 DEF Kept, Call
            <4>4. CASE call[d].place \notin InServer
                BY <4>2, <4>4 DEF Kept
            <4> QED BY <4>3, <4>4
        <3> QED BY <3>1
    <2>2. CASE RestartApi
        BY <2>2 DEF RestartApi, Kept
    <2> QED BY <2>1, <2>2
<1> QED BY <1>0, <1>1, <1>3, KeptInv

\* A new request carries what its browser has; typed tokens only grow.
LEMMA SendsInv ==
    ASSUME SessionInv, BrowserSends
    PROVE  SessionInv'
<1>0. TypeOK'
    BY SendsType DEF SessionInv
<1>1. UNCHANGED <<sessions, used, ended, cookie>>
    BY DEF BrowserSends, server, SubmitLogin, Logout, Fetch, Reload, Send, browser
<1>2. call \in [Calls -> Call]
    BY DEF SessionInv, TypeOK
<1>3. PICK c \in Calls, b \in Browsers :
        SubmitLogin(c, b) \/ Logout(c, b) \/ Fetch(c, b) \/ Reload(c, b)
    BY DEF BrowserSends
<1>4. \A x \in Browsers : typed[x] \subseteq typed'[x]
    BY <1>3 DEF SubmitLogin, Logout, Fetch, Reload, SessionInv, TypeOK
<1>5. /\ call'[c].browser = b /\ call'[c].sid = cookie[b]
      /\ call'[c].setCookie = Keep /\ call'[c].place = "frontend"
      /\ call'[c].op = "login" => call'[c].token \in typed'[b]
    <2>1. CASE SubmitLogin(c, b)
        <3>1. PICK tok \in Tokens :
                /\ Update(c, [Request(b, "login") EXCEPT !.token = tok])
                /\ typed' = [typed EXCEPT ![b] = @ \union {tok}]
            BY <2>1 DEF SubmitLogin, Send
        <3>2. tok \in typed'[b]
            BY <3>1 DEF SessionInv, TypeOK
        <3> QED BY <1>2, <3>1, <3>2 DEF Update, Request, Idle
    <2>2. CASE Logout(c, b)
        BY <1>2, <2>2 DEF Logout, Send, Update, Request, Idle
    <2>3. CASE Fetch(c, b)
        BY <1>2, <2>3 DEF Fetch, Send, Update, Request, Idle
    <2>4. CASE Reload(c, b)
        BY <1>2, <2>4 DEF Reload, Request, Idle
    <2> QED BY <1>3, <2>1, <2>2, <2>3, <2>4
<1>6. \A d \in Calls \ {c} : Kept(d)
    <2>1. CASE Reload(c, b)
        BY <1>2, <2>1 DEF Reload, Kept, Call
    <2>2. CASE SubmitLogin(c, b) \/ Logout(c, b) \/ Fetch(c, b)
        <3>1. PICK k : Update(c, k)
            BY <2>2 DEF SubmitLogin, Logout, Fetch, Send
        <3> QED BY <1>2, <3>1 DEF Update, Kept
    <2> QED BY <1>3, <2>1, <2>2
<1>7. EndedStaysEnded'
    BY <1>1 DEF SessionInv, EndedStaysEnded
<1>8. SidsAreDrawn'
    BY <1>1, <1>5, <1>6 DEF SessionInv, SidsAreDrawn, Kept
<1>9. SessionsAreOwn'
    <2>1. \A x \in Browsers : Own(cookie[x], x)'
        BY <1>1, <1>4 DEF SessionInv, SessionsAreOwn, Own
    <2>2. \A d \in Calls \ {c} : /\ Own(call[d].sid, call[d].browser)'
                                 /\ Own(call[d].setCookie, call[d].browser)'
        BY <1>1, <1>2, <1>4, <1>6 DEF SessionInv, SessionsAreOwn, Own, Kept, Call
    <2>3. Keep \notin DOMAIN sessions
        BY SessionAssumption DEF SessionInv, TypeOK
    <2> QED BY <1>1, <1>5, <2>1, <2>2, <2>3 DEF SessionsAreOwn, Own
<1>10. TokensAreOwn'
    BY <1>2, <1>4, <1>5, <1>6 DEF SessionInv, TokensAreOwn, Kept, Call
<1> QED BY <1>0, <1>7, <1>8, <1>9, <1>10 DEF SessionInv

LEMMA TabsInv ==
    ASSUME SessionInv, OtherTabs
    PROVE  SessionInv'
<1>0. TypeOK'
    BY TabsType DEF SessionInv
<1>1. call \in [Calls -> Call] /\ UNCHANGED <<sessions, used>>
    BY DEF SessionInv, TypeOK, OtherTabs, server
<1>2. ASSUME NEW c \in Calls, TabReceives(c)
      PROVE  SessionInv'
    <2>1. \A d \in Calls : Kept(d)
        BY <1>1, <1>2 DEF TabReceives, Update, Kept, Call
    <2>2. UNCHANGED <<typed, ended>>
        BY <1>2 DEF TabReceives, history
    <2>3. \A b \in Browsers :
            cookie'[b] = cookie[b]
            \/ (call[c].browser = b /\ call[c].setCookie # Keep
                /\ cookie'[b] = call[c].setCookie)
        BY <1>2 DEF TabReceives, SetCookie, SessionInv, TypeOK
    <2> QED BY <1>0, <1>1, <2>1, <2>2, <2>3, KeptInv
<1>3. ASSUME NEW c \in Calls, NEW b \in Browsers, TabSends(c, b)
      PROVE  SessionInv'
    <2>1. UNCHANGED <<ended, cookie>>
        BY <1>3 DEF TabSends, Send, browser
    <2>2. \A x \in Browsers : typed[x] \subseteq typed'[x]
        BY <1>3 DEF TabSends, SessionInv, TypeOK
    <2>3. /\ call'[c].browser = b /\ call'[c].sid = cookie[b]
          /\ call'[c].setCookie = Keep /\ call'[c].place = "frontend"
          /\ call'[c].op = "login" => call'[c].token \in typed'[b]
          /\ \A d \in Calls \ {c} : call'[d] = call[d]
        <3>1. CASE Update(c, FromTab(b, "logout"))
            BY <1>1, <3>1 DEF Update, FromTab, Request, Idle
        <3>2. ASSUME NEW tok \in Tokens,
                     Update(c, [FromTab(b, "login") EXCEPT !.token = tok]),
                     typed' = [typed EXCEPT ![b] = @ \union {tok}]
              PROVE  <2>3!:
            <4>1. tok \in typed'[b]
                BY <3>2 DEF SessionInv, TypeOK
            <4> QED BY <1>1, <3>2, <4>1 DEF Update, FromTab, Request, Idle
        <3> QED BY <1>3, <3>1, <3>2 DEF TabSends, Send
    <2>4. EndedStaysEnded'
        BY <1>1, <2>1 DEF SessionInv, EndedStaysEnded
    <2>5. SidsAreDrawn'
        BY <1>1, <2>1, <2>3 DEF SessionInv, SidsAreDrawn
    <2>6. SessionsAreOwn'
        <3>1. \A x \in Browsers : Own(cookie[x], x)'
            BY <1>1, <2>1, <2>2 DEF SessionInv, SessionsAreOwn, Own
        <3>2. \A d \in Calls \ {c} : /\ Own(call[d].sid, call[d].browser)'
                                     /\ Own(call[d].setCookie, call[d].browser)'
            BY <1>1, <2>2, <2>3 DEF SessionInv, SessionsAreOwn, Own, Call
        <3>3. Keep \notin DOMAIN sessions
            BY SessionAssumption DEF SessionInv, TypeOK
        <3> QED BY <1>1, <2>1, <2>3, <3>1, <3>2, <3>3 DEF SessionsAreOwn, Own
    <2>7. TokensAreOwn'
        BY <1>1, <2>2, <2>3 DEF SessionInv, TokensAreOwn, Call
    <2> QED BY <1>0, <2>4, <2>5, <2>6, <2>7 DEF SessionInv
<1> QED BY <1>2, <1>3 DEF OtherTabs

\* A handler keeps the browser, the operation and the cookie of its request.
LEMMA HandlesOne ==
    ASSUME SessionInv, NEW c \in Calls, ServerHandles(c)
    PROVE  /\ \A d \in Calls \ {c} : call'[d] = call[d]
           /\ call'[c].browser = call[c].browser
           /\ call'[c].op = call[c].op
           /\ call'[c].sid = call[c].sid
           /\ ~HandleProxy(c) => /\ call'[c].token = call[c].token
                                 /\ call'[c].place # "api"
           /\ ~LoginStore(c)
                => call'[c].setCookie \in {call[c].setCookie, NoSid, Keep}
<1>1. call \in [Calls -> Call] /\ call[c] \in Call
    BY DEF SessionInv, TypeOK
<1>2. CASE Move(c, "store") /\ ~HandleProxy(c)
    BY <1>1, <1>2 DEF Move, Update, Call
<1>3. ASSUME NEW answer, NEW set, Reply(c, answer, set), ~HandleProxy(c),
             LoginStore(c) \/ set \in {NoSid, Keep}
      PROVE  /\ \A d \in Calls \ {c} : call'[d] = call[d]
             /\ call'[c].browser = call[c].browser
             /\ call'[c].op = call[c].op
             /\ call'[c].sid = call[c].sid
             /\ call'[c].token = call[c].token
             /\ call'[c].place # "api"
             /\ ~LoginStore(c)
                  => call'[c].setCookie \in {call[c].setCookie, NoSid, Keep}
    BY <1>1, <1>3 DEF Reply, Update, Call
<1>4. ASSUME NEW ran, NEW answer, ~HandleProxy(c),
             Update(c, [call[c] EXCEPT !.place = "answer", !.executed = ran,
                                       !.answer = answer])
      PROVE  /\ \A d \in Calls \ {c} : call'[d] = call[d]
             /\ call'[c].browser = call[c].browser
             /\ call'[c].op = call[c].op
             /\ call'[c].sid = call[c].sid
             /\ call'[c].token = call[c].token
             /\ call'[c].place # "api"
             /\ call'[c].setCookie = call[c].setCookie
    BY <1>1, <1>4 DEF Update, Call
<1>5. CASE HandleProxy(c)
    <2>1. Update(c, [call[c] EXCEPT !.place = "api", !.token = Forwarded(c)])
        BY <1>5 DEF HandleProxy
    <2> QED BY <1>1, <1>5, <2>1 DEF Update, Call
<1>6. CASE ~HandleProxy(c)
    <2>1. CASE LoginValidate(c)
        BY <1>2, <1>3, <1>6, <2>1 DEF LoginValidate
    <2>2. CASE LoginStore(c)
        BY <1>3, <1>6, <2>2 DEF LoginStore
    <2>3. CASE HandleLogout(c) \/ HandleMe(c)
        BY <1>3, <1>6, <2>3 DEF HandleLogout, HandleMe
    <2>4. CASE Serve(c)
        BY <1>4, <1>6, <2>4 DEF Serve
    <2> QED BY <1>6, <2>1, <2>2, <2>3, <2>4 DEF ServerHandles
<1> QED BY <1>5, <1>6

LEMMA HandlesInv ==
    ASSUME SessionInv, NEW c \in Calls, ServerHandles(c)
    PROVE  SessionInv'
<1>0. TypeOK'
    BY HandlesType DEF SessionInv
<1>1. UNCHANGED <<cookie, typed>>
    BY DEF ServerHandles, browser
<1>2. call[c] \in Call /\ call'[c] \in Call
    BY <1>0 DEF SessionInv, TypeOK
<1>a. Keep \notin DOMAIN sessions /\ NoSid \notin DOMAIN sessions
    BY SessionAssumption DEF SessionInv, TypeOK
<1>3. CASE LoginStore(c)
    <2>1. PICK s \in Sids \ used :
            /\ sessions' = [x \in DOMAIN sessions \union {s} |->
                              IF x = s THEN call[c].token ELSE sessions[x]]
            /\ used' = used \union {s}
            /\ Reply(c, "ok", s)
        BY <1>3 DEF LoginStore
    <2>2. call'[c].setCookie = s
        BY <1>2, <2>1 DEF Reply, Update, SessionInv, TypeOK, Call
    <2>3. call[c].token \in typed[call[c].browser] /\ ~HandleProxy(c)
        BY <1>3 DEF LoginStore, HandleProxy, SessionInv, TokensAreOwn
    <2>4. EndedStaysEnded' /\ ended' = ended
        BY <1>3, <2>1 DEF LoginStore, SessionInv, EndedStaysEnded, TypeOK
    <2>5. SidsAreDrawn'
        BY <1>1, <2>1, <2>2, HandlesOne DEF SessionInv, SidsAreDrawn
    <2>6. SessionsAreOwn'
        <3>1. \A x, b : x # s /\ Own(x, b) => Own(x, b)'
            BY <1>1, <2>1 DEF Own
        <3>2. s # NoSid /\ s # Keep /\ s \notin used
            BY SessionAssumption
        <3>3. \A b \in Browsers : Own(cookie[b], b)'
            BY <1>1, <3>1, <3>2 DEF SessionInv, SessionsAreOwn, SidsAreDrawn
        <3>4. \A d \in Calls : Own(call[d].sid, call[d].browser)'
            BY <3>1, <3>2, HandlesOne DEF SessionInv, SessionsAreOwn, SidsAreDrawn
        <3>5. \A d \in Calls \ {c} : Own(call[d].setCookie, call[d].browser)'
            BY <3>1, <3>2, HandlesOne DEF SessionInv, SessionsAreOwn, SidsAreDrawn
        <3>6. Own(call[c].setCookie, call[c].browser)'
            BY <1>1, <2>1, <2>2, <2>3, HandlesOne DEF Own
        <3> QED BY <3>3, <3>4, <3>5, <3>6 DEF SessionsAreOwn
    <2>7. TokensAreOwn'
        BY <1>1, <2>3, HandlesOne DEF SessionInv, TokensAreOwn
    <2> QED BY <1>0, <2>4, <2>5, <2>6, <2>7 DEF SessionInv
<1>4. CASE ~LoginStore(c)
    <2>1. /\ used' = used
          /\ \/ sessions' = sessions /\ ended' = ended
             \/ /\ HandleLogout(c)
                /\ sessions' = Deleted(call[c].sid)
                /\ ended' = ended \union ({call[c].sid} \ {NoSid})
        BY <1>4 DEF ServerHandles, LoginValidate, HandleLogout, HandleMe,
            HandleProxy, Serve, server
    <2>2. DOMAIN sessions' \subseteq DOMAIN sessions
          /\ \A x \in DOMAIN sessions' : sessions'[x] = sessions[x]
        BY <2>1 DEF Deleted
    <2>3. EndedStaysEnded'
        BY <1>a, <2>1 DEF SessionInv, EndedStaysEnded, Deleted
    <2>4. SidsAreDrawn'
        BY <1>1, <1>4, <2>1, HandlesOne DEF SessionInv, SidsAreDrawn
    <2>5. \A x, b : Own(x, b) => Own(x, b)'
        BY <1>1, <2>2 DEF Own
    <2>6. SessionsAreOwn'
        <3>1. \A b \in Browsers : Own(cookie[b], b)'
            BY <1>1, <2>5 DEF SessionInv, SessionsAreOwn
        <3>2. \A d \in Calls : Own(call[d].sid, call[d].browser)'
            BY <2>5, HandlesOne DEF SessionInv, SessionsAreOwn
        <3>3. \A d \in Calls : Own(call[d].setCookie, call[d].browser)'
            BY <1>4, <1>a, <2>2, <2>5, HandlesOne DEF SessionInv, SessionsAreOwn, Own
        <3> QED BY <3>1, <3>2, <3>3 DEF SessionsAreOwn
    <2>7. CASE ~HandleProxy(c)
        <3>1. TokensAreOwn'
            BY <1>1, <2>7, HandlesOne DEF SessionInv, TokensAreOwn
        <3> QED BY <1>0, <2>3, <2>4, <2>6, <3>1 DEF SessionInv
    <2>8. CASE HandleProxy(c)
        <3>1. Forwarded(c) \in typed[call[c].browser] \union ServerKeys \union {None}
            BY DEF Forwarded, Resolved, SessionInv, SessionsAreOwn, Own, TypeOK
        <3>2. call'[c].token = Forwarded(c) /\ call[c].op = "proxy"
            BY <1>2, <2>8 DEF HandleProxy, Update, SessionInv, TypeOK, Call
        <3>3. TokensAreOwn'
            BY <1>1, <3>1, <3>2, HandlesOne DEF SessionInv, TokensAreOwn
        <3> QED BY <1>0, <2>3, <2>4, <2>6, <3>3 DEF SessionInv
    <2> QED BY <2>7, <2>8
<1> QED BY <1>3, <1>4

LEMMA SessionInit == Init => SessionInv
<1> SUFFICES ASSUME Init PROVE SessionInv
    OBVIOUS
<1>1. TypeOK
    BY TypeInit
<1>2. EndedStaysEnded /\ SidsAreDrawn
    BY DEF Init, EndedStaysEnded, SidsAreDrawn, Idle
<1>3. SessionsAreOwn
    BY DEF Init, NoSessions, SessionsAreOwn, Own
<1>4. TokensAreOwn
    BY DEF Init, TokensAreOwn, Idle
<1> QED BY <1>1, <1>2, <1>3, <1>4 DEF SessionInv

LEMMA SessionStep ==
    ASSUME SessionInv, [Next]_vars
    PROVE  SessionInv'
<1>1. CASE UNCHANGED vars
    BY <1>1 DEF vars, server, browser, history, SessionInv, TypeOK,
        EndedStaysEnded, SidsAreDrawn, SessionsAreOwn, Own, TokensAreOwn
<1>2. CASE Next
    BY <1>2, SendsInv, HandlesInv, ReceivesInv, TabsInv, RestartInv DEF Next
<1> QED BY <1>1, <1>2

\* Cookies, answers and sessions stay with the browser they were made for.
THEOREM SessionInvariance == Spec => []SessionInv
BY SessionInit, SessionStep, PTL DEF Spec

\* Every variable keeps its type.
THEOREM TypeCorrect == Spec => []TypeOK
BY SessionInvariance, PTL DEF SessionInv

\* handleLogout: a session that was logged out is gone for good.
THEOREM LogoutIsFinal == Spec => []EndedStaysEnded
BY SessionInvariance, PTL DEF SessionInv

\* A handler of the API runs only for a call it admits.
LEMMA RunsWhenAdmitted ==
    ASSUME SessionInv, [Next]_vars, NEW c \in Calls,
           call'[c].executed = TRUE, call[c].executed = FALSE
    PROVE  call[c].place = "api" /\ Admitted(c)
<1>1. call \in [Calls -> Call] /\ call[c] \in Call
    BY DEF SessionInv, TypeOK
<1>2. CASE UNCHANGED vars
    BY <1>2 DEF vars
<1>3. CASE BrowserSends
    <2>1. PICK d \in Calls, b \in Browsers :
            SubmitLogin(d, b) \/ Logout(d, b) \/ Fetch(d, b) \/ Reload(d, b)
        BY <1>3 DEF BrowserSends
    <2>2. CASE Reload(d, b)
        <3>1. call'[c].executed \in {FALSE, call[c].executed}
            BY <1>1, <2>2 DEF Reload, Request, Idle, Call
        <3> QED BY <3>1
    <2>3. CASE SubmitLogin(d, b) \/ Logout(d, b) \/ Fetch(d, b)
        <3>1. PICK k : Update(d, k) /\ k.executed = FALSE
            <4>1. CASE SubmitLogin(d, b)
                <5>1. PICK tok : Update(d, [Request(b, "login") EXCEPT !.token = tok])
                    BY <4>1 DEF SubmitLogin, Send
                <5>2. [Request(b, "login") EXCEPT !.token = tok].executed = FALSE
                    BY DEF Request, Idle
                <5> QED BY <5>1, <5>2
            <4>2. CASE Logout(d, b)
                <5>1. Update(d, Request(b, "logout"))
                    BY <4>2 DEF Logout, Send
                <5>2. Request(b, "logout").executed = FALSE
                    BY DEF Request, Idle
                <5> QED BY <5>1, <5>2
            <4>3. CASE Fetch(d, b)
                <5>1. PICK own, req :
                        Update(d, [Request(b, "proxy") EXCEPT !.own = own, !.req = req])
                    BY <4>3 DEF Fetch, Send
                <5>2. [Request(b, "proxy") EXCEPT !.own = own, !.req = req].executed = FALSE
                    BY DEF Request, Idle
                <5> QED BY <5>1, <5>2
            <4> QED BY <2>3, <4>1, <4>2, <4>3
        <3> QED BY <1>1, <3>1 DEF Update
    <2> QED BY <2>1, <2>2, <2>3
<1>4. ASSUME NEW d \in Calls, BrowserReceives(d)
      PROVE  FALSE
    <2>1. PICK k \in {[call[d] EXCEPT !.place = "script"],
                      [call[d] EXCEPT !.place = "render"],
                      [call[d] EXCEPT !.place = "over", !.listening = FALSE],
                      [call[d] EXCEPT !.listening = FALSE]} :
            Update(d, k)
        BY <1>4 DEF BrowserReceives, Deliver, SetCookie, RunScript, Lose, Render, Over, Move
    <2>2. k.executed = call[d].executed
        BY <1>1 DEF Call
    <2> QED BY <1>1, <2>1, <2>2 DEF Update
<1>5. ASSUME NEW d \in Calls, ServerHandles(d)
      PROVE  call[c].place = "api" /\ Admitted(c)
    <2>1. d = c
        BY <1>5, HandlesOne
    <2>2. CASE Serve(c)
        <3>1. call[c].place = "api"
            BY <2>2 DEF Serve
        <3>2. PICK done \in {FALSE, Admitted(c)} :
                \E answer \in {"ok", "refused", "unavailable"} :
                    Update(c, [call[c] EXCEPT !.place = "answer", !.executed = done,
                                              !.answer = answer])
            BY <2>2 DEF Serve
        <3>3. call'[c].executed = done
            BY <1>1, <3>2 DEF Update, Call
        <3> QED BY <3>1, <3>2, <3>3
    <2>3. CASE ~Serve(c)
        <3>1. PICK k : Update(c, k) /\ k.executed = call[c].executed
            <4>1. \A place : [call[c] EXCEPT !.place = place].executed = call[c].executed
                BY <1>1 DEF Call
            <4>2. \A answer, set :
                    [call[c] EXCEPT !.place = "answer", !.answer = answer,
                                    !.setCookie = set].executed = call[c].executed
                BY <1>1 DEF Call
            <4>3. CASE LoginValidate(c)
                <5>1. CASE Move(c, "store")
                    BY <4>1, <5>1 DEF Move
                <5>2. CASE \E answer : Reply(c, answer, Keep)
                    BY <4>2, <5>2 DEF Reply
                <5> QED BY <4>3, <5>1, <5>2 DEF LoginValidate
            <4>4. CASE LoginStore(c) \/ HandleLogout(c) \/ HandleMe(c)
                <5>1. PICK answer, set : Reply(c, answer, set)
                    BY <4>4 DEF LoginStore, HandleLogout, HandleMe
                <5> QED BY <4>2, <5>1 DEF Reply
            <4>5. CASE HandleProxy(c)
                <5>1. [call[c] EXCEPT !.place = "api", !.token = Forwarded(c)].executed
                        = call[c].executed
                    BY <1>1 DEF Call
                <5> QED BY <4>5, <5>1 DEF HandleProxy
            <4> QED BY <1>5, <2>1, <2>3, <4>3, <4>4, <4>5 DEF ServerHandles
        <3> QED BY <1>1, <3>1 DEF Update
    <2> QED BY <2>2, <2>3
<1>6. CASE RestartFrontend
    <2>1. PICK ran \in [Calls -> BOOLEAN] :
            /\ ran[c] => call[c].place = "api" /\ Admitted(c)
            /\ call'[c] = IF call[c].place \in InServer
                          THEN [call[c] EXCEPT !.place = "cut", !.executed = ran[c]]
                          ELSE call[c]
        BY <1>6 DEF RestartFrontend
    <2>2. call'[c].executed \in {ran[c], call[c].executed}
        BY <1>1, <2>1 DEF Call
    <2> QED BY <2>1, <2>2
<1>7. CASE RestartApi
    BY <1>7 DEF RestartApi
<1>8. CASE OtherTabs
    <2>1. PICK d \in Calls : TabReceives(d) \/ \E b \in Browsers : TabSends(d, b)
        BY <1>8 DEF OtherTabs
    <2>2. PICK k : Update(d, k) /\ k.executed \in {FALSE, call[d].executed}
        <3>1. CASE TabReceives(d)
            <4>1. Update(d, [call[d] EXCEPT !.tab = FALSE])
                BY <3>1 DEF TabReceives
            <4>2. [call[d] EXCEPT !.tab = FALSE].executed = call[d].executed
                BY <1>1 DEF Call
            <4> QED BY <4>1, <4>2
        <3>2. ASSUME NEW b \in Browsers, TabSends(d, b)
              PROVE  \E k : Update(d, k) /\ k.executed \in {FALSE, call[d].executed}
            <4>1. \/ Update(d, FromTab(b, "logout"))
                  \/ \E tok : Update(d, [FromTab(b, "login") EXCEPT !.token = tok])
                BY <3>2 DEF TabSends, Send
            <4>2. FromTab(b, "logout").executed = FALSE
                  /\ \A tok : [FromTab(b, "login") EXCEPT !.token = tok].executed = FALSE
                BY DEF FromTab, Request, Idle
            <4> QED BY <4>1, <4>2
        <3> QED BY <2>1, <3>1, <3>2
    <2> QED BY <1>1, <2>2 DEF Update
<1> QED BY <1>2, <1>3, <1>4, <1>5, <1>6, <1>7, <1>8 DEF Next

\* handleProxy and the middlewares: a write runs only with a token the API
\* accepts now, the server's own or one submitted in the same browser.
THEOREM WritesAuthorized == Spec => WritesAreAuthorized
<1>1. ASSUME SessionInv, [Next]_vars, NEW c \in Calls,
             call'[c].executed, ~call[c].executed,
             call[c].req.method \notin {"GET", "HEAD"}
      PROVE  /\ Validate(api, call[c].token) # None
             /\ \/ call[c].token \in ServerKeys \ {None}
                \/ call[c].token \in typed[call[c].browser]
    <2>1. call \in [Calls -> Call] /\ call' \in [Calls -> Call]
        BY <1>1, SessionStep DEF SessionInv, TypeOK
    <2>2. call'[c].executed = TRUE /\ call[c].executed = FALSE
        BY <1>1, <2>1 DEF Call
    <2>3. call[c].place = "api" /\ Admitted(c)
        BY <1>1, <2>2, RunsWhenAdmitted
    <2>4. BearerAuth(api, Header(call[c].token))
        BY <1>1, <2>3 DEF Admitted, Admits, ReadonlyBearerAuth
    <2>5. call[c].token # None /\ Validate(api, call[c].token) # None
        BY <2>4 DEF BearerAuth, NameOf, Header, NoHeader, Bearer, None
    <2>6. call[c].token \in typed[call[c].browser] \union ServerKeys \union {None}
        BY <1>1, <2>3 DEF SessionInv, TokensAreOwn
    <2> QED BY <2>5, <2>6
<1>2. SessionInv /\ [Next]_vars
        => [\A c \in Calls :
              /\ call'[c].executed /\ ~call[c].executed
              /\ call[c].req.method \notin {"GET", "HEAD"}
              => /\ Validate(api, call[c].token) # None
                 /\ \/ call[c].token \in ServerKeys \ {None}
                    \/ call[c].token \in typed[call[c].browser]]_vars
    BY <1>1
<1> QED BY <1>2, SessionInvariance, PTL DEF Spec, WritesAreAuthorized

-----------------------------------------------------------------------------
(* What a step does to the calls, field by field. *)

\* A request, other than that of a load of the page.
Requested(c, b) ==
    /\ call[c].place = "idle"
    /\ \A d \in Calls \ {c} : call'[d] = call[d]
    /\ call'[c].browser = b /\ call'[c].listening = TRUE
    /\ call'[c].place = "frontend" /\ call'[c].sid = cookie[b]
    /\ call'[c].setCookie = Keep /\ call'[c].tab = FALSE
    /\ UNCHANGED <<cookie, page>>
    /\ \/ call'[c].op = "proxy" /\ UNCHANGED crossed
       \/ call'[c].op = "login" /\ page[b].controls = "sign in" /\ Crosses(b)
       \/ call'[c].op = "logout" /\ page[b].controls = "sign out" /\ Crosses(b)

LEMMA RequestFields ==
    ASSUME SessionInv, NEW c \in Calls, NEW b \in Browsers,
           SubmitLogin(c, b) \/ Logout(c, b) \/ Fetch(c, b)
    PROVE  Requested(c, b)
<1> USE DEF Requested
<1>1. call \in [Calls -> Call]
    BY DEF SessionInv, TypeOK
<1>2. CASE SubmitLogin(c, b)
    <2>1. PICK tok \in Tokens : Send(c, [Request(b, "login") EXCEPT !.token = tok])
        BY <1>2 DEF SubmitLogin
    <2>2. page[b].controls = "sign in" /\ Crosses(b)
        BY <1>2 DEF SubmitLogin
    <2> QED BY <1>1, <2>1, <2>2 DEF Send, Update, Request, Idle, browser
<1>3. CASE Logout(c, b)
    <2>1. Send(c, Request(b, "logout")) /\ page[b].controls = "sign out" /\ Crosses(b)
        BY <1>3 DEF Logout
    <2> QED BY <1>1, <2>1 DEF Send, Update, Request, Idle, browser
<1>4. CASE Fetch(c, b)
    <2>1. PICK own, req : Send(c, [Request(b, "proxy") EXCEPT !.own = own, !.req = req])
        BY <1>4 DEF Fetch
    <2>2. UNCHANGED crossed
        BY <1>4 DEF Fetch
    <2> QED BY <1>1, <2>1, <2>2 DEF Send, Update, Request, Idle, browser
<1> QED BY <1>2, <1>3, <1>4

\* What stays of a call whose answer nobody waits for any more.
Unheard(d) ==
    /\ call'[d].op = call[d].op /\ call'[d].browser = call[d].browser
    /\ call'[d].sid = call[d].sid /\ call'[d].setCookie = call[d].setCookie
    /\ call'[d].place = call[d].place /\ call'[d].listening = FALSE
    /\ call'[d].tab = call[d].tab

Reloaded(c, b) ==
    /\ call[c].place = "idle"
    /\ \A d \in Calls \ {c} :
         IF call[d].browser = b THEN Unheard(d) ELSE call'[d] = call[d]
    /\ call'[c].op = "me"
    /\ call'[c].browser = b /\ call'[c].listening = TRUE
    /\ call'[c].place = "frontend" /\ call'[c].sid = cookie[b]
    /\ call'[c].setCookie = Keep /\ call'[c].tab = FALSE
    /\ UNCHANGED cookie
    /\ \A a \in Browsers : page'[a] = IF a = b THEN Page(FALSE, FALSE) ELSE page[a]
    /\ \A a \in Browsers : a # b => crossed'[a] = crossed[a]
    /\ ~crossed'[b] => \A d \in Calls :
         AboutSession(d, b) => ~call[d].tab /\ call[d].place \notin {"frontend", "store"}

LEMMA ReloadFields ==
    ASSUME SessionInv, NEW c \in Calls, NEW b \in Browsers, Reload(c, b)
    PROVE  Reloaded(c, b)
<1> USE DEF Reloaded
<1>1. call \in [Calls -> Call]
    BY DEF SessionInv, TypeOK
<1>2. call'[c] = Request(b, "me") /\ call[c].place = "idle" /\ UNCHANGED cookie
    BY DEF Reload
<1>3. ASSUME NEW d \in Calls \ {c}
      PROVE  IF call[d].browser = b THEN Unheard(d) ELSE call'[d] = call[d]
    <2>1. call'[d] = IF call[d].browser = b THEN [call[d] EXCEPT !.listening = FALSE]
                     ELSE call[d]
        BY <1>3 DEF Reload
    <2>2. call[d] \in Call
        BY <1>1
    <2> QED BY <2>1, <2>2 DEF Unheard, Call
<1>4. \A a \in Browsers : page'[a] = IF a = b THEN Page(FALSE, FALSE) ELSE page[a]
    BY DEF Reload, SessionInv, TypeOK
<1>5. /\ \A a \in Browsers : a # b => crossed'[a] = crossed[a]
      /\ ~crossed'[b] => \A d \in Calls :
            AboutSession(d, b) => ~call[d].tab /\ call[d].place \notin {"frontend", "store"}
    BY DEF Reload, SessionInv, TypeOK
<1> QED BY <1>2, <1>3, <1>4, <1>5 DEF Request, Idle

\* A handler leaves the page, the browser and who waits for the call alone.
Handled(c) ==
    /\ \A d \in Calls \ {c} : call'[d] = call[d]
    /\ call'[c].op = call[c].op /\ call'[c].browser = call[c].browser
    /\ call'[c].sid = call[c].sid
    /\ ~LoginStore(c) => call'[c].setCookie \in {call[c].setCookie, NoSid, Keep}
    /\ call'[c].listening = call[c].listening /\ call'[c].tab = call[c].tab
    /\ call[c].place \in {"frontend", "store", "api"}
    /\ \/ call'[c].place = "store" /\ call[c].place = "frontend"
       \/ call'[c].place \in {"api", "answer"}
    /\ call[c].op = "proxy" =>
         call'[c].setCookie = call[c].setCookie /\ sessions' = sessions
    /\ UNCHANGED <<apiKey, cookie, page, crossed>>
    /\ faults' = 0 => faults = 0

LEMMA HandleFields ==
    ASSUME SessionInv, NEW c \in Calls, ServerHandles(c)
    PROVE  Handled(c)
<1> USE DEF Handled
<1>0. /\ \A d \in Calls \ {c} : call'[d] = call[d]
      /\ call'[c].op = call[c].op /\ call'[c].browser = call[c].browser
      /\ call'[c].sid = call[c].sid
      /\ ~LoginStore(c) => call'[c].setCookie \in {call[c].setCookie, NoSid, Keep}
    BY HandlesOne
<1>1. call \in [Calls -> Call] /\ call[c] \in Call /\ faults \in Nat
    BY DEF SessionInv, TypeOK
<1>2. UNCHANGED <<apiKey, cookie, page, crossed>>
    BY DEF ServerHandles, browser, LoginValidate, LoginStore, HandleLogout, HandleMe,
        HandleProxy, Serve, server
<1>3. faults' = 0 => faults = 0
    <2>1. faults' = faults \/ Fault
        BY DEF ServerHandles, LoginValidate, LoginStore, HandleLogout, HandleMe,
            HandleProxy, Serve
    <2>2. Fault => faults' # 0
        BY <1>1 DEF Fault
    <2> QED BY <2>1, <2>2
<1>4. ASSUME NEW answer, NEW set, Reply(c, answer, set)
      PROVE  /\ call'[c].listening = call[c].listening /\ call'[c].tab = call[c].tab
             /\ call'[c].place = "answer"
    BY <1>1, <1>4 DEF Reply, Update, Call
<1>5. CASE LoginValidate(c)
    <2>1. call[c].op = "login" /\ call[c].place = "frontend"
        BY <1>5 DEF LoginValidate
    <2>2. CASE Move(c, "store")
        BY <1>0, <1>1, <1>2, <1>3, <2>1, <2>2 DEF Move, Update, Call
    <2>3. CASE \E answer : Reply(c, answer, Keep)
        BY <1>0, <1>2, <1>3, <1>4, <2>1, <2>3
    <2> QED BY <1>5, <2>2, <2>3 DEF LoginValidate
<1>6. CASE LoginStore(c) \/ HandleLogout(c) \/ HandleMe(c)
    <2>1. call[c].op # "proxy" /\ call[c].place \in {"frontend", "store"}
        BY <1>6 DEF LoginStore, HandleLogout, HandleMe
    <2>2. PICK answer, set : Reply(c, answer, set)
        BY <1>6 DEF LoginStore, HandleLogout, HandleMe
    <2> QED BY <1>0, <1>2, <1>3, <1>4, <2>1, <2>2
<1>7. CASE HandleProxy(c)
    <2>1. call[c].place = "frontend" /\ UNCHANGED sessions
          /\ Update(c, [call[c] EXCEPT !.place = "api", !.token = Forwarded(c)])
        BY <1>7 DEF HandleProxy, server
    <2> QED BY <1>0, <1>1, <1>2, <1>3, <2>1 DEF Update, Call
<1>8. CASE Serve(c)
    <2>1. PICK ran, answer :
            Update(c, [call[c] EXCEPT !.place = "answer", !.executed = ran,
                                      !.answer = answer])
        BY <1>8 DEF Serve
    <2>2. call[c].place = "api" /\ UNCHANGED sessions
        BY <1>8 DEF Serve, server
    <2> QED BY <1>0, <1>1, <1>2, <1>3, <2>1, <2>2 DEF Update, Call
<1> QED BY <1>5, <1>6, <1>7, <1>8 DEF ServerHandles

\* The browser that receives keeps what the answer says, and the rest alone.
Received(c) ==
    /\ \A d \in Calls \ {c} : call'[d] = call[d]
    /\ call'[c].op = call[c].op /\ call'[c].browser = call[c].browser
    /\ call'[c].sid = call[c].sid /\ call'[c].setCookie = call[c].setCookie
    /\ call'[c].answer = call[c].answer /\ call'[c].tab = call[c].tab
    /\ call[c].listening = TRUE /\ call[c].browser \in Browsers
    /\ \/ Deliver(c) /\ call'[c].place = "script" /\ call'[c].listening = TRUE
       \/ /\ RunScript(c) /\ RendersLater(c)
          /\ call'[c].place = "render" /\ call'[c].listening = TRUE
       \/ /\ RunScript(c) /\ ~RendersLater(c)
          /\ call'[c].place = "over" /\ call'[c].listening = FALSE
       \/ Lose(c) /\ call'[c].place = call[c].place /\ call'[c].listening = FALSE
       \/ Render(c) /\ call'[c].place = "over" /\ call'[c].listening = FALSE
    /\ UNCHANGED <<apiKey, sessions, crossed>>
    /\ faults' = 0 => faults = 0
    /\ \A a \in Browsers : a # call[c].browser
         => page'[a] = page[a] /\ cookie'[a] = cookie[a]

LEMMA ReceiveFields ==
    ASSUME SessionInv, NEW c \in Calls, BrowserReceives(c)
    PROVE  Received(c)
<1> USE DEF Received
<1>1. call \in [Calls -> Call] /\ call[c] \in Call /\ faults \in Nat
    BY DEF SessionInv, TypeOK
<1>2. call[c].listening = TRUE /\ call[c].browser \in Browsers
    BY <1>1 DEF BrowserReceives, Deliver, SetCookie, RunScript, Lose, Render, Call
<1>3. UNCHANGED <<apiKey, sessions, crossed>>
    BY DEF BrowserReceives, server, history
<1>4. faults' = 0 => faults = 0
    BY <1>1 DEF BrowserReceives, Deliver, SetCookie, RunScript, Lose, Render, Fault
<1>5. \A a \in Browsers : a # call[c].browser
         => page'[a] = page[a] /\ cookie'[a] = cookie[a]
    BY DEF BrowserReceives, Deliver, SetCookie, RunScript, Lose, Render, SessionInv, TypeOK
<1> DEFINE Same(k) ==
              /\ k.op = call[c].op /\ k.browser = call[c].browser
              /\ k.sid = call[c].sid /\ k.setCookie = call[c].setCookie
              /\ k.answer = call[c].answer /\ k.tab = call[c].tab
<1>6. ASSUME NEW place, Move(c, place)
      PROVE  /\ \A d \in Calls \ {c} : call'[d] = call[d]
             /\ Same(call'[c]) /\ call'[c].place = place /\ call'[c].listening = TRUE
    BY <1>1, <1>2, <1>6 DEF Move, Update, Call
<1>7. ASSUME Over(c)
      PROVE  /\ \A d \in Calls \ {c} : call'[d] = call[d]
             /\ Same(call'[c]) /\ call'[c].place = "over" /\ call'[c].listening = FALSE
    BY <1>1, <1>7 DEF Over, Update, Call
<1>8. ASSUME Lose(c)
      PROVE  /\ \A d \in Calls \ {c} : call'[d] = call[d]
             /\ Same(call'[c]) /\ call'[c].place = call[c].place
             /\ call'[c].listening = FALSE
    <2>1. Update(c, [call[c] EXCEPT !.listening = FALSE])
        BY <1>8 DEF Lose
    <2> QED BY <1>1, <2>1 DEF Update, Call
<1> HIDE DEF Same
<1>9. /\ \A d \in Calls \ {c} : call'[d] = call[d]
      /\ Same(call'[c])
      /\ \/ Deliver(c) /\ call'[c].place = "script" /\ call'[c].listening = TRUE
         \/ /\ RunScript(c) /\ RendersLater(c)
            /\ call'[c].place = "render" /\ call'[c].listening = TRUE
         \/ /\ RunScript(c) /\ ~RendersLater(c)
            /\ call'[c].place = "over" /\ call'[c].listening = FALSE
         \/ Lose(c) /\ call'[c].place = call[c].place /\ call'[c].listening = FALSE
         \/ Render(c) /\ call'[c].place = "over" /\ call'[c].listening = FALSE
    <2>1. CASE Deliver(c)
        BY <1>6, <2>1 DEF Deliver
    <2>2. CASE RunScript(c) /\ RendersLater(c)
        BY <1>6, <2>2 DEF RunScript
    <2>3. CASE RunScript(c) /\ ~RendersLater(c)
        BY <1>7, <2>3 DEF RunScript
    <2>4. CASE Lose(c)
        BY <1>8, <2>4
    <2>5. CASE Render(c)
        BY <1>7, <2>5 DEF Render
    <2> QED BY <2>1, <2>2, <2>3, <2>4, <2>5 DEF BrowserReceives
<1> QED BY <1>2, <1>3, <1>4, <1>5, <1>9 DEF Same

\* The script renders later or ends.
LEMMA ScriptFields ==
    ASSUME SessionInv, NEW c \in Calls, RunScript(c)
    PROVE  IF RendersLater(c)
           THEN call'[c].place = "render" /\ call'[c].listening = TRUE
           ELSE call'[c].place = "over" /\ call'[c].listening = FALSE
<1>1. call \in [Calls -> Call] /\ call[c] \in Call /\ call[c].listening = TRUE
    BY DEF SessionInv, TypeOK, RunScript, Call
<1>2. CASE RendersLater(c)
    <2>1. Update(c, [call[c] EXCEPT !.place = "render"])
        BY <1>2 DEF RunScript, Move
    <2> QED BY <1>1, <1>2, <2>1 DEF Update, Call
<1>3. CASE ~RendersLater(c)
    <2>1. Update(c, [call[c] EXCEPT !.place = "over", !.listening = FALSE])
        BY <1>3 DEF RunScript, Over
    <2> QED BY <1>1, <1>3, <2>1 DEF Update, Call
<1> QED BY <1>2, <1>3

\* A restart of the frontend server cuts the calls it has off.
CutOff(d) ==
    /\ call'[d].op = call[d].op /\ call'[d].browser = call[d].browser
    /\ call'[d].sid = call[d].sid /\ call'[d].setCookie = call[d].setCookie
    /\ call'[d].listening = call[d].listening /\ call'[d].tab = call[d].tab
    /\ call'[d].place = "render" <=> call[d].place = "render"

LEMMA RestartFields ==
    ASSUME SessionInv, RestartFrontend, NEW d \in Calls
    PROVE  CutOff(d)
<1> USE DEF CutOff
<1>1. call[d] \in Call
    BY DEF SessionInv, TypeOK
<1>2. PICK ran :
        call'[d] = IF call[d].place \in InServer
                   THEN [call[d] EXCEPT !.place = "cut", !.executed = ran]
                   ELSE call[d]
    BY DEF RestartFrontend
<1>3. CASE call[d].place \in InServer
    BY <1>1, <1>2, <1>3 DEF Call, InServer
<1>4. CASE call[d].place \notin InServer
    BY <1>2, <1>4
<1> QED BY <1>3, <1>4

\* Another tab of b sends its call, or takes the answer of one that is under way.
Tabbed(c, b) ==
    /\ \A d \in Calls \ {c} : call'[d] = call[d]
    /\ call'[c].op # "proxy" /\ call'[c].browser = b
    /\ \/ /\ call[c].place = "idle" /\ call'[c].place = "frontend"
          /\ call'[c].listening = FALSE
          /\ call'[c].sid = cookie[b] /\ call'[c].setCookie = Keep
          /\ UNCHANGED cookie
       \/ /\ call'[c].op = call[c].op /\ call[c].browser = b
          /\ call'[c].sid = call[c].sid /\ call'[c].setCookie = call[c].setCookie
          /\ call'[c].place = call[c].place /\ call'[c].listening = call[c].listening
          /\ cookie'[b] \in {cookie[b], call[c].setCookie}
    /\ \A a \in Browsers : a # b => cookie'[a] = cookie[a] /\ crossed'[a] = crossed[a]
    /\ crossed'[b] = TRUE
    /\ UNCHANGED <<apiKey, sessions, page>>
    /\ faults' = 0 => faults = 0

LEMMA TabFields ==
    ASSUME SessionInv, LoginInv, OtherTabs
    PROVE  \E c \in Calls, b \in Browsers : Tabbed(c, b)
<1> USE DEF Tabbed
<1>1. /\ call \in [Calls -> Call] /\ faults \in Nat
      /\ crossed \in [Browsers -> BOOLEAN] /\ cookie \in [Browsers -> Sids \union {NoSid}]
      /\ UNCHANGED <<apiKey, sessions>>
    BY DEF SessionInv, TypeOK, OtherTabs, server
<1>2. ASSUME NEW c \in Calls, TabReceives(c)
      PROVE  Tabbed(c, call[c].browser)
    <2>1. call[c] \in Call /\ call[c].browser \in Browsers
        BY <1>1 DEF Call
    <2>2. call[c].op # "proxy" /\ crossed[call[c].browser] = TRUE
        BY <1>1, <1>2, <2>1 DEF LoginInv, TabsCross, TabReceives
    <2>3. UNCHANGED <<page, crossed>> /\ (faults' = 0 => faults = 0)
        BY <1>1, <1>2 DEF TabReceives, Fault, history
    <2>4. /\ cookie'[call[c].browser] \in {cookie[call[c].browser], call[c].setCookie}
          /\ \A a \in Browsers : a # call[c].browser => cookie'[a] = cookie[a]
        BY <1>1, <1>2, <2>1 DEF TabReceives, SetCookie
    <2>5. call' = [call EXCEPT ![c] = [call[c] EXCEPT !.tab = FALSE]]
        BY <1>2 DEF TabReceives, Update
    <2>6. /\ \A d \in Calls \ {c} : call'[d] = call[d]
          /\ call'[c] = [call[c] EXCEPT !.tab = FALSE]
        BY <1>1, <2>5
    <2>7. /\ call'[c].op = call[c].op /\ call'[c].browser = call[c].browser
          /\ call'[c].sid = call[c].sid /\ call'[c].setCookie = call[c].setCookie
          /\ call'[c].place = call[c].place /\ call'[c].listening = call[c].listening
        BY <2>1, <2>6 DEF Call
    <2> QED BY <1>1, <2>2, <2>3, <2>4, <2>6, <2>7
<1>3. ASSUME NEW c \in Calls, NEW b \in Browsers, TabSends(c, b)
      PROVE  Tabbed(c, b)
    <2>1. /\ UNCHANGED <<cookie, page, faults>> /\ call[c].place = "idle"
          /\ crossed' = [crossed EXCEPT ![b] = TRUE]
        BY <1>3 DEF TabSends, Send, browser
    <2>2. /\ call'[c].op # "proxy" /\ call'[c].browser = b
          /\ call'[c].place = "frontend" /\ call'[c].listening = FALSE
          /\ call'[c].sid = cookie[b] /\ call'[c].setCookie = Keep
          /\ \A d \in Calls \ {c} : call'[d] = call[d]
        <3>1. \/ Update(c, FromTab(b, "logout"))
              \/ \E tok : Update(c, [FromTab(b, "login") EXCEPT !.token = tok])
            BY <1>3 DEF TabSends, Send
        <3>2. CASE Update(c, FromTab(b, "logout"))
            BY <1>1, <3>2 DEF Update, FromTab, Request, Idle
        <3>3. ASSUME NEW tok, Update(c, [FromTab(b, "login") EXCEPT !.token = tok])
              PROVE  <2>2!:
            BY <1>1, <3>3 DEF Update, FromTab, Request, Idle
        <3> QED BY <3>1, <3>2, <3>3
    <2> QED BY <1>1, <2>1, <2>2
<1> QED
    <2>1. PICK c \in Calls : TabReceives(c) \/ \E b \in Browsers : TabSends(c, b)
        BY DEF OtherTabs
    <2>2. call[c].browser \in Browsers
        BY <1>1 DEF Call
    <2> HIDE DEF Tabbed
    <2> QED BY <1>2, <1>3, <2>1, <2>2

-----------------------------------------------------------------------------
(* What the pages know: LoginInv. *)

LEMMA PageInit == Init => LoginInv
<1> SUFFICES ASSUME Init PROVE LoginInv
    OBVIOUS
<1>1. \A c \in Calls : /\ call[c].op = "me" /\ call[c].listening = FALSE
                       /\ call[c].place = "idle" /\ call[c].sid = NoSid
                       /\ call[c].setCookie = Keep /\ call[c].tab = FALSE
    BY DEF Init, Idle
<1>2. LoadsAlone /\ ProxyKeeps /\ TabsCross
    BY <1>1 DEF LoadsAlone, ProxyKeeps, TabsCross
<1>3. SidsStayHome
    BY <1>1, SessionAssumption DEF SidsStayHome, Holds, Init
<1>4. ASSUME NEW b \in Browsers
      PROVE  ControlsLag(b)
    BY DEF Init, ControlsLag, Page
<1>5. ASSUME NEW b \in Browsers, MultiUser
      PROVE  Settling(b)
    <2>1. ~HasSession(b)
        BY DEF Init, HasSession, NoSessions
    <2>2. page[b].auth = FALSE
        BY <1>5 DEF Init, Page
    <2> QED BY <1>1, <2>1, <2>2 DEF Settling, Agrees, Open
<1> QED BY <1>2, <1>3, <1>4, <1>5 DEF LoginInv

Pages == [auth : BOOLEAN, multi : BOOLEAN, controls : {"none", "sign in", "sign out"}]

\* What a script makes of the page.
LEMMA AfterCallSame ==
    ASSUME NEW p \in Pages, NEW answer
    PROVE  /\ AfterCall(p, "proxy", answer) = p
           /\ answer # "ok" => AfterCall(p, "login", answer) = p
<1>1. AfterCall(p, "proxy", answer) = p
    BY DEF AfterCall
<1>2. \A x : AfterCall(p, "login", x) = [p EXCEPT !.auth = @ \/ x = "ok"]
    BY DEF AfterCall
<1>3. p = [p EXCEPT !.auth = p.auth] /\ p.auth \in BOOLEAN
    BY DEF Pages
<1>4. answer # "ok" => (p.auth \/ answer = "ok") = p.auth
    BY <1>3
<1> QED BY <1>1, <1>2, <1>3, <1>4

LEMMA AfterLogin ==
    ASSUME NEW p \in Pages, NEW answer
    PROVE  /\ AfterCall(p, "logout", answer) = Page(FALSE, p.multi)
           /\ AfterCall(p, "login", "ok").auth
BY DEF AfterCall, Pages

LEMMA AfterMe ==
    ASSUME NEW p \in Pages, NEW answer
    PROVE  /\ AfterCall(p, "me", answer).controls = p.controls
           /\ AfterCall(p, "me", answer).auth <=> answer \in {"in", "single key"}
           /\ AfterCall(p, "me", answer).multi <=> answer \in {"in", "out"}
<1>1. PICK x, y \in BOOLEAN :
        /\ AfterCall(p, "me", answer) = [p EXCEPT !.auth = x, !.multi = y]
        /\ x <=> answer \in {"in", "single key"}
        /\ y <=> answer \in {"in", "out"}
    <2> DEFINE auth == answer \in {"in", "single key"}
               multi == answer \in {"in", "out"}
    <2>1. AfterCall(p, "me", answer) = [p EXCEPT !.auth = auth, !.multi = multi]
        BY DEF AfterCall
    <2>2. auth \in BOOLEAN /\ multi \in BOOLEAN
        OBVIOUS
    <2> QED BY <2>1, <2>2
<1>2. /\ AfterCall(p, "me", answer).auth = x
      /\ AfterCall(p, "me", answer).multi = y
      /\ AfterCall(p, "me", answer).controls = p.controls
    BY <1>1 DEF Pages
<1> QED BY <1>1, <1>2

\* Nothing but a load of the page starts while the page is loaded, and nothing
\* else runs its script then.
LEMMA LoadsAloneStep ==
    ASSUME SessionInv, LoginInv, Next
    PROVE  LoadsAlone'
<1> SUFFICES ASSUME NEW m \in Calls, call'[m].op = "me", call'[m].listening
             PROVE  Alone(m, call[m].browser)'
    BY DEF LoadsAlone
<1>0. \A c \in Calls : /\ call[c].browser \in Browsers
                       /\ call[c].op \in {"login", "logout", "me", "proxy"}
    BY DEF SessionInv, TypeOK, Call
<1>a. \A c \in Calls : call[c].op = "me" /\ call[c].listening => Alone(c, call[c].browser)
    BY DEF LoginInv, LoadsAlone
<1>1. ASSUME NEW c \in Calls, NEW b \in Browsers,
             SubmitLogin(c, b) \/ Logout(c, b) \/ Fetch(c, b)
      PROVE  Alone(m, call[m].browser)'
    <2>1. Requested(c, b)
        BY <1>1, RequestFields
    <2>2. m # c /\ call'[m] = call[m] /\ Alone(m, call[m].browser) /\ page' = page
        BY <1>a, <2>1 DEF Requested
    <2>3. \A d \in Calls \ {c} : call'[d] = call[d]
        BY <2>1 DEF Requested
    <2>4. call'[c].op = "proxy" \/ call[m].browser # b
        BY <2>1, <2>2 DEF Requested, Alone
    <2>5. call'[c].browser = b
        BY <2>1 DEF Requested
    <2> QED BY <2>2, <2>3, <2>4, <2>5 DEF Alone, AboutSession
<1>2. ASSUME NEW c \in Calls, NEW b \in Browsers, Reload(c, b)
      PROVE  Alone(m, call[m].browser)'
    <2>1. Reloaded(c, b)
        BY <1>2, ReloadFields
    <2>2. Page(FALSE, FALSE).controls = "none"
        BY DEF Page, Shown
    <2>3. CASE m = c
        BY <2>1, <2>2, <2>3 DEF Reloaded, Unheard, Alone, AboutSession
    <2>4. CASE m # c
        <3>1. call'[m] = call[m] /\ call[m].browser # b
            BY <2>1, <2>4 DEF Reloaded, Unheard
        <3>2. Alone(m, call[m].browser)
            BY <1>a, <3>1
        <3>3. page'[call[m].browser] = page[call[m].browser]
            BY <1>0, <2>1, <3>1 DEF Reloaded
        <3>4. \A d \in Calls : AboutSession(d, call[m].browser)' =>
                AboutSession(d, call[m].browser) /\ call'[d] = call[d]
            BY <2>1, <3>1 DEF Reloaded, Unheard, AboutSession
        <3> QED BY <3>1, <3>2, <3>3, <3>4 DEF Alone
    <2> QED BY <2>3, <2>4
<1>3. ASSUME NEW c \in Calls, ServerHandles(c)
      PROVE  Alone(m, call[m].browser)'
    <2>1. Handled(c)
        BY <1>3, HandleFields
    <2>2. \A d \in Calls : /\ call'[d].op = call[d].op
                           /\ call'[d].browser = call[d].browser
                           /\ call'[d].listening = call[d].listening
                           /\ call'[d].place # "render" => call[d].place # "render"
        BY <2>1 DEF Handled
    <2>3. page' = page
        BY <2>1 DEF Handled
    <2>4. Alone(m, call[m].browser)
        BY <1>a, <2>2
    <2>5. \A d \in Calls \ {m} : AboutSession(d, call[m].browser)' => ~call'[d].listening
        BY <2>2, <2>4 DEF Alone, AboutSession
    <2> QED BY <2>2, <2>3, <2>4, <2>5 DEF Alone
<1>4. ASSUME NEW c \in Calls, BrowserReceives(c)
      PROVE  Alone(m, call[m].browser)'
    <2>1. Received(c)
        BY <1>4, ReceiveFields
    <2>2. \A d \in Calls : /\ call'[d].op = call[d].op
                           /\ call'[d].browser = call[d].browser
                           /\ call'[d].listening => call[d].listening
        BY <2>1 DEF Received
    <2>3. Alone(m, call[m].browser)
        BY <1>a, <2>2
    <2>4. \A d \in Calls \ {m} : AboutSession(d, call[m].browser)' => ~call'[d].listening
        BY <2>2, <2>3 DEF Alone, AboutSession
    <2>5. ASSUME c # m, call[c].op = "proxy"
          PROVE  page'[call[m].browser] = page[call[m].browser]
        <3>1. CASE call[c].browser # call[m].browser
            BY <1>0, <2>1, <3>1 DEF Received
        <3>2. CASE call[c].browser = call[m].browser
            <4>1. ~Render(c)
                BY <2>5 DEF Render, LoginInv, ProxyKeeps
            <4>2. \A p, answer : AfterCall(p, "proxy", answer) = p
                BY DEF AfterCall
            <4>3. page' = page \/ page' = [page EXCEPT ![call[c].browser] = @]
                BY <1>4, <2>5, <4>1, <4>2 DEF BrowserReceives, Deliver, SetCookie, RunScript, Lose
            <4> QED BY <4>3 DEF SessionInv, TypeOK
        <3> QED BY <3>1, <3>2
    <2>6. CASE c # m
        <3>1. page'[call[m].browser] = page[call[m].browser]
            <4>1. CASE call[c].op # "proxy"
                <5>1. call[c].browser # call[m].browser
                    BY <2>1, <2>3, <2>6, <4>1 DEF Alone, AboutSession, Received
                <5> QED BY <1>0, <2>1, <5>1 DEF Received
            <4> QED BY <2>5, <2>6, <4>1
        <3>2. call'[m] = call[m]
            BY <2>1, <2>6 DEF Received
        <3> QED BY <2>2, <2>3, <2>4, <3>1, <3>2 DEF Alone
    <2>7. CASE c = m
        <3> DEFINE b == call[m].browser
        <3>1. \/ Deliver(m) /\ call[m].place # "render"
              \/ RunScript(m) /\ call'[m].place = "render" /\ call[m].place # "render"
            BY <2>1, <2>7 DEF Received, Deliver, SetCookie, RunScript
        <3>2. CASE Deliver(m)
            <4>1. page' = page
                BY <3>2 DEF Deliver
            <4> QED BY <2>2, <2>3, <2>4, <3>1, <4>1 DEF Alone, Deliver, SetCookie
        <3>3. CASE RunScript(m) /\ call'[m].place = "render"
            <4>1. page'[b] = AfterCall(page[b], "me", call[m].answer)
                BY <1>0, <2>2, <3>3 DEF RunScript, SessionInv, TypeOK
            <4>2. page[b] \in Pages
                BY <1>0 DEF SessionInv, TypeOK, Pages
            <4>3. page'[b].controls = page[b].controls
                <5>1. AfterCall(page[b], "me", call[m].answer).controls = page[b].controls
                    BY <4>2, AfterMe
                <5> QED BY <4>1, <5>1
            <4> QED BY <2>2, <2>3, <2>4, <3>3, <4>3 DEF Alone
        <3> QED BY <3>1, <3>2, <3>3
    <2> QED BY <2>6, <2>7
<1>5. CASE RestartFrontend
    <2>1. UNCHANGED page
        BY <1>5 DEF RestartFrontend, browser
    <2>2. \A d \in Calls : CutOff(d)
        BY <1>5, RestartFields
    <2>3. Alone(m, call[m].browser)
        BY <1>a, <2>2 DEF CutOff
    <2>4. \A d \in Calls \ {m} : AboutSession(d, call[m].browser)' => ~call'[d].listening
        BY <2>2, <2>3 DEF CutOff, Alone, AboutSession
    <2> QED BY <2>1, <2>2, <2>3, <2>4 DEF CutOff, Alone
<1>6. CASE RestartApi
    <2>1. UNCHANGED <<call, page>>
        BY <1>6 DEF RestartApi, browser
    <2> QED BY <1>a, <2>1 DEF Alone, AboutSession
<1>7. ASSUME NEW c \in Calls, NEW b \in Browsers, Tabbed(c, b)
      PROVE  Alone(m, call[m].browser)'
    <2>1. /\ call'[m].op = call[m].op /\ call'[m].browser = call[m].browser
          /\ call'[m].listening = call[m].listening /\ call'[m].place = call[m].place
          /\ page' = page
        BY <1>7 DEF Tabbed
    <2>2. Alone(m, call[m].browser)
        BY <1>a, <2>1
    <2>3. \A d \in Calls \ {m} : AboutSession(d, call[m].browser)' => ~call'[d].listening
        BY <1>7, <2>2 DEF Tabbed, Alone, AboutSession
    <2> QED BY <2>1, <2>2, <2>3 DEF Alone
<1> QED BY <1>1, <1>2, <1>3, <1>4, <1>5, <1>6, <1>7, TabFields DEF Next, BrowserSends

LEMMA ProxyKeepsStep ==
    ASSUME SessionInv, LoginInv, Next
    PROVE  ProxyKeeps'
<1>0. ProxyKeeps
    BY DEF LoginInv
<1>1. ASSUME NEW c \in Calls, NEW b \in Browsers,
             SubmitLogin(c, b) \/ Logout(c, b) \/ Fetch(c, b)
      PROVE  ProxyKeeps'
    <2>1. Requested(c, b)
        BY <1>1, RequestFields
    <2> QED BY <1>0, <2>1 DEF Requested, ProxyKeeps
<1>2. ASSUME NEW c \in Calls, NEW b \in Browsers, Reload(c, b)
      PROVE  ProxyKeeps'
    <2>1. Reloaded(c, b)
        BY <1>2, ReloadFields
    <2> QED BY <1>0, <2>1 DEF Reloaded, ProxyKeeps, Unheard
<1>3. ASSUME NEW c \in Calls, ServerHandles(c)
      PROVE  ProxyKeeps'
    <2>1. Handled(c)
        BY <1>3, HandleFields
    <2> QED BY <1>0, <2>1 DEF Handled, ProxyKeeps
<1>4. ASSUME NEW c \in Calls, BrowserReceives(c)
      PROVE  ProxyKeeps'
    <2>1. Received(c)
        BY <1>4, ReceiveFields
    <2> QED BY <1>0, <2>1 DEF Received, ProxyKeeps, RendersLater
<1>5. CASE RestartFrontend
    <2>1. \A d \in Calls : CutOff(d)
        BY <1>5, RestartFields
    <2> QED BY <1>0, <2>1 DEF CutOff, ProxyKeeps
<1>6. CASE RestartApi
    BY <1>0, <1>6 DEF RestartApi, ProxyKeeps
<1>7. ASSUME NEW c \in Calls, NEW b \in Browsers, Tabbed(c, b)
      PROVE  ProxyKeeps'
    BY <1>0, <1>7 DEF Tabbed, ProxyKeeps
<1> QED BY <1>1, <1>2, <1>3, <1>4, <1>5, <1>6, <1>7, TabFields DEF Next, BrowserSends

LEMMA TabsCrossStep ==
    ASSUME SessionInv, LoginInv, Next
    PROVE  TabsCross'
<1>0. /\ TabsCross /\ crossed \in [Browsers -> BOOLEAN]
      /\ \A c \in Calls : call[c].browser \in Browsers
    BY DEF LoginInv, SessionInv, TypeOK, Call
<1>1. ASSUME NEW c \in Calls, NEW b \in Browsers,
             SubmitLogin(c, b) \/ Logout(c, b) \/ Fetch(c, b)
      PROVE  TabsCross'
    <2>1. Requested(c, b)
        BY <1>1, RequestFields
    <2>2. \A a \in Browsers : crossed[a] => crossed'[a]
        BY <1>0, <2>1 DEF Requested, Crosses
    <2> QED BY <1>0, <2>1, <2>2 DEF Requested, TabsCross
<1>2. ASSUME NEW c \in Calls, NEW b \in Browsers, Reload(c, b)
      PROVE  TabsCross'
    <2>1. Reloaded(c, b)
        BY <1>2, ReloadFields
    <2> QED BY <1>0, <2>1 DEF Reloaded, Unheard, AboutSession, TabsCross
<1>3. ASSUME NEW c \in Calls, ServerHandles(c)
      PROVE  TabsCross'
    <2>1. Handled(c)
        BY <1>3, HandleFields
    <2> QED BY <1>0, <2>1 DEF Handled, TabsCross
<1>4. ASSUME NEW c \in Calls, BrowserReceives(c)
      PROVE  TabsCross'
    <2>1. Received(c)
        BY <1>4, ReceiveFields
    <2> QED BY <1>0, <2>1 DEF Received, TabsCross
<1>5. CASE RestartFrontend
    <2>1. \A d \in Calls : CutOff(d)
        BY <1>5, RestartFields
    <2>2. crossed' = [b \in Browsers |-> TRUE]
        BY <1>5 DEF RestartFrontend
    <2> QED BY <1>0, <2>1, <2>2 DEF CutOff, TabsCross
<1>6. CASE RestartApi
    BY <1>0, <1>6 DEF RestartApi, history, TabsCross
<1>7. ASSUME NEW c \in Calls, NEW b \in Browsers, Tabbed(c, b)
      PROVE  TabsCross'
    BY <1>0, <1>7 DEF Tabbed, TabsCross
<1> QED BY <1>1, <1>2, <1>3, <1>4, <1>5, <1>6, <1>7, TabFields DEF Next, BrowserSends

\* Only a login gives a browser a session, and it draws one that nobody had.
LEMMA SidsStayHomeStep ==
    ASSUME SessionInv, LoginInv, Next
    PROVE  SidsStayHome'
<1>0. /\ call \in [Calls -> Call] /\ \A c \in Calls : call[c].browser \in Browsers
      /\ NoSid \notin Sids /\ Keep \notin Sids
      /\ SidsStayHome
    BY SessionAssumption DEF SessionInv, TypeOK, Call, LoginInv
<1> DEFINE NobodyGains == \A a \in Browsers, s \in Sids : Holds(a, s)' => Holds(a, s)
<1>a. NobodyGains => SidsStayHome'
    BY <1>0 DEF SidsStayHome
<1> HIDE DEF NobodyGains
<1>1. ASSUME NEW c \in Calls, NEW b \in Browsers,
             SubmitLogin(c, b) \/ Logout(c, b) \/ Fetch(c, b)
      PROVE  NobodyGains
    <2>1. Requested(c, b)
        BY <1>1, RequestFields
    <2>2. /\ UNCHANGED cookie
          /\ call'[c].browser = b /\ call'[c].sid = cookie[b] /\ call'[c].setCookie = Keep
          /\ \A d \in Calls \ {c} : call'[d] = call[d]
        BY <2>1 DEF Requested
    <2>3. ASSUME NEW a \in Browsers, NEW s \in Sids, Holds(a, s)'
          PROVE  Holds(a, s)
        BY <1>0, <2>2, <2>3 DEF Holds
    <2> QED BY <2>3 DEF NobodyGains
<1>2. ASSUME NEW c \in Calls, NEW b \in Browsers, Reload(c, b)
      PROVE  NobodyGains
    <2>1. Reloaded(c, b)
        BY <1>2, ReloadFields
    <2> QED BY <1>0, <2>1 DEF Reloaded, NobodyGains, Holds, Unheard
<1>3. ASSUME NEW c \in Calls, ServerHandles(c), ~LoginStore(c)
      PROVE  NobodyGains
    <2>1. Handled(c)
        BY <1>3, HandleFields
    <2>2. \A d \in Calls, s \in Sids : /\ call'[d].browser = call[d].browser
                                       /\ call'[d].sid = call[d].sid
                                       /\ s = call'[d].setCookie => s = call[d].setCookie
        BY <1>0, <1>3, <2>1 DEF Handled
    <2>3. UNCHANGED cookie
        BY <2>1 DEF Handled
    <2> QED BY <2>2, <2>3 DEF NobodyGains, Holds
<1>4. ASSUME NEW c \in Calls, ServerHandles(c), LoginStore(c)
      PROVE  SidsStayHome'
    <2>1. PICK s \in Sids \ used : Reply(c, "ok", s)
        BY <1>4 DEF LoginStore
    <2>2. call'[c].setCookie = s
        BY <1>0, <2>1 DEF Reply, Update, Call
    <2>3. \A a \in Browsers, t \in Sids :
            Holds(a, t)' => Holds(a, t) \/ (t = s /\ a = call[c].browser)
        <3>1. Handled(c)
            BY <1>4, HandleFields
        <3> QED BY <1>0, <2>2, <3>1 DEF Handled, Holds
    <2>4. \A a \in Browsers : ~Holds(a, s)
        BY <1>0 DEF SessionInv, SidsAreDrawn, Holds
    <2> QED BY <1>0, <2>3, <2>4 DEF SidsStayHome
<1>5. ASSUME NEW c \in Calls, BrowserReceives(c)
      PROVE  NobodyGains
    <2>1. cookie'[call[c].browser] \in {cookie[call[c].browser], call[c].setCookie}
        BY <1>0, <1>5 DEF BrowserReceives, Deliver, SetCookie, RunScript, Lose, Render,
            SessionInv, TypeOK
    <2>2. Received(c)
        BY <1>5, ReceiveFields
    <2> QED BY <1>0, <2>1, <2>2 DEF Received, NobodyGains, Holds
<1>6. CASE RestartFrontend
    <2>1. UNCHANGED cookie
        BY <1>6 DEF RestartFrontend, browser
    <2>2. NobodyGains
        <3>1. \A d \in Calls : CutOff(d)
            BY <1>6, RestartFields
        <3> QED BY <2>1, <3>1 DEF CutOff, NobodyGains, Holds
    <2> QED BY <1>a, <2>2
<1>7. CASE RestartApi
    <2>1. NobodyGains
        BY <1>7 DEF RestartApi, browser, NobodyGains, Holds
    <2> QED BY <1>a, <2>1
<1>8. ASSUME NEW c \in Calls, NEW b \in Browsers, Tabbed(c, b)
      PROVE  NobodyGains
    BY <1>0, <1>8 DEF Tabbed, NobodyGains, Holds
<1> QED BY <1>a, <1>1, <1>2, <1>3, <1>4, <1>5, <1>6, <1>7, <1>8, TabFields
    DEF Next, BrowserSends

\* Whoever changes what the page takes for true renders it then or later.
LEMMA ControlsLagStep ==
    ASSUME SessionInv, LoginInv, Next, NEW b \in Browsers
    PROVE  ControlsLag(b)'
<1>0. /\ \A c \in Calls : /\ call[c].browser \in Browsers
                          /\ call[c].op \in {"login", "logout", "me", "proxy"}
      /\ page[b] \in Pages
      /\ LoadsAlone /\ ControlsLag(b)
    BY DEF SessionInv, TypeOK, Call, LoginInv, Pages
<1>a. \A auth, multi :
        Page(auth, multi).controls
          = Shown(Page(auth, multi).auth, Page(auth, multi).multi)
    BY DEF Page
<1>1. ASSUME NEW c \in Calls, NEW a \in Browsers,
             SubmitLogin(c, a) \/ Logout(c, a) \/ Fetch(c, a)
      PROVE  ControlsLag(b)'
    <2>1. Requested(c, a)
        BY <1>1, RequestFields
    <2> QED BY <1>0, <2>1 DEF Requested, ControlsLag
<1>2. ASSUME NEW c \in Calls, NEW a \in Browsers, Reload(c, a)
      PROVE  ControlsLag(b)'
    <2>1. Reloaded(c, a)
        BY <1>2, ReloadFields
    <2>2. CASE a = b
        <3>1. page'[b] = Page(FALSE, FALSE)
            BY <2>1, <2>2 DEF Reloaded
        <3> QED BY <1>a, <3>1 DEF ControlsLag
    <2>3. CASE a # b
        <3>1. page'[b] = page[b]
            BY <2>1, <2>3 DEF Reloaded
        <3>2. \A d \in Calls : call[d].browser = b /\ call[d].place = "render"
                => call'[d] = call[d]
            BY <2>1, <2>3 DEF Reloaded
        <3> QED BY <1>0, <3>1, <3>2 DEF ControlsLag
    <2> QED BY <2>2, <2>3
<1>3. ASSUME NEW c \in Calls, ServerHandles(c)
      PROVE  ControlsLag(b)'
    <2>1. Handled(c)
        BY <1>3, HandleFields
    <2> QED BY <1>0, <2>1 DEF Handled, ControlsLag
<1>4. ASSUME NEW c \in Calls, BrowserReceives(c)
      PROVE  ControlsLag(b)'
    <2>0. Received(c)
        BY <1>4, ReceiveFields
    <2>1. CASE page'[b] = page[b] /\ call[c].place # "render"
        BY <1>0, <2>0, <2>1 DEF Received, ControlsLag
    <2>2. CASE call[c].browser # b
        BY <1>0, <2>0, <2>2 DEF Received, ControlsLag
    <2>3. CASE call[c].browser = b /\ Deliver(c)
        BY <2>1, <2>3 DEF Deliver, SetCookie
    <2>4. CASE call[c].browser = b /\ Render(c)
        <3>1. page'[b] = Page(page[b].auth, page[b].multi)
            BY <2>4 DEF Render, SessionInv, TypeOK
        <3> QED BY <1>a, <3>1 DEF ControlsLag
    <2>5. CASE call[c].browser = b /\ RunScript(c) /\ RendersLater(c)
        <3>1. call'[c].browser = b /\ call'[c].listening /\ call'[c].place = "render"
            BY <2>0, <2>5, ScriptFields DEF Received
        <3> QED BY <3>1 DEF ControlsLag
    <2>6. CASE /\ call[c].browser = b /\ call[c].place # "render"
               /\ \E answer : /\ page'[b] = AfterCall(page[b], call[c].op, answer)
                              /\ call[c].op = "login" => answer # "ok"
                              /\ call[c].op = "me" => answer = None
        <3>1. PICK answer : /\ page'[b] = AfterCall(page[b], call[c].op, answer)
                            /\ call[c].op = "login" => answer # "ok"
                            /\ call[c].op = "me" => answer = None
            BY <2>6
        <3>2. CASE call[c].op = "logout"
            <4>1. AfterCall(page[b], "logout", answer) = Page(FALSE, page[b].multi)
                BY <1>0, AfterLogin
            <4>2. page'[b] = Page(FALSE, page[b].multi)
                BY <3>1, <3>2, <4>1
            <4>3. page'[b].controls = Shown(page'[b].auth, page'[b].multi)
                BY <4>2 DEF Page
            <4> QED BY <4>3 DEF ControlsLag
        <3>3. CASE call[c].op \in {"login", "proxy"}
            <4>0. page[b] \in Pages
                BY <1>0
            <4>1. /\ AfterCall(page[b], "proxy", answer) = page[b]
                  /\ answer # "ok" => AfterCall(page[b], "login", answer) = page[b]
                BY <4>0, AfterCallSame
            <4>2. page'[b] = page[b]
                BY <3>1, <3>3, <4>1
            <4> QED BY <2>1, <2>6, <4>2
        <3>4. CASE call[c].op = "me"
            <4>1. page[b] = Page(FALSE, FALSE)
                <5>1. Alone(c, b)
                    BY <1>0, <2>0, <2>6, <3>4 DEF Received, LoadsAlone
                <5> QED BY <2>6, <5>1 DEF Alone
            <4>2. None \notin {"in", "single key"} /\ None \notin {"in", "out"}
                BY DEF None
            <4>3. /\ AfterCall(page[b], "me", None).controls = page[b].controls
                  /\ ~AfterCall(page[b], "me", None).auth
                  /\ ~AfterCall(page[b], "me", None).multi
                BY <1>0, <4>2, AfterMe
            <4>4. /\ page'[b].controls = page[b].controls
                  /\ ~page'[b].auth /\ ~page'[b].multi
                BY <3>1, <3>4, <4>3
            <4>5. page'[b].controls = "none"
                BY <4>1, <4>4 DEF Page, Shown
            <4> QED BY <4>4, <4>5 DEF ControlsLag, Shown
        <3> QED BY <1>0, <3>2, <3>3, <3>4
    <2>7. CASE call[c].browser = b /\ RunScript(c) /\ ~RendersLater(c)
        <3>1. /\ page'[b] = AfterCall(page[b], call[c].op, call[c].answer)
              /\ call[c].place # "render"
            BY <2>7 DEF RunScript, SessionInv, TypeOK
        <3>2. call[c].op = "login" => call[c].answer # "ok"
            BY <2>7 DEF RendersLater
        <3>3. call[c].op # "me"
            BY <2>7 DEF RendersLater
        <3> QED BY <2>6, <2>7, <3>1, <3>2, <3>3
    <2>8. CASE call[c].browser = b /\ Lose(c)
        <3>1. page'[b] = AfterCall(page[b], call[c].op, None) /\ call[c].place # "render"
            BY <2>8 DEF Lose, SessionInv, TypeOK
        <3>2. None # "ok"
            BY DEF None
        <3> QED BY <2>6, <2>8, <3>1, <3>2
    <2> QED BY <1>4, <2>2, <2>3, <2>4, <2>5, <2>7, <2>8 DEF BrowserReceives
<1>5. CASE RestartFrontend
    <2>1. UNCHANGED page
        BY <1>5 DEF RestartFrontend, browser
    <2>2. \A d \in Calls : CutOff(d)
        BY <1>5, RestartFields
    <2> QED BY <1>0, <2>1, <2>2 DEF CutOff, ControlsLag
<1>6. CASE RestartApi
    BY <1>0, <1>6 DEF RestartApi, browser, ControlsLag
<1>7. ASSUME NEW c \in Calls, NEW a \in Browsers, Tabbed(c, a)
      PROVE  ControlsLag(b)'
    BY <1>0, <1>7 DEF Tabbed, ControlsLag
<1> QED BY <1>1, <1>2, <1>3, <1>4, <1>5, <1>6, <1>7, TabFields DEF Next, BrowserSends

-----------------------------------------------------------------------------
(* The page and the session agree: Settling. *)

\* Nothing that the page of b relies on changes.
Steady(b) ==
    /\ cookie'[b] = cookie[b] /\ page'[b].auth = page[b].auth
    /\ HasSession(b)' <=> HasSession(b)
    /\ faults' = 0 => faults = 0
    /\ \A c \in Calls : AboutSession(c, b)' /\ Open(c)' =>
        /\ AboutSession(c, b) /\ call'[c] = call[c]
        /\ call[c].setCookie \in DOMAIN sessions
            => call[c].setCookie \in DOMAIN sessions'
    /\ \A c \in Calls : AboutSession(c, b) /\ call[c].listening => call'[c] = call[c]

LEMMA AgreesKept ==
    ASSUME NEW b, page'[b].auth = page[b].auth, HasSession(b)' <=> HasSession(b),
           faults' = 0 => faults = 0, Agrees(b)
    PROVE  Agrees(b)'
BY DEF Agrees

LEMMA ExpectedKept ==
    ASSUME NEW b, NEW c, Expected(c, b), call'[c] = call[c],
           cookie'[b] = cookie[b], page'[b].auth = page[b].auth,
           HasSession(b)' <=> HasSession(b), faults' = 0 => faults = 0,
           call[c].setCookie \in DOMAIN sessions => call[c].setCookie \in DOMAIN sessions'
    PROVE  Expected(c, b)'
<1>1. Agrees(b) => Agrees(b)'
    BY DEF Agrees
<1> HIDE DEF HasSession, Agrees
<1>2. CASE call[c].op = "me" /\ ~page[b].auth
    <2>1. CASE HasSession(b)
        BY <1>1, <1>2, <2>1 DEF Expected
    <2>2. CASE ~HasSession(b)
        BY <1>1, <1>2, <2>2 DEF Expected
    <2> QED BY <2>1, <2>2
<1>3. CASE call[c].op = "login"
    BY <1>1, <1>3 DEF Expected
<1>4. CASE call[c].op = "logout"
    BY <1>1, <1>4 DEF Expected
<1>5. CASE call[c].place = "render" /\ call[c].op = "me"
    BY <1>1, <1>5 DEF Expected
<1> QED BY <1>2, <1>3, <1>4, <1>5 DEF Expected

LEMMA SteadySettles ==
    ASSUME NEW b, Settling(b), Steady(b)
    PROVE  Settling(b)'
<1>1. ASSUME NEW c \in Calls, AboutSession(c, b)'
      PROVE  /\ call'[c].listening => Expected(c, b)'
             /\ call'[c].op = "logout" /\ call'[c].place = "frontend"
                /\ ~call'[c].listening => ~page'[b].auth
    <2>1. CASE ~Open(c)'
        BY <2>1 DEF Open
    <2>2. CASE Open(c)'
        <3>1. /\ AboutSession(c, b) /\ call'[c] = call[c]
              /\ call[c].setCookie \in DOMAIN sessions
                    => call[c].setCookie \in DOMAIN sessions'
            BY <1>1, <2>2 DEF Steady
        <3>2. call[c].listening => Expected(c, b)
            BY <3>1 DEF Settling
        <3>3. Expected(c, b) => Expected(c, b)'
            BY <3>1, ExpectedKept DEF Steady
        <3>4. call[c].op = "logout" /\ call[c].place = "frontend" /\ ~call[c].listening
                => ~page[b].auth
            BY <3>1 DEF Settling
        <3>5. page'[b].auth = page[b].auth
            BY DEF Steady
        <3> QED BY <3>1, <3>2, <3>3, <3>4, <3>5
    <2> QED BY <2>1, <2>2
<1>2. ASSUME NEW c \in Calls, NEW d \in Calls,
             AboutSession(c, b)', Open(c)', AboutSession(d, b)', Open(d)'
      PROVE  c = d
    <2>1. /\ AboutSession(c, b) /\ call'[c] = call[c]
          /\ AboutSession(d, b) /\ call'[d] = call[d]
        BY <1>2 DEF Steady
    <2> QED BY <1>2, <2>1 DEF Settling, Open
<1>3. ASSUME \A c \in Calls : AboutSession(c, b)' => ~call'[c].listening
      PROVE  Agrees(b)'
    <2>1. \A c \in Calls : AboutSession(c, b) => ~call[c].listening
        BY <1>3 DEF Steady, AboutSession
    <2>2. Agrees(b)
        BY <2>1 DEF Settling
    <2> QED BY <2>2, AgreesKept DEF Steady
<1> QED BY <1>1, <1>2, <1>3 DEF Settling

\* The one call about the session of b that is open moves on.
LEMMA OneMovesOn ==
    ASSUME NEW b, NEW c \in Calls, Settling(b), AboutSession(c, b), Open(c),
           \A d \in Calls \ {c} : call'[d] = call[d],
           call'[c].op = call[c].op, call'[c].browser = call[c].browser,
           call'[c].listening => Expected(c, b)',
           call'[c].op = "logout" /\ call'[c].place = "frontend" /\ ~call'[c].listening
             => ~page'[b].auth,
           ~call'[c].listening => Agrees(b)'
    PROVE  Settling(b)'
<1>1. \A d \in Calls \ {c} : AboutSession(d, b)' => ~Open(d)'
    BY DEF Settling, AboutSession, Open
<1>2. \A d \in Calls : AboutSession(d, b)' =>
        /\ call'[d].listening => Expected(d, b)'
        /\ call'[d].op = "logout" /\ call'[d].place = "frontend" /\ ~call'[d].listening
             => ~page'[b].auth
    BY <1>1 DEF Open
<1>3. \A d, e \in Calls :
        AboutSession(d, b)' /\ Open(d)' /\ AboutSession(e, b)' /\ Open(e)' => d = e
    BY <1>1
<1>4. AboutSession(c, b)'
    BY DEF AboutSession
<1> QED BY <1>2, <1>3, <1>4 DEF Settling

\* A handler of another browser's call, or of a proxied one, does not touch
\* the session of b, nor one that b is about to get.
LEMMA OthersSessions ==
    ASSUME SessionInv, LoginInv, NEW b \in Browsers, NEW c \in Calls, ServerHandles(c),
           ~AboutSession(c, b)
    PROVE  /\ HasSession(b)' <=> HasSession(b)
           /\ \A d \in Calls : call[d].browser = b
                /\ call[d].setCookie \in DOMAIN sessions
                => call[d].setCookie \in DOMAIN sessions'
<1>0. /\ cookie[b] \in used \union {NoSid} /\ used \subseteq Sids
      /\ DOMAIN sessions \subseteq used /\ NoSid \notin Sids
      /\ \A d \in Calls : call[d].browser \in Browsers
      /\ SidsStayHome
    BY SessionAssumption DEF SessionInv, SidsAreDrawn, TypeOK, Call, LoginInv
<1>1. UNCHANGED cookie
    BY HandleFields DEF Handled
<1>2. CASE LoginStore(c)
    <2>1. PICK s \in Sids \ used : DOMAIN sessions' = DOMAIN sessions \union {s}
        BY <1>2 DEF LoginStore
    <2> QED BY <1>0, <1>1, <2>1 DEF HasSession
<1>3. CASE HandleLogout(c) /\ sessions' = Deleted(call[c].sid)
    <2>1. DOMAIN sessions' = DOMAIN sessions \ {call[c].sid}
        BY <1>3 DEF Deleted
    <2>2. call[c].browser # b
        BY <1>3 DEF AboutSession, HandleLogout
    <2>3. ~(call[c].sid \in Sids /\ Holds(b, call[c].sid))
        BY <1>0, <2>2 DEF SidsStayHome, Holds
    <2> QED BY <1>0, <1>1, <2>1, <2>3 DEF HasSession, Holds
<1>4. CASE sessions' = sessions
    BY <1>1, <1>4 DEF HasSession
<1> QED BY <1>2, <1>3, <1>4 DEF ServerHandles, LoginValidate, HandleLogout, HandleMe,
        HandleProxy, Serve, server

LEMMA SendsSettle ==
    ASSUME SessionInv, LoginInv, BrowserSends, NEW b \in Browsers, MultiUser', ~crossed'[b]
    PROVE  Settling(b)'
<1>0. /\ UNCHANGED <<apiKey, sessions, faults>>
      /\ \A c \in Calls : call[c].browser \in Browsers
      /\ MultiUser /\ crossed \in [Browsers -> BOOLEAN]
      /\ ~crossed[b] => Settling(b)
    BY DEF BrowserSends, server, SessionInv, TypeOK, Call, MultiUser, LoginInv
<1>1. ASSUME NEW c \in Calls, NEW a \in Browsers,
             SubmitLogin(c, a) \/ Logout(c, a) \/ Fetch(c, a)
      PROVE  Settling(b)'
    <2>1. Requested(c, a)
        BY <1>1, RequestFields
    <2>2. ~crossed[b] /\ Settling(b)
        BY <1>0, <2>1 DEF Requested, Crosses
    <2>3. /\ UNCHANGED <<cookie, page>>
          /\ HasSession(b)' <=> HasSession(b)
        BY <1>0, <2>1 DEF Requested, HasSession
    <2>4. call[c].place = "idle" /\ ~(AboutSession(c, b) /\ call[c].listening)
        <3>1. call[c].place = "idle"
            BY <2>1 DEF Requested
        <3> QED BY <2>2, <3>1 DEF Settling, Expected
    <2>5. CASE a # b \/ call'[c].op = "proxy"
        <3>1. ~AboutSession(c, b)'
            BY <2>1, <2>5 DEF Requested, AboutSession
        <3>2. Steady(b)
            BY <1>0, <2>1, <2>3, <2>4, <3>1 DEF Requested, Steady, AboutSession, Open
        <3> QED BY <2>2, <3>2, SteadySettles
    <2>6. CASE a = b /\ call'[c].op # "proxy"
        <3>1. ~Unsettled(b)
            BY <1>0, <2>1, <2>6 DEF Requested, Crosses
        <3>2. \A d \in Calls \ {c} : AboutSession(d, b)' => ~Open(d)'
            BY <2>1, <3>1 DEF Requested, Unsettled, AboutSession, Open
        <3>3. Agrees(b)
            BY <2>2, <3>1 DEF Settling, Unsettled, Open
        <3>4. Agrees(b)'
            BY <1>0, <2>3, <3>3, AgreesKept
        <3>5. Expected(c, b)' /\ call'[c].listening
            BY <2>1, <2>3, <2>6, <3>4 DEF Requested, Expected
        <3>6. AboutSession(c, b)'
            BY <2>1, <2>6 DEF Requested, AboutSession
        <3> QED BY <3>2, <3>5, <3>6 DEF Settling, Open
    <2> QED BY <2>5, <2>6
<1>2. ASSUME NEW c \in Calls, NEW a \in Browsers, Reload(c, a)
      PROVE  Settling(b)'
    <2>1. Reloaded(c, a)
        BY <1>2, ReloadFields
    <2>2. CASE a # b
        <3>1. ~crossed[b] /\ Settling(b)
            BY <1>0, <2>1, <2>2 DEF Reloaded
        <3>2. call[c].place = "idle" /\ ~(AboutSession(c, b) /\ call[c].listening)
            <4>1. call[c].place = "idle"
                BY <2>1 DEF Reloaded
            <4> QED BY <3>1, <4>1 DEF Settling, Expected
        <3>3. /\ cookie'[b] = cookie[b] /\ page'[b] = page[b]
              /\ HasSession(b)' <=> HasSession(b)
            BY <1>0, <2>1, <2>2 DEF Reloaded, HasSession
        <3>4. \A d \in Calls : AboutSession(d, b)' => AboutSession(d, b) /\ call'[d] = call[d]
            BY <2>1, <2>2 DEF Reloaded, Unheard, AboutSession
        <3>5. \A d \in Calls : AboutSession(d, b) /\ call[d].listening => call'[d] = call[d]
            BY <2>1, <2>2, <3>2 DEF Reloaded, AboutSession
        <3>6. Steady(b)
            BY <1>0, <3>3, <3>4, <3>5 DEF Steady
        <3> QED BY <3>1, <3>6, SteadySettles
    <2>3. CASE a = b
        <3>1. \A d \in Calls \ {c} : AboutSession(d, b)' => ~Open(d)'
            BY <2>1, <2>3 DEF Reloaded, Unheard, AboutSession, Open
        <3>2. page'[b] = Page(FALSE, FALSE) /\ cookie'[b] = cookie[b]
            BY <2>1, <2>3 DEF Reloaded
        <3>3. ~page'[b].auth
            BY <3>2 DEF Page
        <3>4. Expected(c, b)' /\ call'[c].listening /\ call'[c].op = "me" /\ AboutSession(c, b)'
            BY <2>1, <2>3, <3>2, <3>3 DEF Reloaded, Expected, AboutSession
        <3> QED BY <3>1, <3>4 DEF Settling, Open
    <2> QED BY <2>2, <2>3
<1> QED BY <1>1, <1>2 DEF BrowserSends

\* Nothing but the answer and the session of a handler's call changes.
LEMMA ReplyFields ==
    ASSUME SessionInv, NEW c \in Calls, NEW answer, NEW set, Reply(c, answer, set)
    PROVE  /\ call'[c].place = "answer" /\ call'[c].answer = answer
           /\ call'[c].setCookie = set
BY DEF Reply, Update, SessionInv, TypeOK, Call

LEMMA HandlesSettle ==
    ASSUME SessionInv, LoginInv, NEW c \in Calls, ServerHandles(c), NEW b \in Browsers,
           MultiUser, Settling(b)
    PROVE  Settling(b)'
<1>1. Handled(c)
    BY HandleFields
<1>2. CASE ~AboutSession(c, b)
    <2>1. ~AboutSession(c, b)' /\ \A d \in Calls \ {c} : call'[d] = call[d]
        BY <1>1, <1>2 DEF Handled, AboutSession
    <2>2. UNCHANGED <<cookie, page>> /\ (faults' = 0 => faults = 0)
        BY <1>1 DEF Handled
    <2>3. /\ HasSession(b)' <=> HasSession(b)
          /\ \A d \in Calls : call[d].browser = b
               /\ call[d].setCookie \in DOMAIN sessions
               => call[d].setCookie \in DOMAIN sessions'
        BY <1>2, OthersSessions
    <2>4. Steady(b)
        BY <1>2, <2>1, <2>2, <2>3 DEF Steady, AboutSession
    <2> QED BY <2>4, SteadySettles
<1>3. CASE AboutSession(c, b)
    <2>0. /\ \A d \in Calls \ {c} : call'[d] = call[d]
          /\ call'[c].op = call[c].op /\ call'[c].browser = call[c].browser
          /\ call'[c].listening = call[c].listening /\ call'[c].sid = call[c].sid
          /\ UNCHANGED <<cookie, page>> /\ (faults' = 0 => faults = 0)
        BY <1>1 DEF Handled
    <2>a. call[c].op # "proxy" /\ ~HandleProxy(c) /\ ~Serve(c)
        BY <1>3 DEF AboutSession, HandleProxy, Serve
    <2>b. call[c].listening => Expected(c, b)
        BY <1>3 DEF Settling
    <2>c. ~call[c].listening => \A d \in Calls : AboutSession(d, b) => ~call[d].listening
        <3>1. Open(c)
            BY <2>a DEF ServerHandles, LoginValidate, LoginStore, HandleLogout,
                HandleMe, Open
        <3> QED BY <1>3, <3>1 DEF Settling, Open
    <2>d. ~call[c].listening => Agrees(b)
        BY <2>c DEF Settling
    <2>1. Open(c) /\ call'[c].place # "frontend"
        BY <1>1, <2>a DEF Handled, ServerHandles, LoginValidate, LoginStore,
            HandleLogout, HandleMe, Open
    <2>2. SUFFICES /\ call[c].listening => Expected(c, b)'
                   /\ ~call[c].listening => Agrees(b)'
        BY <1>3, <2>0, <2>1, OneMovesOn
    <2>3. CASE LoginValidate(c)
        <3>1. call[c].op = "login" /\ call[c].place = "frontend" /\ sessions' = sessions
            BY <2>3 DEF LoginValidate, server
        <3>2. Agrees(b)
            BY <2>b, <2>d, <3>1 DEF Expected
        <3>3. Agrees(b)'
            BY <2>0, <3>1, <3>2 DEF Agrees, HasSession
        <3>4. \/ call'[c].place = "store"
              \/ call'[c].place = "answer" /\ call'[c].answer # "ok" /\ call'[c].setCookie = Keep
            <4>1. CASE Move(c, "store")
                BY <4>1 DEF Move, Update, SessionInv, TypeOK, Call
            <4>2. CASE Reply(c, "refused", Keep)
                BY <4>2, ReplyFields
            <4> QED BY <2>3, <4>1, <4>2 DEF LoginValidate
        <3> QED BY <2>0, <3>1, <3>3, <3>4 DEF Expected
    <2>4. CASE LoginStore(c)
        <3>1. PICK s \in Sids \ used : /\ DOMAIN sessions' = DOMAIN sessions \union {s}
                                       /\ Reply(c, "ok", s)
            BY <2>4 DEF LoginStore
        <3>2. call[c].op = "login" /\ call[c].place = "store"
            BY <2>4 DEF LoginStore
        <3>3. Agrees(b)
            BY <2>b, <2>d, <3>2 DEF Expected
        <3>4. cookie[b] # s
            BY SessionAssumption DEF SessionInv, SidsAreDrawn
        <3>5. Agrees(b)'
            BY <2>0, <3>1, <3>3, <3>4 DEF Agrees, HasSession
        <3>6. /\ call'[c].place = "answer" /\ call'[c].answer = "ok"
              /\ call'[c].setCookie \in DOMAIN sessions'
            BY <3>1, ReplyFields
        <3> QED BY <2>0, <3>2, <3>5, <3>6 DEF Expected
    <2>5. CASE HandleLogout(c)
        <3>1. /\ call[c].op = "logout" /\ call[c].place = "frontend"
              /\ DOMAIN sessions' = DOMAIN sessions \ {call[c].sid}
              /\ Reply(c, "ok", NoSid)
            BY <2>5 DEF HandleLogout, Deleted
        <3>2. call'[c].place = "answer" /\ call'[c].setCookie = NoSid
            BY <3>1, ReplyFields
        <3>3. CASE call[c].listening
            <4>1. call[c].sid = cookie[b]
                BY <2>b, <3>1, <3>3 DEF Expected
            <4>2. ~HasSession(b)'
                BY <2>0, <3>1, <4>1 DEF HasSession
            <4> QED BY <2>0, <3>1, <3>2, <3>3, <4>2 DEF Expected
        <3>4. CASE ~call[c].listening
            <4>1. ~page[b].auth
                BY <1>3, <3>1, <3>4 DEF Settling
            <4> QED BY <2>0, <2>d, <3>1, <3>4, <4>1 DEF Agrees, HasSession
        <3> QED BY <3>3, <3>4
    <2>6. CASE HandleMe(c)
        <3>1. /\ call[c].op = "me" /\ call[c].place = "frontend" /\ sessions' = sessions
              /\ Reply(c, IF call[c].sid \in DOMAIN sessions THEN "in" ELSE "out", Keep)
            BY <2>6 DEF HandleMe, server
        <3>2. /\ call'[c].place = "answer" /\ call'[c].setCookie = Keep
              /\ call'[c].answer = IF call[c].sid \in DOMAIN sessions THEN "in" ELSE "out"
            BY <3>1, ReplyFields
        <3>3. HasSession(b)' <=> HasSession(b)
            BY <2>0, <3>1 DEF HasSession
        <3>4. CASE call[c].listening
            <4>1. ~page[b].auth /\ call[c].sid = cookie[b]
                BY <2>b, <3>1, <3>4 DEF Expected
            <4> QED BY <2>0, <3>1, <3>2, <3>3, <3>4, <4>1 DEF Expected, HasSession
        <3>5. CASE ~call[c].listening
            BY <2>0, <2>d, <3>3, <3>5, AgreesKept
        <3> QED BY <3>4, <3>5
    <2> QED BY <2>a, <2>3, <2>4, <2>5, <2>6 DEF ServerHandles
<1> QED BY <1>2, <1>3

LEMMA ReceivesSettle ==
    ASSUME SessionInv, LoginInv, NEW c \in Calls, BrowserReceives(c), NEW b \in Browsers,
           Settling(b)
    PROVE  Settling(b)'
<1>1. Received(c)
    BY ReceiveFields
<1>0. /\ \A d \in Calls \ {c} : call'[d] = call[d]
      /\ call'[c].op = call[c].op /\ call'[c].browser = call[c].browser
      /\ call'[c].setCookie = call[c].setCookie /\ call'[c].answer = call[c].answer
      /\ call[c].listening /\ call[c].op \in {"login", "logout", "me", "proxy"}
      /\ UNCHANGED sessions /\ (faults' = 0 => faults = 0)
      /\ page[b] \in Pages
    BY <1>1 DEF Received, SessionInv, TypeOK, Call, Pages
<1>2. CASE ~AboutSession(c, b)
    <2>1. ~AboutSession(c, b)'
        BY <1>0, <1>2 DEF AboutSession
    <2>2. cookie'[b] = cookie[b] /\ page'[b] = page[b]
        <3>1. CASE call[c].browser # b
            BY <1>1, <3>1 DEF Received
        <3>2. CASE call[c].op = "proxy"
            <4>1. ~Render(c) /\ call[c].setCookie = Keep
                BY <3>2 DEF Render, LoginInv, ProxyKeeps
            <4>2. \A p, answer : AfterCall(p, "proxy", answer) = p
                BY DEF AfterCall
            <4>3. page' = page \/ page' = [page EXCEPT ![call[c].browser] = @]
                BY <3>2, <4>1, <4>2 DEF BrowserReceives, Deliver, SetCookie, RunScript, Lose
            <4>4. cookie' = cookie
                BY <4>1 DEF BrowserReceives, Deliver, SetCookie, RunScript, Lose
            <4> QED BY <4>3, <4>4 DEF SessionInv, TypeOK
        <3> QED BY <1>2, <3>1, <3>2 DEF AboutSession
    <2>3. HasSession(b)' <=> HasSession(b)
        BY <1>0, <2>2 DEF HasSession
    <2>4. Steady(b)
        BY <1>0, <1>2, <2>1, <2>2, <2>3 DEF Steady, AboutSession
    <2> QED BY <2>4, SteadySettles
<1>3. CASE AboutSession(c, b)
    <2>0. call[c].browser = b /\ call[c].op # "proxy"
        BY <1>3 DEF AboutSession
    <2>a. Expected(c, b) /\ Open(c)
        BY <1>0, <1>3 DEF Settling, Open
    <2>1. SUFFICES /\ call'[c].listening => Expected(c, b)'
                   /\ call'[c].op = "logout" /\ call'[c].place = "frontend"
                        /\ ~call'[c].listening => ~page'[b].auth
                   /\ ~call'[c].listening => Agrees(b)'
        BY <1>0, <1>3, <2>a, OneMovesOn
    <2>2. CASE Deliver(c)
        <3>1. /\ call[c].place = "answer" /\ call'[c].place = "script"
              /\ call'[c].listening = TRUE /\ page' = page /\ faults' = faults
              /\ cookie'[b] = IF call[c].setCookie = Keep THEN cookie[b]
                              ELSE call[c].setCookie
            <4>1. /\ call[c].place = "answer" /\ page' = page /\ faults' = faults
                  /\ cookie' = IF call[c].setCookie = Keep THEN cookie
                               ELSE [cookie EXCEPT ![b] = call[c].setCookie]
                BY <2>0, <2>2 DEF Deliver, SetCookie
            <4>2. call'[c].place = "script" /\ call'[c].listening = TRUE
                <5>1. Move(c, "script")
                    BY <2>2 DEF Deliver
                <5> QED BY <1>0, <5>1 DEF Move, Update, SessionInv, TypeOK, Call
            <4> QED BY <4>1, <4>2 DEF SessionInv, TypeOK
        <3>2. CASE call[c].op = "me"
            <4>1. /\ ~page[b].auth /\ call[c].setCookie = Keep
                  /\ call[c].answer = IF HasSession(b) THEN "in" ELSE "out"
                BY <2>a, <3>1, <3>2 DEF Expected
            <4>2. HasSession(b)' <=> HasSession(b)
                BY <1>0, <3>1, <4>1 DEF HasSession
            <4> QED BY <1>0, <3>1, <3>2, <4>1, <4>2 DEF Expected
        <3>3. CASE call[c].op = "login" /\ call[c].answer = "ok"
            <4>1. call[c].setCookie \in DOMAIN sessions
                BY <2>a, <3>1, <3>3 DEF Expected
            <4>2. call[c].setCookie # Keep
                BY <4>1, SessionAssumption DEF SessionInv, TypeOK
            <4>3. HasSession(b)'
                BY <1>0, <3>1, <4>1, <4>2 DEF HasSession
            <4> QED BY <1>0, <3>1, <3>3, <4>3 DEF Expected
        <3>4. CASE call[c].op = "login" /\ call[c].answer # "ok"
            <4>1. call[c].setCookie = Keep /\ Agrees(b)
                BY <2>a, <3>1, <3>4 DEF Expected
            <4>2. Agrees(b)'
                BY <1>0, <3>1, <4>1 DEF Agrees, HasSession
            <4> QED BY <1>0, <3>1, <3>4, <4>2 DEF Expected
        <3>5. CASE call[c].op = "logout"
            <4>1. call[c].setCookie = NoSid
                BY <2>a, <3>1, <3>5 DEF Expected
            <4>2. NoSid # Keep
                BY DEF NoSid, Keep
            <4>3. NoSid \notin DOMAIN sessions
                BY SessionAssumption DEF SessionInv, TypeOK
            <4>4. ~HasSession(b)'
                BY <1>0, <3>1, <4>1, <4>2, <4>3 DEF HasSession
            <4> QED BY <1>0, <3>1, <3>5, <4>1, <4>4 DEF Expected
        <3> QED BY <1>0, <2>0, <3>2, <3>3, <3>4, <3>5
    <2>3. CASE RunScript(c)
        <3>1. /\ call[c].place = "script" /\ cookie' = cookie
              /\ page'[b] = AfterCall(page[b], call[c].op, call[c].answer)
              /\ IF RendersLater(c)
                 THEN call'[c].place = "render" /\ call'[c].listening = TRUE
                 ELSE call'[c].place = "over" /\ call'[c].listening = FALSE
            BY <2>0, <2>3, ScriptFields DEF RunScript, SessionInv, TypeOK
        <3>a. HasSession(b)' <=> HasSession(b)
            BY <1>0, <3>1 DEF HasSession
        <3>2. CASE call[c].op = "me"
            <4>1. call[c].answer = IF HasSession(b) THEN "in" ELSE "out"
                BY <2>a, <3>1, <3>2 DEF Expected
            <4>2. AfterCall(page[b], "me", call[c].answer).auth
                    <=> call[c].answer \in {"in", "single key"}
                BY <1>0, AfterMe
            <4>3. page'[b].auth <=> HasSession(b)
                BY <3>1, <3>2, <4>1, <4>2
            <4>4. Agrees(b)' /\ RendersLater(c)
                BY <3>2, <3>a, <4>3 DEF Agrees, RendersLater
            <4> QED BY <1>0, <3>1, <3>2, <4>4 DEF Expected
        <3>3. CASE call[c].op = "login" /\ call[c].answer = "ok"
            <4>1. HasSession(b)
                BY <2>a, <3>1, <3>3 DEF Expected
            <4>2. AfterCall(page[b], "login", "ok").auth
                BY <1>0, AfterLogin
            <4>3. page'[b].auth
                BY <3>1, <3>3, <4>2
            <4>4. Agrees(b)' /\ RendersLater(c)
                BY <3>3, <3>a, <4>1, <4>3 DEF Agrees, RendersLater
            <4> QED BY <1>0, <3>1, <3>3, <4>4 DEF Expected
        <3>4. CASE call[c].op = "login" /\ call[c].answer # "ok"
            <4>1. Agrees(b) /\ ~RendersLater(c)
                BY <2>a, <3>1, <3>4 DEF Expected, RendersLater
            <4>2. AfterCall(page[b], "login", call[c].answer) = page[b]
                BY <1>0, <3>4, AfterCallSame
            <4>3. page'[b] = page[b]
                BY <3>1, <3>4, <4>2
            <4>4. Agrees(b)'
                BY <1>0, <3>a, <4>1, <4>3, AgreesKept
            <4> QED BY <1>0, <3>1, <3>4, <4>1, <4>4
        <3>5. CASE call[c].op = "logout"
            <4>1. ~HasSession(b) /\ ~RendersLater(c)
                BY <2>a, <3>1, <3>5 DEF Expected, RendersLater
            <4>2. AfterCall(page[b], "logout", call[c].answer) = Page(FALSE, page[b].multi)
                BY <1>0, AfterLogin
            <4>3. ~page'[b].auth
                BY <3>1, <3>5, <4>2 DEF Page
            <4>4. Agrees(b)'
                BY <3>a, <4>1, <4>3 DEF Agrees
            <4> QED BY <3>1, <4>1, <4>3, <4>4
        <3> QED BY <1>0, <2>0, <3>2, <3>3, <3>4, <3>5
    <2>4. CASE Lose(c)
        <3>1. /\ call'[c].place = call[c].place /\ call'[c].listening = FALSE
              /\ cookie' = cookie
              /\ page'[b] = AfterCall(page[b], call[c].op, None)
            <4>1. /\ Update(c, [call[c] EXCEPT !.listening = FALSE])
                  /\ page' = [page EXCEPT ![b] = AfterCall(@, call[c].op, None)]
                  /\ cookie' = cookie
                BY <2>0, <2>4 DEF Lose
            <4>2. call'[c].place = call[c].place /\ call'[c].listening = FALSE
                BY <4>1 DEF Update, SessionInv, TypeOK, Call
            <4> QED BY <4>1, <4>2 DEF SessionInv, TypeOK
        <3>2. faults' # 0
            <4>1. call[c].place # "cut"
                BY <2>a DEF Expected
            <4>2. Fault
                BY <2>4, <4>1 DEF Lose
            <4>3. faults \in Nat
                BY DEF SessionInv, TypeOK
            <4> QED BY <4>2, <4>3 DEF Fault
        <3>a. HasSession(b)' <=> HasSession(b)
            BY <1>0, <3>1 DEF HasSession
        <3>3. CASE call[c].op = "me"
            <4>1. AfterCall(page[b], "me", None).auth <=> None \in {"in", "single key"}
                BY <1>0, AfterMe
            <4>2. None \notin {"in", "single key"}
                BY DEF None
            <4>3. ~page'[b].auth
                BY <3>1, <3>3, <4>1, <4>2
            <4> QED BY <1>0, <3>1, <3>2, <3>3, <4>3 DEF Agrees
        <3>4. CASE call[c].op = "logout"
            <4>1. AfterCall(page[b], "logout", None) = Page(FALSE, page[b].multi)
                BY <1>0, AfterLogin
            <4>2. ~page'[b].auth
                BY <3>1, <3>4, <4>1 DEF Page
            <4> QED BY <3>1, <3>2, <4>2 DEF Agrees
        <3>5. CASE call[c].op = "login"
            <4>2. Agrees(b) \/ HasSession(b)
                BY <2>a, <3>5 DEF Expected
            <4>3. AfterCall(page[b], "login", None) = page[b]
                <5>1. None # "ok"
                    BY DEF None
                <5> QED BY <1>0, <5>1, AfterCallSame
            <4>4. page'[b] = page[b]
                BY <3>1, <3>5, <4>3
            <4>5. Agrees(b)'
                BY <3>2, <3>a, <4>2, <4>4 DEF Agrees
            <4> QED BY <1>0, <3>1, <3>5, <4>5
        <3> QED BY <1>0, <2>0, <3>3, <3>4, <3>5
    <2>5. CASE Render(c)
        <3>1. /\ call[c].place = "render"
              /\ call'[c].place = "over" /\ call'[c].listening = FALSE
              /\ cookie' = cookie
              /\ page'[b] = Page(page[b].auth, page[b].multi)
            BY <1>1, <2>0, <2>5 DEF Received, Deliver, SetCookie, RunScript, Lose, Render,
                SessionInv, TypeOK
        <3>2. Agrees(b)
            BY <2>a, <3>1 DEF Expected
        <3>3. page'[b].auth = page[b].auth
            BY <3>1 DEF Page
        <3>4. HasSession(b)' <=> HasSession(b)
            BY <1>0, <3>1 DEF HasSession
        <3>5. Agrees(b)'
            BY <1>0, <3>2, <3>3, <3>4, AgreesKept
        <3> QED BY <3>1, <3>5
    <2> QED BY <2>2, <2>3, <2>4, <2>5 DEF BrowserReceives
<1> QED BY <1>2, <1>3

\* While calls about its session follow one another, the page of b agrees
\* with it; a restart of the frontend server ends that.
LEMMA SettlingStep ==
    ASSUME SessionInv, LoginInv, Next, NEW b \in Browsers, MultiUser', ~crossed'[b]
    PROVE  Settling(b)'
<1>1. CASE BrowserSends
    BY <1>1, SendsSettle
<1>2. ASSUME NEW c \in Calls, ServerHandles(c)
      PROVE  Settling(b)'
    <2>1. Handled(c)
        BY <1>2, HandleFields
    <2>2. MultiUser /\ ~crossed[b]
        BY <2>1 DEF Handled, MultiUser
    <2>3. Settling(b)
        BY <2>2 DEF LoginInv
    <2> QED BY <1>2, <2>2, <2>3, HandlesSettle
<1>3. ASSUME NEW c \in Calls, BrowserReceives(c)
      PROVE  Settling(b)'
    <2>1. Received(c)
        BY <1>3, ReceiveFields
    <2>2. MultiUser /\ ~crossed[b]
        BY <2>1 DEF Received, MultiUser
    <2>3. Settling(b)
        BY <2>2 DEF LoginInv
    <2> QED BY <1>3, <2>3, ReceivesSettle
<1>4. CASE RestartFrontend
    <2>1. crossed'[b] = TRUE
        BY <1>4 DEF RestartFrontend
    <2> QED BY <2>1
<1>5. CASE RestartApi
    <2>1. UNCHANGED <<apiKey, sessions, cookie, page, call, faults, crossed>>
        BY <1>5 DEF RestartApi, server, browser, history
    <2>2. Settling(b)
        BY <2>1 DEF LoginInv, MultiUser
    <2>3. Steady(b)
        BY <2>1 DEF Steady, HasSession, AboutSession
    <2> QED BY <2>2, <2>3, SteadySettles
<1>6. ASSUME NEW c \in Calls, NEW a \in Browsers, Tabbed(c, a)
      PROVE  Settling(b)'
    <2>1. a # b /\ ~crossed[b] /\ MultiUser
        BY <1>6 DEF Tabbed, MultiUser
    <2>2. Settling(b)
        BY <2>1 DEF LoginInv
    <2>3. ~AboutSession(c, b)'
        BY <1>6, <2>1 DEF Tabbed, AboutSession
    <2>4. ~(AboutSession(c, b) /\ call[c].listening)
        BY <1>6, <2>1, <2>2 DEF Tabbed, AboutSession, Settling, Expected
    <2>5. cookie'[b] = cookie[b] /\ (HasSession(b)' <=> HasSession(b))
        BY <1>6, <2>1 DEF Tabbed, HasSession
    <2>6. Steady(b)
        BY <1>6, <2>3, <2>4, <2>5 DEF Tabbed, Steady, AboutSession
    <2> QED BY <2>2, <2>6, SteadySettles
<1> QED BY <1>1, <1>2, <1>3, <1>4, <1>5, <1>6, TabFields DEF Next

LEMMA PageStep ==
    ASSUME SessionInv, LoginInv, [Next]_vars
    PROVE  LoginInv'
<1>1. CASE Next
    BY <1>1, LoadsAloneStep, SidsStayHomeStep, ProxyKeepsStep, TabsCrossStep,
        ControlsLagStep, SettlingStep DEF LoginInv
<1>2. CASE UNCHANGED vars
    <2>1. UNCHANGED <<apiKey, sessions, cookie, page, call, faults, crossed>>
        BY <1>2 DEF vars, server, browser, history
    <2>2. LoadsAlone' /\ SidsStayHome' /\ ProxyKeeps' /\ TabsCross'
        <3>1. LoadsAlone'
            BY <2>1 DEF LoginInv, LoadsAlone, Alone, AboutSession
        <3>2. SidsStayHome'
            BY <2>1 DEF LoginInv, SidsStayHome, Holds
        <3>3. ProxyKeeps'
            BY <2>1 DEF LoginInv, ProxyKeeps
        <3>4. TabsCross'
            BY <2>1 DEF LoginInv, TabsCross
        <3> QED BY <3>1, <3>2, <3>3, <3>4
    <2>3. ASSUME NEW b \in Browsers
          PROVE  ControlsLag(b)'
        BY <2>1 DEF LoginInv, ControlsLag
    <2>4. ASSUME NEW b \in Browsers, MultiUser', ~crossed'[b]
          PROVE  Settling(b)'
        <3>1. Settling(b)
            BY <2>1, <2>4 DEF LoginInv, MultiUser
        <3>2. Steady(b)
            BY <2>1 DEF Steady, HasSession, AboutSession
        <3> QED BY <3>1, <3>2, SteadySettles
    <2> QED BY <2>2, <2>3, <2>4 DEF LoginInv
<1> QED BY <1>1, <1>2

\* What the pages know of the session and of what they show.
THEOREM LoginInvariance == Spec => []LoginInv
<1>1. Init => LoginInv
    BY PageInit
<1>2. SessionInv /\ LoginInv /\ [Next]_vars => LoginInv'
    BY PageStep
<1> QED BY <1>1, <1>2, SessionInvariance, PTL DEF Spec

\* renderUI: a browser at rest shows the control that belongs to what its page
\* takes for true, however its calls have overlapped.
THEOREM ControlsAtRest == Spec => []ControlsFollow
<1>1. LoginInv => ControlsFollow
    BY DEF LoginInv, ControlsLag, ControlsFollow, Quiet
<1> QED BY <1>1, LoginInvariance, PTL

\* app.js, handleLogin, handleLogout: a page at rest that lets its user edit
\* has a live session, and unless an answer was lost the other way round.
THEOREM PagesKnow == Spec => []PageKnowsItsSession
<1>1. ASSUME LoginInv, MultiUser, NEW b \in Browsers, Quiet(b), ~crossed[b]
      PROVE  Agrees(b)
    <2>1. Settling(b)
        BY <1>1 DEF LoginInv
    <2>2. \A c \in Calls : AboutSession(c, b) => ~call[c].listening
        BY <1>1 DEF Quiet, AboutSession
    <2> QED BY <2>1, <2>2 DEF Settling
<1>2. LoginInv => PageKnowsItsSession
    BY <1>1 DEF PageKnowsItsSession, Agrees, HasSession
<1> QED BY <1>2, LoginInvariance, PTL

=============================================================================
