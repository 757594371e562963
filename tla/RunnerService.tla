--------------------------- MODULE RunnerService ---------------------------
(***************************************************************************)
(* What the API promises about the runners it shows, told without          *)
(* namespaces, Secrets, revisions or reads.  A team has one runner or      *)
(* none, and one request at most is at work on it.  That request shows a   *)
(* configuration of its own as pending, and ends by showing it deployed    *)
(* and telling success; only if a call fails or the client hangs up may it *)
(* end otherwise.  A chart upgrade does so for each runner of its list.    *)
(* What is shown comes from requests for that team, with the chart that    *)
(* was configured then.  All this holds for the runners that nobody has    *)
(* asked to delete: no other is ever lost.                                 *)
(***************************************************************************)

CONSTANTS
    Teams, Reqs, Charts,
    Offered,        \* the requests clients may send
    Prior,          \* the writer of what was there before the first request
    NoRequest, NoReport

VARIABLES
    shown,      \* shown[t]: the runner of team t, or nothing
    work,       \* work[t]: the requests that are at work on it
    target,     \* the chart version that is configured
    ask,        \* ask[r]: the request
    stage,      \* stage[r]: "new", "working", "done", "refused", "over", "dead"
    told,       \* told[r]: "nothing", "success" or "failure"
    report,     \* report[r]: what a chart upgrade says of each team
    gone,       \* the requests whose clients have hung up, and how many calls
    faults      \* have failed: the world's doing, not restricted here

vars == <<shown, work, target, ask, stage, told, report>>

(***************************************************************************)
(* Configurations.  A request for t that was not refused may leave the     *)
(* configuration [url, rest] behind: rest is its own, and url as well if   *)
(* it supplies one; otherwise url is what another request supplied.        *)
(***************************************************************************)
Configures(r, t) ==
    /\ ask[r].kind \in {"create", "update"} /\ ask[r].team = t
    /\ stage[r] # "refused"

Urls(t) == {r \in Reqs : Configures(r, t) /\ ask[r].url} \union {Prior}

Of(r, t) == {[url |-> u, rest |-> r] : u \in IF ask[r].url THEN {r} ELSE Urls(t)}

Configs(t) ==
    {[url |-> Prior, rest |-> Prior]}
    \union UNION {Of(r, t) : r \in {o \in Reqs : Configures(o, t)}}

\* What r may deploy for t: its own, or anybody's with the new chart.
Mine(r, t) == IF ask[r].kind = "upgrade" THEN Configs(t) ELSE Of(r, t)

Runner(status, chart, cfg) == [status |-> status, chart |-> chart, cfg |-> cfg]

Statuses == {"pending", "deployed", "failed", "superseded", "uninstalling"}

Init ==
    /\ \A t \in Teams : \/ shown[t] = {}
                        \/ \E v \in Charts, c \in Configs(t) :
                              shown[t] = {Runner("deployed", v, c)}
    /\ work = [t \in Teams |-> {}]
    /\ target \in Charts
    /\ ask = [r \in Reqs |-> NoRequest]
    /\ stage = [r \in Reqs |-> "new"]
    /\ told = [r \in Reqs |-> "nothing"]
    /\ report = [r \in Reqs |-> NoReport]

-----------------------------------------------------------------------------
(***************************************************************************)
(* What is shown of a runner that somebody has asked to delete is left     *)
(* open; any other changes only as said.                                   *)
(***************************************************************************)
Doomed(t) == \E r \in Reqs : ask[r].kind = "delete" /\ ask[r].team = t

Anything(t) ==
    {{}} \union {{Runner(s, v, c)} : s \in Statuses, v \in Charts, c \in Configs(t)}

Show(t, S) ==
    \E x \in S \union (IF Doomed(t) THEN Anything(t) ELSE {}) :
        shown' = [shown EXCEPT ![t] = x]

\* The runner as it is shown now, with another status.
Now(t, status) == {{[v EXCEPT !.status = status] : v \in shown[t]}}

Free(t) == work[t] = {} /\ \A v \in shown[t] : v.status # "pending"

\* The request r is about the runner of t, and has not done with it.
Concerns(r, t) ==
    /\ stage[r] = "working"
    /\ IF ask[r].kind = "upgrade" THEN report[r][t] = "todo"
       ELSE ask[r].team = t

\* It is spared so far, also in this step.
Spared(r) == r \notin gone /\ faults' = faults

New(r, t) == {{Runner("pending", target, c)} : c \in Mine(r, t)}

End(r, result) ==
    /\ stage' = [stage EXCEPT ![r] = "over"]
    /\ told' = [told EXCEPT ![r] = result]

\* Done with the runner of t, well or not.
Well(r, t) ==
    IF ask[r].kind = "upgrade"
    THEN report' = [report EXCEPT ![r][t] = "upgraded"] /\ UNCHANGED <<stage, told>>
    ELSE stage' = [stage EXCEPT ![r] = "done"] /\ UNCHANGED <<told, report>>

Badly(r, t) ==
    IF ask[r].kind = "upgrade"
    THEN report' = [report EXCEPT ![r][t] = "failed"] /\ UNCHANGED <<stage, told>>
    ELSE End(r, "failure") /\ UNCHANGED report

-----------------------------------------------------------------------------
Ask(r) ==
    /\ stage[r] = "new"
    /\ \E q \in Offered :
        /\ ask' = [ask EXCEPT ![r] = q]
        /\ \/ stage' = [stage EXCEPT ![r] = "working"] /\ UNCHANGED told
           \/ /\ stage' = [stage EXCEPT ![r] = "refused"]
              /\ told' = [told EXCEPT ![r] = "failure"]
    /\ UNCHANGED <<shown, work, target, report>>

\* One at a time.
Begin(r, t) ==
    /\ Concerns(r, t) /\ r \notin work[t]
    /\ Free(t) \/ Doomed(t)
    /\ Show(t, New(r, t))
    /\ work' = [work EXCEPT ![t] = @ \union {r}]
    /\ UNCHANGED <<target, ask, stage, told, report>>

Leave(r, t) ==
    /\ Concerns(r, t) /\ r \in work[t]
    /\ work' = [work EXCEPT ![t] = @ \ {r}]
    /\ UNCHANGED <<target, ask>>

Succeed(r, t) ==
    /\ Leave(r, t)
    /\ \/ Show(t, Now(t, "deployed"))
       \/ ~Spared(r) /\ \E s \in {"pending", "failed"} : Show(t, Now(t, s))
    /\ Well(r, t)

Fail(r, t) ==
    /\ Leave(r, t)
    /\ ~Spared(r) \/ Doomed(t)
    /\ \E s \in {"pending", "failed", "deployed"} : Show(t, Now(t, s))
    /\ Badly(r, t)

\* A request that is not at work on the runner fails and changes nothing of
\* it, unless the call that was to show the new configuration is the one that
\* fails.
Refuse(r, t) ==
    /\ Concerns(r, t) /\ r \notin work[t]
    /\ \/ Show(t, {shown[t]})
       \/ ~Spared(r) /\ Free(t) /\ Show(t, New(r, t))
    /\ Badly(r, t)
    /\ UNCHANGED <<work, target, ask>>

\* A client that hung up has been told of failure, and all the same what its
\* create was at is deployed later.
DeployLate(r) ==
    LET t == ask[r].team IN
    /\ ask[r].kind = "create" /\ told[r] = "failure" /\ r \in gone
    /\ \E v \in shown[t] : v.status = "failed" /\ v.cfg \in Of(r, t)
    /\ shown' = [shown EXCEPT ![t] = {[v EXCEPT !.status = "deployed"] : v \in @}]
    /\ UNCHANGED <<work, target, ask, stage, told, report>>

-----------------------------------------------------------------------------
\* A chart upgrade makes its list, and answers when it is through.
ListAll(r) ==
    /\ stage[r] = "working" /\ ask[r].kind = "upgrade" /\ report[r] = NoReport
    /\ \/ /\ \E o \in [Teams -> {"absent", "todo", "skipped"}] :
                report' = [report EXCEPT ![r] = o]
          /\ UNCHANGED <<stage, told>>
       \/ End(r, "failure") /\ UNCHANGED report
    /\ UNCHANGED <<shown, work, target, ask>>

EndUpgrade(r) ==
    /\ stage[r] = "working" /\ ask[r].kind = "upgrade"
    /\ \A t \in Teams : report[r][t] # "todo"
    /\ End(r, "success")
    /\ UNCHANGED <<shown, work, target, ask, report>>

Delete(r) ==
    /\ stage[r] = "working" /\ ask[r].kind = "delete"
    /\ stage' = [stage EXCEPT ![r] = "done"]
    /\ UNCHANGED <<shown, work, target, ask, told, report>>

Reply(r) ==
    /\ stage[r] = "done"
    /\ End(r, "success")
    /\ UNCHANGED <<shown, work, target, ask, report>>

Vanish(t) ==
    /\ Doomed(t) /\ Show(t, {})
    /\ UNCHANGED <<work, target, ask, stage, told, report>>

\* The server dies with what it was doing, and starts with another chart.
Crash ==
    /\ stage' = [r \in Reqs |-> IF stage[r] \in {"working", "done"} THEN "dead"
                                ELSE stage[r]]
    /\ work' = [t \in Teams |-> {}]
    /\ target' \in Charts
    /\ UNCHANGED <<shown, ask, told, report>>

Next ==
    \/ \E r \in Reqs :
          \/ Ask(r) \/ DeployLate(r) \/ ListAll(r) \/ EndUpgrade(r)
          \/ Delete(r) \/ Reply(r)
          \/ \E t \in Teams :
                Begin(r, t) \/ Succeed(r, t) \/ Fail(r, t) \/ Refuse(r, t)
    \/ \E t \in Teams : Vanish(t)
    \/ Crash

Spec == Init /\ [][Next]_vars

=============================================================================
