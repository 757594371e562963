----------------------------- MODULE RunnerApi -----------------------------
(***************************************************************************)
(* The management API: the handlers that change something (CreateRunner,   *)
(* UpdateRunner, DeleteRunner, UpgradeAllRunners of                        *)
(* api/internal/api/handlers.go) with the Helm and Kubernetes clients they *)
(* call.  net/http runs each request in a goroutine of its own and no lock *)
(* is held anywhere, so requests interleave at every call to the cluster.  *)
(* One action is one such call together with the code up to the next one.  *)
(*                                                                         *)
(* A request can lose its context (the client hangs up, or the 60 s        *)
(* timeout of api/cmd/server/main.go fires), calls can fail, and the       *)
(* server can be killed and restarted, possibly with another chart         *)
(* version configured.                                                     *)
(***************************************************************************)
EXTENDS Cluster, FiniteSets

CONSTANTS
    Offered,        \* the requests clients may send
    Provisioned,    \* teams that may have a runner at the start
    Installed,      \* the chart version they were installed with
    MaxFaults,      \* bound: calls that fail for no reason of the model's
    MaxCancels,     \* bound: requests that lose their context
    MaxCrashes      \* bound: server restarts

Kinds == {"create", "update", "delete", "upgrade"}

\* A request: url and fields say which of githubConfigUrl and the three
\* credential fields the body supplies.
Request == [kind : Kinds, team : Teams \union {None},
            url : BOOLEAN, fields : SUBSET Fields]

NoRequest == [kind |-> None, team |-> None, url |-> FALSE, fields |-> {}]

ASSUME ApiAssumption ==
    /\ Offered \subseteq Request
    /\ \A q \in Offered : q.kind # "upgrade" => q.team \in Teams
    /\ Provisioned \subseteq Teams
    /\ Installed \in Charts
    /\ MaxFaults \in Nat /\ MaxCancels \in Nat /\ MaxCrashes \in Nat

VARIABLES
    target,     \* cfg.ARCChartVersion of the running server
    pc,         \* pc[r]: the call request r makes next
    arg,        \* arg[r]: the request
    cur,        \* cur[r]: the team it is working on
    loc,        \* loc[r]: what its goroutine read or built so far
    resp,       \* resp[r]: the status code it was answered with, 0 before
    outcome,    \* outcome[r][t]: the report of an upgrade-chart request
    late,       \* Helm's own goroutines that outlive the call they served
    gone,       \* requests whose context is cancelled
    faults, crashes,
    removing,   \* history: the requests that asked for a namespace to go
    disturbed   \* history: the requests that met a fault, a cancelled run of
                \* Helm, or a rival on the same team

request == <<arg, cur, loc, resp, outcome>>
bounds == <<target, gone, faults, crashes>>
vars == <<cluster, request, pc, late, bounds, removing, disturbed>>

Calls == {"nsGet", "nsCreate", "secretGet", "secretCreate", "secretUpdate",
          "installGet", "installRun", "installWait",
          "upgradeGet", "chartGet", "upgradeRun", "upgradeWait", "upgradeRecord",
          "list", "nextRelease", "uninstallRun", "uninstallWait", "nsDelete",
          "reply"}

\* base holds the release an upgrade works from, as it was read; an install
\* has none.
Local == [seen : SecretState, cfg : Config, rev : Nat, revs : SUBSET Nat,
          base : SUBSET Revision]
NoLocal == [seen |-> NoSecret, cfg |-> NoConfig, rev |-> 0, revs |-> {},
            base |-> {}]

\* A goroutine that read the Secret s, built the values c, deploys them as
\* revision n over the revision in S, or has the revisions S to purge.
Read(s) == [NoLocal EXCEPT !.seen = s]
Built(c) == [NoLocal EXCEPT !.cfg = c]
Deploying(r, n, S) == [loc[r] EXCEPT !.rev = n, !.base = S]
Purging(S) == [NoLocal EXCEPT !.revs = S]

\* What a goroutine that goes on by itself keeps: the revision it deploys, and
\* the one under it.
Job == [by : Reqs, team : Teams, base : SUBSET Revision, own : Revision]

Outcomes == {"absent", "todo", "skipped", "upgraded", "failed"}
NoOutcome == [t \in Teams |-> "absent"]

Busy(r) == pc[r] \in Calls

Init ==
    /\ \E P \in SUBSET Provisioned :
        /\ ns = [t \in Teams |-> IF t \in P THEN "active" ELSE "absent"]
        /\ secret = [t \in Teams |->
                IF t \in P
                THEN [exists |-> TRUE, data |-> [f \in Fields |-> Prior]]
                ELSE NoSecret]
        /\ hist = [t \in Teams |->
                IF t \in P
                THEN {[rev |-> 1, status |-> "deployed", chart |-> Installed,
                       cfg |-> [url |-> Prior, rest |-> Prior]]}
                ELSE {}]
    /\ target \in Charts
    /\ pc = [r \in Reqs |-> "idle"]
    /\ arg = [r \in Reqs |-> NoRequest]
    /\ cur = [r \in Reqs |-> None]
    /\ loc = [r \in Reqs |-> NoLocal]
    /\ resp = [r \in Reqs |-> 0]
    /\ outcome = [r \in Reqs |-> NoOutcome]
    /\ late = {} /\ gone = {} /\ faults = 0 /\ crashes = 0
    /\ removing = {} /\ disturbed = {}

-----------------------------------------------------------------------------
(***************************************************************************)
(* Moving on, answering, failing.                                          *)
(***************************************************************************)

Goto(r, call, x) ==
    /\ pc' = [pc EXCEPT ![r] = call]
    /\ loc' = [loc EXCEPT ![r] = x]
    /\ UNCHANGED <<cur, resp, outcome>>

Answer(r, code) ==
    /\ pc' = [pc EXCEPT ![r] = "answered"]
    /\ loc' = [loc EXCEPT ![r] = NoLocal]
    /\ resp' = [resp EXCEPT ![r] = code]
    /\ UNCHANGED <<cur, outcome>>

Healthy == UNCHANGED <<faults, disturbed>>

\* A call fails: the API server or the network lets it down.
Fault(r) ==
    /\ faults < MaxFaults
    /\ faults' = faults + 1
    /\ disturbed' = disturbed \union {r}

\* A call made with the request's context goes through, or does not.
Served(r) == r \notin gone /\ Healthy
Broken(r) == (r \in gone /\ Healthy) \/ Fault(r)

\* The two ways a failed write can have ended: never applied, or applied with
\* the reply lost.
Unsure(var, applied) == var' = var \/ var' = applied

-----------------------------------------------------------------------------
(***************************************************************************)
(* A request arrives.  A create that lacks a required field is answered    *)
(* 422 at once; an update that supplies a credential field rotates the     *)
(* Secret before the upgrade, any other goes straight to Helm.             *)
(***************************************************************************)

ValidCreate(q) == q.url /\ q.fields = Fields

EntryCall(q) ==
    CASE q.kind = "create"  -> "nsGet"
      [] q.kind = "update"  -> IF q.fields # {} THEN "secretGet" ELSE "upgradeGet"
      [] q.kind = "delete"  -> "uninstallRun"
      [] q.kind = "upgrade" -> "list"

\* Requests in flight that work on a team q works on.
Rivals(q) ==
    {o \in Reqs : Busy(o) /\ (q.kind = "upgrade" \/ arg[o].kind = "upgrade"
                              \/ arg[o].team = q.team)}

\* Helm goes on with something a request q works on.
StillBusy(q) == \E j \in late : q.kind = "upgrade" \/ j.team = q.team

Receive(r) ==
    /\ pc[r] = "idle"
    /\ \E q \in Offered :
        /\ arg' = [arg EXCEPT ![r] = q]
        /\ cur' = [cur EXCEPT ![r] = q.team]
        /\ IF q.kind = "create" /\ ~ValidCreate(q)
           THEN /\ pc' = [pc EXCEPT ![r] = "answered"]
                /\ resp' = [resp EXCEPT ![r] = 422]
                /\ UNCHANGED disturbed
           ELSE /\ pc' = [pc EXCEPT ![r] = EntryCall(q)]
                /\ disturbed' = IF Rivals(q) = {} /\ ~StillBusy(q) THEN disturbed
                                ELSE disturbed \union Rivals(q) \union {r}
                /\ UNCHANGED resp
    /\ UNCHANGED <<cluster, loc, outcome, late, bounds, removing>>

-----------------------------------------------------------------------------
(***************************************************************************)
(* EnsureNamespace.  A namespace that is still terminating counts as       *)
(* existing, and so does one that another request creates meanwhile.       *)
(***************************************************************************)

NsGet(r) ==
    /\ pc[r] = "nsGet"
    /\ \/ /\ Served(r)
          /\ Goto(r, IF ns[cur[r]] = "absent" THEN "nsCreate" ELSE "secretGet",
                  NoLocal)
       \/ Broken(r) /\ Answer(r, 500)
    /\ UNCHANGED cluster

Created(t) == IF ns[t] = "absent" THEN [ns EXCEPT ![t] = "active"] ELSE ns

NsCreate(r) ==
    /\ pc[r] = "nsCreate"
    /\ \/ /\ Served(r)
          /\ ns' = Created(cur[r])
          /\ Goto(r, "secretGet", NoLocal)
       \/ /\ Broken(r)
          /\ Unsure(ns, Created(cur[r]))
          /\ Answer(r, 500)
    /\ UNCHANGED <<secret, hist>>

(***************************************************************************)
(* UpsertGitHubAppSecret: read, then create when it was not there, else    *)
(* write back what was read with the supplied keys laid over it.  The      *)
(* object written back carries the resourceVersion that was read, so it    *)
(* is refused once the Secret has changed or gone.                         *)
(***************************************************************************)

AfterSecret(r) == IF arg[r].kind = "create" THEN "installGet" ELSE "upgradeGet"

\* Mutant: fields that were not supplied are written too, as empty strings.
OverlayAll(r, old) ==
    [f \in Fields |-> IF f \in arg[r].fields THEN r ELSE None]

Overlay(r, old) ==
    [f \in Fields |-> IF f \in arg[r].fields THEN r ELSE old[f]]

SecretGet(r) ==
    /\ pc[r] = "secretGet"
    /\ \/ /\ Served(r)
          /\ Goto(r, IF secret[cur[r]].exists THEN "secretUpdate"
                     ELSE "secretCreate",
                  Read(secret[cur[r]]))
       \/ Broken(r) /\ Answer(r, 500)
    /\ UNCHANGED cluster

CanCreateSecret(r) == ns[cur[r]] = "active" /\ ~secret[cur[r]].exists

\* Mutant: the Secret written is built anew, without the resourceVersion read.
CanOverwriteSecret(r) == secret[cur[r]].exists

CanUpdateSecret(r) == secret[cur[r]] = loc[r].seen

Written(r) == [secret EXCEPT ![cur[r]] =
                  [exists |-> TRUE, data |-> Overlay(r, loc[r].seen.data)]]

\* Both writes end alike: stored; refused; or failed one way or the other.
WriteSecret(r, accepted) ==
    /\ \/ /\ accepted /\ Served(r)
          /\ secret' = Written(r)
          /\ Goto(r, AfterSecret(r), NoLocal)
       \/ /\ ~accepted /\ Served(r)
          /\ Answer(r, 500)
          /\ UNCHANGED secret
       \/ /\ Broken(r)
          /\ Answer(r, 500)
          /\ Unsure(secret, IF accepted THEN Written(r) ELSE secret)
    /\ UNCHANGED <<ns, hist>>

SecretCreate(r) == pc[r] = "secretCreate" /\ WriteSecret(r, CanCreateSecret(r))

SecretUpdate(r) == pc[r] = "secretUpdate" /\ WriteSecret(r, CanUpdateSecret(r))

-----------------------------------------------------------------------------
(***************************************************************************)
(* What becomes of a request when its Helm operation returns: the handlers *)
(* tell "not found" from other errors (isNotFound), CreateRunner does not, *)
(* and UpgradeAllRunners books the result and goes on to the next release. *)
(***************************************************************************)

Result == {"ok", "notFound", "error"}

\* Mutant: CreateRunner maps "not found" to 404 as its neighbours do.
CodeNotFound(kind, res) == IF res = "notFound" THEN 404 ELSE 500

Code(kind, res) ==
    IF res = "notFound" /\ kind # "create" THEN 404 ELSE 500

SuccessCode(kind) ==
    CASE kind = "create" -> 201 [] kind = "update" -> 200 [] kind = "delete" -> 204

\* Mutant: a failed upgrade stays on the list and is tried again.
BookedAgain(res) == IF res = "ok" THEN "upgraded" ELSE "todo"

\* Mutant: the error of UpgradeChart is logged and otherwise forgotten.
BookedAnyway(res) == "upgraded"

Booked(res) == IF res = "ok" THEN "upgraded" ELSE "failed"

HelmReturns(r, res) ==
    IF arg[r].kind = "upgrade"
    THEN /\ pc' = [pc EXCEPT ![r] = "nextRelease"]
         /\ loc' = [loc EXCEPT ![r] = NoLocal]
         /\ outcome' = [outcome EXCEPT ![r][cur[r]] = Booked(res)]
         /\ UNCHANGED <<cur, resp>>
    ELSE IF res = "ok"
    THEN Goto(r, IF arg[r].kind = "delete" THEN "nsDelete" ELSE "reply", NoLocal)
    ELSE Answer(r, Code(arg[r].kind, res))

\* After the last call that changes something comes the answer; releaseToModel
\* asks the cluster twice more for it, and does without if that fails.
Reply(r) ==
    /\ pc[r] = "reply"
    /\ Healthy
    /\ Answer(r, SuccessCode(arg[r].kind))
    /\ UNCHANGED cluster

\* loadChart comes before the first read of Install, Upgrade and UpgradeChart;
\* all that matters of it here is that the chart may not be had, and that the
\* registry may say so in the words "not found".
ChartUnavailable(r) ==
    /\ \/ pc[r] \in {"installGet", "chartGet"}
       \/ pc[r] = "upgradeGet" /\ arg[r].kind = "update"
    /\ Fault(r)
    /\ \E res \in {"error", "notFound"} : HelmReturns(r, res)
    /\ UNCHANGED cluster

(***************************************************************************)
(* Values.  buildValues writes every key on every call; upgradeWithChart   *)
(* lays them over the release's own, except empty strings, which only      *)
(* githubConfigUrl can be.                                                 *)
(***************************************************************************)

BuiltValues(r) == [url |-> IF arg[r].url THEN r ELSE None, rest |-> r]

\* Mutant: the release's own values are laid over the new ones.
MergedBackwards(r, old) ==
    LET new == BuiltValues(r)
    IN  [k \in {"url", "rest"} |-> IF old[k] = None THEN new[k] ELSE old[k]]

Merged(r, old) ==
    LET new == BuiltValues(r)
    IN  [k \in {"url", "rest"} |-> IF new[k] = None THEN old[k] ELSE new[k]]

(***************************************************************************)
(* Install.  Whatever error the read returns is taken for "no release";    *)
(* a release left failed is upgraded instead, any other refuses.           *)
(***************************************************************************)

\* Mutant: the check for a release left failed is dropped.
NeverReinstallable(v) == FALSE

Reinstallable(v) == v.status = "failed"

InstallGet(r) ==
    LET t == cur[r]
        install == Built(BuiltValues(r))
    IN  /\ pc[r] = "installGet"
        /\ \/ hist[t] = {} /\ Healthy /\ Goto(r, "installRun", install)
           \/ Fault(r) /\ Goto(r, "installRun", install)
           \/ \E v \in Latest(t) :
                /\ Healthy
                /\ IF Reinstallable(v) THEN Goto(r, "upgradeGet", NoLocal)
                   ELSE HelmReturns(r, "error")
        /\ UNCHANGED cluster

\* helm install: refuses a name in use, creates the namespace if it has to
\* and stores a pending revision.
InstallRun(r) ==
    LET t == cur[r]
        v == [rev |-> 1, status |-> "pending-install", chart |-> target,
              cfg |-> loc[r].cfg]
    IN  /\ pc[r] = "installRun"
        /\ \/ /\ Healthy /\ hist[t] = {} /\ ns[t] # "terminating"
              /\ ns' = Created(t)
              /\ hist' = [hist EXCEPT ![t] = {v}]
              /\ Goto(r, "installWait", Deploying(r, 1, {}))
           \/ /\ hist[t] # {} \/ ns[t] = "terminating"
              /\ Healthy
              /\ HelmReturns(r, "error")
              /\ UNCHANGED <<ns, hist>>
           \/ /\ Fault(r)
              /\ HelmReturns(r, "error")
              /\ \/ UNCHANGED <<ns, hist>>
                 \/ /\ hist[t] = {}
                    /\ ns' = Created(t)
                    /\ \/ UNCHANGED hist
                       \/ /\ ns[t] # "terminating"
                          /\ hist' = [hist EXCEPT ![t] = {v}]
        /\ UNCHANGED secret

(***************************************************************************)
(* The end of an install or an upgrade.  The handler waits for a goroutine *)
(* of Helm that does the work, or for its context.  An upgrade ends with   *)
(* two records: the goroutine marks the base superseded, then the caller   *)
(* the new revision deployed.  An install has one, whose error is only     *)
(* logged, as is that of the first of an upgrade.                          *)
(***************************************************************************)

\* The revision a request is deploying, as it will be stored in the end.
Own(r, status) == [rev |-> loc[r].rev, status |-> status, chart |-> target,
                   cfg |-> loc[r].cfg]

Recorded(t, S) == [hist EXCEPT ![t] = Updated(@, S)]

Superseded(base) == {As(v, "superseded") : v \in base}

InstallWait(r) ==
    LET t == cur[r]
        deployed == Recorded(t, {Own(r, "deployed")})
    IN  /\ pc[r] = "installWait"
        /\ ns[t] = "active"
        /\ \/ Healthy /\ hist' = deployed
           \/ Fault(r) /\ Unsure(hist, deployed)
        /\ HelmReturns(r, "ok")
        /\ UNCHANGED <<ns, secret>>

UpgradeWait(r) ==
    LET t == cur[r]
        superseded == Recorded(t, Superseded(loc[r].base))
    IN  /\ pc[r] = "upgradeWait"
        /\ ns[t] # "absent"
        /\ \/ Healthy /\ hist' = superseded
           \/ Fault(r) /\ Unsure(hist, superseded)
        /\ Goto(r, "upgradeRecord", loc[r])
        /\ UNCHANGED <<ns, secret>>

\* With the context gone as well, Helm's two goroutines share the revision:
\* which of them the caller hears of and what is stored is left to them.
UpgradeRecord(r) ==
    LET t == cur[r]
        as(status) == Recorded(t, {Own(r, status)})
        told == IF Stored(t, loc[r].rev) THEN "ok" ELSE "notFound"
    IN  /\ pc[r] = "upgradeRecord"
        /\ \/ Healthy /\ hist' = as("deployed") /\ HelmReturns(r, told)
           \/ Fault(r) /\ Unsure(hist, as("deployed")) /\ HelmReturns(r, "error")
           \/ /\ r \in gone /\ Healthy
              /\ hist' \in {as("failed"), as("deployed")}
              /\ \E res \in {told, "error"} : HelmReturns(r, res)
        /\ UNCHANGED <<ns, secret>>

\* The work fails: a call does, or the namespace admits no new objects.  The
\* base is stored again as it was read and the new revision as failed; the
\* failure may have hit these records too, which is only logged.
RunFails(r) ==
    LET failed == Recorded(cur[r], loc[r].base \union {Own(r, "failed")})
    IN  /\ pc[r] \in {"installWait", "upgradeWait"}
        /\ \/ ns[cur[r]] # "active" /\ Healthy /\ hist' = failed
           \/ Fault(r) /\ Unsure(hist, failed)
        /\ HelmReturns(r, "error")
        /\ UNCHANGED <<ns, secret>>

\* The context ends first: the caller records a failure and leaves, the
\* goroutine goes on.
Abandoned(r) ==
    /\ pc[r] \in {"installWait", "upgradeWait"}
    /\ r \in gone
    /\ hist' = Recorded(cur[r], {Own(r, "failed")})
    /\ late' = late \union {[by |-> r, team |-> cur[r], base |-> loc[r].base,
                             own |-> Own(r, "failed")]}
    /\ disturbed' = disturbed \union {r}
    /\ HelmReturns(r, "error")
    /\ UNCHANGED <<ns, secret, faults>>

\* Left alone, the goroutine records what it always does, but nobody is there
\* for the second record of an upgrade.
LateDone(j) ==
    /\ ns[j.team] = "active" \/ (j.base # {} /\ ns[j.team] = "terminating")
    /\ Healthy
    /\ hist' = Recorded(j.team, IF j.base = {} THEN {As(j.own, "deployed")}
                                ELSE Superseded(j.base))

\* Or its work fails; or it was an install, whose record came before that of the
\* caller, and no longer stands.
LateFailed(j) ==
    LET failed == Recorded(j.team, j.base \union {j.own})
    IN  /\ \/ (ns[j.team] # "active" \/ j.base = {}) /\ Healthy
           \/ Fault(j.by)
        /\ IF j.base = {} THEN UNCHANGED hist ELSE Unsure(hist, failed)

Late(j) ==
    /\ LateDone(j) \/ LateFailed(j)
    /\ late' = late \ {j}
    /\ UNCHANGED <<ns, secret, request, pc, target, gone, crashes, removing>>

(***************************************************************************)
(* Upgrade and upgradeWithChart.  A failed read of the current release is  *)
(* swallowed: the new values are then merged into nothing.                 *)
(***************************************************************************)

UpgradeGet(r) ==
    /\ pc[r] = "upgradeGet"
    /\ \/ /\ hist[cur[r]] = {} /\ Healthy
          /\ Goto(r, "upgradeRun", Built(Merged(r, NoConfig)))
       \/ \E v \in Latest(cur[r]) :
            /\ Healthy
            /\ Goto(r, "upgradeRun", Built(Merged(r, v.cfg)))
       \/ /\ Fault(r)
          /\ Goto(r, "upgradeRun", Built(Merged(r, NoConfig)))
    /\ UNCHANGED cluster

\* UpgradeChart redeploys the values it read, and does report a failed read.
ChartGet(r) ==
    /\ pc[r] = "chartGet"
    /\ \/ hist[cur[r]] = {} /\ Healthy /\ HelmReturns(r, "notFound")
       \/ Fault(r) /\ HelmReturns(r, "error")
       \/ \E v \in Latest(cur[r]) :
            /\ Healthy
            /\ Goto(r, "upgradeRun", Built(v.cfg))
    /\ UNCHANGED cluster

\* The chart cannot be rendered without githubConfigUrl, and a namespace that
\* is not active takes no new revision.
Deployable(r) == loc[r].cfg.url # None /\ ns[cur[r]] = "active"

UpgradeRun(r) ==
    LET t == cur[r]
        next(v) == [rev |-> v.rev + 1, status |-> "pending-upgrade",
                    chart |-> target, cfg |-> loc[r].cfg]
        stored(v) == [hist EXCEPT ![t] = StoreIn(@, next(v))]
        ready(v) == Base(t, v) # {} /\ Deployable(r)
    IN  /\ pc[r] = "upgradeRun"
        /\ \/ /\ hist[t] = {} /\ Healthy
              /\ HelmReturns(r, "notFound")
              /\ UNCHANGED hist
           \/ \E v \in Latest(t) :
                /\ ready(v) /\ Healthy
                /\ hist' = stored(v)
                /\ Goto(r, "upgradeWait", Deploying(r, v.rev + 1, Base(t, v)))
           \/ \E v \in Latest(t) :
                /\ ~ready(v) /\ Healthy
                /\ HelmReturns(r, IF v.status = "uninstalling" /\ Base(t, v) = {}
                                  THEN "notFound" ELSE "error")
                /\ UNCHANGED hist
           \/ /\ Fault(r)
              /\ HelmReturns(r, "error")
              /\ \/ UNCHANGED hist
                 \/ \E v \in Latest(t) : ready(v) /\ hist' = stored(v)
        /\ UNCHANGED <<ns, secret>>

-----------------------------------------------------------------------------
(***************************************************************************)
(* UpgradeAllRunners.  helm list returns the latest revision of every      *)
(* managed release; those in transit may or may not be among them.  A      *)
(* release whose listed chart is the configured one is skipped; whether    *)
(* that is booked here or when its turn comes makes no difference, since   *)
(* neither the list nor the configuration changes in between.              *)
(***************************************************************************)

InTransit(v) == v.status \in Pending \union {"uninstalling"}

UpToDate(v) == v.chart = target

Listing(t) ==
    {IF UpToDate(v) THEN "skipped" ELSE "todo" : v \in Latest(t)}
    \union (IF \A v \in Latest(t) : InTransit(v) THEN {"absent"} ELSE {})

List(r) ==
    /\ pc[r] = "list"
    /\ \/ /\ Healthy
          /\ \E o \in [Teams -> Outcomes] :
                /\ \A t \in Teams : o[t] \in Listing(t)
                /\ outcome' = [outcome EXCEPT ![r] = o]
          /\ pc' = [pc EXCEPT ![r] = "nextRelease"]
          /\ UNCHANGED <<cur, loc, resp>>
       \/ Fault(r) /\ Answer(r, 500)
    /\ UNCHANGED cluster

Todo(r) == {t \in Teams : outcome[r][t] = "todo"}

NextRelease(r) ==
    /\ pc[r] = "nextRelease"
    /\ Healthy
    /\ \/ \E t \in Todo(r) :
            /\ cur' = [cur EXCEPT ![r] = t]
            /\ pc' = [pc EXCEPT ![r] = "chartGet"]
            /\ UNCHANGED <<loc, resp, outcome>>
       \/ Todo(r) = {} /\ Answer(r, 200)
    /\ UNCHANGED cluster

-----------------------------------------------------------------------------
(***************************************************************************)
(* DeleteRunner.  helm uninstall marks the latest revision, which may fail *)
(* unnoticed, deletes what the chart made, waits, and purges the revisions *)
(* it began with.  It takes no context.  Then the namespace is deleted     *)
(* with a background context, and an error of that call is only logged.    *)
(***************************************************************************)

UninstallRun(r) ==
    LET t == cur[r]
    IN  /\ pc[r] = "uninstallRun"
        /\ \/ /\ hist[t] = {} /\ Healthy
              /\ HelmReturns(r, "notFound")
              /\ UNCHANGED hist
           \/ Fault(r) /\ HelmReturns(r, "error") /\ UNCHANGED hist
           \/ \E v \in Latest(t) :
                LET marked == Recorded(t, {As(v, "uninstalling")}) IN
                /\ \/ Healthy /\ hist' = marked
                   \/ Fault(r) /\ Unsure(hist, marked)
                /\ Goto(r, "uninstallWait", Purging(Revs(t)))
        /\ UNCHANGED <<ns, secret>>

UninstallWait(r) ==
    LET t == cur[r]
        purged == [hist EXCEPT ![t] = PurgeFrom(t, loc[r].revs)]
    IN  /\ pc[r] = "uninstallWait"
        /\ \/ /\ Healthy
              /\ hist' = purged
              /\ HelmReturns(r, IF loc[r].revs \subseteq Revs(t) THEN "ok"
                                ELSE "notFound")
           \/ /\ Fault(r)
              /\ Unsure(hist, purged)
              /\ HelmReturns(r, "error")
        /\ UNCHANGED <<ns, secret>>

\* Mutant: the cleanup uses the request's context.
DeleteNamespaceInRequest(r, deleted) ==
    \/ Served(r) /\ ns' = deleted
    \/ Broken(r) /\ Unsure(ns, deleted)

DeleteNamespace(r, deleted) ==
    \/ Healthy /\ ns' = deleted
    \/ Fault(r) /\ Unsure(ns, deleted)

NsDelete(r) ==
    LET deleted == IF ns[cur[r]] = "active"
                   THEN [ns EXCEPT ![cur[r]] = "terminating"] ELSE ns
    IN  /\ pc[r] = "nsDelete"
        /\ DeleteNamespace(r, deleted)
        /\ removing' = removing \union {r}
        /\ Goto(r, "reply", NoLocal)
        /\ UNCHANGED <<secret, hist>>

-----------------------------------------------------------------------------
(***************************************************************************)
(* The world around the handlers.                                          *)
(***************************************************************************)

\* The client hangs up or the timeout middleware fires.
Cancel(r) ==
    /\ Busy(r) /\ r \notin gone
    /\ Cardinality(gone) < MaxCancels
    /\ gone' = gone \union {r}
    /\ UNCHANGED <<cluster, request, pc, late, target, faults, crashes,
                   removing, disturbed>>

\* The server is killed, or shut down with requests left after its 30 s of
\* grace, and started again on the configuration it finds then.
Crash ==
    /\ crashes < MaxCrashes
    /\ crashes' = crashes + 1
    /\ target' \in Charts
    /\ pc' = [r \in Reqs |-> IF Busy(r) THEN "dead" ELSE pc[r]]
    /\ loc' = [r \in Reqs |-> NoLocal]
    /\ late' = {}
    /\ UNCHANGED <<cluster, arg, cur, resp, outcome, gone, faults,
                   removing, disturbed>>

Namespaces ==
    /\ \E t \in Teams : NsEmpty(t) \/ NsGone(t)
    /\ UNCHANGED <<request, pc, late, bounds, removing, disturbed>>

\* One step of the goroutine that serves r.
Step(r) ==
    /\ \/ /\ \/ NsGet(r) \/ NsCreate(r)
             \/ SecretGet(r) \/ SecretCreate(r) \/ SecretUpdate(r)
             \/ ChartUnavailable(r)
             \/ InstallGet(r) \/ InstallRun(r) \/ InstallWait(r)
             \/ UpgradeGet(r) \/ ChartGet(r)
             \/ UpgradeRun(r) \/ UpgradeWait(r) \/ UpgradeRecord(r)
             \/ RunFails(r)
             \/ List(r) \/ NextRelease(r)
             \/ UninstallRun(r) \/ UninstallWait(r)
             \/ Reply(r)
          /\ UNCHANGED <<late, removing>>
       \/ Abandoned(r) /\ UNCHANGED removing
       \/ NsDelete(r) /\ UNCHANGED late
    /\ UNCHANGED <<arg, target, gone, crashes>>

Next ==
    \/ \E r \in Reqs : Receive(r) \/ Step(r) \/ Cancel(r)
    \/ \E j \in late : Late(j)
    \/ Crash
    \/ Namespaces

Spec == Init /\ [][Next]_vars

\* The Go scheduler runs every goroutine, every call to the cluster returns,
\* and the namespace controller does its work.  Nobody has to send a request.
Fairness ==
    /\ \A r \in Reqs : WF_vars(Step(r))
    /\ WF_vars(Namespaces)

FairSpec == Spec /\ Fairness

-----------------------------------------------------------------------------
(***************************************************************************)
(* Types.                                                                  *)
(***************************************************************************)

\* The status codes each handler can answer with (0: not answered yet).
Codes(kind) ==
    CASE kind = "create"  -> {0, 201, 422, 500}
      [] kind = "update"  -> {0, 200, 404, 500}
      [] kind = "delete"  -> {0, 204, 404, 500}
      [] kind = "upgrade" -> {0, 200, 500}
      [] OTHER -> {0}

RequestTypeOK ==
    /\ pc \in [Reqs -> Calls \union {"idle", "answered", "dead"}]
    /\ arg \in [Reqs -> Request \union {NoRequest}]
    /\ cur \in [Reqs -> Teams \union {None}]
    /\ loc \in [Reqs -> Local]
    /\ outcome \in [Reqs -> [Teams -> Outcomes]]
    /\ DOMAIN resp = Reqs
    /\ \A r \in Reqs : resp[r] \in Codes(arg[r].kind)

BoundTypeOK ==
    /\ target \in Charts
    /\ late \subseteq Job
    /\ gone \subseteq Reqs /\ removing \subseteq Reqs /\ disturbed \subseteq Reqs
    /\ faults \in Nat /\ crashes \in Nat

\* Every variable has its type, and every handler answers only with the codes
\* it has: CreateRunner never 404, whatever Helm told it.
TypeOK == ClusterTypeOK /\ RequestTypeOK /\ BoundTypeOK

-----------------------------------------------------------------------------
(***************************************************************************)
(* Safety.                                                                 *)
(***************************************************************************)

\* A DELETE of t got as far as asking for its namespace to go.
Removed(t) == \E r \in removing : cur[r] = t

Released(t) == hist[t] # {}

\* "Ensure the namespace exists before writing the secret", then write it,
\* then install (CreateRunner): as long as no DELETE got so far as to ask for
\* the namespace to go, whatever requests overlap, fail half way, are
\* cancelled or die with the server, there is never a release whose Secret is
\* missing or lacks one of the three credential fields.
CredentialsBeforeRelease ==
    \A t \in Teams :
        ~Removed(t) /\ Released(t) => ns[t] = "active" /\ Complete(secret[t])

\* "Only overwrite keys that were supplied" (UpsertGitHubAppSecret): a
\* credential field changes in no other way than by a request that supplied
\* it, writing its own value, even when several rotate different fields at
\* once; it is never blanked and never set back to an older value.
RotationWritesOnlyItsFields ==
    [][\A t \in Teams, f \in Fields :
          secret'[t].exists /\ secret'[t].data[f] # secret[t].data[f]
          => \E r \in Reqs :
                /\ pc[r] \in {"secretCreate", "secretUpdate"}
                /\ cur[r] = t /\ f \in arg[r].fields
                /\ secret'[t].data[f] = r]_vars

Answers(r, code) == resp[r] # code /\ resp'[r] = code

\* A POST for a team whose last install failed installs it ("upgrade it rather
\* than failing", Install): one that meets no fault, no rival and is not
\* cancelled is answered 500 only over a release that is not failed, or when
\* the namespace of an earlier DELETE is in its way.
CleanCreateSucceeds ==
    [][\A r \in Reqs :
          Answers(r, 500) /\ arg[r].kind = "create" /\ r \notin disturbed' \union gone
          => \/ ns[cur[r]] # "active"
             \/ \E v \in Latest(cur[r]) : v.status # "failed"]_vars

\* "preserving all existing Helm values unchanged" (UpgradeChart), "required
\* chart fields are always present even when not supplied" (upgradeWithChart):
\* without a fault or a rival, a chart upgrade deploys the values the release
\* has, and an update those with githubConfigUrl changed if it was supplied
\* and the runner settings replaced.
UndisturbedUpgradeKeepsValues ==
    [][\A r \in Reqs :
          pc[r] = "upgradeRun" /\ pc'[r] = "upgradeWait" /\ r \notin disturbed
          => \A v \in Latest(cur[r]), w \in Latest(cur[r])' :
             w.cfg = IF arg[r].kind = "upgrade" THEN v.cfg
                     ELSE [url |-> IF arg[r].url THEN r ELSE v.cfg.url,
                           rest |-> r]]_vars

\* The report of UpgradeAllRunners is true of every release it lists: each is
\* accounted for when the answer goes out, and one it calls upgraded has been
\* deployed with the configured chart (as long as nobody deletes the runner,
\* and the client has not hung up, when Helm may report either way).
ReportIsTrue ==
    \A r \in Reqs : arg[r].kind = "upgrade" =>
        /\ resp[r] = 200 => \A t \in Teams : outcome[r][t] # "todo"
        /\ \A t \in Teams :
              /\ Busy(r) /\ r \notin gone /\ outcome[r][t] = "upgraded"
              /\ \A o \in Reqs : arg[o].kind = "delete" => arg[o].team # t
              => \E v \in hist[t] : v.chart = target /\ v.status \in {"deployed", "superseded"}

-----------------------------------------------------------------------------
(***************************************************************************)
(* Liveness.                                                               *)
(***************************************************************************)

\* Nothing a handler does can go on for ever: every request is answered, or
\* dies with the server.  UpgradeAllRunners in particular comes to the end of
\* its list although releases fail and change under it.
EveryRequestAnswered ==
    \A r \in Reqs : Busy(r) ~> pc[r] \in {"answered", "dead"}

\* "Use a background context so request cancellation or the HTTP timeout does
\* not abort the cleanup" (DeleteRunner): once the uninstall has begun, the
\* namespace goes away whatever becomes of the client, unless a call fails or
\* the server dies.
DeleteReachesNamespace ==
    \A r \in Reqs :
        pc[r] = "uninstallWait"
        ~> \/ \E t \in Teams : cur[r] = t /\ ns[t] = "absent"
           \/ resp[r] = 404 \/ pc[r] = "dead" \/ faults > 0

=============================================================================
