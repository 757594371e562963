-------------------------- MODULE RunnerRefinement --------------------------
(***************************************************************************)
(* The handlers of RunnerApi implement CredentialService.  The credentials *)
(* of a team are its Secret; a request is rotating until the call that     *)
(* writes the Secret has returned, and its status code is what it is told. *)
(* They implement RunnerService as well: the runner of a team is the latest*)
(* revision of its release, and the request that waits for Helm to deploy  *)
(* it is at work on it.                                                    *)
(***************************************************************************)
EXTENDS RunnerInvariant

\* The calls of a create or an update up to the one that writes the Secret.
BeforeSecret == {"nsGet", "nsCreate", "secretGet", "secretCreate", "secretUpdate"}

Phase(call) ==
    CASE call = "idle"     -> "new"
      [] call = "answered" -> "over"
      [] call = "dead"     -> "dead"
      [] call \in BeforeSecret         -> "rotating"
      [] call \in Calls \ BeforeSecret -> "rotated"

Told(code) ==
    CASE code = 0 -> "nothing"
      [] code \in {200, 201, 204} -> "success"
      [] code \in {404, 422, 500} -> "failure"

Service == INSTANCE CredentialService
    WITH creds <- secret,
         ask   <- arg,
         phase <- [r \in Reqs |-> Phase(pc[r])],
         told  <- [r \in Reqs |-> Told(resp[r])],
         doomed <- removing,
         Unset <- None

\* UpsertGitHubAppSecret, DeleteRunner and the order of calls in CreateRunner
\* and UpdateRunner: read, overlay and conditional write, interleaved with
\* those of any other requests, with failures, lost replies, cancelled
\* contexts, terminating namespaces and crashes, look to clients like one
\* atomic overlay per request; no success is answered before it, no Secret
\* disappears before a DELETE of the team got so far as to ask for the
\* namespace to go, and none that did not is answered 204.
CredentialsAreAtomic == Service!Spec

-----------------------------------------------------------------------------
(* The runners. *)

Shown(v) == [status |-> IF v.status \in Pending THEN "pending" ELSE v.status,
             chart |-> v.chart, cfg |-> v.cfg]

Stage(r) ==
    CASE pc[r] = "idle"     -> "new"
      [] pc[r] = "dead"     -> "dead"
      [] pc[r] = "reply"    -> "done"
      [] pc[r] = "answered" -> IF resp[r] = 422 THEN "refused" ELSE "over"
      [] pc[r] \in Calls \ {"reply"} -> "working"

Runners == INSTANCE RunnerService
    WITH shown  <- [t \in Teams |-> {Shown(v) : v \in Latest(t)}],
         work   <- [t \in Teams |-> {r \in Reqs : Deploys(r, t)}],
         ask    <- arg,
         stage  <- [r \in Reqs |-> Stage(r)],
         told   <- [r \in Reqs |-> Told(resp[r])],
         report <- outcome,
         NoReport <- NoOutcome

\* Install, upgradeWithChart, UpgradeChart, Uninstall and the handlers that
\* call them, whatever requests overlap, fail, are cancelled, leave Helm behind
\* or die with the server: on a runner that nobody has asked to delete one
\* request works at a time, nothing that Helm stores late touches what it
\* shows, it changes only to configurations that requests for that team
\* supplied, with the chart that is configured, and it is never lost; success
\* is told only when that is what is deployed, unless a call failed or the
\* client hung up, and so is failure after Helm has begun.
RunnersAreRequested == Runners!Spec

\* The values a request is about to deploy on its team, or on a release of its
\* list, are values it may deploy, unless the chart cannot do without the url.
MayDeploy(r) ==
    \/ loc[r].cfg \in Runners!Mine(r, cur[r])
    \/ pc[r] = "upgradeRun" /\ arg[r].kind # "upgrade" /\ loc[r].cfg.url = None

\* The inductive invariant behind RunnersAreRequested, on top of ReportInv.
DeployInv ==
    /\ \A t \in Teams :
          \A v \in hist[t] \union Bases(t) \union Owns(t) : v.cfg \in Runners!Configs(t)
    /\ \A t \in Teams : Undeleted(t) =>
          /\ \A j, k \in late :
                j.team = t /\ k.team = t /\ j.own.rev = k.own.rev => j = k
          /\ \A w \in Owns(t), v \in Latest(t) : v.rev = w.rev => v = w
          /\ \A v \in Latest(t) : v.status \in Pending \union {"deployed", "failed"}
          /\ \A r \in Reqs : Deploys(r, t) =>
                \E s \in Pending : Own(r, s) \in hist[t]
    /\ \A j \in late : j.base = {} =>
          /\ arg[j.by].kind = "create" /\ resp[j.by] = 500 /\ j.by \in gone
          /\ arg[j.by].team = j.team
          /\ j.own.cfg \in Runners!Of(j.by, j.team)
    /\ \A r \in Reqs : Busy(r) =>
          /\ arg[r].kind = "create" => arg[r].url
          /\ pc[r] = "list" => outcome[r] = NoOutcome
          /\ arg[r].kind = "upgrade" /\ pc[r] \notin {"list", "nextRelease"}
                => outcome[r][cur[r]] = "todo"
          /\ pc[r] \in {"upgradeWait", "upgradeRecord"} => loc[r].base # {}
          /\ pc[r] \in {"installRun", "upgradeRun"} \union Waiting => MayDeploy(r)

=============================================================================
