-------------------------- MODULE RunnerInvariant --------------------------
(***************************************************************************)
(* The inductive invariants behind TypeOK, CredentialsBeforeRelease,       *)
(* RotationWritesOnlyItsFields, ReportIsTrue, CleanCreateSucceeds and      *)
(* UndisturbedUpgradeKeepsValues.  Their parts say what the place a        *)
(* handler has reached tells of its request, and what the calls of         *)
(* CreateRunner and of Helm have left behind so far.                       *)
(***************************************************************************)
EXTENDS RunnerApi

\* Which handlers make a call.
KindsAt(call) ==
    CASE call \in {"nsGet", "nsCreate", "installGet", "installRun", "installWait"}
            -> {"create"}
      [] call \in {"secretGet", "secretCreate", "secretUpdate", "upgradeGet"}
            -> {"create", "update"}
      [] call \in {"upgradeRun", "upgradeWait", "upgradeRecord"} -> {"create", "update", "upgrade"}
      [] call \in {"list", "nextRelease", "chartGet"} -> {"upgrade"}
      [] call \in {"uninstallRun", "uninstallWait", "nsDelete"} -> {"delete"}
      [] call = "reply" -> {"create", "update", "delete"}

\* A request is answered once, a handler makes only its own calls, all but
\* two of them on behalf of a team, a create passed validation, and a delete
\* that answers success has asked for the namespace to go.
InPlace(r) ==
    /\ pc[r] # "answered" => resp[r] = 0
    /\ r \in removing =>
        /\ pc[r] \in {"reply", "answered", "dead"}
        /\ arg[r].kind = "delete"
    /\ pc[r] = "idle" => arg[r] = NoRequest
    /\ Busy(r) =>
        /\ arg[r] \in Request
        /\ arg[r].kind \in KindsAt(pc[r])
        /\ pc[r] \notin {"list", "nextRelease"} => cur[r] \in Teams
        /\ arg[r].kind = "create" => arg[r].fields = Fields
        /\ pc[r] = "secretUpdate" => loc[r].seen.exists
        /\ pc[r] = "secretCreate" => loc[r].seen = NoSecret
        /\ pc[r] = "reply" /\ arg[r].kind = "delete" => r \in removing

\* While no DELETE took its namespace down, a team's objects stand in the
\* order CreateRunner makes them.
Standing(t) ==
    ~Removed(t) =>
        /\ ns[t] # "terminating"
        /\ secret[t].exists => ns[t] = "active"
        /\ Released(t) => Complete(secret[t])

PastSecret == {"installGet", "installRun", "installWait",
               "upgradeGet", "upgradeRun", "upgradeWait", "upgradeRecord"}

\* A create that is past its second call has left a complete Secret.
Prepared(r) ==
    arg[r].kind = "create" /\ pc[r] \in PastSecret /\ ~Removed(cur[r])
    => Complete(secret[cur[r]])

\* The end of an install or an upgrade.
Waiting == {"installWait", "upgradeWait", "upgradeRecord"}

Numbered(t) == \A v, w \in hist[t] : v.rev = w.rev => v = w

\* One revision at most, and a number below n.
Under(S, n) == \A b, c \in S : b = c /\ b.rev < n

\* Revisions have numbers of their own, and what is deployed has one above
\* what it is deployed over.
Numbers ==
    /\ \A t \in Teams : Numbered(t)
    /\ \A r \in Reqs : pc[r] \in Waiting => Under(loc[r].base, loc[r].rev)
    /\ \A j \in late : Under(j.base, j.own.rev)

Placed == \A r \in Reqs : InPlace(r)
SecretsOK == \A t \in Teams : secret[t].exists \/ secret[t] = NoSecret

\* The inductive invariant: see the parts above.
IInv ==
    /\ TypeOK
    /\ Placed
    /\ SecretsOK
    /\ Numbers
    /\ \A t \in Teams : Standing(t)
    /\ \A r \in Reqs : Prepared(r)

-----------------------------------------------------------------------------
(* Behind ReportIsTrue. *)

\* Nobody has asked to delete the runner of t.
Undeleted(t) == \A o \in Reqs : arg[o].kind = "delete" => arg[o].team # t

Deploys(r, t) == pc[r] \in Waiting /\ cur[r] = t

\* What those who deploy on t, and the goroutines they left, were given to
\* work from and may store again.
Bases(t) ==
    (UNION {loc[r].base : r \in {o \in Reqs : Deploys(o, t)}})
    \union (UNION {j.base : j \in {k \in late : k.team = t}})

\* What those goroutines have been deploying.
Owns(t) == {j.own : j \in {k \in late : k.team = t}}

Settled(t, n) == \E v \in hist[t] : v.rev = n /\ v.status \notin Pending

\* A request that waits for Helm is the only one to do so, on the latest
\* revision, which is still pending; whatever else may yet be stored again is
\* not.
RevisionsApart(t) ==
    /\ \A r \in Reqs : Deploys(r, t) =>
          \E v \in Latest(t) : v.rev = loc[r].rev /\ v.status \in Pending
    /\ \A r, o \in Reqs : Deploys(r, t) /\ Deploys(o, t) => r = o
    /\ \A b \in Bases(t) \union Owns(t) : Settled(t, b.rev) /\ b.status \notin Pending

Done(v) == v.chart = target /\ v.status \in {"deployed", "superseded"}

\* What has been booked as upgraded stands in the history, and nobody is about
\* to store it otherwise.
BookedIsDone(r, t) ==
    arg[r].kind = "upgrade" /\ Busy(r) /\ r \notin gone /\ outcome[r][t] = "upgraded" =>
        \E v \in hist[t] :
            /\ Done(v)
            /\ \A b \in Bases(t) : b.rev = v.rev => Done(b)
            /\ \A w \in Owns(t) : w.rev # v.rev

\* The inductive invariant, on top of IInv: what UpgradeAllRunners relies on
\* when it reports on releases that others work on as well.
ReportInv ==
    /\ \A r \in Reqs :
          /\ pc[r] = "idle" => outcome[r] = NoOutcome
          /\ arg[r].kind = "upgrade" /\ resp[r] = 200 =>
                \A t \in Teams : outcome[r][t] # "todo"
    /\ \A t \in Teams : Undeleted(t) =>
          RevisionsApart(t) /\ \A r \in Reqs : BookedIsDone(r, t)

-----------------------------------------------------------------------------
(* Behind CleanCreateSucceeds and UndisturbedUpgradeKeepsValues. *)

\* What a request deploys over the revision v.
Wanted(r, v) ==
    IF arg[r].kind = "upgrade" THEN v.cfg
    ELSE [url |-> IF arg[r].url THEN r ELSE v.cfg.url, rest |-> r]

\* What an undisturbed request has read, decided on or stored is still so,
\* unless the namespace of an earlier DELETE took it away.
Recent(r) ==
    LET t == cur[r]
        orGone(still) == still \/ ns[t] # "active"
    IN  /\ pc[r] = "secretCreate" => ~secret[t].exists
        /\ pc[r] = "secretUpdate" => orGone(secret[t] = loc[r].seen)
        /\ pc[r] = "installRun" => hist[t] = {}
        /\ pc[r] \in {"upgradeGet", "upgradeRun"} /\ arg[r].kind = "create" =>
              orGone(hist[t] # {})
        /\ pc[r] = "upgradeRun" =>
              /\ \A v \in Latest(t) : loc[r].cfg = Wanted(r, v)
              /\ arg[r].kind = "create" => loc[r].cfg.url # None
        /\ pc[r] \in {"upgradeWait", "upgradeRecord"} => orGone(Stored(t, loc[r].rev))

\* The inductive invariant, on top of IInv: a request that met no fault and no
\* rival has its team to itself, and works on what is there.
UndisturbedInv ==
    \A r \in Reqs : Busy(r) =>
        /\ arg[r].kind = "create" => arg[r].url
        /\ r \notin disturbed =>
              Rivals(arg[r]) = {r} /\ ~StillBusy(arg[r]) /\ Recent(r)

=============================================================================
