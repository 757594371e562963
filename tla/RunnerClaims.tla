---------------------------- MODULE RunnerClaims ----------------------------
(***************************************************************************)
(* What the repository's documents, comments and tests say of the API and  *)
(* the code does not keep.  TLC finds each of them violated.               *)
(***************************************************************************)
EXTENDS RunnerApi

DeployedIn(t) == \E v \in Latest(t) : v.status = "deployed"

\* "Each team runner scale set maps to" a release, a namespace and a Secret
\* (README.md:25-28): when no two requests ever overlapped and none failed, a
\* deployed runner has its Secret.  A POST that finds the namespace of an
\* earlier DELETE still terminating writes the Secret into it and loses both.
RunnerHasItsSecret ==
    disturbed = {} =>
        \A t \in Teams : DeployedIn(t) => secret[t].exists

\* "creating a runner that already exists fails" (e2e/runners_test.go:286):
\* without a DELETE, one POST at most creates the runner of a team.  Two that
\* both find a failed install upgrade it one after the other.
DuplicateCreateFails ==
    \A r, s \in Reqs :
        resp[r] = 201 /\ resp[s] = 201 /\ cur[r] = cur[s]
        /\ (\A o \in Reqs : arg[o].kind # "delete")
        => r = s

\* "Runners already at the target version are skipped" (handlers.go:93): one
\* that is skipped has the target version deployed, or on its way.  After a
\* failed upgrade the failed revision carries the target version.
SkippedIsUpToDate ==
    [][\A r \in Reqs, t \in Teams :
          pc[r] = "list" /\ outcome'[r][t] = "skipped"
          => \E v \in hist[t] : v.chart = target /\ v.status # "failed"]_vars

=============================================================================
