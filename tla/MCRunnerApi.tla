---------------------------- MODULE MCRunnerApi ----------------------------
(***************************************************************************)
(* Instances of RunnerApi for TLC: the menus of requests.  Two credential  *)
(* fields stand for the three of the code: one that a partial rotation     *)
(* supplies and one that it leaves out.                                    *)
(***************************************************************************)
EXTENDS RunnerRefinement, RunnerClaims, TLC

CONSTANTS t1, t2, id, key

AllFields == {id, key}

Create(t) == [kind |-> "create", team |-> t, url |-> TRUE, fields |-> AllFields]
BadCreate(t) == [kind |-> "create", team |-> t, url |-> TRUE, fields |-> {id}]
Update(t, url, fields) ==
    [kind |-> "update", team |-> t, url |-> url, fields |-> fields]
Delete(t) == [kind |-> "delete", team |-> t, url |-> FALSE, fields |-> {}]
Upgrade == [kind |-> "upgrade", team |-> None, url |-> FALSE, fields |-> {}]

\* The life of one team: created, changed, its credentials rotated in parts,
\* deleted, created again.
Lifecycle ==
    {Create(t1), Update(t1, FALSE, {id}), Update(t1, FALSE, {key}), Delete(t1)}

\* A chart upgrade over two teams, against whatever changes one of them.
ChartUpgrade ==
    {Upgrade, Create(t1), BadCreate(t1), Update(t1, TRUE, {}), Delete(t1)}

\* Few requests, for the liveness checks.
Endings == {Upgrade, Create(t1), Delete(t1)}

\* What the single claims need.
CreateDelete == {Create(t1), Delete(t1)}
OnlyCreate == {Create(t1)}
UpgradeUpdate == {Upgrade, Update(t1, TRUE, {})}

ReqSymmetry == Permutations(Reqs)

\* In Lifecycle the two credential fields play the same part.
LifecycleSymmetry == ReqSymmetry \union Permutations(AllFields)

=============================================================================
