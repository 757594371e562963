------------------------- MODULE RunnerReportProofs -------------------------
(***************************************************************************)
(* The report of UpgradeAllRunners is true whatever other requests do to   *)
(* the releases meanwhile, and RunnerApi implements RunnerService, for any *)
(* sets of teams, requests and chart versions and any bounds.              *)
(***************************************************************************)
EXTENDS RunnerRefinementProofs

-----------------------------------------------------------------------------
(* What a step does to the request that makes it, and to others. *)

\* A Helm operation that returns is over.
LEMMA ReturnIsOver ==
  ASSUME Ground, NEW r \in Reqs, NEW res, HelmReturns(r, res)
  PROVE  pc'[r] \notin Waiting
  <1>1. pc \in [Reqs -> Calls \union {"idle", "answered", "dead"}]
    BY IInvParts DEF Ground, TypesOK, RequestOK, RequestTypeOK
  <1> QED BY <1>1 DEF HelmReturns, Goto, Answer, Waiting

\* A handler keeps what it reads and reports to itself.
LEMMA StepLeavesOthers ==
  ASSUME Ground, NEW r \in Reqs, Step(r)
  PROVE  /\ \A o \in Reqs \ {r} :
              /\ pc'[o] = pc[o] /\ cur'[o] = cur[o] /\ resp'[o] = resp[o]
              /\ loc'[o] = loc[o] /\ outcome'[o] = outcome[o]
         /\ UNCHANGED <<arg, target, gone>>
         /\ Busy(r) /\ arg[r].kind \in KindsAt(pc[r])
  <1>1. TypesOK
    BY IInvParts DEF Ground
  <1>2. /\ loc \in [Reqs -> Local]
        /\ outcome \in [Reqs -> [Teams -> Outcomes]]
    BY <1>1 DEF TypesOK, RequestOK, RequestTypeOK
  <1>3. \/ \E call, x : Goto(r, call, x)
        \/ \E code : Answer(r, code)
        \/ \E res : HelmReturns(r, res)
        \/ List(r) \/ NextRelease(r)
    BY DEF Step, NsGet, NsCreate, SecretGet, SecretCreate, SecretUpdate,
           WriteSecret, ChartUnavailable, InstallGet, InstallRun, InstallWait,
           RunFails, UpgradeGet, ChartGet, UpgradeRun, UpgradeWait, UpgradeRecord,
           Abandoned, UninstallRun, UninstallWait, NsDelete, Reply
  <1>4. \A o \in Reqs \ {r} : loc'[o] = loc[o] /\ outcome'[o] = outcome[o]
    BY <1>2, <1>3 DEF Goto, Answer, HelmReturns, List, NextRelease
  <1>5. Busy(r) /\ arg[r].kind \in KindsAt(pc[r])
    BY <1>1, StepIsLocal, AtCall DEF TypesOK, Busy
  <1> QED BY <1>1, <1>4, <1>5, StepIsLocal DEF Step

\* The namespace of a runner that nobody has asked to delete is there as long
\* as the runner is.
LEMMA UndeletedStands ==
  ASSUME Ground, NEW t \in Teams, Undeleted(t)
  PROVE  /\ ~Removed(t)
         /\ ns[t] # "terminating"
         /\ hist[t] # {} => ns[t] = "active"
  <1>1. ~Removed(t)
    <2>1. SUFFICES ASSUME NEW o \in removing, cur[o] = t PROVE FALSE
      BY DEF Removed
    <2>2. o \in Reqs /\ arg[o].kind = "delete"
      BY <2>1 DEF Ground, IInv, TypeOK, BoundTypeOK, Placed, InPlace
    <2> QED BY <2>1, <2>2 DEF Ground, OnItsTeam, Undeleted
  <1> QED BY <1>1 DEF Ground, IInv, Standing, Released, Complete

LEMMA LatestIsOne ==
  ASSUME Ground, NEW t \in Teams
  PROVE  /\ \A v, w \in Latest(t) : v = w
         /\ hist[t] \subseteq Revision
         /\ \A v, w \in hist[t] : v.rev = w.rev => v = w
  <1>1. hist[t] \in SUBSET Revision /\ Distinct(hist[t])
    BY IInvParts DEF Ground, TypesOK, ClusterTypeOK, Numbers, Numbered, Distinct
  <1> QED BY <1>1, NewestIsOne DEF Latest, Distinct

LEMMA BaseSettled ==
  ASSUME Ground, NEW t \in Teams, NEW v \in Latest(t)
  PROVE  /\ \A b \in Base(t, v) : b \in hist[t] /\ b.status \notin Pending
         /\ Base(t, v) # {} => \A w \in Latest(t) : w.status \notin Pending
  <1> DEFINE H == {w \in hist[t] : w.status = "deployed"}
             D == Newest(H)
  <1>1. v \in hist[t] /\ v.status \in Status
    BY LatestIsOne DEF Latest, Newest, Revision
  <1>2. \A b \in D : b \in hist[t] /\ b.status = "deployed"
    BY DEF Newest
  <1>3. \/ v.status \in Pending /\ Base(t, v) = {}
        \/ v.status \notin Pending /\ Base(t, v) \in {{}, {v}, D}
    BY <1>1 DEF Base, Status, Pending
  <1>4. "deployed" \notin Pending
    BY DEF Pending
  <1> HIDE DEF D
  <1> QED BY <1>1, <1>2, <1>3, <1>4, LatestIsOne

-----------------------------------------------------------------------------
(***************************************************************************)
(* The life of a team's history as long as nobody deletes its runner: it   *)
(* rests, gains a revision, or the request that deploys goes on or ends.   *)
(***************************************************************************)

Jobs(t) == {k \in late : k.team = t}

Rests(r, t) ==
    /\ hist'[t] = hist[t] /\ Jobs(t)' = Jobs(t)
    /\ ~Deploys(r, t) /\ ~Deploys(r, t)'

Gains(r, t, p) ==
    /\ cur[r] = t /\ ~Deploys(r, t) /\ NewOn(r, t, p) /\ late' = late
    /\ \A v \in Latest(t) : v.status \notin Pending
    /\ \/ ~Deploys(r, t)' /\ Fault(r) /\ HelmReturns(r, "error")
       \/ /\ Deploys(r, t)' /\ Healthy
          /\ UNCHANGED <<cur, resp, outcome>>
          /\ loc'[r].rev = p.rev /\ loc'[r].cfg = loc[r].cfg
          /\ \A b \in loc'[r].base : b \in hist[t] /\ b.status \notin Pending

Continues(r, t, S) ==
    /\ Deploys(r, t) /\ Deploys(r, t)'
    /\ loc' = loc /\ late' = late
    /\ UNCHANGED <<cur, resp, outcome>>
    /\ S \in {{}, Superseded(loc[r].base)}
    /\ hist'[t] = Updated(hist[t], S)

\* The job that a request leaves behind.
Left(r) == [by |-> r, team |-> cur[r], base |-> loc[r].base, own |-> Own(r, "failed")]

Ends(r, t, S) ==
    /\ Deploys(r, t) /\ ~Deploys(r, t)'
    /\ S \in {{}, {Own(r, "deployed")}, {Own(r, "failed")},
              loc[r].base \union {Own(r, "failed")}}
    /\ hist'[t] = Updated(hist[t], S)
    /\ \/ late' = late
       \/ S = {Own(r, "failed")} /\ r \in gone /\ late' = late \union {Left(r)}

LEMMA UpdatedNothing ==
  ASSUME NEW h
  PROVE  Updated(h, {}) = h
  BY DEF Updated

LEMMA StepOnTeam ==
  ASSUME Ground, NEW r \in Reqs, Step(r), NEW t \in Teams, Undeleted(t)
  PROVE  \/ Rests(r, t)
         \/ \E p : Gains(r, t, p)
         \/ \E S : Continues(r, t, S)
         \/ \E S : Ends(r, t, S)
  <1>1. TypesOK
    BY IInvParts DEF Ground
  <1>2. /\ hist \in [Teams -> SUBSET Revision]
        /\ pc \in [Reqs -> Calls \union {"idle", "answered", "dead"}]
        /\ loc \in [Reqs -> Local] /\ cur \in [Reqs -> Teams \union {None}]
        /\ target \in Charts
    BY <1>1 DEF TypesOK, ClusterTypeOK, RequestOK, RequestTypeOK, BoundTypeOK
  <1>3. ASSUME hist'[t] = hist[t], late' = late, pc[r] \notin Waiting, pc'[r] \notin Waiting
        PROVE  Rests(r, t)
    BY <1>3 DEF Rests, Jobs, Deploys
  <1>4. ASSUME NEW S, hist' = Recorded(cur[r], S)
        PROVE  hist'[t] = IF cur[r] = t THEN Updated(hist[t], S) ELSE hist[t]
    BY <1>2, <1>4 DEF Recorded
  <1>5. Updated(hist[t], {}) = hist[t]
    BY UpdatedNothing
  <1>6. CASE (\/ NsGet(r) \/ NsCreate(r) \/ SecretGet(r) \/ SecretCreate(r)
              \/ SecretUpdate(r) \/ NsDelete(r) \/ Reply(r)) /\ late' = late
    BY <1>2, <1>3, <1>6
    DEF NsGet, NsCreate, SecretGet, SecretCreate, SecretUpdate, NsDelete,
        WriteSecret, AfterSecret, Goto, Answer, cluster, Reply, Waiting
  <1>7. CASE (ChartUnavailable(r) \/ InstallGet(r) \/ UpgradeGet(r) \/ ChartGet(r))
             /\ late' = late
    <2>1. pc[r] \notin Waiting /\ hist' = hist
      BY <1>7 DEF ChartUnavailable, InstallGet, UpgradeGet, ChartGet, cluster, Waiting
    <2>2. pc'[r] \notin Waiting
      BY <1>2, <1>7, ReturnIsOver
      DEF ChartUnavailable, InstallGet, UpgradeGet, ChartGet, Goto, Waiting
    <2> QED BY <1>3, <1>7, <2>1, <2>2
  <1>8. CASE (List(r) \/ NextRelease(r)) /\ late' = late
    BY <1>2, <1>3, <1>8 DEF List, NextRelease, Answer, cluster, Waiting
  <1>9. CASE InstallRun(r) /\ late' = late
    <2>1. pc[r] = "installRun" /\ ~Deploys(r, t)
      BY <1>9 DEF InstallRun, Deploys, Waiting
    <2>2. CASE hist' = hist /\ \E res : HelmReturns(r, res)
      BY <1>3, <1>9, <2>1, <2>2, ReturnIsOver DEF Waiting
    <2>3. CASE /\ hist[cur[r]] = {}
               /\ hist' = [hist EXCEPT ![cur[r]] =
                    {[rev |-> 1, status |-> "pending-install", chart |-> target,
                      cfg |-> loc[r].cfg]}]
               /\ \/ Healthy /\ Goto(r, "installWait", Deploying(r, 1, {}))
                  \/ Fault(r) /\ HelmReturns(r, "error")
      <3> DEFINE p == [rev |-> 1, status |-> "pending-install", chart |-> target,
                       cfg |-> loc[r].cfg]
      <3>1. CASE cur[r] # t
        <4>1. hist'[t] = hist[t] /\ ~Deploys(r, t)'
          BY <1>2, <2>3, <3>1, ReturnIsOver DEF Deploys, Goto
        <4> QED BY <1>9, <2>1, <4>1 DEF Rests, Jobs
      <3>2. CASE cur[r] = t
        <4>1. hist[t] = {} /\ hist'[t] = {p}
          BY <1>2, <2>3, <3>2
        <4>2. p \in Revision /\ p.status \in Pending
          BY <1>2 DEF Revision, Local, Status, Pending
        <4>3. NewOn(r, t, p) /\ \A v \in Latest(t) : v.status \notin Pending
          BY <4>1, <4>2 DEF NewOn, Latest, Newest
        <4>4. CASE Fault(r) /\ HelmReturns(r, "error")
          BY <1>9, <2>1, <3>2, <4>3, <4>4, ReturnIsOver DEF Gains, Deploys
        <4>5. CASE Healthy /\ Goto(r, "installWait", Deploying(r, 1, {}))
          <5>1. loc'[r] = [loc[r] EXCEPT !.rev = 1, !.base = {}]
            BY <1>2, <4>5 DEF Goto, Deploying
          <5>2. loc'[r].rev = p.rev /\ loc'[r].cfg = loc[r].cfg /\ loc'[r].base = {}
            BY <1>2, <5>1 DEF Local
          <5>3. Deploys(r, t)' /\ UNCHANGED <<cur, resp, outcome>>
            BY <1>2, <3>2, <4>5 DEF Goto, Deploys, Waiting
          <5> QED BY <1>9, <2>1, <3>2, <4>3, <4>5, <5>2, <5>3 DEF Gains
        <4> QED BY <2>3, <4>4, <4>5
      <3> QED BY <3>1, <3>2
    <2> QED BY <1>9, <2>2, <2>3 DEF InstallRun
  <1>10. CASE UpgradeRun(r) /\ late' = late
    <2>1. pc[r] = "upgradeRun" /\ ~Deploys(r, t)
      BY <1>10 DEF UpgradeRun, Deploys, Waiting
    <2>2. CASE hist' = hist /\ \E res : HelmReturns(r, res)
      BY <1>3, <1>10, <2>1, <2>2, ReturnIsOver DEF Waiting
    <2>3. ASSUME NEW v \in Latest(cur[r]), Base(cur[r], v) # {},
                 hist' = [hist EXCEPT ![cur[r]] = StoreIn(@,
                            [rev |-> v.rev + 1, status |-> "pending-upgrade",
                             chart |-> target, cfg |-> loc[r].cfg])],
                 \/ /\ Healthy
                    /\ Goto(r, "upgradeWait", Deploying(r, v.rev + 1, Base(cur[r], v)))
                 \/ Fault(r) /\ HelmReturns(r, "error")
          PROVE  Rests(r, t) \/ \E p : Gains(r, t, p)
      <3> DEFINE p == [rev |-> v.rev + 1, status |-> "pending-upgrade",
                       chart |-> target, cfg |-> loc[r].cfg]
      <3>1. CASE cur[r] # t
        <4>1. hist'[t] = hist[t] /\ ~Deploys(r, t)'
          BY <1>2, <2>3, <3>1, ReturnIsOver DEF Deploys, Goto
        <4> QED BY <1>10, <2>1, <4>1 DEF Rests, Jobs
      <3>2. CASE cur[r] = t
        <4>0. v \in Latest(t) /\ Base(t, v) # {}
          BY <2>3, <3>2
        <4>1. v \in hist[t] /\ v.rev \in Nat
              /\ \A w \in hist[t] : w.rev \in Nat /\ w.rev <= v.rev
          BY <1>2, <4>0 DEF Latest, Newest, Revision
        <4>2. \A w \in hist[t] : w.rev < p.rev /\ w.rev # p.rev
          BY <4>1
        <4>3. p \in Revision /\ p.status \in Pending
          BY <1>2, <4>1 DEF Revision, Local, Status, Pending
        <4>4. hist'[t] = StoreIn(hist[t], p)
          BY <1>2, <2>3, <3>2
        <4>5. hist'[t] = hist[t] \union {p}
          BY <4>2, <4>4 DEF StoreIn
        <4>6. NewOn(r, t, p)
          BY <4>2, <4>3, <4>5 DEF NewOn
        <4>7. /\ \A b \in Base(t, v) : b \in hist[t] /\ b.status \notin Pending
              /\ \A w \in Latest(t) : w.status \notin Pending
          BY <4>0, BaseSettled
        <4>8. CASE Fault(r) /\ HelmReturns(r, "error")
          BY <1>10, <2>1, <3>2, <4>6, <4>7, <4>8, ReturnIsOver DEF Gains, Deploys
        <4>9. CASE Healthy /\ Goto(r, "upgradeWait", Deploying(r, v.rev + 1, Base(cur[r], v)))
          <5>1. loc'[r] = [loc[r] EXCEPT !.rev = v.rev + 1, !.base = Base(t, v)]
            BY <1>2, <3>2, <4>9 DEF Goto, Deploying
          <5>2. /\ loc'[r].rev = p.rev /\ loc'[r].cfg = loc[r].cfg
                /\ loc'[r].base = Base(t, v)
            BY <1>2, <5>1 DEF Local
          <5>3. Deploys(r, t)' /\ UNCHANGED <<cur, resp, outcome>>
            BY <1>2, <3>2, <4>9 DEF Goto, Deploys, Waiting
          <5> QED BY <1>10, <2>1, <3>2, <4>6, <4>7, <4>9, <5>2, <5>3 DEF Gains
        <4> QED BY <2>3, <4>8, <4>9
      <3> QED BY <3>1, <3>2
    <2>4. \/ hist' = hist /\ \E res : HelmReturns(r, res)
          \/ \E v \in Latest(cur[r]) :
                /\ Base(cur[r], v) # {}
                /\ hist' = [hist EXCEPT ![cur[r]] = StoreIn(@,
                            [rev |-> v.rev + 1, status |-> "pending-upgrade",
                             chart |-> target, cfg |-> loc[r].cfg])]
                /\ \/ /\ Healthy
                      /\ Goto(r, "upgradeWait", Deploying(r, v.rev + 1, Base(cur[r], v)))
                   \/ Fault(r) /\ HelmReturns(r, "error")
      BY <1>10 DEF UpgradeRun
    <2> QED BY <2>2, <2>3, <2>4
  <1>11. CASE UpgradeWait(r) /\ late' = late
    <2>1. /\ pc[r] \in Waiting /\ pc'[r] \in Waiting /\ loc' = loc
          /\ UNCHANGED <<cur, resp, outcome>>
      BY <1>2, <1>11 DEF UpgradeWait, Goto, Waiting
    <2>2. hist' = hist \/ hist' = Recorded(cur[r], Superseded(loc[r].base))
      BY <1>11 DEF UpgradeWait, Unsure
    <2>3. CASE cur[r] # t
      <3>1. hist'[t] = hist[t]
        BY <1>4, <2>2, <2>3
      <3> QED BY <1>11, <2>1, <2>3, <3>1 DEF Rests, Jobs, Deploys
    <2>4. CASE cur[r] = t
      <3>1. \E S \in {{}, Superseded(loc[r].base)} : hist'[t] = Updated(hist[t], S)
        BY <1>4, <1>5, <2>2, <2>4
      <3> QED BY <1>11, <2>1, <2>4, <3>1 DEF Continues, Deploys
    <2> QED BY <2>3, <2>4
  <1>12. CASE /\ InstallWait(r) \/ UpgradeRecord(r) \/ RunFails(r)
              /\ late' = late
    <2>1. pc[r] \in Waiting /\ pc'[r] \notin Waiting
      BY <1>12, ReturnIsOver DEF InstallWait, UpgradeRecord, RunFails, Waiting
    <2>2. \/ hist' = hist
          \/ \E S \in {{Own(r, "deployed")}, {Own(r, "failed")},
                       loc[r].base \union {Own(r, "failed")}} : hist' = Recorded(cur[r], S)
      BY <1>12 DEF InstallWait, UpgradeRecord, RunFails, Unsure
    <2>3. CASE cur[r] # t
      <3>1. hist'[t] = hist[t]
        BY <1>4, <2>2, <2>3
      <3> QED BY <1>12, <2>1, <2>3, <3>1 DEF Rests, Jobs, Deploys
    <2>4. CASE cur[r] = t
      <3>1. \E S \in {{}, {Own(r, "deployed")}, {Own(r, "failed")},
                      loc[r].base \union {Own(r, "failed")}} :
                hist'[t] = Updated(hist[t], S)
        BY <1>4, <1>5, <2>2, <2>4
      <3> QED BY <1>12, <2>1, <2>4, <3>1 DEF Ends, Deploys
    <2> QED BY <2>3, <2>4
  <1>13. CASE Abandoned(r)
    <2>1. /\ pc[r] \in Waiting /\ pc'[r] \notin Waiting
          /\ hist' = Recorded(cur[r], {Own(r, "failed")})
          /\ late' = late \union {Left(r)} /\ r \in gone
      BY <1>13, ReturnIsOver DEF Abandoned, Waiting, Left
    <2>2. CASE cur[r] # t
      <3>1. hist'[t] = hist[t]
        BY <1>4, <2>1, <2>2
      <3>2. Jobs(t)' = Jobs(t)
        BY <2>1, <2>2 DEF Jobs, Left
      <3>3. ~Deploys(r, t) /\ ~Deploys(r, t)'
        BY <2>1, <2>2 DEF Deploys
      <3> QED BY <3>1, <3>2, <3>3 DEF Rests
    <2>3. CASE cur[r] = t
      <3>1. hist'[t] = Updated(hist[t], {Own(r, "failed")})
        BY <1>4, <2>1, <2>3
      <3>2. Deploys(r, t) /\ ~Deploys(r, t)'
        BY <2>1, <2>3 DEF Deploys
      <3> QED BY <2>1, <3>1, <3>2 DEF Ends
    <2> QED BY <2>2, <2>3
  <1>14. CASE (UninstallRun(r) \/ UninstallWait(r)) /\ late' = late
    <2>1. arg[r].kind = "delete" /\ cur[r] # t
      BY <1>14, StepLeavesOthers
      DEF UninstallRun, UninstallWait, KindsAt, Ground, OnItsTeam, Undeleted
    <2>2. hist'[t] = hist[t]
      BY <1>2, <1>14, <2>1 DEF UninstallRun, UninstallWait, Unsure, Recorded
    <2>3. pc[r] \notin Waiting
      BY <1>14 DEF UninstallRun, UninstallWait, Waiting
    <2>4. pc'[r] \notin Waiting
      BY <1>2, <1>14, ReturnIsOver DEF UninstallRun, UninstallWait, Goto, Waiting
    <2> QED BY <1>3, <1>14, <2>2, <2>3, <2>4
  <1> QED BY <1>6, <1>7, <1>8, <1>9, <1>10, <1>11, <1>12, <1>13, <1>14 DEF Step

-----------------------------------------------------------------------------
(***************************************************************************)
(* What is stored again replaces what was settled, or what is deployed.    *)
(***************************************************************************)

LEMMA BasesAre ==
  \A t \in Teams : \A b :
    /\ b \in Bases(t) <=> \/ \E r \in Reqs : Deploys(r, t) /\ b \in loc[r].base
                          \/ \E k \in Jobs(t) : b \in k.base
    /\ b \in Bases(t)' <=> \/ \E r \in Reqs : Deploys(r, t)' /\ b \in loc'[r].base
                           \/ \E k \in Jobs(t)' : b \in k.base
  <1> SUFFICES ASSUME NEW t \in Teams, NEW b
               PROVE  /\ b \in Bases(t) <=>
                           \/ \E r \in Reqs : Deploys(r, t) /\ b \in loc[r].base
                           \/ \E k \in Jobs(t) : b \in k.base
                      /\ b \in Bases(t)' <=>
                           \/ \E r \in Reqs : Deploys(r, t)' /\ b \in loc'[r].base
                           \/ \E k \in Jobs(t)' : b \in k.base
    OBVIOUS
  <1> DEFINE A == UNION {loc[r].base : r \in {o \in Reqs : Deploys(o, t)}}
             B == UNION {j.base : j \in {k \in late : k.team = t}}
  <1>1. Bases(t) = A \union B
    BY DEF Bases
  <1>2. b \in A <=> \E r \in Reqs : Deploys(r, t) /\ b \in loc[r].base
    OBVIOUS
  <1>3. b \in B <=> \E k \in Jobs(t) : b \in k.base
    BY DEF Jobs
  <1>4. b \in A' <=> \E r \in Reqs : Deploys(r, t)' /\ b \in loc'[r].base
    OBVIOUS
  <1>5. b \in B' <=> \E k \in Jobs(t)' : b \in k.base
    BY DEF Jobs
  <1>6. Bases(t)' = A' \union B'
    BY DEF Bases
  <1> HIDE DEF A, B
  <1> QED BY <1>1, <1>2, <1>3, <1>4, <1>5, <1>6

LEMMA OwnsAre ==
  \A t \in Teams : \A w :
    /\ w \in Owns(t) <=> \E k \in Jobs(t) : w = k.own
    /\ w \in Owns(t)' <=> \E k \in Jobs(t)' : w = k.own
  BY DEF Owns, Jobs

Rewritable(t, w) ==
    \/ \E b \in Bases(t) : w = b \/ w = As(b, "superseded")
    \/ /\ w.status \notin Pending
       /\ \/ \E k \in Owns(t) : w.rev = k.rev
          \/ \E r \in Reqs : Deploys(r, t) /\ w.rev = loc[r].rev

\* Its number is stored already, and its status settled.
LEMMA RewritableIs ==
  ASSUME Ground, NEW t \in Teams, RevisionsApart(t), NEW w, Rewritable(t, w)
  PROVE  /\ w.status \notin Pending
         /\ \E v \in hist[t] : v.rev = w.rev
  <1>1. ASSUME NEW b \in Bases(t), w = b \/ w = As(b, "superseded")
        PROVE  w.rev = b.rev /\ w.status \notin Pending
    <2>1. b \in Revision
      <3>1. /\ \A r \in Reqs : loc[r].base \subseteq Revision
            /\ \A k \in late : k.base \subseteq Revision
        BY IInvParts DEF Ground, TypesOK, RequestOK, RequestTypeOK, BoundTypeOK, Local, Job
      <3> QED BY <3>1, BasesAre DEF Jobs
    <2>2. b.status \notin Pending
      BY DEF RevisionsApart
    <2> QED BY <1>1, <2>1, <2>2 DEF As, Revision, Pending
  <1>2. CASE \E b \in Bases(t) : w = b \/ w = As(b, "superseded")
    <2>1. PICK b \in Bases(t) : w = b \/ w = As(b, "superseded")
      BY <1>2
    <2>2. Settled(t, b.rev)
      BY DEF RevisionsApart
    <2> QED BY <1>1, <2>1, <2>2 DEF Settled
  <1>3. CASE \E k \in Owns(t) : w.rev = k.rev /\ w.status \notin Pending
    BY <1>3 DEF RevisionsApart, Settled
  <1>4. CASE \E r \in Reqs : Deploys(r, t) /\ w.rev = loc[r].rev /\ w.status \notin Pending
    BY <1>4 DEF RevisionsApart, Latest, Newest
  <1> QED BY <1>2, <1>3, <1>4 DEF Rewritable

LEMMA StepRewrites ==
  ASSUME Ground, NEW r \in Reqs, NEW t \in Teams, NEW S,
         Continues(r, t, S) \/ Ends(r, t, S)
  PROVE  \A w \in S : Rewritable(t, w)
  <1>1. Deploys(r, t) /\ loc[r].base \subseteq Bases(t)
    BY BasesAre DEF Continues, Ends
  <1>2. ASSUME NEW status \in {"deployed", "failed"} PROVE Rewritable(t, Own(r, status))
    BY <1>1 DEF Own, Rewritable, Pending
  <1>3. \A w \in loc[r].base \union Superseded(loc[r].base) : Rewritable(t, w)
    BY <1>1 DEF Rewritable, Superseded
  <1> QED BY <1>2, <1>3 DEF Continues, Ends

LEMMA LateIsRewrite ==
  ASSUME Ground, NEW t \in Teams, RevisionsApart(t), NEW j \in Jobs(t), NEW S,
         LateRewrites(j, S)
  PROVE  \A w \in S : Rewritable(t, w)
  <1>1. j.own \in Owns(t) /\ j.base \subseteq Bases(t) /\ j \in late
    BY BasesAre, OwnsAre DEF Jobs
  <1>2. j.own \in Revision /\ j.own.status \notin Pending
    BY <1>1, IInvParts DEF RevisionsApart, Ground, TypesOK, BoundTypeOK, Job
  <1>3. Rewritable(t, j.own)
    BY <1>1, <1>2 DEF Rewritable
  <1>4. Rewritable(t, As(j.own, "deployed"))
    BY <1>1, <1>2 DEF Rewritable, As, Revision, Pending
  <1>5. \A w \in j.base \union Superseded(j.base) : Rewritable(t, w)
    BY <1>1 DEF Rewritable, Superseded
  <1> QED BY <1>3, <1>4, <1>5 DEF LateRewrites

LEMMA RewritesKeepNumbers ==
  ASSUME NEW h, NEW S
  PROVE  /\ \A n : (\E v \in h : v.rev = n) => \E v \in Updated(h, S) : v.rev = n
         /\ \A v \in Updated(h, S) : \E w \in h : w.rev = v.rev
         /\ \A v \in h : (\A w \in S : w.rev # v.rev) => v \in Updated(h, S)
         /\ \A v \in Updated(h, S) : v \in S \/ v \in h
  BY DEF Updated

\* What is settled stays so, whoever stores what.
LEMMA SettledStays ==
  ASSUME Ground, NEW t \in Teams, RevisionsApart(t), NEW n, Settled(t, n),
         \/ hist'[t] = hist[t]
         \/ \E r \in Reqs : \E p : NewOn(r, t, p)
         \/ \E S : hist'[t] = Updated(hist[t], S) /\ \A w \in S : Rewritable(t, w)
  PROVE  Settled(t, n)'
  <1>1. PICK v \in hist[t] : v.rev = n /\ v.status \notin Pending
    BY DEF Settled
  <1>2. CASE hist'[t] = hist[t]
    BY <1>1, <1>2 DEF Settled
  <1>3. CASE \E r \in Reqs : \E p : NewOn(r, t, p)
    BY <1>1, <1>3 DEF Settled, NewOn
  <1>4. ASSUME NEW S, hist'[t] = Updated(hist[t], S), \A w \in S : Rewritable(t, w)
        PROVE  Settled(t, n)'
    <2>1. PICK x \in Updated(hist[t], S) : x.rev = n
      BY <1>1 DEF Updated
    <2>2. x \in S \/ x \in hist[t]
      BY <2>1, RewritesKeepNumbers
    <2>3. x \in hist[t] => x = v
      BY <1>1, <2>1, LatestIsOne
    <2>4. x.status \notin Pending
      BY <1>1, <1>4, <2>2, <2>3, RewritableIs
    <2> QED BY <1>4, <2>1, <2>4 DEF Settled
  <1> QED BY <1>2, <1>3, <1>4

\* The latest revision of a request that deploys is neither settled nor
\* replaced but by that request.
LEMMA PendingStays ==
  ASSUME Ground, NEW t \in Teams, RevisionsApart(t), NEW r \in Reqs, Deploys(r, t),
         NEW S, hist'[t] = Updated(hist[t], S),
         \A w \in S : Settled(t, w.rev)
  PROVE  \A v \in Latest(t) : v \in Latest(t)'
  <1>1. PICK v \in Latest(t) : v.rev = loc[r].rev /\ v.status \in Pending
    BY DEF RevisionsApart
  <1>2. v \in hist[t] /\ \A w \in hist[t] : w.rev <= v.rev
    BY <1>1 DEF Latest, Newest
  <1>3. \A w \in S : w.rev # v.rev
    BY <1>1, <1>2, LatestIsOne DEF Settled
  <1>4. v \in hist'[t]
    BY <1>2, <1>3, RewritesKeepNumbers
  <1>5. \A w \in hist'[t] : w.rev <= v.rev
    <2>1. \A w \in hist'[t] : \E x \in hist[t] : x.rev = w.rev
      BY RewritesKeepNumbers
    <2> QED BY <1>2, <2>1
  <1>6. v \in Latest(t)'
    BY <1>4, <1>5 DEF Latest, Newest
  <1> QED BY <1>1, <1>6, LatestIsOne

-----------------------------------------------------------------------------
(* It stays true that revisions are worked on one by one. *)

LEMMA StepApart ==
  ASSUME Ground, NEW r \in Reqs, Step(r), NEW t \in Teams, Undeleted(t),
         RevisionsApart(t)
  PROVE  RevisionsApart(t)'
  <1>1. \A o \in Reqs \ {r} : /\ Deploys(o, t)' <=> Deploys(o, t)
                              /\ loc'[o] = loc[o]
    BY StepLeavesOthers DEF Deploys
  <1>2. CASE Rests(r, t)
    <2>1. \A o \in Reqs : Deploys(o, t)' => Deploys(o, t) /\ loc'[o] = loc[o]
      BY <1>1, <1>2 DEF Rests
    <2>2. Latest(t)' = Latest(t) /\ \A n : Settled(t, n)' <=> Settled(t, n)
      BY <1>2 DEF Rests, Latest, Newest, Settled
    <2>3. \A b \in Bases(t)' \union Owns(t)' : b \in Bases(t) \union Owns(t)
      BY <1>2, <2>1, BasesAre, OwnsAre DEF Rests
    <2> QED BY <2>1, <2>2, <2>3 DEF RevisionsApart
  <1>3. ASSUME NEW p, Gains(r, t, p) PROVE RevisionsApart(t)'
    <2>1. \A o \in Reqs : ~Deploys(o, t)
      BY <1>3 DEF Gains, RevisionsApart
    <2>2. \A o \in Reqs : Deploys(o, t)' => o = r
      BY <1>1, <2>1
    <2>3. p.status \in Pending /\ p \in Latest(t)'
      <3>1. p \in Revision /\ hist'[t] = hist[t] \union {p} /\ \A w \in hist[t] : w.rev < p.rev
        BY <1>3 DEF Gains, NewOn
      <3>2. \A w \in hist'[t] : w.rev <= p.rev
        BY <3>1, LatestIsOne DEF Revision
      <3> QED BY <1>3, <3>1, <3>2 DEF Gains, NewOn, Latest, Newest
    <2>4. \A n : Settled(t, n) => Settled(t, n)'
      BY <1>3, SettledStays DEF Gains
    <2>5. ASSUME NEW b \in Bases(t)' \union Owns(t)'
          PROVE  Settled(t, b.rev)' /\ b.status \notin Pending
      <3>1. Jobs(t)' = Jobs(t)
        BY <1>3 DEF Gains, Jobs
      <3>2. b \in Bases(t) \union Owns(t) \/ (Deploys(r, t)' /\ b \in loc'[r].base)
        BY <2>2, <2>5, <3>1, BasesAre, OwnsAre
      <3>3. CASE b \in Bases(t) \union Owns(t)
        BY <2>4, <3>3 DEF RevisionsApart
      <3>4. CASE Deploys(r, t)' /\ b \in loc'[r].base
        <4>1. b \in hist[t] /\ b.status \notin Pending
          BY <1>3, <3>4 DEF Gains
        <4> QED BY <2>4, <4>1 DEF Settled
      <3> QED BY <3>2, <3>3, <3>4
    <2>6. Deploys(r, t)' => loc'[r].rev = p.rev
      BY <1>3 DEF Gains
    <2> QED BY <2>2, <2>3, <2>5, <2>6 DEF RevisionsApart
  <1>4. ASSUME NEW S, Continues(r, t, S) PROVE RevisionsApart(t)'
    <2>1. /\ hist'[t] = Updated(hist[t], S) /\ Jobs(t)' = Jobs(t)
          /\ Deploys(r, t) /\ loc' = loc
      BY <1>4 DEF Continues, Jobs
    <2>2. \A o \in Reqs : Deploys(o, t)' <=> o = r
      BY <1>1, <1>4 DEF Continues, RevisionsApart
    <2>3. \A b : b \in Bases(t)' \union Owns(t)' => b \in Bases(t) \union Owns(t)
      BY <2>1, <2>2, BasesAre, OwnsAre
    <2>4. \A w \in S : Rewritable(t, w)
      BY <1>4, StepRewrites
    <2>5. \A n : Settled(t, n) => Settled(t, n)'
      BY <2>1, <2>4, SettledStays
    <2>6. \A w \in S : Settled(t, w.rev)
      <3>1. SUFFICES ASSUME NEW b \in loc[r].base PROVE Settled(t, As(b, "superseded").rev)
        BY <1>4 DEF Continues, Superseded
      <3>2. b \in Revision
        BY IInvParts DEF Ground, TypesOK, RequestOK, RequestTypeOK, Local
      <3>3. Settled(t, b.rev)
        BY <2>1, BasesAre DEF RevisionsApart
      <3> QED BY <3>2, <3>3 DEF As, Revision
    <2>7. \A v \in Latest(t) : v \in Latest(t)'
      BY <2>1, <2>6, PendingStays
    <2> QED BY <2>1, <2>2, <2>3, <2>5, <2>7 DEF RevisionsApart
  <1>5. ASSUME NEW S, Ends(r, t, S) PROVE RevisionsApart(t)'
    <2>1. hist'[t] = Updated(hist[t], S) /\ Deploys(r, t)
      BY <1>5 DEF Ends
    <2>2. \A o \in Reqs : ~Deploys(o, t)'
      BY <1>1, <1>5 DEF Ends, RevisionsApart
    <2>3. \A n : Settled(t, n) => Settled(t, n)'
      <3>1. \A w \in S : Rewritable(t, w)
        BY <1>5, StepRewrites
      <3> QED BY <2>1, <3>1, SettledStays
    <2>4. CASE late' = late
      <3>1. \A b : b \in Bases(t)' \union Owns(t)' => b \in Bases(t) \union Owns(t)
        BY <2>2, <2>4, BasesAre, OwnsAre DEF Jobs
      <3> QED BY <2>2, <2>3, <3>1 DEF RevisionsApart
    <2>5. CASE S = {Own(r, "failed")} /\ late' = late \union {Left(r)}
      <3>0. PICK own : own = Own(r, "failed")
        OBVIOUS
      <3>1. own.rev = loc[r].rev /\ own.status = "failed"
        BY <3>0 DEF Own
      <3>2. \E v \in hist[t] : v.rev = own.rev
        BY <2>1, <3>1 DEF RevisionsApart, Latest, Newest
      <3>3. own \in hist'[t]
        BY <2>1, <2>5, <3>0, <3>2 DEF Updated
      <3>4. Settled(t, own.rev)' /\ own.status \notin Pending
        BY <3>1, <3>3 DEF Settled, Pending
      <3>5. Left(r).own = own /\ Left(r).base = loc[r].base
        BY <3>0 DEF Left
      <3>6. \A b : b \in Bases(t)' \union Owns(t)' =>
                b \in Bases(t) \union Owns(t) \/ b = own
        <4>1. PICK job : job = Left(r)
          OBVIOUS
        <4>2. Jobs(t)' \subseteq Jobs(t) \union {job}
          BY <2>5, <4>1 DEF Jobs
        <4> QED BY <2>1, <2>2, <3>5, <4>1, <4>2, BasesAre, OwnsAre
      <3> QED BY <2>2, <2>3, <3>4, <3>6 DEF RevisionsApart
    <2> QED BY <1>5, <2>4, <2>5 DEF Ends
  <1> QED BY <1>2, <1>3, <1>4, <1>5, StepOnTeam

LEMMA LateIsAbout ==
  ASSUME Ground, NEW j \in late, Late(j), NEW t \in Teams
  PROVE  /\ UNCHANGED <<arg, cur, loc, resp, outcome, pc, target, gone>>
         /\ \A r \in Reqs : Deploys(r, t)' <=> Deploys(r, t)
         /\ Jobs(t)' \subseteq Jobs(t)
         /\ \/ hist'[t] = hist[t]
            \/ j \in Jobs(t) /\ \E S : LateRewrites(j, S) /\ hist'[t] = Updated(hist[t], S)
  <1>1. TypesOK
    BY IInvParts DEF Ground
  <1>2. UNCHANGED <<arg, cur, loc, resp, outcome, pc, target, gone>>
    BY DEF Late, request
  <1>3. Jobs(t)' \subseteq Jobs(t)
    BY DEF Late, Jobs
  <1> QED BY <1>1, <1>2, <1>3, LateHistory DEF Deploys, Jobs

LEMMA LateApart ==
  ASSUME Ground, NEW j \in late, Late(j), NEW t \in Teams, RevisionsApart(t)
  PROVE  RevisionsApart(t)'
  <1>1. \A b : b \in Bases(t)' \union Owns(t)' => b \in Bases(t) \union Owns(t)
    BY LateIsAbout, BasesAre, OwnsAre
  <1>2. CASE hist'[t] = hist[t]
    <2>1. Latest(t)' = Latest(t) /\ \A n : Settled(t, n)' <=> Settled(t, n)
      BY <1>2 DEF Latest, Newest, Settled
    <2> QED BY <1>1, <2>1, LateIsAbout DEF RevisionsApart
  <1>3. ASSUME NEW S, j \in Jobs(t), LateRewrites(j, S), hist'[t] = Updated(hist[t], S)
        PROVE  RevisionsApart(t)'
    <2>1. \A w \in S : Rewritable(t, w)
      BY <1>3, LateIsRewrite
    <2>2. \A n : Settled(t, n) => Settled(t, n)'
      BY <1>3, <2>1, SettledStays
    <2>3. \A w \in S : Settled(t, w.rev)
      <3>1. /\ j.own \in Revision /\ j.base \subseteq Revision
            /\ Settled(t, j.own.rev) /\ \A b \in j.base : Settled(t, b.rev)
        BY <1>3, IInvParts, BasesAre, OwnsAre
        DEF RevisionsApart, Ground, TypesOK, BoundTypeOK, Job
      <3>2. /\ As(j.own, "deployed").rev = j.own.rev
            /\ \A b \in j.base : As(b, "superseded").rev = b.rev
        BY <3>1 DEF As, Revision
      <3> QED BY <1>3, <3>1, <3>2 DEF LateRewrites, Superseded
    <2>4. \A r \in Reqs : Deploys(r, t) => \A v \in Latest(t) : v \in Latest(t)'
      BY <1>3, <2>3, PendingStays
    <2> QED BY <1>1, <2>2, <2>4, LateIsAbout DEF RevisionsApart
  <1> QED BY <1>2, <1>3, LateIsAbout

-----------------------------------------------------------------------------
(***************************************************************************)
(* What is booked as upgraded was recorded by the very step that books it, *)
(* and no later step of anybody takes it back.                             *)
(***************************************************************************)

\* v stands, and nobody is about to store it otherwise.
Stands(t, v) ==
    /\ v \in hist[t] /\ Done(v)
    /\ \A b \in Bases(t) : b.rev = v.rev => Done(b)
    /\ \A w \in Owns(t) : w.rev # v.rev

LEMMA RewriteStands ==
  ASSUME Ground, NEW t \in Teams, RevisionsApart(t), NEW v, Stands(t, v),
         NEW S, hist'[t] = Updated(hist[t], S), \A w \in S : Rewritable(t, w),
         target' = target
  PROVE  \E x \in hist'[t] : x.rev = v.rev /\ Done(x)'
  <1>1. PICK x \in hist'[t] : x.rev = v.rev
    BY DEF Stands, Updated
  <1>2. CASE x \in hist[t]
    <2>1. x = v
      BY <1>1, <1>2, LatestIsOne DEF Stands
    <2> QED BY <1>1, <2>1 DEF Stands, Done
  <1>3. CASE x \in S
    <2>1. Rewritable(t, x)
      BY <1>3
    <2>2. ASSUME NEW b \in Bases(t), x = b \/ x = As(b, "superseded")
          PROVE  Done(x)
      <3>1. b \in Revision
        <4>1. /\ \A r \in Reqs : loc[r].base \subseteq Revision
              /\ \A k \in late : k.base \subseteq Revision
          BY IInvParts DEF Ground, TypesOK, RequestOK, RequestTypeOK, BoundTypeOK, Local, Job
        <4> QED BY <4>1, BasesAre DEF Jobs
      <3>2. x.rev = b.rev /\ x.chart = b.chart /\ x.status \in {b.status, "superseded"}
        BY <2>2, <3>1 DEF As, Revision
      <3> QED BY <1>1, <3>2 DEF Stands, Done
    <2>3. ~\E k \in Owns(t) : x.rev = k.rev
      BY <1>1 DEF Stands
    <2>4. ~\E r \in Reqs : Deploys(r, t) /\ x.rev = loc[r].rev
      <3>1. SUFFICES ASSUME NEW r \in Reqs, Deploys(r, t), x.rev = loc[r].rev PROVE FALSE
        OBVIOUS
      <3>2. PICK p \in hist[t] : p.rev = loc[r].rev /\ p.status \in Pending
        BY <3>1 DEF RevisionsApart, Latest, Newest
      <3>3. p = v
        BY <1>1, <3>1, <3>2, LatestIsOne DEF Stands
      <3> QED BY <3>2, <3>3 DEF Stands, Done, Pending
    <2>5. Done(x)
      BY <2>1, <2>2, <2>3, <2>4 DEF Rewritable
    <2> QED BY <1>1, <2>5 DEF Done
  <1> QED BY <1>1, <1>2, <1>3 DEF Updated

LEMMA StepStands ==
  ASSUME Ground, NEW r \in Reqs, Step(r), NEW t \in Teams, Undeleted(t),
         RevisionsApart(t), NEW v, Stands(t, v)
  PROVE  \E x : Stands(t, x)'
  <1>1. \A o \in Reqs \ {r} : /\ Deploys(o, t)' <=> Deploys(o, t)
                              /\ loc'[o] = loc[o]
    BY StepLeavesOthers DEF Deploys
  <1>2. target' = target
    BY StepLeavesOthers
  <1>3. CASE Rests(r, t)
    <2>1. \A b : /\ b \in Bases(t)' => b \in Bases(t)
                 /\ b \in Owns(t)' => b \in Owns(t)
      BY <1>1, <1>3, BasesAre, OwnsAre DEF Rests
    <2> QED BY <1>2, <1>3, <2>1 DEF Rests, Stands, Done
  <1>4. ASSUME NEW p, Gains(r, t, p) PROVE Stands(t, v)'
    <2>1. Jobs(t)' = Jobs(t) /\ hist'[t] = hist[t] \union {p}
      BY <1>4 DEF Gains, Jobs, NewOn
    <2>2. ASSUME NEW b, b \in Bases(t)', b.rev = v.rev PROVE Done(b)
      <3>1. b \in Bases(t) \/ (Deploys(r, t)' /\ b \in loc'[r].base)
        BY <1>1, <2>1, <2>2, BasesAre
      <3>2. CASE Deploys(r, t)' /\ b \in loc'[r].base
        <4>1. b \in hist[t]
          BY <1>4, <3>2 DEF Gains
        <4> QED BY <2>2, <4>1, LatestIsOne DEF Stands
      <3> QED BY <2>2, <3>1, <3>2 DEF Stands
    <2>3. \A w : w \in Owns(t)' => w \in Owns(t)
      BY <2>1, OwnsAre
    <2> QED BY <1>2, <2>1, <2>2, <2>3 DEF Stands, Done
  <1>5. ASSUME NEW S, Continues(r, t, S) \/ Ends(r, t, S) PROVE \E x : Stands(t, x)'
    <2>1. hist'[t] = Updated(hist[t], S) /\ Deploys(r, t)
      BY <1>5 DEF Continues, Ends
    <2>2. \A w \in S : Rewritable(t, w)
      BY <1>5, StepRewrites
    <2>3. PICK x \in hist'[t] : x.rev = v.rev /\ Done(x)'
      BY <1>2, <2>1, <2>2, RewriteStands
    <2>4. PICK job : job = Left(r)
      OBVIOUS
    <2>5. job.own.rev = loc[r].rev /\ job.base = loc[r].base
      BY <2>4 DEF Left, Own
    <2>6. Jobs(t)' \subseteq Jobs(t) \union {job}
      BY <1>5, <2>4 DEF Continues, Ends, Jobs
    <2>7. \A b : b \in Bases(t)' => b \in Bases(t)
      <3>1. Deploys(r, t)' => loc'[r] = loc[r]
        BY <1>5 DEF Continues, Ends
      <3> QED BY <1>1, <2>1, <2>5, <2>6, <3>1, BasesAre
    <2>8. \A w : w \in Owns(t)' => w \in Owns(t) \/ w = job.own
      BY <2>6, OwnsAre
    <2>9. job.own.rev # v.rev
      <3>1. PICK q \in hist[t] : q.rev = loc[r].rev /\ q.status \in Pending
        BY <2>1 DEF RevisionsApart, Latest, Newest
      <3> QED BY <2>5, <3>1, LatestIsOne DEF Stands, Done, Pending
    <2>10. Stands(t, x)'
      BY <1>2, <2>3, <2>7, <2>8, <2>9 DEF Stands, Done
    <2> QED BY <2>10
  <1> QED BY <1>3, <1>4, <1>5, StepOnTeam

LEMMA LateStands ==
  ASSUME Ground, NEW j \in late, Late(j), NEW t \in Teams, RevisionsApart(t),
         NEW v, Stands(t, v)
  PROVE  \E x : Stands(t, x)'
  <1>1. \A b : /\ b \in Bases(t)' => b \in Bases(t)
               /\ b \in Owns(t)' => b \in Owns(t)
    BY LateIsAbout, BasesAre, OwnsAre
  <1>2. target' = target
    BY LateIsAbout
  <1>3. CASE hist'[t] = hist[t]
    BY <1>1, <1>2, <1>3 DEF Stands, Done
  <1>4. ASSUME NEW S, j \in Jobs(t), LateRewrites(j, S), hist'[t] = Updated(hist[t], S)
        PROVE  \E x : Stands(t, x)'
    <2>1. \A w \in S : Rewritable(t, w)
      BY <1>4, LateIsRewrite
    <2>2. PICK x \in hist'[t] : x.rev = v.rev /\ Done(x)'
      BY <1>2, <1>4, <2>1, RewriteStands
    <2>3. Stands(t, x)'
      BY <1>1, <1>2, <2>2 DEF Stands, Done
    <2> QED BY <2>3
  <1> QED BY <1>3, <1>4, LateIsAbout

LEMMA BookedStands ==
  \A t \in Teams, o \in Reqs :
    /\ BookedIsDone(o, t) <=>
         (arg[o].kind = "upgrade" /\ Busy(o) /\ o \notin gone /\ outcome[o][t] = "upgraded"
          => \E v : Stands(t, v))
    /\ BookedIsDone(o, t)' <=>
         (arg'[o].kind = "upgrade" /\ Busy(o)' /\ o \notin gone' /\ outcome'[o][t] = "upgraded"
          => \E v : Stands(t, v)')
  BY DEF BookedIsDone, Stands

\* Only the record of a deployed revision books anything as upgraded.
LEMMA StepBooksDone ==
  ASSUME Ground, NEW r \in Reqs, Step(r), NEW t \in Teams, arg[r].kind = "upgrade",
         outcome[r][t] # "upgraded", outcome'[r][t] = "upgraded", r \notin gone
  PROVE  /\ cur[r] = t /\ pc[r] = "upgradeRecord" /\ pc'[r] = "nextRelease"
         /\ late' = late
         /\ hist' = Recorded(t, {Own(r, "deployed")}) /\ Stored(t, loc[r].rev)
  <1>1. /\ outcome \in [Reqs -> [Teams -> Outcomes]]
        /\ pc \in [Reqs -> Calls \union {"idle", "answered", "dead"}]
    BY IInvParts DEF Ground, TypesOK, RequestOK, RequestTypeOK
  <1>2. arg[r].kind \in KindsAt(pc[r]) /\ pc[r] \in Calls
    BY StepLeavesOthers DEF Busy
  <1>3. ~\E call, x : Goto(r, call, x)
    BY DEF Goto
  <1>4. ~\E code : Answer(r, code)
    BY DEF Answer
  <1>5. ASSUME NEW res, HelmReturns(r, res)
        PROVE  res = "ok" /\ cur[r] = t /\ pc'[r] = "nextRelease"
    <2>1. /\ outcome' = [outcome EXCEPT ![r][cur[r]] = Booked(res)]
          /\ pc' = [pc EXCEPT ![r] = "nextRelease"]
      BY <1>5 DEF HelmReturns
    <2>2. cur[r] = t
      BY <1>1, <2>1
    <2>3. Booked(res) = "upgraded"
      BY <1>1, <2>1, <2>2
    <2> QED BY <1>1, <2>1, <2>2, <2>3 DEF Booked
  <1>6. ~List(r)
    <2>1. SUFFICES ASSUME List(r) PROVE FALSE
      OBVIOUS
    <2>2. PICK l \in [Teams -> Outcomes] :
            /\ \A u \in Teams : l[u] \in Listing(u)
            /\ outcome' = [outcome EXCEPT ![r] = l]
      BY <1>4, <2>1 DEF List
    <2>3. outcome'[r][t] \in Listing(t)
      BY <1>1, <2>2
    <2> QED BY <2>3 DEF Listing
  <1>7. ~NextRelease(r)
    BY <1>4 DEF NextRelease
  <1>8. ~ChartUnavailable(r) /\ ~ChartGet(r)
    BY <1>3, <1>5 DEF ChartUnavailable, ChartGet
  <1>9. ~UpgradeRun(r)
    <2>1. UpgradeRun(r) => \/ \E call, x : Goto(r, call, x)
                           \/ \E res \in {"notFound", "error"} : HelmReturns(r, res)
      BY DEF UpgradeRun
    <2> QED BY <1>3, <1>5, <2>1
  <1>10. ~UpgradeWait(r) /\ ~RunFails(r) /\ ~Abandoned(r)
    BY <1>3, <1>5 DEF UpgradeWait, RunFails, Abandoned
  <1>11. UpgradeRecord(r) /\ late' = late
    BY <1>2, <1>6, <1>7, <1>8, <1>9, <1>10
    DEF Step, KindsAt, Calls, NsGet, NsCreate, SecretGet, SecretCreate, SecretUpdate,
        InstallGet, InstallRun, InstallWait, UpgradeGet, UninstallRun, UninstallWait,
        NsDelete, Reply
  <1> QED BY <1>5, <1>11 DEF UpgradeRecord

LEMMA StepBooks ==
  ASSUME Ground, NEW r \in Reqs, Step(r), NEW t \in Teams, Undeleted(t),
         RevisionsApart(t), NEW o \in Reqs, BookedIsDone(o, t)
  PROVE  BookedIsDone(o, t)'
  <1>1. SUFFICES ASSUME arg[o].kind = "upgrade", Busy(o)', outcome'[o][t] = "upgraded",
                        o \notin gone
                 PROVE  \E v : Stands(t, v)'
    BY StepLeavesOthers, BookedStands
  <1>2. Busy(o)
    BY <1>1, StepLeavesOthers DEF Busy
  <1>3. CASE outcome[o][t] = "upgraded"
    <2>1. PICK v : Stands(t, v)
      BY <1>1, <1>2, <1>3, BookedStands
    <2> QED BY <2>1, StepStands
  <1>4. CASE outcome[o][t] # "upgraded"
    <2>1. o = r
      BY <1>1, <1>4, StepLeavesOthers
    <2>2. /\ cur[r] = t /\ pc[r] = "upgradeRecord" /\ pc'[r] = "nextRelease"
          /\ late' = late
          /\ hist' = Recorded(t, {Own(r, "deployed")}) /\ Stored(t, loc[r].rev)
      BY <1>1, <1>4, <2>1, StepBooksDone
    <2>3. PICK own : own = Own(r, "deployed")
      OBVIOUS
    <2>4. own.rev = loc[r].rev /\ own.chart = target /\ own.status = "deployed"
      BY <2>3 DEF Own
    <2>5. hist'[t] = Updated(hist[t], {own}) /\ \E w \in hist[t] : w.rev = own.rev
      BY <2>2, <2>3, <2>4, IInvParts
      DEF Recorded, Stored, Revs, Ground, TypesOK, ClusterTypeOK
    <2>6. own \in hist'[t]
      BY <2>5 DEF Updated
    <2>7. Deploys(r, t) /\ \A q \in Reqs : ~Deploys(q, t)'
      <3>1. Deploys(r, t)
        BY <2>2 DEF Deploys, Waiting
      <3>2. ~Deploys(r, t)'
        BY <2>2 DEF Deploys, Waiting
      <3> QED BY <3>1, <3>2, StepLeavesOthers DEF RevisionsApart, Deploys
    <2>8. ASSUME NEW b, b \in Bases(t)' \/ b \in Owns(t)' PROVE b.rev # own.rev
      <3>1. b \in Bases(t) \union Owns(t)
        BY <2>2, <2>7, <2>8, BasesAre, OwnsAre DEF Jobs
      <3>2. PICK q \in hist[t] : q.rev = loc[r].rev /\ q.status \in Pending
        BY <2>7 DEF RevisionsApart, Latest, Newest
      <3>3. PICK x \in hist[t] : x.rev = b.rev /\ x.status \notin Pending
        BY <3>1 DEF RevisionsApart, Settled
      <3> QED BY <2>4, <3>2, <3>3, LatestIsOne
    <2>9. target' = target
      BY StepLeavesOthers
    <2>10. Stands(t, own)'
      BY <2>4, <2>6, <2>8, <2>9 DEF Stands, Done
    <2> QED BY <2>10
  <1> QED BY <1>3, <1>4

\* The answer of UpgradeAllRunners waits for the last release of its list.
LEMMA StepReports ==
  ASSUME Ground, NEW r \in Reqs, Step(r), NEW o \in Reqs,
         arg[o].kind = "upgrade",
         resp[o] = 200 => \A t \in Teams : outcome[o][t] # "todo", resp'[o] = 200
  PROVE  \A t \in Teams : outcome'[o][t] # "todo"
  <1>1. CASE o # r
    BY <1>1, StepLeavesOthers
  <1>2. CASE o = r
    <2>1. /\ arg[r].kind \in KindsAt(pc[r]) /\ pc[r] \in Calls
          /\ resp[r] = 0 /\ DOMAIN resp = Reqs
      BY StepLeavesOthers, IInvParts
      DEF Busy, Calls, Ground, TypesOK, RequestOK, RequestTypeOK, Placed, InPlace
    <2>2. resp' # resp
      BY <1>2, <2>1
    <2>3. ~(\E call, x : Goto(r, call, x)) /\ ~\E res : HelmReturns(r, res)
      BY <1>2, <2>2 DEF Goto, HelmReturns
    <2>4. ~List(r)
      BY <1>2, <2>1, <2>2 DEF List, Answer
    <2>5. CASE NextRelease(r)
      BY <1>2, <2>2, <2>5 DEF NextRelease, Answer, Todo
    <2>6. pc[r] \in {"list", "nextRelease", "chartGet", "upgradeRun", "upgradeWait",
                     "upgradeRecord"}
      BY <1>2, <2>1 DEF KindsAt, Calls
    <2>7. ~ChartUnavailable(r) /\ ~ChartGet(r)
      BY <2>3 DEF ChartUnavailable, ChartGet
    <2>8. ~UpgradeRun(r)
      BY <2>3 DEF UpgradeRun
    <2>9. ~UpgradeWait(r) /\ ~UpgradeRecord(r) /\ ~RunFails(r) /\ ~Abandoned(r)
      BY <2>3 DEF UpgradeWait, UpgradeRecord, RunFails, Abandoned
    <2>10. NextRelease(r)
      BY <2>4, <2>6, <2>7, <2>8, <2>9
      DEF Step, NsGet, NsCreate, SecretGet, SecretCreate, SecretUpdate, InstallGet,
          InstallRun, InstallWait, UpgradeGet, UninstallRun, UninstallWait, NsDelete, Reply
    <2> QED BY <2>5, <2>10
  <1> QED BY <1>1, <1>2

-----------------------------------------------------------------------------
(* The invariant. *)

LEMMA ReportInit == Init => ReportInv
  <1> SUFFICES ASSUME Init PROVE ReportInv
    OBVIOUS
  <1>1. \A r \in Reqs : /\ pc[r] = "idle" /\ outcome[r] = NoOutcome /\ resp[r] = 0
                        /\ ~Busy(r)
    BY DEF Init, Busy, Calls
  <1>2. late = {}
    BY DEF Init
  <1>3. \A t \in Teams : RevisionsApart(t)
    BY <1>1, <1>2, BasesAre, OwnsAre DEF RevisionsApart, Deploys, Waiting, Jobs
  <1>4. \A t \in Teams, r \in Reqs : BookedIsDone(r, t)
    BY <1>1 DEF BookedIsDone
  <1> QED BY <1>1, <1>3, <1>4 DEF ReportInv

\* Steps of the handlers.
LEMMA StepReportInv ==
  ASSUME Ground, ReportInv, NEW r \in Reqs, Step(r)
  PROVE  ReportInv'
  <1>1. ASSUME NEW o \in Reqs, pc'[o] = "idle" PROVE outcome'[o] = NoOutcome
    <2>1. TypesOK /\ TypesOK'
      BY IInvParts, NextTypes DEF Ground, Next
    <2>2. o # r
      <3>1. SUFFICES ASSUME o = r PROVE FALSE
        OBVIOUS
      <3>2. arg[r].kind \in Kinds
        BY <2>1, StepLeavesOthers, AtCall DEF TypesOK, Busy, Request
      <3>3. arg'[r] = NoRequest
        BY <1>1, <2>1, <3>1 DEF TypesOK, RequestOK, Placed, InPlace
      <3>4. NoRequest.kind \notin Kinds
        BY DEF Kinds, NoRequest, None
      <3> QED BY <3>2, <3>3, <3>4, StepLeavesOthers
    <2> QED BY <1>1, <2>2, StepLeavesOthers DEF ReportInv
  <1>2. ASSUME NEW o \in Reqs, arg'[o].kind = "upgrade", resp'[o] = 200
        PROVE  \A t \in Teams : outcome'[o][t] # "todo"
    BY <1>2, StepReports, StepLeavesOthers DEF ReportInv
  <1>3. ASSUME NEW t \in Teams, Undeleted(t)'
        PROVE  RevisionsApart(t)' /\ \A o \in Reqs : BookedIsDone(o, t)'
    <2>1. Undeleted(t)
      BY <1>3, StepLeavesOthers DEF Undeleted
    <2>2. RevisionsApart(t) /\ \A o \in Reqs : BookedIsDone(o, t)
      BY <2>1 DEF ReportInv
    <2> QED BY <2>1, <2>2, StepApart, StepBooks
  <1> QED BY <1>1, <1>2, <1>3 DEF ReportInv

\* Nothing changes for a team whose history, requests and jobs stay.
LEMMA TeamStays ==
  ASSUME NEW t \in Teams, RevisionsApart(t), hist'[t] = hist[t],
         Jobs(t)' \subseteq Jobs(t),
         \A o \in Reqs : Deploys(o, t)' => Deploys(o, t) /\ loc'[o] = loc[o]
  PROVE  /\ RevisionsApart(t)'
         /\ target' = target => \A v : Stands(t, v) => Stands(t, v)'
  <1>1. Latest(t)' = Latest(t) /\ \A n : Settled(t, n)' <=> Settled(t, n)
    BY DEF Latest, Newest, Settled
  <1>2. \A b : /\ b \in Bases(t)' => b \in Bases(t)
               /\ b \in Owns(t)' => b \in Owns(t)
    BY BasesAre, OwnsAre
  <1>3. RevisionsApart(t)'
    BY <1>1, <1>2 DEF RevisionsApart
  <1>4. target' = target => \A v : Stands(t, v) => Stands(t, v)'
    BY <1>2 DEF Stands, Done
  <1> QED BY <1>3, <1>4

\* The requests that others find booked are those that were.
LEMMA RestReport ==
  ASSUME Ground, ReportInv, UNCHANGED <<hist, late, arg, outcome, resp>>,
         \A o \in Reqs : /\ pc'[o] = "idle" => pc[o] = "idle"
                         /\ pc'[o] \in Waiting => pc[o] \in Waiting
                         /\ pc'[o] \in Waiting => cur'[o] = cur[o] /\ loc'[o] = loc[o]
                         /\ Busy(o)' => Busy(o),
         gone \subseteq gone',
         target' = target
  PROVE  ReportInv'
  <1>1. ASSUME NEW t \in Teams, Undeleted(t)'
        PROVE  RevisionsApart(t)' /\ \A o \in Reqs : BookedIsDone(o, t)'
    <2>1. RevisionsApart(t) /\ \A o \in Reqs : BookedIsDone(o, t)
      BY <1>1 DEF ReportInv, Undeleted
    <2>2. /\ RevisionsApart(t)'
          /\ \A v : Stands(t, v) => Stands(t, v)'
      BY <2>1, TeamStays DEF Jobs, Deploys
    <2>3. \A o \in Reqs : BookedIsDone(o, t)'
      BY <2>1, <2>2, BookedStands
    <2> QED BY <2>2, <2>3
  <1> QED BY <1>1 DEF ReportInv

LEMMA NextReportInv == Ground /\ ReportInv /\ [Next]_vars => ReportInv'
  <1> SUFFICES ASSUME Ground, ReportInv, [Next]_vars PROVE ReportInv'
    OBVIOUS
  <1>0. TypesOK
    BY IInvParts DEF Ground
  <1>1. CASE UNCHANGED vars
    BY <1>1, RestReport DEF vars, cluster, request, bounds, Busy
  <1>2. ASSUME NEW r \in Reqs, Step(r) PROVE ReportInv'
    BY <1>2, StepReportInv
  <1>3. ASSUME NEW r \in Reqs, Cancel(r) PROVE ReportInv'
    BY <1>3, RestReport DEF Cancel, cluster, request, Busy
  <1>4. ASSUME NEW r \in Reqs, Receive(r) PROVE ReportInv'
    <2>1. /\ pc \in [Reqs -> Calls \union {"idle", "answered", "dead"}]
          /\ arg \in [Reqs -> Request \union {NoRequest}]
          /\ cur \in [Reqs -> Teams \union {None}] /\ DOMAIN resp = Reqs
          /\ pc[r] = "idle" /\ resp[r] = 0 /\ arg[r] = NoRequest
      BY <1>0, <1>4 DEF Receive, TypesOK, RequestOK, RequestTypeOK, Placed, InPlace
    <2>2. /\ UNCHANGED <<hist, loc, outcome, target, late, gone>>
          /\ \A o \in Reqs \ {r} : /\ pc'[o] = pc[o] /\ arg'[o] = arg[o]
                                   /\ cur'[o] = cur[o] /\ resp'[o] = resp[o]
          /\ resp'[r] \in {0, 422}
      BY <1>4, <2>1 DEF Receive, cluster, bounds
    <2>3. pc'[r] \notin Waiting \union {"idle"}
      BY <1>4, <2>1, ApiAssumption DEF Receive, EntryCall, Waiting, Request, Kinds
    <2>4. outcome[r] = NoOutcome
      BY <2>1 DEF ReportInv
    <2>5. ASSUME NEW t \in Teams, Undeleted(t)'
          PROVE  RevisionsApart(t)' /\ \A o \in Reqs : BookedIsDone(o, t)'
      <3>0. arg[r].kind # "delete"
        <4>1. NoRequest.kind # "delete"
          BY DEF NoRequest, None
        <4> QED BY <2>1, <4>1
      <3>1. Undeleted(t)
        <4>1. ASSUME NEW o \in Reqs, arg[o].kind = "delete" PROVE arg[o].team # t
          BY <2>2, <2>5, <3>0, <4>1 DEF Undeleted
        <4> QED BY <4>1 DEF Undeleted
      <3>2. RevisionsApart(t) /\ \A o \in Reqs : BookedIsDone(o, t)
        BY <3>1 DEF ReportInv
      <3>3. /\ RevisionsApart(t)'
            /\ \A v : Stands(t, v) => Stands(t, v)'
        BY <2>2, <2>3, <3>2, TeamStays DEF Jobs, Deploys
      <3>4. outcome'[r][t] # "upgraded"
        BY <2>2, <2>4 DEF NoOutcome
      <3>5. \A o \in Reqs : BookedIsDone(o, t)'
        BY <2>2, <3>2, <3>3, <3>4, BookedStands DEF Busy
      <3> QED BY <3>3, <3>5
    <2>6. ASSUME NEW o \in Reqs
          PROVE  /\ pc'[o] = "idle" => outcome'[o] = NoOutcome
                 /\ arg'[o].kind = "upgrade" /\ resp'[o] = 200 =>
                       \A t \in Teams : outcome'[o][t] # "todo"
      BY <2>2, <2>3 DEF ReportInv
    <2> QED BY <2>5, <2>6 DEF ReportInv
  <1>5. CASE Crash
    <2>1. /\ UNCHANGED <<hist, arg, resp, outcome>> /\ late' = {}
          /\ \A r \in Reqs : /\ pc'[r] \notin Calls /\ pc'[r] \notin Waiting
                             /\ pc'[r] = "idle" => pc[r] = "idle"
      BY <1>0, <1>5
      DEF Crash, cluster, Busy, Calls, Waiting, TypesOK, RequestOK, RequestTypeOK
    <2>2. \A t \in Teams : RevisionsApart(t)'
      BY <2>1, BasesAre, OwnsAre DEF RevisionsApart, Deploys, Jobs
    <2>3. \A t \in Teams, o \in Reqs : BookedIsDone(o, t)'
      BY <2>1, BookedStands DEF Busy
    <2> QED BY <2>1, <2>2, <2>3 DEF ReportInv
  <1>6. CASE Namespaces
    <2>1. PICK u \in Teams :
            /\ ns[u] = "terminating"
            /\ \A t \in Teams \ {u} : hist'[t] = hist[t]
      BY <1>0, <1>6 DEF Namespaces, NsEmpty, NsGone, TypesOK, ClusterTypeOK
    <2>2. UNCHANGED <<pc, cur, loc, arg, resp, outcome, target, late, gone>>
      BY <1>6 DEF Namespaces, request, bounds
    <2>3. ~Undeleted(u)
      BY <2>1, UndeletedStands
    <2>4. ASSUME NEW t \in Teams, Undeleted(t)'
          PROVE  RevisionsApart(t)' /\ \A o \in Reqs : BookedIsDone(o, t)'
      <3>1. Undeleted(t) /\ t # u
        BY <2>2, <2>3, <2>4 DEF Undeleted
      <3>2. RevisionsApart(t) /\ \A o \in Reqs : BookedIsDone(o, t)
        BY <3>1 DEF ReportInv
      <3>3. /\ RevisionsApart(t)'
            /\ \A v : Stands(t, v) => Stands(t, v)'
        BY <2>1, <2>2, <3>1, <3>2, TeamStays DEF Jobs, Deploys
      <3>4. \A o \in Reqs : BookedIsDone(o, t)'
        BY <2>2, <3>2, <3>3, BookedStands DEF Busy
      <3> QED BY <3>3, <3>4
    <2> QED BY <2>2, <2>4 DEF ReportInv
  <1>7. ASSUME NEW j \in late, Late(j) PROVE ReportInv'
    <2>1. UNCHANGED <<pc, arg, resp, outcome, gone>>
      BY <1>7 DEF Late, request
    <2>2. ASSUME NEW t \in Teams, Undeleted(t)'
          PROVE  RevisionsApart(t)' /\ \A o \in Reqs : BookedIsDone(o, t)'
      <3>1. RevisionsApart(t) /\ \A o \in Reqs : BookedIsDone(o, t)
        BY <2>1, <2>2 DEF ReportInv, Undeleted
      <3>2. RevisionsApart(t)'
        BY <1>7, <3>1, LateApart
      <3>3. \A o \in Reqs : BookedIsDone(o, t)'
        BY <1>7, <2>1, <3>1, LateStands, BookedStands DEF Busy
      <3> QED BY <3>2, <3>3
    <2> QED BY <2>1, <2>2 DEF ReportInv
  <1> QED BY <1>1, <1>2, <1>3, <1>4, <1>5, <1>6, <1>7 DEF Next

\* The invariant of the reports is inductive, given that of the credentials.
THEOREM ReportInvariance == Spec => []ReportInv
  <1> QED BY InitGround, NextGround, ReportInit, NextReportInv, PTL DEF Spec

\* UpgradeAllRunners: when the answer goes out every listed release is accounted
\* for, and what is called upgraded has been deployed with the configured chart
\* and still stands in the history, whatever creates, updates and other chart
\* upgrades work on the same releases, fail, are cancelled or leave Helm behind
\* meanwhile.
THEOREM ReportTrue == Spec => []ReportIsTrue
  <1>1. ReportInv => ReportIsTrue
    BY DEF ReportInv, ReportIsTrue, BookedIsDone, Undeleted, Done
  <1> QED BY <1>1, ReportInvariance, PTL

-----------------------------------------------------------------------------
(***************************************************************************)
(* RunnerApi implements RunnerService.                                     *)
(***************************************************************************)

(* Configurations that requests for a team supplied. *)

LEMMA StageMoves ==
  ASSUME TypesOK, NEW r \in Reqs
  PROVE  /\ Busy(r) <=> Stage(r) \in {"working", "done"}
         /\ pc[r] = "reply" <=> Stage(r) = "done"
         /\ pc[r] = "idle" <=> Stage(r) = "new"
         /\ pc[r] = "dead" <=> Stage(r) = "dead"
         /\ pc[r] = "answered" => Stage(r) = IF resp[r] = 422 THEN "refused" ELSE "over"
         /\ Stage(r) = "refused" => pc[r] = "answered" /\ resp[r] = 422
  <1>1. pc[r] \in Calls \union {"idle", "answered", "dead"}
    BY DEF TypesOK, RequestOK, RequestTypeOK
  <1> QED BY <1>1 DEF Stage, Busy, Calls

\* No handler answers 422 once it has begun.
LEMMA StepAnswers ==
  ASSUME Ground, NEW r \in Reqs, Step(r)
  PROVE  /\ resp'[r] \in {0, 200, 201, 204, 404, 500}
         /\ Stage(r)' # "refused"
  <1>1. TypesOK /\ TypesOK'
    BY IInvParts, NextTypes DEF Ground, Next
  <1>2. resp[r] = 0 /\ DOMAIN resp = Reqs
    BY <1>1, StepIsLocal DEF TypesOK, RequestOK, RequestTypeOK, Placed, InPlace,
       Busy, Calls
  <1>3. resp'[r] \in {0, 200, 201, 204, 404, 500}
    BY <1>1, <1>2, StepShape
    DEF Goto, Answer, Finishing, GoesOn, Answers2xx, AnswersError
  <1>4. Stage(r)' = "refused" => resp'[r] = 422
    BY <1>1 DEF Stage, TypesOK, RequestOK, RequestTypeOK
  <1> QED BY <1>3, <1>4

\* A request of a team stays one of the team, and is not refused later.
LEMMA ConfiguresStays ==
  ASSUME Ground, [Next]_vars, NEW o \in Reqs, NEW t, Runners!Configures(o, t)
  PROVE  Runners!Configures(o, t)' /\ arg'[o] = arg[o]
  <1>0. TypesOK /\ TypesOK'
    BY IInvParts, NextTypes DEF Ground
  <1>1. /\ arg[o].kind \in {"create", "update"} /\ arg[o].team = t
        /\ Stage(o) # "refused"
    BY DEF Runners!Configures
  <1>2. arg[o] # NoRequest
    <2>1. NoRequest.kind \notin {"create", "update"}
      BY DEF NoRequest, None
    <2> QED BY <1>1, <2>1
  <1>3. pc[o] # "idle"
    BY <1>0, <1>2 DEF TypesOK, RequestOK, Placed, InPlace
  <1>4. SUFFICES arg'[o] = arg[o] /\ Stage(o)' # "refused"
    BY <1>1 DEF Runners!Configures
  <1>5. CASE arg'[o] = arg[o] /\ pc'[o] = pc[o] /\ resp'[o] = resp[o]
    BY <1>1, <1>5 DEF Stage
  <1>6. ASSUME NEW r \in Reqs, Step(r) PROVE arg'[o] = arg[o] /\ Stage(o)' # "refused"
    <2>1. arg' = arg
      BY <1>6, StepLeavesOthers
    <2>2. CASE o # r
      BY <1>5, <1>6, <2>1, <2>2, StepLeavesOthers
    <2> QED BY <1>6, <2>1, <2>2, StepAnswers
  <1>7. ASSUME NEW r \in Reqs, Receive(r) PROVE arg'[o] = arg[o] /\ Stage(o)' # "refused"
    <2>1. o # r
      BY <1>3, <1>7 DEF Receive
    <2>2. arg'[o] = arg[o] /\ pc'[o] = pc[o] /\ resp'[o] = resp[o]
      BY <1>7, <2>1, ReceiveIs, <1>0 DEF TypesOK, RequestOK, RequestTypeOK
    <2> QED BY <1>5, <2>2
  <1>8. CASE Crash
    <2>1. arg' = arg /\ resp' = resp /\ pc'[o] \in {pc[o], "dead"}
      BY <1>8 DEF Crash
    <2>2. CASE pc'[o] = "dead"
      BY <2>1, <2>2 DEF Stage
    <2> QED BY <1>5, <2>1, <2>2
  <1>9. CASE UNCHANGED <<arg, pc, resp>>
    BY <1>5, <1>9
  <1> QED BY <1>6, <1>7, <1>8, <1>9 DEF Next, vars, Cancel, Late, Namespaces, request

LEMMA ConfigsGrow ==
  ASSUME Ground, [Next]_vars, NEW t
  PROVE  /\ Runners!Urls(t) \subseteq Runners!Urls(t)'
         /\ \A o \in Reqs : Runners!Configures(o, t) => Runners!Of(o, t) \subseteq Runners!Of(o, t)'
         /\ Runners!Configs(t) \subseteq Runners!Configs(t)'
  <1>1. Runners!Urls(t) \subseteq Runners!Urls(t)'
    BY ConfiguresStays DEF Runners!Urls
  <1>2. ASSUME NEW o \in Reqs, Runners!Configures(o, t)
        PROVE  Runners!Of(o, t) \subseteq Runners!Of(o, t)'
    BY <1>1, <1>2, ConfiguresStays DEF Runners!Of
  <1>3. Runners!Configs(t) \subseteq Runners!Configs(t)'
    BY <1>2, ConfiguresStays DEF Runners!Configs
  <1> QED BY <1>1, <1>2, <1>3

\* The values of a release lead to those that a request lays over them.
LEMMA ConfigsAre ==
  ASSUME NEW t, NEW c \in Runners!Configs(t)
  PROVE  c.url \in Runners!Urls(t) /\ c.url # None
  <1>1. None \notin Reqs /\ None # Prior
    BY ClusterAssumption DEF Writers
  <1>2. CASE c = [url |-> Prior, rest |-> Prior]
    BY <1>1, <1>2 DEF Runners!Urls
  <1>3. ASSUME NEW o \in Reqs, Runners!Configures(o, t), c \in Runners!Of(o, t)
        PROVE  c.url \in Runners!Urls(t) /\ c.url # None
    <2>1. c.url \in Runners!Urls(t)
      BY <1>3 DEF Runners!Of, Runners!Urls
    <2>2. Runners!Urls(t) \subseteq Reqs \union {Prior}
      BY DEF Runners!Urls
    <2> QED BY <1>1, <2>1, <2>2
  <1>4. \/ c \in UNION {Runners!Of(o, t) : o \in {m \in Reqs : Runners!Configures(m, t)}}
        \/ c = [url |-> Prior, rest |-> Prior]
    BY DEF Runners!Configs
  <1>5. CASE c \in UNION {Runners!Of(o, t) : o \in {m \in Reqs : Runners!Configures(m, t)}}
    <2>1. PICK o \in Reqs : Runners!Configures(o, t) /\ c \in Runners!Of(o, t)
      BY <1>5
    <2> QED BY <1>3, <2>1
  <1> QED BY <1>2, <1>4, <1>5

LEMMA OfIsConfig ==
  ASSUME NEW t, NEW r \in Reqs, Runners!Configures(r, t)
  PROVE  Runners!Of(r, t) \subseteq Runners!Configs(t)
  BY DEF Runners!Configs

LEMMA BuiltIsOwn ==
  ASSUME NEW t, NEW r \in Reqs, arg[r].url
  PROVE  BuiltValues(r) \in Runners!Of(r, t)
  BY DEF BuiltValues, Runners!Of

LEMMA MergedIsOwn ==
  ASSUME NEW t, NEW r \in Reqs, NEW c, c = NoConfig \/ c \in Runners!Configs(t)
  PROVE  Merged(r, c) \in Runners!Of(r, t) \/ Merged(r, c).url = None
  <1>1. r # None
    BY ClusterAssumption DEF Writers
  <1>2. Merged(r, c) = [url |-> IF arg[r].url THEN r ELSE c.url, rest |-> r]
    <2>1. BuiltValues(r).rest = r /\ BuiltValues(r).url = IF arg[r].url THEN r ELSE None
      BY DEF BuiltValues
    <2>2. Merged(r, c) = [k \in {"url", "rest"} |->
                IF BuiltValues(r)[k] = None THEN c[k] ELSE BuiltValues(r)[k]]
      BY DEF Merged
    <2> QED BY <1>1, <2>1, <2>2
  <1>3. CASE arg[r].url
    BY <1>2, <1>3 DEF Runners!Of
  <1>4. CASE ~arg[r].url /\ c = NoConfig
    BY <1>2, <1>4 DEF NoConfig
  <1>5. CASE ~arg[r].url /\ c \in Runners!Configs(t)
    BY <1>2, <1>5, ConfigsAre DEF Runners!Of
  <1> QED BY <1>3, <1>4, <1>5

-----------------------------------------------------------------------------
(* What is stored, or may be stored again, has values that were deployed. *)

\* The request r is about to store its values for t, or to have them stored.
Supplies(r, t) ==
    /\ cur[r] = t /\ pc[r] \in {"installRun", "upgradeRun"} \union Waiting
    /\ pc[r] = "upgradeRun" => loc[r].cfg.url # None

Known(t) == hist[t] \union Bases(t) \union Owns(t)

LEMMA KnownRevisions ==
  ASSUME Ground, NEW t \in Teams
  PROVE  Known(t) \subseteq Revision
  <1>1. /\ hist[t] \subseteq Revision
        /\ \A r \in Reqs : loc[r].base \subseteq Revision
        /\ \A k \in late : k.base \subseteq Revision /\ k.own \in Revision
    BY IInvParts DEF Ground, TypesOK, ClusterTypeOK, RequestOK, RequestTypeOK, BoundTypeOK,
       Local, Job
  <1> QED BY <1>1, BasesAre, OwnsAre DEF Known, Jobs

\* Who waits for Helm after a step has not moved to another release.
LEMMA WaitersStay ==
  ASSUME Ground, NEW r \in Reqs, Step(r), pc'[r] \in Waiting
  PROVE  cur' = cur
  <1>1. pc \in [Reqs -> Calls \union {"idle", "answered", "dead"}]
    BY IInvParts DEF Ground, TypesOK, RequestOK, RequestTypeOK
  <1>2. \/ \E call, x : Goto(r, call, x)
        \/ \E code : Answer(r, code)
        \/ \E res : HelmReturns(r, res)
        \/ List(r) \/ NextRelease(r)
    BY DEF Step, NsGet, NsCreate, SecretGet, SecretCreate, SecretUpdate,
           WriteSecret, ChartUnavailable, InstallGet, InstallRun, InstallWait,
           RunFails, UpgradeGet, ChartGet, UpgradeRun, UpgradeWait, UpgradeRecord,
           Abandoned, UninstallRun, UninstallWait, NsDelete, Reply
  <1>3. CASE NextRelease(r)
    BY <1>1, <1>3 DEF NextRelease, Answer, Waiting
  <1> QED BY <1>2, <1>3 DEF Goto, Answer, HelmReturns, List

\* A handler that leaves Helm behind leaves what it was deploying.
LEMMA StepJobs ==
  ASSUME Ground, NEW r \in Reqs, Step(r)
  PROVE  \/ late' = late
         \/ /\ pc[r] \in {"installWait", "upgradeWait"} /\ r \in gone
            /\ late' = late \union {Left(r)}
            /\ HelmReturns(r, "error")
  BY DEF Step, Abandoned, Left

LEMMA StepSupplies ==
  ASSUME Ground, NEW r \in Reqs, Step(r), NEW t \in Teams, NEW v \in Known(t)'
  PROVE  \/ \E w \in Known(t) : v.cfg = w.cfg
         \/ Supplies(r, t) /\ v.cfg = loc[r].cfg
  <1>0. TypesOK
    BY IInvParts DEF Ground
  <1>1. Known(t) \subseteq Revision
    BY KnownRevisions
  <1>2. \A w, s : w \in Known(t) => As(w, s).cfg = w.cfg
    BY <1>1 DEF As, Revision
  <1>3. \A s : Own(r, s).cfg = loc[r].cfg
    BY DEF Own
  <1>4. Deploys(r, t) => Supplies(r, t) /\ loc[r].base \subseteq Known(t)
    <2>1. SUFFICES ASSUME Deploys(r, t) PROVE Supplies(r, t) /\ loc[r].base \subseteq Known(t)
      OBVIOUS
    <2>2. Supplies(r, t)
      BY <2>1 DEF Deploys, Supplies, Waiting
    <2> QED BY <2>1, <2>2, BasesAre DEF Known
  <1>5. CASE v \in hist'[t]
    <2>1. CASE v \in hist[t]
      BY <2>1 DEF Known
    <2>2. CASE v \notin hist[t]
      <3>1. hist'[t] # hist[t]
        BY <1>5, <2>2
      <3>2. ASSUME pc[r] \in {"installRun", "upgradeRun"}, NEW p, NewOn(r, t, p), cur[r] = t
            PROVE  Supplies(r, t) /\ v.cfg = loc[r].cfg
        <4>1. v = p
          BY <1>5, <2>2, <3>2 DEF NewOn
        <4>2. pc[r] = "upgradeRun" => UpgradeRun(r)
          BY DEF Step, NsGet, NsCreate, SecretGet, SecretCreate, SecretUpdate,
             ChartUnavailable, InstallGet, InstallRun, InstallWait,
             RunFails, UpgradeGet, ChartGet, UpgradeWait, UpgradeRecord, List, NextRelease,
             Abandoned, UninstallRun, UninstallWait, NsDelete, Reply
        <4>3. pc[r] = "upgradeRun" => loc[r].cfg.url # None
          BY <3>1, <4>2 DEF UpgradeRun, Deployable
        <4> QED BY <3>2, <4>1, <4>3 DEF Supplies, NewOn
      <3>3. ASSUME NEW S, Rewrites(r, S), cur[r] = t, hist'[t] = Updated(hist[t], S)
            PROVE  \/ \E w \in Known(t) : v.cfg = w.cfg
                   \/ Supplies(r, t) /\ v.cfg = loc[r].cfg
        <4>1. v \in S
          BY <1>5, <2>2, <3>3, RewritesKeepNumbers
        <4>2. CASE pc[r] \in Waiting
          <5>1. Deploys(r, t)
            BY <3>3, <4>2 DEF Deploys
          <5>2. \/ v \in {Own(r, "deployed"), Own(r, "failed")}
                \/ v \in loc[r].base
                \/ \E b \in loc[r].base : v = As(b, "superseded")
            BY <3>3, <4>1, <4>2 DEF Rewrites, Superseded, Waiting
          <5> QED BY <1>2, <1>3, <1>4, <5>1, <5>2
        <4>3. CASE pc[r] \notin Waiting
          <5>1. PICK w \in Latest(t) : v = As(w, "uninstalling")
            BY <3>3, <4>1, <4>3 DEF Rewrites
          <5>2. w \in Known(t)
            BY <5>1 DEF Latest, Newest, Known
          <5> QED BY <1>2, <5>1, <5>2
        <4> QED BY <4>2, <4>3
      <3>4. hist'[t] # PurgeFrom(t, loc[r].revs)
        BY <1>5, <2>2 DEF PurgeFrom
      <3> QED BY <1>0, <3>1, <3>2, <3>3, <3>4, StepHistory
    <2> QED BY <2>1, <2>2
  <1>6. ASSUME NEW k \in Jobs(t)', v \in k.base \/ v = k.own
        PROVE  \/ \E w \in Known(t) : v.cfg = w.cfg
               \/ Supplies(r, t) /\ v.cfg = loc[r].cfg
    <2>1. CASE k \in Jobs(t)
      <3>1. v \in Known(t)
        BY <1>6, <2>1, BasesAre, OwnsAre DEF Known
      <3> QED BY <3>1
    <2>2. CASE k \notin Jobs(t)
      <3>1. PICK job : job = Left(r)
        OBVIOUS
      <3>2. k = job /\ k.team = t /\ pc[r] \in Waiting
        BY <2>2, <3>1, StepJobs DEF Jobs, Waiting
      <3>3. Deploys(r, t) /\ k.base = loc[r].base /\ k.own = Own(r, "failed")
        BY <3>1, <3>2 DEF Deploys, Left
      <3> QED BY <1>3, <1>4, <1>6, <3>3
    <2> QED BY <2>1, <2>2
  <1>7. ASSUME NEW o \in Reqs, Deploys(o, t)', v \in loc'[o].base
        PROVE  \E w \in Known(t) : v.cfg = w.cfg
    <2>1. CASE o # r
      <3>1. Deploys(o, t) /\ v \in loc[o].base
        BY <1>7, <2>1, StepLeavesOthers DEF Deploys
      <3> QED BY <3>1, BasesAre DEF Known
    <2>2. CASE o = r
      <3>1. cur' = cur /\ pc'[r] \in Waiting /\ cur[r] = t
        BY <1>7, <2>2, WaitersStay DEF Deploys
      <3>2. CASE pc[r] \in Waiting /\ loc'[r] = loc[r]
        BY <1>4, <1>7, <2>2, <3>1, <3>2 DEF Deploys
      <3>3. CASE \E w \in Latest(t) : loc'[r].base = Base(t, w)
        BY <1>7, <2>2, <3>3, BaseSettled DEF Known
      <3> QED BY <1>0, <1>7, <2>2, <3>1, <3>2, <3>3, StepDeploys
    <2> QED BY <2>1, <2>2
  <1>8. \/ v \in hist'[t] \/ v \in Bases(t)' \/ v \in Owns(t)'
    BY DEF Known
  <1> QED BY <1>5, <1>6, <1>7, <1>8, BasesAre, OwnsAre

LEMMA LateSupplies ==
  ASSUME Ground, NEW j \in late, Late(j), NEW t \in Teams, NEW v \in Known(t)'
  PROVE  \E w \in Known(t) : v.cfg = w.cfg
  <1>1. Known(t) \subseteq Revision
    BY KnownRevisions
  <1>2. \A w, s : w \in Known(t) => As(w, s).cfg = w.cfg
    BY <1>1 DEF As, Revision
  <1>3. v \in Bases(t)' \union Owns(t)' => v \in Known(t)
    BY LateIsAbout, BasesAre, OwnsAre DEF Known
  <1>4. ASSUME v \in hist'[t], v \notin hist[t] PROVE \E w \in Known(t) : v.cfg = w.cfg
    <2>1. PICK S : j \in Jobs(t) /\ LateRewrites(j, S) /\ hist'[t] = Updated(hist[t], S)
      BY <1>4, LateIsAbout
    <2>2. v \in S
      BY <1>4, <2>1, RewritesKeepNumbers
    <2>3. j.own \in Known(t) /\ j.base \subseteq Known(t)
      BY <2>1, BasesAre, OwnsAre DEF Known
    <2>4. \/ v \in {j.own, As(j.own, "deployed")}
          \/ v \in j.base
          \/ \E b \in j.base : v = As(b, "superseded")
      BY <2>1, <2>2 DEF LateRewrites, Superseded
    <2> QED BY <1>2, <2>3, <2>4
  <1> QED BY <1>3, <1>4 DEF Known

-----------------------------------------------------------------------------
(* The latest revision of a runner that nobody has asked to delete. *)

\* The clauses of DeployInv about such a runner.
Follows(t) ==
    /\ \A j, k \in Jobs(t) : j.own.rev = k.own.rev => j = k
    /\ \A w \in Owns(t), v \in Latest(t) : v.rev = w.rev => v = w
    /\ \A v \in Latest(t) : v.status \in Pending \union {"deployed", "failed"}
    /\ \A r \in Reqs : Deploys(r, t) => \E s \in Pending : Own(r, s) \in hist[t]

\* What is latest after revisions were stored again.
LEMMA LatestAfter ==
  ASSUME Ground, [Next]_vars, NEW t \in Teams, NEW S, hist'[t] = Updated(hist[t], S)
  PROVE  /\ \A x \in Latest(t)' : \E v \in Latest(t) :
               x.rev = v.rev /\ (x \in S \/ (x = v /\ \A w \in S : w.rev # v.rev))
         /\ \A x, y \in Latest(t)' : x = y
  <1>1. ASSUME NEW x \in Latest(t)'
        PROVE  \E v \in Latest(t) :
                  x.rev = v.rev /\ (x \in S \/ (x = v /\ \A w \in S : w.rev # v.rev))
    <2>1. x \in Updated(hist[t], S) /\ \A w \in Updated(hist[t], S) : w.rev <= x.rev
      BY <1>1 DEF Latest, Newest
    <2>2. PICK v \in hist[t] : v.rev = x.rev
      BY <2>1, RewritesKeepNumbers
    <2>3. ASSUME NEW w \in hist[t] PROVE w.rev <= v.rev
      <3>1. \E y \in Updated(hist[t], S) : y.rev = w.rev
        BY <2>3, RewritesKeepNumbers
      <3> QED BY <2>1, <2>2, <3>1
    <2>4. v \in Latest(t)
      BY <2>3 DEF Latest, Newest
    <2>5. x \in S \/ (x \in hist[t] /\ \A w \in S : w.rev # x.rev)
      BY <2>1 DEF Updated
    <2>6. x \in hist[t] => x = v
      BY <2>2, LatestIsOne
    <2> QED BY <2>2, <2>4, <2>5, <2>6
  <1>2. Numbers' /\ TypesOK'
    BY NextTypes, NextNumbers, IInvParts DEF Ground
  <1>3. hist'[t] \in SUBSET Revision /\ Distinct(hist'[t])
    BY <1>2 DEF TypesOK, ClusterTypeOK, Numbers, Numbered, Distinct
  <1>4. \A x, y \in Newest(hist'[t]) : x = y
    BY <1>3, NewestIsOne
  <1> QED BY <1>1, <1>4 DEF Latest

\* What is being deployed is the latest revision, and nobody else's.
LEMMA DeployedLatest ==
  ASSUME Ground, NEW t \in Teams, RevisionsApart(t), NEW r \in Reqs, Deploys(r, t)
  PROVE  \A v \in Latest(t) :
            /\ v.rev = loc[r].rev /\ v.status \in Pending
            /\ \A b \in Bases(t) \union Owns(t) : b.rev # v.rev
  <1> SUFFICES ASSUME NEW v \in Latest(t)
               PROVE  /\ v.rev = loc[r].rev /\ v.status \in Pending
                      /\ \A b \in Bases(t) \union Owns(t) : b.rev # v.rev
    OBVIOUS
  <1>1. v.rev = loc[r].rev /\ v.status \in Pending
    BY LatestIsOne DEF RevisionsApart
  <1>2. v \in hist[t]
    BY DEF Latest, Newest
  <1> QED BY <1>1, <1>2, LatestIsOne DEF RevisionsApart, Settled

\* What a request deploys keeps its numbers and values whatever is stored for
\* others.
LEMMA OwnStays ==
  ASSUME Ground, NEW t \in Teams, RevisionsApart(t), NEW o \in Reqs, Deploys(o, t),
         NEW s \in Pending, Own(o, s) \in hist[t], NEW S,
         hist'[t] = Updated(hist[t], S), \A w \in S : Settled(t, w.rev),
         loc'[o] = loc[o], target' = target
  PROVE  Own(o, s)' \in hist'[t]
  <1>1. PICK own : own = Own(o, s)
    OBVIOUS
  <1>2. own.rev = loc[o].rev /\ own \in hist[t]
    BY <1>1 DEF Own
  <1>3. own \in Latest(t)
    BY <1>2, LatestIsOne DEF RevisionsApart, Latest, Newest
  <1>4. own \in Latest(t)'
    BY <1>3, PendingStays
  <1>5. Own(o, s)' = own
    BY <1>1 DEF Own
  <1> QED BY <1>4, <1>5 DEF Latest, Newest

\* A runner that is there stays there when revisions are stored again.
LEMMA LatestRemains ==
  ASSUME Ground, NEW t \in Teams, NEW S, hist'[t] = Updated(hist[t], S),
         Latest(t) # {}
  PROVE  Latest(t)' # {}
  <1>1. PICK v \in hist[t] : \A w \in hist[t] : w.rev <= v.rev
    BY DEF Latest, Newest
  <1>2. PICK x \in Updated(hist[t], S) : x.rev = v.rev
    BY <1>1, RewritesKeepNumbers
  <1>3. \A y \in Updated(hist[t], S) : y.rev <= x.rev
    BY <1>1, <1>2, RewritesKeepNumbers
  <1> QED BY <1>2, <1>3 DEF Latest, Newest

LEMMA GainsLatest ==
  ASSUME Ground, NEW r \in Reqs, NEW t \in Teams, NEW p, Gains(r, t, p)
  PROVE  Latest(t)' = {p}
  <1>1. /\ hist'[t] = hist[t] \union {p} /\ \A w \in hist[t] : w.rev < p.rev
        /\ p \in Revision
    BY DEF Gains, NewOn
  <1>2. p.rev \in Nat /\ \A w \in hist[t] : w.rev \in Nat
    BY <1>1, LatestIsOne DEF Revision
  <1> QED BY <1>1, <1>2 DEF Latest, Newest

LEMMA ContinuesLatest ==
  ASSUME Ground, [Next]_vars, NEW r \in Reqs, NEW t \in Teams, RevisionsApart(t),
         NEW S, Continues(r, t, S)
  PROVE  /\ \A w \in S : Settled(t, w.rev) /\ w.rev # loc[r].rev
         /\ \A x \in Latest(t)' : x \in Latest(t)
  <1>1. hist'[t] = Updated(hist[t], S) /\ Deploys(r, t)
    BY DEF Continues
  <1>2. \A w \in S : Settled(t, w.rev) /\ w.rev # loc[r].rev
    <2>1. SUFFICES ASSUME NEW b \in loc[r].base
                   PROVE  /\ Settled(t, As(b, "superseded").rev)
                          /\ As(b, "superseded").rev # loc[r].rev
      BY DEF Continues, Superseded
    <2>2. b \in Revision /\ b \in Bases(t)
      BY <1>1, IInvParts, BasesAre DEF Ground, TypesOK, RequestOK, RequestTypeOK, Local
    <2>3. Settled(t, b.rev)
      BY <2>2 DEF RevisionsApart
    <2>4. \E v \in Latest(t) : v.rev = loc[r].rev
      BY <1>1 DEF RevisionsApart
    <2>5. b.rev # loc[r].rev
      BY <1>1, <2>2, <2>4, DeployedLatest
    <2> QED BY <2>2, <2>3, <2>5 DEF As, Revision
  <1>3. \A x \in Latest(t)' : x \in Latest(t)
    <2>1. \A v \in Latest(t) : v.rev = loc[r].rev
      BY <1>1, DeployedLatest
    <2>2. \A x \in Latest(t)' : \E v \in Latest(t) :
             x.rev = v.rev /\ (x \in S \/ x = v)
      BY <1>1, LatestAfter
    <2> QED BY <1>2, <2>1, <2>2
  <1> QED BY <1>2, <1>3

LEMMA EndsLatest ==
  ASSUME Ground, [Next]_vars, NEW r \in Reqs, NEW t \in Teams, RevisionsApart(t),
         NEW S, Ends(r, t, S)
  PROVE  \A x \in Latest(t)' :
            /\ x.rev = loc[r].rev
            /\ \/ x \in Latest(t) /\ S = {}
               \/ x = Own(r, "deployed") /\ S = {Own(r, "deployed")}
               \/ x = Own(r, "failed")
  <1>1. hist'[t] = Updated(hist[t], S) /\ Deploys(r, t)
    BY DEF Ends
  <1>2. \A x \in Latest(t)' :
          /\ x.rev = loc[r].rev
          /\ x \in S \/ (x \in Latest(t) /\ S = {})
    <2>1. SUFFICES ASSUME NEW x \in Latest(t)'
                   PROVE  x.rev = loc[r].rev /\ (x \in S \/ (x \in Latest(t) /\ S = {}))
      OBVIOUS
    <2>2. PICK v \in Latest(t) :
            x.rev = v.rev /\ (x \in S \/ (x = v /\ \A w \in S : w.rev # v.rev))
      BY <1>1, LatestAfter
    <2>3. v.rev = loc[r].rev
      BY <1>1, DeployedLatest
    <2>4. S = {} \/ \E w \in S : w.rev = loc[r].rev
      <3>1. \A s : Own(r, s).rev = loc[r].rev
        BY DEF Own
      <3> QED BY <3>1 DEF Ends
    <2> QED BY <2>2, <2>3, <2>4
  <1>3. ASSUME NEW x \in Latest(t)', x \in loc[r].base, x.rev = loc[r].rev PROVE FALSE
    <2>1. x \in Bases(t) /\ \E v \in Latest(t) : v.rev = loc[r].rev
      BY <1>1, <1>3, BasesAre DEF RevisionsApart
    <2> QED BY <1>1, <1>3, <2>1, DeployedLatest
  <1> QED BY <1>2, <1>3 DEF Ends

LEMMA LateLatest ==
  ASSUME Ground, [Next]_vars, NEW t \in Teams, RevisionsApart(t), Follows(t),
         NEW j \in Jobs(t), NEW S, LateRewrites(j, S), hist'[t] = Updated(hist[t], S)
  PROVE  /\ \A w \in S : Settled(t, w.rev)
         /\ \A x \in Latest(t)' : \/ x \in Latest(t)
                                  \/ /\ j.base = {} /\ x = As(j.own, "deployed")
                                     /\ j.own \in Latest(t)
  <1>1. /\ j.own \in Revision /\ j.base \subseteq Revision
        /\ j.own \in Owns(t) /\ j.base \subseteq Bases(t)
        /\ \A b \in j.base : b.rev < j.own.rev
    BY IInvParts, BasesAre, OwnsAre
    DEF Ground, TypesOK, BoundTypeOK, Job, Numbers, Under, Jobs
  <1>2. /\ Settled(t, j.own.rev) /\ \A b \in j.base : Settled(t, b.rev)
    BY <1>1 DEF RevisionsApart
  <1>3. /\ As(j.own, "deployed").rev = j.own.rev
        /\ \A b \in j.base : As(b, "superseded").rev = b.rev
    BY <1>1 DEF As, Revision
  <1>4. \A w \in S : Settled(t, w.rev)
    BY <1>2, <1>3 DEF LateRewrites, Superseded
  <1>5. ASSUME NEW x \in Latest(t)'
        PROVE  \/ x \in Latest(t)
               \/ j.base = {} /\ x = As(j.own, "deployed") /\ j.own \in Latest(t)
    <2>1. PICK v \in Latest(t) :
            x.rev = v.rev /\ (x \in S \/ x = v)
      BY LatestAfter
    <2>2. j.own.rev <= v.rev
      BY <1>2 DEF Settled, Latest, Newest
    <2>3. v.rev \in Nat /\ j.own.rev \in Nat /\ \A b \in j.base : b.rev \in Nat
      BY <1>1, LatestIsOne DEF Latest, Newest, Revision
    <2>4. \A b \in j.base : b.rev # x.rev
      BY <1>1, <2>1, <2>2, <2>3
    <2>5. x.rev = j.own.rev => j.own \in Latest(t)
      BY <1>1, <2>1 DEF Follows
    <2>6. x = j.own => x \in Latest(t)
      BY <2>5
    <2> QED BY <1>3, <2>1, <2>4, <2>5, <2>6 DEF LateRewrites, Superseded
  <1> QED BY <1>4, <1>5

LEMMA StepFollows ==
  ASSUME Ground, NEW r \in Reqs, Step(r), NEW t \in Teams, Undeleted(t),
         RevisionsApart(t), Follows(t)
  PROVE  Follows(t)'
  <1>0. /\ \A o \in Reqs \ {r} : /\ Deploys(o, t)' <=> Deploys(o, t)
                                 /\ loc'[o] = loc[o]
        /\ target' = target /\ [Next]_vars
    BY StepLeavesOthers DEF Deploys, Next
  <1>1. CASE Rests(r, t)
    <2>1. \A o \in Reqs : Deploys(o, t)' => Deploys(o, t) /\ loc'[o] = loc[o]
      BY <1>0, <1>1 DEF Rests
    <2>2. Latest(t)' = Latest(t) /\ Jobs(t)' = Jobs(t) /\ hist'[t] = hist[t]
      BY <1>1 DEF Rests, Latest, Newest
    <2>3. \A o \in Reqs : Deploys(o, t)' => \A s : Own(o, s)' = Own(o, s)
      BY <1>0, <2>1 DEF Own
    <2>4. \A w : w \in Owns(t)' => w \in Owns(t)
      BY <2>2, OwnsAre
    <2> QED BY <2>1, <2>2, <2>3, <2>4 DEF Follows
  <1>2. ASSUME NEW p, Gains(r, t, p) PROVE Follows(t)'
    <2>1. /\ hist'[t] = hist[t] \union {p} /\ \A w \in hist[t] : w.rev < p.rev
          /\ p \in Revision /\ p.status \in Pending /\ p.chart = target
          /\ p.cfg = loc[r].cfg /\ Jobs(t)' = Jobs(t)
      BY <1>2 DEF Gains, NewOn, Jobs
    <2>2. Latest(t)' = {p}
      BY <1>2, GainsLatest
    <2>3. ASSUME NEW w, w \in Owns(t)' PROVE w.rev # p.rev
      <3>1. \E v \in hist[t] : v.rev = w.rev
        BY <2>1, <2>3, OwnsAre DEF RevisionsApart, Settled
      <3> QED BY <2>1, <3>1, LatestIsOne DEF Revision
    <2>4. ASSUME NEW o \in Reqs, Deploys(o, t)'
          PROVE  \E s \in Pending : Own(o, s)' \in hist'[t]
      <3>1. o = r
        BY <1>0, <1>2, <2>4 DEF Gains, RevisionsApart
      <3>2. loc'[r].rev = p.rev /\ loc'[r].cfg = p.cfg
        BY <1>2, <2>1, <2>4, <3>1 DEF Gains
      <3>3. Own(r, p.status)' = p
        BY <1>0, <2>1, <3>2 DEF Own, Revision
      <3> QED BY <2>1, <3>1, <3>3
    <2>5. \A x \in Latest(t)' : x.status \in Pending
      BY <2>1, <2>2
    <2> QED BY <2>1, <2>2, <2>3, <2>4, <2>5 DEF Follows
  <1>3. ASSUME NEW S, Continues(r, t, S) PROVE Follows(t)'
    <2>1. /\ hist'[t] = Updated(hist[t], S) /\ Jobs(t)' = Jobs(t)
          /\ Deploys(r, t) /\ loc' = loc
      BY <1>3 DEF Continues, Jobs
    <2>2. /\ \A w \in S : Settled(t, w.rev)
          /\ \A x \in Latest(t)' : x \in Latest(t)
      BY <1>0, <1>3, ContinuesLatest
    <2>4. \A o \in Reqs : Deploys(o, t)' => o = r
      BY <1>0, <2>1 DEF RevisionsApart
    <2>5. \E s \in Pending : Own(r, s)' \in hist'[t]
      <3>1. PICK s \in Pending : Own(r, s) \in hist[t]
        BY <2>1 DEF Follows
      <3>2. Own(r, s)' \in hist'[t]
        BY <1>0, <2>1, <2>2, <3>1, OwnStays
      <3> QED BY <3>2
    <2>6. \A w : w \in Owns(t)' => w \in Owns(t)
      BY <2>1, OwnsAre
    <2> QED BY <2>1, <2>2, <2>4, <2>5, <2>6 DEF Follows
  <1>4. ASSUME NEW S, Ends(r, t, S) PROVE Follows(t)'
    <2>1. hist'[t] = Updated(hist[t], S) /\ Deploys(r, t) /\ \A o \in Reqs : ~Deploys(o, t)'
      BY <1>0, <1>4 DEF Ends, RevisionsApart
    <2>2. PICK job : job = Left(r)
      OBVIOUS
    <2>3. /\ job.own = Own(r, "failed") /\ job.own.rev = loc[r].rev
          /\ job.own.status = "failed"
      BY <2>2 DEF Left, Own
    <2>4. \/ Jobs(t)' = Jobs(t)
          \/ S = {job.own} /\ Jobs(t)' \subseteq Jobs(t) \union {job}
      BY <1>4, <2>2, <2>3 DEF Ends, Jobs
    <2>5. ASSUME NEW k \in Jobs(t) PROVE k.own.rev # loc[r].rev
      <3>1. \E v \in Latest(t) : v.rev = loc[r].rev
        BY <2>1 DEF RevisionsApart
      <3>2. k.own \in Owns(t)
        BY OwnsAre
      <3> QED BY <2>1, <3>1, <3>2, DeployedLatest
    <2>7. \A x \in Latest(t)' :
            /\ x.rev = loc[r].rev
            /\ \/ x \in Latest(t) /\ S = {}
               \/ x = Own(r, "deployed") /\ S = {Own(r, "deployed")}
               \/ x = Own(r, "failed")
      BY <1>0, <1>4, EndsLatest
    <2>8. ASSUME NEW x \in Latest(t)' PROVE x.status \in Pending \union {"deployed", "failed"}
      <3>1. \A s : Own(r, s).status = s
        BY DEF Own
      <3> QED BY <2>7, <2>8, <3>1 DEF Follows
    <2>9. ASSUME NEW w, w \in Owns(t)', NEW x \in Latest(t)', x.rev = w.rev PROVE x = w
      <3>1. PICK k \in Jobs(t)' : w = k.own
        BY <2>9, OwnsAre
      <3>2. k \notin Jobs(t)
        BY <2>5, <2>7, <2>9, <3>1
      <3>3. S = {job.own} /\ k = job
        BY <2>4, <3>1, <3>2
      <3>4. S # {Own(r, "deployed")}
        BY <2>3, <3>3 DEF Own
      <3> QED BY <2>3, <2>7, <2>9, <3>1, <3>3, <3>4
    <2>10. \A j, k \in Jobs(t)' : j.own.rev = k.own.rev => j = k
      BY <2>3, <2>4, <2>5 DEF Follows
    <2> QED BY <2>1, <2>8, <2>9, <2>10 DEF Follows
  <1> QED BY <1>1, <1>2, <1>3, <1>4, StepOnTeam

LEMMA LateFollows ==
  ASSUME Ground, NEW j \in late, Late(j), NEW t \in Teams, RevisionsApart(t), Follows(t)
  PROVE  Follows(t)'
  <1>1. /\ Jobs(t)' \subseteq Jobs(t) /\ \A w : w \in Owns(t)' => w \in Owns(t)
        /\ \A o \in Reqs : Deploys(o, t)' <=> Deploys(o, t)
        /\ UNCHANGED <<loc, target>> /\ [Next]_vars
    BY LateIsAbout, OwnsAre DEF Next
  <1>2. CASE hist'[t] = hist[t]
    <2>1. Latest(t)' = Latest(t)
      BY <1>2 DEF Latest, Newest
    <2>2. \A o, s : Own(o, s)' = Own(o, s)
      BY <1>1 DEF Own
    <2> QED BY <1>1, <1>2, <2>1, <2>2 DEF Follows
  <1>3. ASSUME NEW S, j \in Jobs(t), LateRewrites(j, S), hist'[t] = Updated(hist[t], S)
        PROVE  Follows(t)'
    <2>3. /\ As(j.own, "deployed").rev = j.own.rev
          /\ As(j.own, "deployed").status = "deployed"
      BY <1>3, IInvParts DEF Ground, TypesOK, BoundTypeOK, Job, Jobs, As, Revision
    <2>4. /\ \A w \in S : Settled(t, w.rev)
          /\ \A x \in Latest(t)' : x \in Latest(t) \/ x = As(j.own, "deployed")
      BY <1>1, <1>3, LateLatest
    <2>6. ASSUME NEW w, w \in Owns(t)' PROVE w.rev # j.own.rev
      <3>1. PICK k \in Jobs(t)' : w = k.own
        BY <2>6, OwnsAre
      <3>2. k \in Jobs(t) /\ k # j
        BY <1>1, <3>1 DEF Jobs, Late
      <3> QED BY <1>3, <3>1, <3>2 DEF Follows
    <2>7. ASSUME NEW w, w \in Owns(t)', NEW x \in Latest(t)', x.rev = w.rev PROVE x = w
      BY <1>1, <2>3, <2>4, <2>6, <2>7 DEF Follows
    <2>8. \A x \in Latest(t)' : x.status \in Pending \union {"deployed", "failed"}
      BY <2>3, <2>4 DEF Follows
    <2>9. ASSUME NEW o \in Reqs, Deploys(o, t)'
          PROVE  \E s \in Pending : Own(o, s)' \in hist'[t]
      <3>1. PICK s \in Pending : Own(o, s) \in hist[t]
        BY <1>1, <2>9 DEF Follows
      <3>2. Own(o, s)' \in hist'[t]
        BY <1>1, <1>3, <2>4, <2>9, <3>1, OwnStays
      <3> QED BY <3>2
    <2>10. \A k, m \in Jobs(t)' : k.own.rev = m.own.rev => k = m
      BY <1>1 DEF Follows
    <2> QED BY <2>7, <2>8, <2>9, <2>10 DEF Follows
  <1> QED BY <1>2, <1>3, LateIsAbout

\* Nothing changes for a runner whose history, requests and jobs stay.
LEMMA FollowStays ==
  ASSUME NEW t \in Teams, Follows(t), hist'[t] = hist[t], Jobs(t)' \subseteq Jobs(t),
         target' = target \/ \A o \in Reqs : ~Deploys(o, t)',
         \A o \in Reqs : Deploys(o, t)' => Deploys(o, t) /\ loc'[o] = loc[o]
  PROVE  Follows(t)'
  <1>1. Latest(t)' = Latest(t) /\ \A w : w \in Owns(t)' => w \in Owns(t)
    BY OwnsAre DEF Latest, Newest
  <1>2. \A o \in Reqs : \A s : Deploys(o, t)' => Own(o, s)' = Own(o, s)
    BY DEF Own
  <1> QED BY <1>1, <1>2 DEF Follows

-----------------------------------------------------------------------------
(* What a request is about to deploy. *)

\* The clauses of DeployInv about a request.
DeployPlace(r) ==
    Busy(r) =>
        /\ arg[r].kind = "create" => arg[r].url
        /\ pc[r] = "list" => outcome[r] = NoOutcome
        /\ arg[r].kind = "upgrade" /\ pc[r] \notin {"list", "nextRelease"}
              => outcome[r][cur[r]] = "todo"
        /\ pc[r] \in {"upgradeWait", "upgradeRecord"} => loc[r].base # {}
        /\ pc[r] \in {"installRun", "upgradeRun"} \union Waiting => MayDeploy(r)

\* And about an install that was left behind.
LatePlace(j) ==
    j.base = {} =>
        /\ arg[j.by].kind = "create" /\ resp[j.by] = 500 /\ j.by \in gone
        /\ arg[j.by].team = j.team
        /\ j.own.cfg \in Runners!Of(j.by, j.team)

ConfigsOK(t) == \A v \in Known(t) : v.cfg \in Runners!Configs(t)

LEMMA DeployInvIs ==
  DeployInv <=>
      /\ \A t \in Teams : ConfigsOK(t) /\ (Undeleted(t) => Follows(t))
      /\ \A j \in late : LatePlace(j)
      /\ \A r \in Reqs : DeployPlace(r)
  <1>1. \A t \in Teams :
          (\A j, k \in Jobs(t) : j.own.rev = k.own.rev => j = k)
          <=> \A j, k \in late : j.team = t /\ k.team = t /\ j.own.rev = k.own.rev => j = k
    BY DEF Jobs
  <1> QED BY <1>1 DEF DeployInv, DeployPlace, LatePlace, ConfigsOK, Known, Follows

\* Who works on a team has a request of that team.
LEMMA WorksForTeam ==
  ASSUME Ground, NEW r \in Reqs, Busy(r), arg[r].kind \in {"create", "update"}
  PROVE  Runners!Configures(r, cur[r]) /\ cur[r] = arg[r].team
  <1>1. Stage(r) \in {"working", "done"}
    BY StageMoves, IInvParts DEF Ground
  <1>2. cur[r] = arg[r].team
    BY DEF Ground, OnItsTeam
  <1> QED BY <1>1, <1>2 DEF Runners!Configures

\* What a request may deploy now it may deploy after the next step.
LEMMA MayDeployThen ==
  ASSUME Ground, [Next]_vars, NEW r \in Reqs, Busy(r), NEW t, t = cur[r], t = cur'[r],
         arg'[r] = arg[r],
         \/ arg[r].kind = "upgrade" /\ loc'[r].cfg \in Runners!Configs(t)
         \/ /\ arg[r].kind \in {"create", "update"}
            /\ \/ loc'[r].cfg \in Runners!Of(r, t)
               \/ pc'[r] = "upgradeRun" /\ loc'[r].cfg.url = None
  PROVE  MayDeploy(r)'
  <1>1. CASE arg[r].kind = "upgrade"
    <2>1. loc'[r].cfg \in Runners!Configs(t)'
      BY <1>1, ConfigsGrow
    <2>2. loc'[r].cfg \in Runners!Mine(r, t)'
      BY <1>1, <2>1 DEF Runners!Mine
    <2> QED BY <2>2 DEF MayDeploy
  <1>2. CASE arg[r].kind \in {"create", "update"}
    <2>1. Runners!Configures(r, t)
      BY <1>2, WorksForTeam
    <2>2. Runners!Of(r, t) \subseteq Runners!Of(r, t)'
      BY <2>1, ConfigsGrow
    <2>3. \/ loc'[r].cfg \in Runners!Of(r, t)'
          \/ pc'[r] = "upgradeRun" /\ loc'[r].cfg.url = None
      BY <1>2, <2>2
    <2>4. \/ loc'[r].cfg \in Runners!Mine(r, t)'
          \/ pc'[r] = "upgradeRun" /\ loc'[r].cfg.url = None
      BY <1>2, <2>3 DEF Runners!Mine
    <2> QED BY <1>2, <2>4 DEF MayDeploy
  <1> QED BY <1>1, <1>2

\* Before a revision is recorded its values are those that may be deployed.
LEMMA MayDeployIs ==
  ASSUME Ground, NEW r \in Reqs, DeployPlace(r), Busy(r),
         pc[r] \in {"installRun", "upgradeRun"} \union Waiting,
         pc[r] = "upgradeRun" => loc[r].cfg.url # None
  PROVE  /\ cur[r] \in Teams /\ loc[r].cfg \in Runners!Mine(r, cur[r])
         /\ loc[r].cfg \in Runners!Configs(cur[r])
         /\ arg[r].kind # "upgrade" =>
               arg[r].kind \in {"create", "update"} /\ loc[r].cfg \in Runners!Of(r, cur[r])
  <1>2. MayDeploy(r)
    BY DEF DeployPlace
  <1>3. arg[r].kind \in {"create", "update", "upgrade"} /\ cur[r] \in Teams
    BY AtCall, IInvParts DEF Ground, TypesOK, Calls, KindsAt, Waiting
  <1>4. PICK t : t = cur[r]
    OBVIOUS
  <1>5. loc[r].cfg \in Runners!Mine(r, t)
    BY <1>2, <1>4 DEF MayDeploy
  <1>6. CASE arg[r].kind # "upgrade"
    <2>1. loc[r].cfg \in Runners!Of(r, t)
      BY <1>5, <1>6 DEF Runners!Mine
    <2>2. Runners!Configures(r, t)
      BY <1>3, <1>4, <1>6, WorksForTeam
    <2>3. loc[r].cfg \in Runners!Configs(t)
      BY <2>1, <2>2, OfIsConfig
    <2> QED BY <1>3, <1>4, <1>5, <1>6, <2>1, <2>3
  <1>7. CASE arg[r].kind = "upgrade"
    BY <1>3, <1>4, <1>5, <1>7 DEF Runners!Mine
  <1> QED BY <1>6, <1>7

LEMMA PlaceStays ==
  ASSUME Ground, NEW o \in Reqs, DeployPlace(o), [Next]_vars,
         pc'[o] = pc[o], cur'[o] = cur[o], loc'[o] = loc[o],
         outcome'[o] = outcome[o], arg'[o] = arg[o]
  PROVE  DeployPlace(o)'
  <1>2. SUFFICES ASSUME Busy(o)' PROVE DeployPlace(o)'
    BY DEF DeployPlace
  <1>3. Busy(o)
    BY <1>2 DEF Busy
  <1>4. pc[o] \in {"installRun", "upgradeRun"} \union Waiting => MayDeploy(o)'
    <2>1. SUFFICES ASSUME pc[o] \in {"installRun", "upgradeRun"} \union Waiting
                   PROVE  MayDeploy(o)'
      OBVIOUS
    <2>2. PICK t : t = cur[o]
      OBVIOUS
    <2>3. arg[o].kind \in {"create", "update", "upgrade"}
      BY <2>1, AtCall, IInvParts DEF Ground, TypesOK, Calls, KindsAt, Waiting
    <2>4. MayDeploy(o)
      BY <1>3, <2>1 DEF DeployPlace
    <2>5. \/ arg[o].kind = "upgrade" /\ loc[o].cfg \in Runners!Configs(t)
          \/ /\ arg[o].kind \in {"create", "update"}
             /\ \/ loc[o].cfg \in Runners!Of(o, t)
                \/ pc[o] = "upgradeRun" /\ loc[o].cfg.url = None
      BY <2>2, <2>3, <2>4 DEF MayDeploy, Runners!Mine
    <2> QED BY <1>3, <2>2, <2>5, MayDeployThen
  <1> QED BY <1>3, <1>4 DEF DeployPlace

\* Where a request has nothing to deploy it has little to hold.
LEMMA RestPlaces ==
  ASSUME NEW r \in Reqs, arg[r].kind = "create" => arg[r].url, UNCHANGED arg,
         pc'[r] \notin {"list", "installRun", "upgradeRun"} \union Waiting,
         arg[r].kind = "upgrade" => pc'[r] \in {"nextRelease", "answered"}
  PROVE  DeployPlace(r)'
  BY DEF DeployPlace, Busy, Calls, Waiting

LEMMA OwnStepKeepsPlace ==
  ASSUME Ground, \A t \in Teams : ConfigsOK(t), NEW r \in Reqs, DeployPlace(r), Step(r)
  PROVE  DeployPlace(r)'
  <1>0. TypesOK
    BY IInvParts DEF Ground
  <1>1. /\ hist \in [Teams -> SUBSET Revision]
        /\ pc \in [Reqs -> Calls \union {"idle", "answered", "dead"}]
        /\ loc \in [Reqs -> Local] /\ cur \in [Reqs -> Teams \union {None}]
        /\ outcome \in [Reqs -> [Teams -> Outcomes]]
    BY <1>0 DEF TypesOK, ClusterTypeOK, RequestOK, RequestTypeOK
  <1>2. /\ Busy(r) /\ arg' = arg
        /\ arg[r].kind \in KindsAt(pc[r])
        /\ pc[r] \notin {"list", "nextRelease"} => cur[r] \in Teams
    BY <1>0, StepLeavesOthers, AtCall DEF TypesOK, Busy
  <1>3. DeployPlace(r) /\ (arg[r].kind = "create" => arg[r].url)
    BY <1>2 DEF DeployPlace
  <1>4. ASSUME NEW call, pc'[r] = call,
               call \notin {"list", "installRun", "upgradeRun"} \union Waiting,
               arg[r].kind = "upgrade" => call \in {"nextRelease", "answered"}
        PROVE  DeployPlace(r)'
    BY <1>2, <1>3, <1>4, RestPlaces
  <1>5. ASSUME NEW call \in {"installRun", "upgradeRun"} \union Waiting, NEW x,
               Goto(r, call, x), arg[r].kind \in {"create", "update", "upgrade"},
               \/ arg[r].kind = "upgrade" /\ x.cfg \in Runners!Configs(cur[r])
               \/ /\ arg[r].kind # "upgrade"
                  /\ \/ x.cfg \in Runners!Of(r, cur[r])
                     \/ call = "upgradeRun" /\ x.cfg.url = None,
               arg[r].kind = "upgrade" => outcome[r][cur[r]] = "todo",
               call \in {"upgradeWait", "upgradeRecord"} => x.base # {}
        PROVE  DeployPlace(r)'
    <2>1. PICK t : t = cur[r]
      OBVIOUS
    <2>2. pc'[r] = call /\ loc'[r] = x /\ cur' = cur /\ outcome' = outcome
      BY <1>1, <1>5 DEF Goto
    <2>3. [Next]_vars
      BY DEF Next
    <2>4. \/ arg[r].kind = "upgrade" /\ x.cfg \in Runners!Configs(t)
          \/ /\ arg[r].kind \in {"create", "update"}
             /\ \/ x.cfg \in Runners!Of(r, t)
                \/ call = "upgradeRun" /\ x.cfg.url = None
      BY <1>5, <2>1
    <2>5. MayDeploy(r)'
      BY <1>2, <2>1, <2>2, <2>3, <2>4, MayDeployThen
    <2>6. arg[r].kind = "upgrade" => outcome'[r][cur'[r]] = "todo"
      BY <1>5, <2>2
    <2>7. call # "list"
      BY DEF Waiting
    <2> QED BY <1>2, <1>3, <1>5, <2>2, <2>5, <2>6, <2>7 DEF DeployPlace
  <1>6. ASSUME NEW code, Answer(r, code) PROVE DeployPlace(r)'
    BY <1>1, <1>4, <1>6 DEF Answer, Waiting
  <1>7. ASSUME NEW res, HelmReturns(r, res) PROVE DeployPlace(r)'
    <2>1. /\ pc'[r] \in {"nextRelease", "nsDelete", "reply", "answered"}
          /\ arg[r].kind = "upgrade" => pc'[r] = "nextRelease"
      BY <1>1, <1>7 DEF HelmReturns, Goto, Answer
    <2> QED BY <1>4, <2>1 DEF Waiting
  <1>8. CASE NsGet(r) \/ NsCreate(r) \/ SecretGet(r)
    <2>1. \/ \E code : Answer(r, code)
          \/ pc'[r] \in {"nsCreate", "secretGet", "secretUpdate", "secretCreate"}
      BY <1>1, <1>8 DEF NsGet, NsCreate, SecretGet, Goto
    <2>2. arg[r].kind # "upgrade"
      BY <1>2, <1>8 DEF NsGet, NsCreate, SecretGet, KindsAt
    <2> QED BY <1>4, <1>6, <2>1, <2>2 DEF Waiting
  <1>9. CASE SecretCreate(r) \/ SecretUpdate(r)
    <2>1. \/ \E code : Answer(r, code)
          \/ pc'[r] \in {"installGet", "upgradeGet"}
      BY <1>1, <1>9 DEF SecretCreate, SecretUpdate, WriteSecret, Goto, AfterSecret
    <2>2. arg[r].kind # "upgrade"
      BY <1>2, <1>9 DEF SecretCreate, SecretUpdate, KindsAt
    <2> QED BY <1>4, <1>6, <2>1, <2>2 DEF Waiting
  <1>10. CASE ChartUnavailable(r)
    BY <1>7, <1>10 DEF ChartUnavailable
  <1>11. CASE InstallGet(r)
    <2>1. arg[r].kind = "create"
      BY <1>2, <1>11 DEF InstallGet, KindsAt
    <2>2. BuiltValues(r) \in Runners!Of(r, cur[r])
      <3>1. PICK t : t = cur[r]
        OBVIOUS
      <3> QED BY <1>3, <2>1, <3>1, BuiltIsOwn
    <2>3. Built(BuiltValues(r)).cfg = BuiltValues(r)
      BY DEF Built, NoLocal
    <2>4. Goto(r, "installRun", Built(BuiltValues(r))) => DeployPlace(r)'
      BY <1>5, <2>1, <2>2, <2>3
    <2>5. Goto(r, "upgradeGet", NoLocal) => DeployPlace(r)'
      BY <1>1, <1>4, <2>1 DEF Goto, Waiting
    <2> QED BY <1>7, <1>11, <2>4, <2>5 DEF InstallGet
  <1>12. CASE InstallRun(r)
    <2>1. pc[r] = "installRun" /\ arg[r].kind = "create"
      BY <1>2, <1>12 DEF InstallRun, KindsAt
    <2>2. loc[r].cfg \in Runners!Of(r, cur[r])
      BY <1>2, <2>1, MayDeployIs
    <2>3. Deploying(r, 1, {}).cfg = loc[r].cfg
      BY <1>1 DEF Deploying, Local
    <2>4. Goto(r, "installWait", Deploying(r, 1, {})) => DeployPlace(r)'
      BY <1>5, <2>1, <2>2, <2>3 DEF Waiting
    <2> QED BY <1>7, <1>12, <2>4 DEF InstallRun
  <1>13. CASE InstallWait(r) \/ UpgradeRecord(r) \/ RunFails(r) \/ Abandoned(r)
    BY <1>7, <1>13 DEF InstallWait, UpgradeRecord, RunFails, Abandoned
  <1>14. CASE UpgradeWait(r)
    <2>1. pc[r] = "upgradeWait" /\ Goto(r, "upgradeRecord", loc[r])
      BY <1>14 DEF UpgradeWait
    <2>2. /\ arg[r].kind = "upgrade" => loc[r].cfg \in Runners!Configs(cur[r])
          /\ arg[r].kind # "upgrade" => /\ arg[r].kind \in {"create", "update"}
                                        /\ loc[r].cfg \in Runners!Of(r, cur[r])
      BY <1>2, <2>1, MayDeployIs DEF Waiting
    <2>3. loc[r].base # {} /\ (arg[r].kind = "upgrade" => outcome[r][cur[r]] = "todo")
      BY <1>2, <1>3, <2>1 DEF DeployPlace
    <2> QED BY <1>5, <2>1, <2>2, <2>3 DEF Waiting
  <1>15. CASE UpgradeGet(r)
    <2>1. arg[r].kind \in {"create", "update"} /\ cur[r] \in Teams
      BY <1>2, <1>15 DEF UpgradeGet, KindsAt
    <2>2. PICK old :
            /\ Goto(r, "upgradeRun", Built(Merged(r, old)))
            /\ old = NoConfig \/ \E v \in hist[cur[r]] : old = v.cfg
      BY <1>15 DEF UpgradeGet, Latest, Newest
    <2>3. Merged(r, old) \in Runners!Of(r, cur[r]) \/ Merged(r, old).url = None
      <3>1. PICK t : t = cur[r]
        OBVIOUS
      <3>2. old = NoConfig \/ old \in Runners!Configs(t)
        BY <2>1, <2>2, <3>1 DEF ConfigsOK, Known
      <3> QED BY <3>1, <3>2, MergedIsOwn
    <2>4. Built(Merged(r, old)).cfg = Merged(r, old)
      BY DEF Built, NoLocal
    <2> QED BY <1>5, <2>1, <2>2, <2>3, <2>4
  <1>16. CASE ChartGet(r)
    <2>1. arg[r].kind = "upgrade" /\ cur[r] \in Teams /\ outcome[r][cur[r]] = "todo"
      BY <1>2, <1>3, <1>16 DEF ChartGet, KindsAt, DeployPlace
    <2>2. ASSUME NEW v \in Latest(cur[r]), Goto(r, "upgradeRun", Built(v.cfg))
          PROVE  DeployPlace(r)'
      <3>1. v.cfg \in Runners!Configs(cur[r])
        <4>1. PICK t \in Teams : t = cur[r]
          BY <2>1
        <4>2. v \in Known(t)
          BY <2>2, <4>1 DEF Latest, Newest, Known
        <4> QED BY <4>1, <4>2 DEF ConfigsOK
      <3>2. Built(v.cfg).cfg = v.cfg
        BY DEF Built, NoLocal
      <3> QED BY <1>5, <2>1, <2>2, <3>1, <3>2
    <2> QED BY <1>7, <1>16, <2>2 DEF ChartGet
  <1>17. CASE UpgradeRun(r)
    <2>1. CASE \E res : HelmReturns(r, res)
      BY <1>7, <2>1
    <2>2. ASSUME NEW v \in Latest(cur[r]), Deployable(r), Base(cur[r], v) # {},
                 Goto(r, "upgradeWait", Deploying(r, v.rev + 1, Base(cur[r], v)))
          PROVE  DeployPlace(r)'
      <3>1. pc[r] = "upgradeRun" /\ loc[r].cfg.url # None
        BY <1>17, <2>2 DEF UpgradeRun, Deployable
      <3>2. /\ arg[r].kind = "upgrade" => loc[r].cfg \in Runners!Configs(cur[r])
            /\ arg[r].kind # "upgrade" => /\ arg[r].kind \in {"create", "update"}
                                          /\ loc[r].cfg \in Runners!Of(r, cur[r])
        BY <1>2, <3>1, MayDeployIs
      <3>3. PICK base : base = Base(cur[r], v)
        OBVIOUS
      <3>4. /\ Deploying(r, v.rev + 1, base).cfg = loc[r].cfg
            /\ Deploying(r, v.rev + 1, base).base = base
        BY <1>1 DEF Deploying, Local
      <3>5. arg[r].kind = "upgrade" => outcome[r][cur[r]] = "todo"
        BY <1>2, <1>3, <3>1 DEF DeployPlace
      <3> QED BY <1>5, <2>2, <3>2, <3>3, <3>4, <3>5 DEF Waiting
    <2> QED BY <1>17, <2>1, <2>2 DEF UpgradeRun
  <1>18. CASE List(r)
    <2>1. pc'[r] = "nextRelease" \/ \E code : Answer(r, code)
      BY <1>1, <1>18 DEF List
    <2> QED BY <1>4, <1>6, <2>1 DEF Waiting
  <1>19. CASE NextRelease(r)
    <2>1. ASSUME NEW t \in Todo(r), cur' = [cur EXCEPT ![r] = t],
                 pc' = [pc EXCEPT ![r] = "chartGet"], outcome' = outcome
          PROVE  DeployPlace(r)'
      <3>1. pc'[r] = "chartGet" /\ outcome'[r][cur'[r]] = "todo"
        BY <1>1, <2>1 DEF Todo
      <3> QED BY <1>2, <1>3, <3>1 DEF DeployPlace, Waiting
    <2> QED BY <1>6, <1>19, <2>1 DEF NextRelease
  <1>20. CASE UninstallRun(r) \/ UninstallWait(r) \/ NsDelete(r) \/ Reply(r)
    <2>1. \/ \E x : Goto(r, "uninstallWait", x)
          \/ \E x : Goto(r, "reply", x)
          \/ \E res : HelmReturns(r, res)
          \/ \E code : Answer(r, code)
      BY <1>20 DEF UninstallRun, UninstallWait, NsDelete, Reply
    <2>2. arg[r].kind # "upgrade"
      BY <1>2, <1>20 DEF UninstallRun, UninstallWait, NsDelete, Reply, KindsAt
    <2> QED BY <1>1, <1>4, <1>6, <1>7, <2>1, <2>2 DEF Goto, Waiting
  <1> QED
    BY <1>8, <1>9, <1>10, <1>11, <1>12, <1>13, <1>14, <1>15, <1>16, <1>17, <1>18, <1>19,
       <1>20
    DEF Step

LEMMA DeployInit == Init => DeployInv
  <1> SUFFICES ASSUME Init PROVE DeployInv
    OBVIOUS
  <1>1. PICK P \in SUBSET Provisioned :
          hist = [u \in Teams |->
              IF u \in P
              THEN {[rev |-> 1, status |-> "deployed", chart |-> Installed,
                     cfg |-> [url |-> Prior, rest |-> Prior]]}
              ELSE {}]
    BY DEF Init
  <1>2. late = {} /\ \A r \in Reqs : pc[r] = "idle"
    BY DEF Init
  <1>3. ASSUME NEW t \in Teams
        PROVE  /\ Jobs(t) = {} /\ Bases(t) = {} /\ Owns(t) = {}
               /\ \A r \in Reqs : ~Deploys(r, t)
    <2>1. Jobs(t) = {} /\ \A r \in Reqs : ~Deploys(r, t)
      BY <1>2 DEF Jobs, Deploys, Waiting
    <2> QED BY <2>1, BasesAre, OwnsAre
  <1>4. ASSUME NEW t \in Teams, NEW v \in hist[t]
        PROVE  v.status = "deployed" /\ v.cfg \in Runners!Configs(t)
    <2>1. v.status = "deployed" /\ v.cfg = [url |-> Prior, rest |-> Prior]
      BY <1>1, <1>4
    <2> QED BY <2>1 DEF Runners!Configs
  <1>5. \A t \in Teams : ConfigsOK(t) /\ Follows(t)
    BY <1>3, <1>4 DEF ConfigsOK, Known, Follows, Latest, Newest
  <1>6. \A r \in Reqs : ~Busy(r)
    BY <1>2 DEF Busy, Calls
  <1> QED BY <1>2, <1>5, <1>6, DeployInvIs DEF DeployPlace

\* The teams' histories after a step.
LEMMA StepConfigs ==
  ASSUME Ground, DeployInv, NEW r \in Reqs, Step(r), NEW t \in Teams
  PROVE  \A v \in Known(t)' : v.cfg \in Runners!Configs(t)
  <1> SUFFICES ASSUME NEW v \in Known(t)' PROVE v.cfg \in Runners!Configs(t)
    OBVIOUS
  <1>1. CASE \E w \in Known(t) : v.cfg = w.cfg
    BY <1>1, DeployInvIs DEF ConfigsOK
  <1>2. CASE Supplies(r, t) /\ v.cfg = loc[r].cfg
    <2>1. DeployPlace(r) /\ Busy(r)
      BY DeployInvIs, StepLeavesOthers
    <2>2. loc[r].cfg \in Runners!Configs(cur[r])
      BY <1>2, <2>1, MayDeployIs DEF Supplies
    <2> QED BY <1>2, <2>2 DEF Supplies
  <1> QED BY <1>1, <1>2, StepSupplies

LEMMA LateConfigs ==
  ASSUME Ground, DeployInv, NEW j \in late, Late(j), NEW t \in Teams
  PROVE  \A v \in Known(t)' : v.cfg \in Runners!Configs(t)
  BY LateSupplies, DeployInvIs DEF ConfigsOK

LEMMA ConfigsOKThen ==
  ASSUME Ground, [Next]_vars, NEW t \in Teams,
         \A v \in Known(t)' : v.cfg \in Runners!Configs(t)
  PROVE  ConfigsOK(t)'
  BY ConfigsGrow DEF ConfigsOK

LEMMA RestConfigsOK ==
  ASSUME Ground, DeployInv, [Next]_vars, NEW t \in Teams,
         hist'[t] \subseteq hist[t], Jobs(t)' \subseteq Jobs(t),
         \A o \in Reqs : Deploys(o, t)' => Deploys(o, t) /\ loc'[o] = loc[o]
  PROVE  ConfigsOK(t)'
  <1>1. Known(t)' \subseteq Known(t)
    BY BasesAre, OwnsAre DEF Known
  <1>2. \A v \in Known(t) : v.cfg \in Runners!Configs(t)
    BY DeployInvIs DEF ConfigsOK
  <1> QED BY <1>1, <1>2, ConfigsGrow DEF ConfigsOK

\* A failure that was answered stays answered.
LEMMA AnsweredStays ==
  ASSUME Ground, [Next]_vars, NEW o \in Reqs, resp[o] = 500
  PROVE  resp'[o] = 500
  <1>1. pc[o] = "answered" /\ DOMAIN resp = Reqs
    BY IInvParts DEF Ground, Safe, Placed, InPlace, TypesOK, RequestOK, RequestTypeOK
  <1>2. ASSUME NEW r \in Reqs, Step(r) PROVE resp'[o] = 500
    <2>1. o # r
      BY <1>1, <1>2, StepLeavesOthers DEF Busy, Calls
    <2> QED BY <1>2, <2>1, StepLeavesOthers
  <1>3. ASSUME NEW r \in Reqs, Receive(r) PROVE resp'[o] = 500
    <2>1. o # r /\ (resp' = resp \/ resp' = [resp EXCEPT ![r] = 422])
      BY <1>1, <1>3 DEF Receive
    <2> QED BY <1>1, <2>1
  <1>4. CASE resp' = resp
    BY <1>4
  <1> QED BY <1>2, <1>3, <1>4 DEF Next, Cancel, Late, Crash, Namespaces, vars, request

LEMMA LatePlaceStays ==
  ASSUME Ground, [Next]_vars, NEW j \in late, LatePlace(j), gone \subseteq gone'
  PROVE  LatePlace(j)'
  <1> SUFFICES ASSUME j.base = {} PROVE LatePlace(j)'
    BY DEF LatePlace
  <1>1. PICK o \in Reqs : o = j.by
    BY IInvParts DEF Ground, TypesOK, BoundTypeOK, Job
  <1>2. PICK t : t = j.team
    OBVIOUS
  <1>3. /\ arg[o].kind = "create" /\ resp[o] = 500 /\ o \in gone /\ arg[o].team = t
        /\ j.own.cfg \in Runners!Of(o, t)
    BY <1>1, <1>2 DEF LatePlace
  <1>4. Runners!Configures(o, t)
    BY <1>3, StageMoves, IInvParts DEF Ground, Runners!Configures
  <1>5. arg'[o] = arg[o] /\ resp'[o] = 500
    BY <1>3, <1>4, ConfiguresStays, AnsweredStays
  <1>6. j.own.cfg \in Runners!Of(o, t)'
    BY <1>3, <1>4, ConfigsGrow
  <1> QED BY <1>1, <1>2, <1>3, <1>5, <1>6 DEF LatePlace

\* What an install that loses its context leaves behind.
LEMMA LeftPlace ==
  ASSUME Ground, NEW r \in Reqs, Step(r), DeployPlace(r),
         pc[r] \in {"installWait", "upgradeWait"}, r \in gone, HelmReturns(r, "error"),
         NEW job, job = Left(r)
  PROVE  LatePlace(job)'
  <1>2. /\ job.by = r /\ job.team = cur[r] /\ job.base = loc[r].base
        /\ job.own.cfg = loc[r].cfg
    BY DEF Left, Own
  <1> SUFFICES ASSUME job.base = {} PROVE LatePlace(job)'
    BY DEF LatePlace
  <1>3. Busy(r) /\ arg[r].kind \in KindsAt(pc[r]) /\ [Next]_vars
        /\ UNCHANGED <<arg, gone>>
    BY StepLeavesOthers DEF Next
  <1>4. pc[r] = "installWait"
    BY <1>2, <1>3 DEF DeployPlace
  <1>5. arg[r].kind = "create"
    BY <1>3, <1>4 DEF KindsAt
  <1>6. DOMAIN resp = Reqs
    BY IInvParts DEF Ground, TypesOK, RequestOK, RequestTypeOK
  <1>7. resp'[r] = 500
    BY <1>5, <1>6 DEF HelmReturns, Answer, Code
  <1>8. PICK t : t = cur[r]
    OBVIOUS
  <1>9. Runners!Configures(r, t) /\ arg[r].team = t
    BY <1>3, <1>5, <1>8, WorksForTeam
  <1>10. loc[r].cfg \in Runners!Of(r, t)
    BY <1>3, <1>4, <1>5, <1>8, MayDeployIs DEF Waiting
  <1>11. loc[r].cfg \in Runners!Of(r, t)'
    BY <1>3, <1>9, <1>10, ConfigsGrow
  <1> QED BY <1>2, <1>3, <1>5, <1>7, <1>8, <1>9, <1>11 DEF LatePlace

LEMMA ReceiveKeepsPlaces ==
  ASSUME Ground, ReportInv, DeployInv, NEW r \in Reqs, Receive(r), NEW o \in Reqs
  PROVE  DeployPlace(o)'
  <1>1. /\ pc \in [Reqs -> Calls \union {"idle", "answered", "dead"}]
        /\ arg \in [Reqs -> Request \union {NoRequest}]
        /\ cur \in [Reqs -> Teams \union {None}]
    BY IInvParts DEF Ground, TypesOK, RequestOK, RequestTypeOK
  <1>2. PICK q \in Offered :
          /\ arg' = [arg EXCEPT ![r] = q]
          /\ cur' = [cur EXCEPT ![r] = q.team]
          /\ \/ pc' = [pc EXCEPT ![r] = "answered"]
             \/ /\ q.kind = "create" => ValidCreate(q)
                /\ pc' = [pc EXCEPT ![r] = EntryCall(q)]
    BY ReceiveIs
  <1>3. loc' = loc /\ outcome' = outcome /\ pc[r] = "idle"
    BY DEF Receive
  <1>4. CASE o # r
    <2>1. [Next]_vars /\ DeployPlace(o)
      BY DeployInvIs DEF Next
    <2> QED BY <1>1, <1>2, <1>3, <1>4, <2>1, PlaceStays
  <1>5. CASE o = r
    <2>1. outcome'[r] = NoOutcome
      BY <1>3 DEF ReportInv
    <2>2. CASE pc' = [pc EXCEPT ![r] = "answered"]
      BY <1>1, <1>5, <2>2 DEF DeployPlace, Busy, Calls
    <2>3. CASE /\ q.kind = "create" => ValidCreate(q)
               /\ pc' = [pc EXCEPT ![r] = EntryCall(q)]
      <3>1. arg'[r] = q /\ pc'[r] = EntryCall(q) /\ q.kind \in Kinds
        BY <1>1, <1>2, <2>3, ApiAssumption DEF Request
      <3>2. /\ pc'[r] \in {"nsGet", "secretGet", "upgradeGet", "uninstallRun", "list"}
            /\ q.kind = "upgrade" => pc'[r] = "list"
        BY <3>1 DEF EntryCall, Kinds
      <3>3. q.kind = "create" => q.url
        BY <2>3 DEF ValidCreate
      <3> QED BY <1>5, <2>1, <3>1, <3>2, <3>3 DEF DeployPlace, Waiting
    <2> QED BY <1>2, <2>2, <2>3
  <1> QED BY <1>4, <1>5

LEMMA NextDeployInv == Ground /\ ReportInv /\ DeployInv /\ [Next]_vars => DeployInv'
  <1> SUFFICES ASSUME Ground, ReportInv, DeployInv, [Next]_vars PROVE DeployInv'
    OBVIOUS
  <1>0. TypesOK
    BY IInvParts DEF Ground
  <1>1. /\ \A t \in Teams : ConfigsOK(t) /\ (Undeleted(t) => RevisionsApart(t) /\ Follows(t))
        /\ \A j \in late : LatePlace(j)
        /\ \A r \in Reqs : DeployPlace(r)
    BY DeployInvIs DEF ReportInv
  <1>2. ASSUME \A t \in Teams : ConfigsOK(t)' /\ (Undeleted(t)' => Follows(t)'),
               \A j \in late' : LatePlace(j)',
               \A r \in Reqs : DeployPlace(r)'
        PROVE  DeployInv'
    <2>1. \A t \in Teams :
            (\A j, k \in Jobs(t)' : j.own.rev = k.own.rev => j = k)
            <=> \A j, k \in late' : j.team = t /\ k.team = t /\ j.own.rev = k.own.rev => j = k
      BY DEF Jobs
    <2> QED BY <1>2, <2>1 DEF DeployInv, DeployPlace, LatePlace, ConfigsOK, Known, Follows
  <1>3. ASSUME NEW r \in Reqs, Step(r) PROVE DeployInv'
    <2>1. ASSUME NEW o \in Reqs PROVE DeployPlace(o)'
      <3>1. CASE o = r
        BY <1>1, <1>3, <3>1, OwnStepKeepsPlace
      <3>2. CASE o # r
        BY <1>1, <1>3, <3>2, StepLeavesOthers, PlaceStays
      <3> QED BY <3>1, <3>2
    <2>2. UNCHANGED <<arg, gone>>
      BY <1>3, StepLeavesOthers
    <2>3. ASSUME NEW j \in late' PROVE LatePlace(j)'
      <3>1. CASE j \in late
        BY <1>1, <2>2, <3>1, LatePlaceStays
      <3>2. CASE /\ pc[r] \in {"installWait", "upgradeWait"} /\ r \in gone
                 /\ HelmReturns(r, "error") /\ j = Left(r)
        BY <1>1, <1>3, <3>2, LeftPlace
      <3> QED BY <1>3, <2>3, <3>1, <3>2, StepJobs
    <2>4. ASSUME NEW t \in Teams PROVE ConfigsOK(t)' /\ (Undeleted(t)' => Follows(t)')
      <3>1. Undeleted(t)' => Undeleted(t)
        BY <2>2 DEF Undeleted
      <3>2. [Next]_vars
        BY <1>3 DEF Next
      <3> QED BY <1>1, <1>3, <3>1, <3>2, StepConfigs, ConfigsOKThen, StepFollows
    <2> QED BY <1>2, <2>1, <2>3, <2>4
  <1>4. ASSUME NEW j \in late, Late(j) PROVE DeployInv'
    <2>1. UNCHANGED <<arg, cur, loc, resp, outcome, pc, target, gone>> /\ late' \subseteq late
      BY <1>4 DEF Late, request
    <2>2. \A o \in Reqs : DeployPlace(o)'
      BY <1>1, <2>1, PlaceStays
    <2>3. \A k \in late' : LatePlace(k)'
      BY <1>1, <2>1, LatePlaceStays
    <2>4. ASSUME NEW t \in Teams PROVE ConfigsOK(t)' /\ (Undeleted(t)' => Follows(t)')
      <3>1. Undeleted(t)' => Undeleted(t)
        BY <2>1 DEF Undeleted
      <3> QED BY <1>1, <1>4, <3>1, LateConfigs, ConfigsOKThen, LateFollows
    <2> QED BY <1>2, <2>2, <2>3, <2>4
  <1>5. ASSUME \A t \in Teams : hist'[t] \subseteq hist[t] /\
                  (Undeleted(t)' => Undeleted(t) /\ hist'[t] = hist[t]),
               late' \subseteq late, gone \subseteq gone',
               \A o \in Reqs : pc'[o] \in Waiting =>
                  pc[o] = pc'[o] /\ cur'[o] = cur[o] /\ loc'[o] = loc[o],
               target' = target \/ \A o \in Reqs : pc'[o] \notin Waiting,
               \A o \in Reqs : DeployPlace(o)'
        PROVE  DeployInv'
    <2>1. \A j \in late' : LatePlace(j)'
      BY <1>1, <1>5, LatePlaceStays
    <2>2. ASSUME NEW t \in Teams PROVE ConfigsOK(t)' /\ (Undeleted(t)' => Follows(t)')
      <3>1. /\ \A o \in Reqs : Deploys(o, t)' => Deploys(o, t) /\ loc'[o] = loc[o]
            /\ target' = target \/ \A o \in Reqs : ~Deploys(o, t)'
            /\ Jobs(t)' \subseteq Jobs(t)
        BY <1>5 DEF Deploys, Jobs
      <3>2. ConfigsOK(t)'
        BY <1>5, <3>1, RestConfigsOK
      <3>3. Undeleted(t)' => Follows(t)'
        BY <1>1, <1>5, <3>1, FollowStays
      <3> QED BY <3>2, <3>3
    <2> QED BY <1>2, <1>5, <2>1, <2>2
  <1>6. ASSUME NEW r \in Reqs, Receive(r) PROVE DeployInv'
    <2>1. /\ UNCHANGED <<hist, loc, late, target, gone>>
          /\ pc[r] = "idle" /\ pc'[r] \notin Waiting
          /\ \A o \in Reqs \ {r} : pc'[o] = pc[o] /\ arg'[o] = arg[o] /\ cur'[o] = cur[o]
          /\ arg[r] = NoRequest
      <3>1. /\ pc \in [Reqs -> Calls \union {"idle", "answered", "dead"}]
            /\ arg \in [Reqs -> Request \union {NoRequest}]
            /\ cur \in [Reqs -> Teams \union {None}]
        BY <1>0 DEF TypesOK, RequestOK, RequestTypeOK
      <3>2. PICK q \in Offered :
              /\ arg' = [arg EXCEPT ![r] = q]
              /\ cur' = [cur EXCEPT ![r] = q.team]
              /\ \/ pc' = [pc EXCEPT ![r] = "answered"]
                 \/ pc' = [pc EXCEPT ![r] = EntryCall(q)]
        BY <1>6, ReceiveIs
      <3>3. q.kind \in Kinds
        BY ApiAssumption DEF Request
      <3>4. EntryCall(q) \notin Waiting
        BY <3>3 DEF EntryCall, Waiting, Kinds
      <3>5. pc'[r] \notin Waiting
        BY <3>1, <3>2, <3>4 DEF Waiting
      <3>6. pc[r] = "idle" /\ UNCHANGED <<hist, loc, late, target, gone>>
        BY <1>6 DEF Receive, cluster, bounds
      <3>7. arg[r] = NoRequest
        BY <3>6 DEF Ground, IInv, Placed, InPlace
      <3> QED BY <3>1, <3>2, <3>5, <3>6, <3>7
    <2>2. \A t \in Teams : Undeleted(t)' => Undeleted(t)
      <3>1. NoRequest.kind # "delete"
        BY DEF NoRequest, None
      <3> QED BY <2>1, <3>1 DEF Undeleted
    <2>3. \A o \in Reqs : pc'[o] \in Waiting =>
             pc[o] = pc'[o] /\ cur'[o] = cur[o] /\ loc'[o] = loc[o]
      BY <2>1
    <2> QED BY <1>5, <1>6, <2>1, <2>2, <2>3, ReceiveKeepsPlaces
  <1>7. CASE Crash
    <2>1. /\ UNCHANGED <<hist, arg, gone>> /\ late' = {}
          /\ \A r \in Reqs : pc'[r] \notin Calls
      BY <1>0, <1>7 DEF Crash, cluster, Busy, Calls, TypesOK, RequestOK, RequestTypeOK
    <2>2. \A r \in Reqs : DeployPlace(r)' /\ pc'[r] \notin Waiting
      BY <2>1 DEF DeployPlace, Busy, Waiting, Calls
    <2> QED BY <1>5, <2>1, <2>2 DEF Undeleted
  <1>8. ASSUME \A t \in Teams : hist'[t] \subseteq hist[t] /\
                  (Undeleted(t) => hist'[t] = hist[t]),
               UNCHANGED <<pc, cur, loc, arg, outcome, late, target>>, gone \subseteq gone'
        PROVE  DeployInv'
    <2>1. \A o \in Reqs : DeployPlace(o)'
      BY <1>1, <1>8, PlaceStays
    <2> QED BY <1>5, <1>8, <2>1 DEF Undeleted
  <1>9. CASE Namespaces
    <2>1. PICK u \in Teams : NsEmpty(u) \/ NsGone(u)
      BY <1>9 DEF Namespaces
    <2>2. /\ ns[u] = "terminating"
          /\ \A t \in Teams : hist'[t] \subseteq hist[t] /\ (t # u => hist'[t] = hist[t])
      BY <1>0, <2>1 DEF NsEmpty, NsGone, TypesOK, ClusterTypeOK
    <2>3. ~Undeleted(u)
      BY <2>2, UndeletedStands
    <2> QED BY <1>8, <1>9, <2>2, <2>3 DEF Namespaces, request, bounds
  <1>10. ASSUME NEW r \in Reqs, Cancel(r) PROVE DeployInv'
    BY <1>8, <1>10 DEF Cancel, cluster, request
  <1>11. CASE UNCHANGED vars
    BY <1>8, <1>11 DEF vars, cluster, request, bounds
  <1> QED BY <1>3, <1>4, <1>6, <1>7, <1>9, <1>10, <1>11 DEF Next

\* Install, upgradeWithChart, UpgradeChart: whatever overlaps, fails, is
\* cancelled, leaves Helm behind or dies, all that is stored for a team, is
\* being deployed or may yet be stored again has values that requests for that
\* team supplied; and as long as nobody asks to delete its runner, its latest
\* revision is never one that was superseded, every deployment under way is
\* stored with its own values, and what Helm stores late over the latest
\* revision is what stands there already.
THEOREM DeployInvariance == Spec => []DeployInv
  <1> QED BY InitGround, NextGround, ReportInit, NextReportInv, DeployInit, NextDeployInv, PTL
          DEF Spec

-----------------------------------------------------------------------------
(* What a step shows of the runners. *)

Fleet == [t \in Teams |-> {Shown(v) : v \in Latest(t)}]
AtWork == [t \in Teams |-> {r \in Reqs : Deploys(r, t)}]
Stages == [r \in Reqs |-> Stage(r)]
Tellings == [r \in Reqs |-> Told(resp[r])]

LEMMA DoomedOrNot ==
  ASSUME NEW t
  PROVE  Undeleted(t) \/ Runners!Doomed(t)
  BY DEF Undeleted, Runners!Doomed

LEMMA ShowsWhen ==
  ASSUME NEW t \in Teams, \A u \in Teams \ {t} : Fleet'[u] = Fleet[u], NEW S,
         Fleet'[t] \in S \/ (Runners!Doomed(t) /\ Fleet'[t] \in Runners!Anything(t))
  PROVE  Runners!Show(t, S)
  <1>1. PICK x : x = Fleet'[t]
    OBVIOUS
  <1>2. Fleet' = [Fleet EXCEPT ![t] = x]
    BY <1>1 DEF Fleet
  <1>3. x \in S \union (IF Runners!Doomed(t) THEN Runners!Anything(t) ELSE {})
    BY <1>1
  <1> QED BY <1>2, <1>3 DEF Fleet, Runners!Show

\* Of a runner that is to be deleted anything may be shown.
LEMMA DoomedShows ==
  ASSUME Ground, [Next]_vars, NEW t \in Teams,
         \A v \in hist'[t] : v.cfg \in Runners!Configs(t)
  PROVE  Fleet'[t] \in Runners!Anything(t)
  <1>1. Numbers' /\ TypesOK'
    BY NextTypes, NextNumbers, IInvParts DEF Ground
  <1>2. hist'[t] \in SUBSET Revision /\ Distinct(hist'[t])
    BY <1>1 DEF TypesOK, ClusterTypeOK, Numbers, Numbered, Distinct
  <1>3. /\ \A v, w \in Latest(t)' : v = w
        /\ \A v \in Latest(t)' : v \in hist'[t]
    BY <1>2, NewestIsOne DEF Latest, Newest
  <1>4. CASE Latest(t)' = {}
    BY <1>4 DEF Fleet, Runners!Anything
  <1>5. ASSUME NEW v \in Latest(t)' PROVE Fleet'[t] \in Runners!Anything(t)
    <2>1. PICK s : s = IF v.status \in Pending THEN "pending" ELSE v.status
      OBVIOUS
    <2>2. s \in Runners!Statuses
      BY <1>2, <1>3, <1>5, <2>1 DEF Revision, Status, Runners!Statuses
    <2>3. v.chart \in Charts /\ v.cfg \in Runners!Configs(t)
      BY <1>2, <1>3, <1>5 DEF Revision
    <2>4. Fleet'[t] = {Runners!Runner(s, v.chart, v.cfg)}
      BY <1>3, <1>5, <2>1 DEF Fleet, Shown, Runners!Runner
    <2> QED BY <2>2, <2>3, <2>4 DEF Runners!Anything
  <1> QED BY <1>4, <1>5

\* The other teams' runners are left alone.
LEMMA Elsewhere ==
  ASSUME Ground, NEW r \in Reqs, Step(r), NEW u \in Teams, cur[r] # u
  PROVE  Fleet'[u] = Fleet[u] /\ AtWork'[u] = AtWork[u]
  <1>1. hist'[u] = hist[u]
    BY StepHistory, IInvParts DEF Ground
  <1>2. \A o \in Reqs : Deploys(o, u)' <=> Deploys(o, u)
    BY StepLeavesOthers, WaitersStay DEF Deploys
  <1> QED BY <1>1, <1>2 DEF Fleet, AtWork, Latest

LEMMA StepShowsWhen ==
  ASSUME Ground, DeployInv, NEW r \in Reqs, Step(r), NEW t \in Teams, t = cur[r], NEW S,
         Runners!Doomed(t) \/ Fleet'[t] \in S
  PROVE  Runners!Show(t, S)
  <1>1. \A v \in hist'[t] : v.cfg \in Runners!Configs(t)
    BY StepConfigs DEF Known
  <1>2. Fleet'[t] \in Runners!Anything(t)
    BY <1>1, DoomedShows DEF Next
  <1>3. \A u \in Teams \ {t} : Fleet'[u] = Fleet[u]
    BY Elsewhere
  <1> QED BY <1>2, <1>3, ShowsWhen

\* Who is at work.
LEMMA WorkMoves ==
  ASSUME Ground, NEW r \in Reqs, Step(r), NEW t \in Teams, t = cur[r]
  PROVE  /\ r \in AtWork[t] <=> Deploys(r, t)
         /\ Deploys(r, t) /\ ~Deploys(r, t)' => AtWork' = [AtWork EXCEPT ![t] = @ \ {r}]
         /\ ~Deploys(r, t) /\ Deploys(r, t)' =>
               AtWork' = [AtWork EXCEPT ![t] = @ \union {r}]
         /\ (Deploys(r, t) <=> Deploys(r, t)') => AtWork' = AtWork
  <1>1. \A o \in Reqs \ {r} : Deploys(o, t)' <=> Deploys(o, t)
    BY StepLeavesOthers DEF Deploys
  <1>2. \A u \in Teams \ {t} : AtWork'[u] = AtWork[u]
    BY Elsewhere
  <1>3. /\ AtWork[t] = {o \in Reqs : Deploys(o, t)}
        /\ AtWork'[t] = {o \in Reqs : Deploys(o, t)'}
        /\ DOMAIN AtWork = Teams /\ DOMAIN AtWork' = Teams
        /\ AtWork = [u \in Teams |-> AtWork[u]] /\ AtWork' = [u \in Teams |-> AtWork'[u]]
    BY DEF AtWork
  <1>4. r \in AtWork[t] <=> Deploys(r, t)
    BY <1>3
  <1>5. ASSUME Deploys(r, t), ~Deploys(r, t)' PROVE AtWork'[t] = AtWork[t] \ {r}
    BY <1>1, <1>3, <1>5
  <1>6. ASSUME ~Deploys(r, t), Deploys(r, t)' PROVE AtWork'[t] = AtWork[t] \union {r}
    BY <1>1, <1>3, <1>6
  <1>7. ASSUME Deploys(r, t) <=> Deploys(r, t)' PROVE AtWork'[t] = AtWork[t]
    BY <1>1, <1>3, <1>7
  <1> QED BY <1>2, <1>3, <1>4, <1>5, <1>6, <1>7

-----------------------------------------------------------------------------
(* What becomes of the request that makes the step. *)

\* A handler that goes on to another call is still working.
LEMMA StaysWorking ==
  ASSUME TypesOK, NEW r \in Reqs, Busy(r), pc[r] # "reply", NEW call \in Calls \ {"reply"},
         pc' = [pc EXCEPT ![r] = call], resp' = resp
  PROVE  UNCHANGED <<Stages, Tellings>>
  <1>1. Stage(r) = "working" /\ Stage(r)' = "working"
    BY DEF TypesOK, RequestOK, RequestTypeOK, Busy, Stage, Calls
  <1>2. \A o \in Reqs \ {r} : Stage(o)' = Stage(o)
    BY DEF TypesOK, RequestOK, RequestTypeOK, Stage
  <1> QED BY <1>1, <1>2 DEF Stages, Tellings

\* One that has only its answer left to give is done.
LEMMA BecomesDone ==
  ASSUME TypesOK, NEW r \in Reqs, pc' = [pc EXCEPT ![r] = "reply"], resp' = resp
  PROVE  Stages' = [Stages EXCEPT ![r] = "done"] /\ Tellings' = Tellings
  <1>1. Stage(r)' = "done"
    BY DEF TypesOK, RequestOK, RequestTypeOK, Stage
  <1>2. \A o \in Reqs \ {r} : Stage(o)' = Stage(o)
    BY DEF TypesOK, RequestOK, RequestTypeOK, Stage
  <1> QED BY <1>1, <1>2 DEF Stages, Tellings

LEMMA AnswerEndsRun ==
  ASSUME TypesOK, NEW r \in Reqs, NEW code, code # 422, Answer(r, code)
  PROVE  Runners!End(r, Told(code))
  <1>1. /\ pc' = [pc EXCEPT ![r] = "answered"] /\ resp' = [resp EXCEPT ![r] = code]
        /\ DOMAIN pc = Reqs /\ DOMAIN resp = Reqs
    BY DEF Answer, TypesOK, RequestOK, RequestTypeOK
  <1>2. Stage(r)' = "over"
    <2>1. pc'[r] = "answered" /\ resp'[r] # 422
      BY <1>1
    <2> QED BY <2>1 DEF Stage, Calls
  <1>3. \A o \in Reqs \ {r} : Stage(o)' = Stage(o)
    BY <1>1 DEF Stage
  <1>4. Stages' = [Stages EXCEPT ![r] = "over"]
    BY <1>2, <1>3 DEF Stages
  <1>5. Tellings' = [Tellings EXCEPT ![r] = Told(code)]
    BY <1>1 DEF Tellings
  <1> QED BY <1>4, <1>5 DEF Runners!End, Stages, Tellings

LEMMA FailureIsTold ==
  /\ Told(500) = "failure" /\ Told(404) = "failure"
  /\ Told(200) = "success" /\ Told(201) = "success" /\ Told(204) = "success"
  BY DEF Told

\* What RunnerService asks of a request that makes a step.
LEMMA StepWorks ==
  ASSUME Ground, NEW r \in Reqs, Step(r)
  PROVE  /\ TypesOK /\ Busy(r) /\ [Next]_vars
         /\ Stages[r] = IF pc[r] = "reply" THEN "done" ELSE "working"
         /\ UNCHANGED <<arg, target, gone>>
         /\ arg[r].kind \in KindsAt(pc[r])
         /\ arg[r].kind # "upgrade" => cur[r] = arg[r].team
         /\ pc[r] \notin {"list", "nextRelease"} => cur[r] \in Teams
  <1>1. TypesOK
    BY IInvParts DEF Ground
  <1>2. Busy(r) /\ UNCHANGED <<arg, target, gone>> /\ arg[r].kind \in KindsAt(pc[r])
    BY StepLeavesOthers
  <1>3. Stages[r] = IF pc[r] = "reply" THEN "done" ELSE "working"
    BY <1>1, <1>2, StageMoves DEF Stages
  <1>4. pc[r] \notin {"list", "nextRelease"} => cur[r] \in Teams
    BY <1>1, <1>2, AtCall DEF TypesOK, Busy
  <1> QED BY <1>1, <1>2, <1>3, <1>4 DEF Ground, OnItsTeam, Next

\* It has not done with the runner it is about.
LEMMA Concerned ==
  ASSUME Ground, DeployInv, NEW r \in Reqs, Step(r),
         pc[r] \notin {"list", "nextRelease", "reply"}, NEW t, t = cur[r]
  PROVE  t \in Teams /\ Runners!Concerns(r, t)
  <1>1. arg[r].kind = "upgrade" => outcome[r][t] = "todo"
    BY StepWorks, DeployInvIs DEF DeployPlace
  <1> QED BY <1>1, StepWorks DEF Runners!Concerns, Stages

LEMMA EndsBadly ==
  ASSUME Ground, NEW r \in Reqs, Step(r), pc[r] \notin {"list", "nextRelease", "reply"},
         NEW t, t = cur[r],
         \/ \E res \in {"notFound", "error"} : HelmReturns(r, res)
         \/ arg[r].kind # "upgrade" /\ Answer(r, 500)
  PROVE  Runners!Badly(r, t)
  <1>1. CASE arg[r].kind = "upgrade"
    <2>1. /\ pc' = [pc EXCEPT ![r] = "nextRelease"] /\ resp' = resp
          /\ outcome' = [outcome EXCEPT ![r][t] = "failed"]
      BY <1>1 DEF HelmReturns, Booked
    <2>2. UNCHANGED <<Stages, Tellings>>
      <3>1. "nextRelease" \in Calls \ {"reply"}
        BY DEF Calls
      <3> QED BY <2>1, <3>1, StaysWorking, StepWorks
    <2> QED BY <1>1, <2>1, <2>2 DEF Runners!Badly, Stages, Tellings
  <1>2. CASE arg[r].kind # "upgrade"
    <2>1. PICK code \in {404, 500} : Answer(r, code)
      BY <1>2 DEF HelmReturns, Code
    <2>2. Runners!End(r, "failure")
      BY <2>1, StepWorks, AnswerEndsRun, FailureIsTold
    <2> QED BY <1>2, <2>1, <2>2 DEF Runners!Badly, Answer
  <1> QED BY <1>1, <1>2

LEMMA EndsWell ==
  ASSUME Ground, NEW r \in Reqs, Step(r), pc[r] \in Waiting, HelmReturns(r, "ok"),
         NEW t, t = cur[r]
  PROVE  Runners!Well(r, t)
  <1>0. pc[r] # "reply" /\ arg[r].kind \in {"create", "update", "upgrade"}
    BY StepWorks DEF Waiting, KindsAt
  <1>1. CASE arg[r].kind = "upgrade"
    <2>1. /\ pc' = [pc EXCEPT ![r] = "nextRelease"] /\ resp' = resp
          /\ outcome' = [outcome EXCEPT ![r][t] = "upgraded"]
      BY <1>1 DEF HelmReturns, Booked
    <2>2. UNCHANGED <<Stages, Tellings>>
      <3>1. "nextRelease" \in Calls \ {"reply"}
        BY DEF Calls
      <3> QED BY <1>0, <2>1, <3>1, StaysWorking, StepWorks
    <2> QED BY <1>1, <2>1, <2>2 DEF Runners!Well, Stages, Tellings
  <1>2. CASE arg[r].kind # "upgrade"
    <2>1. pc' = [pc EXCEPT ![r] = "reply"] /\ UNCHANGED <<resp, outcome>>
      BY <1>0, <1>2 DEF HelmReturns, Goto
    <2>2. Stages' = [Stages EXCEPT ![r] = "done"] /\ Tellings' = Tellings
      BY <2>1, BecomesDone, StepWorks
    <2> QED BY <1>2, <2>1, <2>2 DEF Runners!Well, Stages, Tellings
  <1> QED BY <1>1, <1>2

-----------------------------------------------------------------------------
(* The steps that begin, go on with or end a deployment. *)

\* How a step of a handler can end.
LEMMA StepEnds ==
  ASSUME Ground, NEW r \in Reqs, Step(r)
  PROVE  \/ List(r) \/ NextRelease(r) \/ NsDelete(r) \/ Reply(r)
         \/ pc[r] = "upgradeWait" /\ Goto(r, "upgradeRecord", loc[r])
         \/ InstallWait(r) \/ UpgradeRecord(r) \/ RunFails(r) \/ Abandoned(r)
         \/ /\ pc[r] \notin Waiting \union {"list", "nextRelease", "nsDelete", "reply"}
            /\ \/ \E call \in Calls \ {"nextRelease", "reply"} : \E x : Goto(r, call, x)
               \/ \E res \in {"notFound", "error"} : HelmReturns(r, res)
               \/ arg[r].kind # "upgrade" /\ Answer(r, 500)
  <1> USE DEF Waiting, Calls
  <1>1. CASE NsGet(r) \/ NsCreate(r) \/ SecretGet(r)
    <2>1. arg[r].kind # "upgrade"
      BY <1>1, StepWorks DEF NsGet, NsCreate, SecretGet, KindsAt
    <2> QED BY <1>1, <2>1 DEF NsGet, NsCreate, SecretGet
  <1>2. CASE SecretCreate(r) \/ SecretUpdate(r)
    <2>1. arg[r].kind # "upgrade"
      BY <1>2, StepWorks DEF SecretCreate, SecretUpdate, KindsAt
    <2> QED BY <1>2, <2>1 DEF SecretCreate, SecretUpdate, WriteSecret, AfterSecret
  <1>3. CASE ChartUnavailable(r)
    BY <1>3 DEF ChartUnavailable
  <1>4. CASE InstallGet(r)
    BY <1>4 DEF InstallGet
  <1>5. CASE InstallRun(r)
    BY <1>5 DEF InstallRun
  <1>6. CASE UpgradeGet(r)
    BY <1>6 DEF UpgradeGet
  <1>7. CASE ChartGet(r)
    BY <1>7 DEF ChartGet
  <1>8. CASE UpgradeRun(r)
    BY <1>8 DEF UpgradeRun
  <1>9. CASE UninstallRun(r)
    BY <1>9 DEF UninstallRun
  <1>10. CASE UninstallWait(r)
    <2>1. pc[r] = "uninstallWait" /\ \E res \in Result : HelmReturns(r, res)
      BY <1>10 DEF UninstallWait, Result
    <2>2. arg[r].kind = "delete"
      BY <2>1, StepWorks DEF KindsAt
    <2>3. HelmReturns(r, "ok") => Goto(r, "nsDelete", NoLocal)
      BY <2>2 DEF HelmReturns
    <2> QED BY <2>1, <2>3 DEF Result
  <1>11. CASE UpgradeWait(r)
    BY <1>11 DEF UpgradeWait
  <1> QED BY <1>1, <1>2, <1>3, <1>4, <1>5, <1>6, <1>7, <1>8, <1>9, <1>10, <1>11 DEF Step

\* What nobody else is at work on, and has been stored as pending.
LEMMA GainsShow ==
  ASSUME Ground, ReportInv, DeployInv, NEW r \in Reqs, Step(r), NEW t \in Teams,
         t = cur[r], Undeleted(t), NEW p, Gains(r, t, p)
  PROVE  Runners!Free(t) /\ Fleet'[t] \in Runners!New(r, t)
  <1>1. RevisionsApart(t)
    BY DEF ReportInv
  <1>2. \A v \in Latest(t) : v.status \notin Pending /\ v.status # "pending"
    <2>1. \A v \in Latest(t) : v.status \in Status /\ v.status \notin Pending
      BY LatestIsOne DEF Gains, Latest, Newest, Revision
    <2> QED BY <2>1 DEF Status, Pending
  <1>3. \A o \in Reqs : ~Deploys(o, t)
    BY <1>1, <1>2 DEF RevisionsApart
  <1>4. AtWork[t] = {} /\ \A w \in Fleet[t] : w.status # "pending"
    <2>1. AtWork[t] = {}
      BY <1>3 DEF AtWork
    <2>2. ASSUME NEW w \in Fleet[t] PROVE w.status # "pending"
      <3>1. PICK v \in Latest(t) : w = Shown(v)
        BY DEF Fleet
      <3>2. w.status = v.status
        BY <1>2, <3>1 DEF Shown
      <3> QED BY <1>2, <3>2
    <2> QED BY <2>1, <2>2
  <1>5. Runners!Free(t)
    BY <1>4 DEF Runners!Free, AtWork, Fleet
  <1>6. /\ p.status \in Pending /\ p.chart = target /\ p.cfg = loc[r].cfg
        /\ hist'[t] = hist[t] \union {p} /\ p \notin hist[t]
    <2>1. /\ NewOn(r, t, p) /\ p.rev \in Nat
      BY DEF Gains, NewOn, Revision
    <2> QED BY <2>1 DEF NewOn
  <1>7. Fleet'[t] = {Runners!Runner("pending", target, loc[r].cfg)}
    <2>1. Latest(t)' = {p}
      BY GainsLatest
    <2>2. Fleet'[t] = {Shown(p)}
      BY <2>1 DEF Fleet, Shown
    <2> QED BY <1>6, <2>2 DEF Shown, Runners!Runner
  <1>8. loc[r].cfg \in Runners!Mine(r, t)
    <2>1. pc[r] \in {"installRun", "upgradeRun"}
      <3>1. hist'[t] # hist[t] /\ ~\E S : hist'[t] = Updated(hist[t], S)
        <4>1. \A S : \A w \in Updated(hist[t], S) : \E v \in hist[t] : v.rev = w.rev
          BY RewritesKeepNumbers
        <4>2. \A v \in hist[t] : v.rev # p.rev
          <5>1. \A v \in hist[t] : v.rev < p.rev /\ v.rev \in Nat /\ p.rev \in Nat
            BY LatestIsOne DEF Gains, NewOn, Revision
          <5> QED BY <5>1
        <4> QED BY <1>6, <4>1, <4>2
      <3>2. hist'[t] # PurgeFrom(t, loc[r].revs)
        BY <1>6 DEF PurgeFrom
      <3> QED BY <3>1, <3>2, StepHistory, StepWorks
    <2>2. pc[r] = "upgradeRun" => loc[r].cfg.url # None
      <3>1. SUFFICES ASSUME pc[r] = "upgradeRun" PROVE loc[r].cfg.url # None
        OBVIOUS
      <3>2. CASE UpgradeRun(r)
        <4>1. hist' # hist
          BY <1>6
        <4> QED BY <3>2, <4>1 DEF UpgradeRun, Deployable
      <3>3. CASE ChartUnavailable(r)
        BY <1>6, <3>3 DEF ChartUnavailable, cluster
      <3> QED BY <3>1, <3>2, <3>3
          DEF Step, NsGet, NsCreate, SecretGet, SecretCreate, SecretUpdate,
              InstallGet, InstallRun, InstallWait,
              RunFails, UpgradeGet, ChartGet, UpgradeWait, UpgradeRecord, List, NextRelease,
              Abandoned, UninstallRun, UninstallWait, NsDelete, Reply
    <2>3. loc[r].cfg \in Runners!Mine(r, cur[r])
      BY <2>1, <2>2, StepWorks, DeployInvIs, MayDeployIs
    <2> QED BY <2>3
  <1>9. Fleet'[t] \in Runners!New(r, t)
    BY <1>7, <1>8 DEF Runners!New
  <1> QED BY <1>5, <1>9

\* What is deployed is shown as pending until the end, and then as what was
\* recorded.
LEMMA DeploysShows ==
  ASSUME Ground, NEW r \in Reqs, NEW t \in Teams, RevisionsApart(t), Follows(t),
         Deploys(r, t)
  PROVE  \E s \in Pending : Latest(t) = {Own(r, s)}
  <1>1. PICK s \in Pending : Own(r, s) \in hist[t]
    BY DEF Follows
  <1>2. PICK v \in Latest(t) : v.rev = loc[r].rev
    BY DEF RevisionsApart
  <1>3. v = Own(r, s)
    <2>1. Own(r, s).rev = v.rev /\ v \in hist[t]
      BY <1>2 DEF Own, Latest, Newest
    <2> QED BY <1>1, <2>1, LatestIsOne
  <1> QED BY <1>2, <1>3, LatestIsOne

LEMMA EndsShow ==
  ASSUME Ground, ReportInv, DeployInv, NEW r \in Reqs, Step(r), NEW t \in Teams,
         Undeleted(t), NEW S, Ends(r, t, S)
  PROVE  /\ \E s \in {"pending", "failed", "deployed"} : Fleet'[t] \in Runners!Now(t, s)
         /\ S = {Own(r, "deployed")} => Fleet'[t] \in Runners!Now(t, "deployed")
  <1>1. RevisionsApart(t) /\ Follows(t)
    BY DeployInvIs DEF ReportInv
  <1>2. Deploys(r, t) /\ hist'[t] = Updated(hist[t], S)
    BY DEF Ends
  <1>3. PICK s \in Pending : Latest(t) = {Own(r, s)}
    BY <1>1, <1>2, DeploysShows
  <1> DEFINE now(status) == Runners!Runner(status, target, loc[r].cfg)
  <1>4. Fleet[t] = {now("pending")}
    <2>1. Fleet[t] = {Shown(Own(r, s))}
      BY <1>3 DEF Fleet
    <2> QED BY <2>1 DEF Shown, Own, Runners!Runner
  <1>5. \A status : {now(status)} \in Runners!Now(t, status)
    <2>1. \A status : {[v EXCEPT !.status = status] : v \in Fleet[t]} = {now(status)}
      BY <1>4 DEF Runners!Runner
    <2> QED BY <2>1 DEF Runners!Now, Fleet
  <1>6. PICK x : x \in Latest(t)' /\ Fleet'[t] = {Shown(x)}
    <2>1. Latest(t)' # {} /\ \A x, y \in Latest(t)' : x = y
      BY <1>2, <1>3, StepWorks, LatestRemains, LatestAfter
    <2>2. PICK x : x \in Latest(t)'
      BY <2>1
    <2>3. Latest(t)' = {x}
      BY <2>1, <2>2
    <2> QED BY <2>2, <2>3 DEF Fleet, Shown
  <1>7. \/ x = Own(r, s) /\ S = {}
        \/ x = Own(r, "deployed") /\ S = {Own(r, "deployed")}
        \/ x = Own(r, "failed")
    BY <1>1, <1>3, <1>6, StepWorks, EndsLatest
  <1>8. Shown(Own(r, s)) = now("pending")
    BY DEF Shown, Own, Runners!Runner
  <1>9. Shown(Own(r, "deployed")) = now("deployed") /\ Shown(Own(r, "failed")) = now("failed")
    BY DEF Shown, Own, Runners!Runner, Pending
  <1>10. S = {Own(r, "deployed")} => x = Own(r, "deployed")
    <2>1. x \in Latest(t)' => x.rev = loc[r].rev
      BY <1>1, StepWorks, EndsLatest
    <2>2. SUFFICES ASSUME S = {Own(r, "deployed")}, x = Own(r, "failed") PROVE FALSE
      BY <1>7
    <2>3. PICK v \in Latest(t) : x.rev = v.rev /\ (x \in S \/ (x = v /\ \A w \in S : w.rev # v.rev))
      BY <1>2, <1>6, StepWorks, LatestAfter
    <2>4. Own(r, "deployed").status # Own(r, "failed").status
          /\ Own(r, "deployed").rev = loc[r].rev
      BY DEF Own
    <2> QED BY <1>6, <2>1, <2>2, <2>3, <2>4
  <1> HIDE DEF now
  <1> QED BY <1>5, <1>6, <1>7, <1>8, <1>9, <1>10

-----------------------------------------------------------------------------
(* Every step of a handler is one of the service. *)

LEMMA Stutters ==
  ASSUME UNCHANGED <<Fleet, AtWork, target, arg, Stages, Tellings, outcome>>
  PROVE  UNCHANGED Runners!vars
  BY DEF Runners!vars, Fleet, AtWork, Stages, Tellings

LEMMA FleetStays ==
  ASSUME NEW t \in Teams, \A u \in Teams \ {t} : Fleet'[u] = Fleet[u],
         Latest(t)' = Latest(t)
  PROVE  UNCHANGED Fleet
  <1>1. Fleet'[t] = Fleet[t]
    BY DEF Fleet
  <1>2. \A u \in Teams : Fleet'[u] = Fleet[u]
    BY <1>1
  <1> QED BY <1>2 DEF Fleet

\* Away from the end of a deployment nobody else comes or goes.
LEMMA WorkStays ==
  ASSUME Ground, NEW r \in Reqs, Step(r), pc[r] \notin Waiting, pc'[r] \notin Waiting
  PROVE  UNCHANGED AtWork
  <1>1. \A o \in Reqs, u \in Teams : Deploys(o, u)' <=> Deploys(o, u)
    BY StepLeavesOthers DEF Deploys
  <1> QED BY <1>1 DEF AtWork

\* A call that comes back well while the request is not waiting for Helm.
LEMMA MovesRefine ==
  ASSUME Ground, ReportInv, DeployInv, NEW r \in Reqs, Step(r),
         pc[r] \notin Waiting \union {"list", "nextRelease", "nsDelete", "reply"},
         NEW call \in Calls \ {"nextRelease", "reply"}, NEW x, Goto(r, call, x)
  PROVE  Runners!Next \/ UNCHANGED Runners!vars
  <1>1. PICK t : t = cur[r]
    OBVIOUS
  <1>2. t \in Teams /\ Runners!Concerns(r, t)
    BY <1>1, Concerned
  <1>3. /\ pc' = [pc EXCEPT ![r] = call] /\ UNCHANGED <<cur, resp, outcome, arg, target>>
        /\ TypesOK /\ Busy(r)
    BY StepWorks DEF Goto
  <1>4. UNCHANGED <<Stages, Tellings>>
    BY <1>3, StaysWorking
  <1>5. ~Deploys(r, t)
    BY DEF Deploys
  <1>6. /\ r \notin AtWork[t]
        /\ Deploys(r, t)' => AtWork' = [AtWork EXCEPT ![t] = @ \union {r}]
        /\ ~Deploys(r, t)' => AtWork' = AtWork
    BY <1>1, <1>2, <1>5, WorkMoves
  <1>7. ASSUME Deploys(r, t)', Runners!Free(t) \/ Runners!Doomed(t),
               Runners!Show(t, Runners!New(r, t))
        PROVE  Runners!Next
    <2>1. Runners!Begin(r, t)
      BY <1>2, <1>3, <1>4, <1>6, <1>7 DEF Runners!Begin, AtWork, Stages, Tellings
    <2> QED BY <1>2, <2>1 DEF Runners!Next
  <1>8. CASE Runners!Doomed(t)
    <2>1. CASE Deploys(r, t)'
      BY <1>1, <1>2, <1>7, <1>8, <2>1, StepShowsWhen
    <2>2. CASE ~Deploys(r, t)'
      <3>1. Runners!Show(t, {})
        BY <1>1, <1>2, <1>8, StepShowsWhen
      <3>2. Runners!Vanish(t)
        BY <1>3, <1>4, <1>6, <1>8, <2>2, <3>1 DEF Runners!Vanish, AtWork, Stages, Tellings
      <3> QED BY <1>2, <3>2 DEF Runners!Next
    <2> QED BY <2>1, <2>2
  <1>9. CASE Undeleted(t)
    <2>1. CASE Rests(r, t)
      <3>1. Latest(t)' = Latest(t) /\ ~Deploys(r, t)'
        BY <2>1 DEF Rests, Latest, Newest
      <3>2. UNCHANGED Fleet
        BY <1>1, <1>2, <3>1, Elsewhere, FleetStays
      <3> QED BY <1>3, <1>4, <1>6, <3>1, <3>2, Stutters
    <2>2. ASSUME NEW p, Gains(r, t, p) PROVE Runners!Next
      <3>1. pc'[r] = call
        BY <1>3 DEF TypesOK, RequestOK, RequestTypeOK
      <3>2. ~HelmReturns(r, "error")
        <4>1. HelmReturns(r, "error") => pc'[r] \in {"nextRelease", "answered"}
          BY <1>3 DEF HelmReturns, Answer, TypesOK, RequestOK, RequestTypeOK
        <4> QED BY <3>1, <4>1 DEF Calls
      <3>3. Deploys(r, t)'
        BY <2>2, <3>2 DEF Gains
      <3>4. Runners!Free(t) /\ Fleet'[t] \in Runners!New(r, t)
        BY <1>1, <1>2, <1>9, <2>2, GainsShow
      <3>5. Runners!Show(t, Runners!New(r, t))
        BY <1>1, <1>2, <3>4, StepShowsWhen
      <3> QED BY <1>7, <3>3, <3>4, <3>5
    <2> QED BY <1>2, <1>5, <1>9, <2>1, <2>2, StepOnTeam DEF Continues, Ends
  <1> QED BY <1>8, <1>9, DoomedOrNot

\* One that does not.
LEMMA FailsRefine ==
  ASSUME Ground, ReportInv, DeployInv, NEW r \in Reqs, Step(r),
         pc[r] \notin Waiting \union {"list", "nextRelease", "nsDelete", "reply"},
         \/ \E res \in {"notFound", "error"} : HelmReturns(r, res)
         \/ arg[r].kind # "upgrade" /\ Answer(r, 500)
  PROVE  Runners!Next
  <1>1. PICK t : t = cur[r]
    OBVIOUS
  <1>2. t \in Teams /\ Runners!Concerns(r, t)
    BY <1>1, Concerned
  <1>3. TypesOK /\ UNCHANGED <<arg, target>>
    BY StepWorks
  <1>4. Runners!Badly(r, t)
    BY <1>1, EndsBadly
  <1>5. pc'[r] \notin Waiting
    <2>1. Answer(r, 500) => pc'[r] = "answered"
      BY <1>3 DEF Answer, TypesOK, RequestOK, RequestTypeOK
    <2> QED BY <2>1, ReturnIsOver DEF Waiting
  <1>6. ~Deploys(r, t) /\ ~Deploys(r, t)'
    BY <1>5 DEF Deploys
  <1>7. r \notin AtWork[t] /\ AtWork' = AtWork
    BY <1>1, <1>2, <1>6, WorkMoves
  <1>8. \/ Runners!Show(t, {Fleet[t]})
        \/ ~Runners!Spared(r) /\ Runners!Free(t) /\ Runners!Show(t, Runners!New(r, t))
    <2>1. CASE Runners!Doomed(t)
      BY <1>1, <1>2, <2>1, StepShowsWhen
    <2>2. CASE Undeleted(t)
      <3>1. CASE Rests(r, t)
        <4>1. Latest(t)' = Latest(t)
          BY <3>1 DEF Rests, Latest, Newest
        <4>2. Fleet'[t] = Fleet[t]
          BY <4>1, <1>2 DEF Fleet
        <4> QED BY <1>1, <1>2, <4>2, StepShowsWhen
      <3>2. ASSUME NEW p, Gains(r, t, p)
            PROVE  /\ ~Runners!Spared(r) /\ Runners!Free(t)
                   /\ Runners!Show(t, Runners!New(r, t))
        <4>1. Fault(r)
          BY <1>6, <3>2 DEF Gains
        <4>2. faults' # faults
          BY <1>3, <4>1 DEF Fault, TypesOK, RequestOK, BoundTypeOK
        <4>3. Runners!Free(t) /\ Fleet'[t] \in Runners!New(r, t)
          BY <1>1, <1>2, <2>2, <3>2, GainsShow
        <4>4. Runners!Show(t, Runners!New(r, t))
          BY <1>1, <1>2, <4>3, StepShowsWhen
        <4> QED BY <4>2, <4>3, <4>4 DEF Runners!Spared
      <3> QED BY <1>2, <1>6, <2>2, <3>1, <3>2, StepOnTeam DEF Continues, Ends
    <2> QED BY <2>1, <2>2, DoomedOrNot
  <1>9. Runners!Refuse(r, t)
    BY <1>2, <1>3, <1>4, <1>7, <1>8 DEF Runners!Refuse, AtWork, Fleet
  <1> QED BY <1>2, <1>9 DEF Runners!Next

\* Between the two records of an upgrade nothing is to be seen.
LEMMA ContinueRefines ==
  ASSUME Ground, ReportInv, DeployInv, NEW r \in Reqs, Step(r),
         pc[r] = "upgradeWait", Goto(r, "upgradeRecord", loc[r])
  PROVE  Runners!Next \/ UNCHANGED Runners!vars
  <1>1. PICK t : t = cur[r]
    OBVIOUS
  <1>2. t \in Teams /\ TypesOK /\ Busy(r) /\ [Next]_vars
    BY <1>1, StepWorks
  <1>3. /\ pc' = [pc EXCEPT ![r] = "upgradeRecord"]
        /\ UNCHANGED <<cur, resp, outcome, arg, target>>
    BY StepWorks DEF Goto
  <1>4. UNCHANGED <<Stages, Tellings>>
    <2>1. "upgradeRecord" \in Calls \ {"reply"}
      BY DEF Calls
    <2> QED BY <1>2, <1>3, <2>1, StaysWorking
  <1>5. Deploys(r, t) /\ Deploys(r, t)'
    BY <1>1, <1>2, <1>3 DEF Deploys, Waiting, TypesOK, RequestOK, RequestTypeOK
  <1>6. UNCHANGED AtWork
    BY <1>1, <1>2, <1>5, WorkMoves
  <1>7. CASE Runners!Doomed(t)
    <2>1. Runners!Show(t, {})
      BY <1>1, <1>2, <1>7, StepShowsWhen
    <2>2. Runners!Vanish(t)
      BY <1>3, <1>4, <1>6, <1>7, <2>1 DEF Runners!Vanish, AtWork, Stages, Tellings
    <2> QED BY <1>2, <2>2 DEF Runners!Next
  <1>8. CASE Undeleted(t)
    <2>1. RevisionsApart(t)
      BY <1>2, <1>8 DEF ReportInv
    <2>2. PICK S : Continues(r, t, S)
      BY <1>2, <1>5, <1>8, StepOnTeam DEF Rests, Gains, Ends
    <2>3. \A x \in Latest(t)' : x \in Latest(t)
      BY <1>2, <2>1, <2>2, ContinuesLatest
    <2>4. Latest(t)' # {}
      <3>1. Latest(t) # {}
        BY <1>5, <2>1 DEF RevisionsApart
      <3> QED BY <1>2, <2>2, <3>1, LatestRemains DEF Continues
    <2>5. Latest(t)' = Latest(t)
      BY <1>2, <2>3, <2>4, LatestIsOne
    <2>6. UNCHANGED Fleet
      BY <1>1, <1>2, <2>5, Elsewhere, FleetStays
    <2> QED BY <1>3, <1>4, <1>6, <2>6, Stutters
  <1> QED BY <1>7, <1>8, DoomedOrNot

\* How an install or an upgrade comes to its end.
LEMMA EndingSteps ==
  ASSUME Ground, ReportInv, NEW r \in Reqs, NEW t \in Teams, t = cur[r],
         InstallWait(r) \/ UpgradeRecord(r) \/ RunFails(r) \/ Abandoned(r)
  PROVE  /\ pc[r] \in Waiting
         /\ \/ /\ HelmReturns(r, "ok")
               /\ Runners!Spared(r) => hist' = Recorded(t, {Own(r, "deployed")})
            \/ /\ \E res \in {"notFound", "error"} : HelmReturns(r, res)
               /\ ~Runners!Spared(r) \/ ~Undeleted(t)
  <1>1. pc[r] \in Waiting
    BY DEF InstallWait, UpgradeRecord, RunFails, Abandoned, Waiting
  <1>2. Fault(r) => ~Runners!Spared(r)
    BY IInvParts DEF Ground, Fault, Runners!Spared, TypesOK, RequestOK, BoundTypeOK
  <1>3. CASE InstallWait(r)
    BY <1>1, <1>2, <1>3 DEF InstallWait
  <1>4. CASE UpgradeRecord(r)
    <2>1. Undeleted(t) => Stored(t, loc[r].rev)
      <3>1. SUFFICES ASSUME Undeleted(t) PROVE Stored(t, loc[r].rev)
        OBVIOUS
      <3>2. PICK v \in Latest(t) : v.rev = loc[r].rev
        BY <1>1, <3>1 DEF ReportInv, RevisionsApart, Deploys
      <3> QED BY <3>2 DEF Latest, Newest, Stored, Revs
    <2>2. r \in gone => ~Runners!Spared(r)
      BY DEF Runners!Spared
    <2> QED BY <1>1, <1>2, <1>4, <2>1, <2>2 DEF UpgradeRecord
  <1>5. CASE RunFails(r)
    <2>1. Undeleted(t) => ns[t] = "active"
      <3>1. SUFFICES ASSUME Undeleted(t) PROVE ns[t] = "active"
        OBVIOUS
      <3>2. PICK v : v \in Latest(t)
        BY <1>1, <3>1 DEF ReportInv, RevisionsApart, Deploys
      <3> QED BY <3>1, <3>2, UndeletedStands DEF Latest, Newest
    <2> QED BY <1>1, <1>2, <1>5, <2>1 DEF RunFails
  <1>6. CASE Abandoned(r)
    BY <1>1, <1>6 DEF Abandoned, Runners!Spared
  <1> QED BY <1>3, <1>4, <1>5, <1>6

LEMMA EndRefines ==
  ASSUME Ground, ReportInv, DeployInv, NEW r \in Reqs, Step(r),
         InstallWait(r) \/ UpgradeRecord(r) \/ RunFails(r) \/ Abandoned(r)
  PROVE  Runners!Next
  <1>1. PICK t : t = cur[r]
    OBVIOUS
  <1>2. pc[r] \in Waiting
    BY DEF InstallWait, UpgradeRecord, RunFails, Abandoned, Waiting
  <1>3. t \in Teams /\ Runners!Concerns(r, t)
    BY <1>1, <1>2, Concerned DEF Waiting
  <1>4. UNCHANGED <<arg, target>> /\ [Next]_vars
    BY StepWorks
  <1>5. \E res \in {"ok", "notFound", "error"} : HelmReturns(r, res)
    BY <1>1, <1>3, EndingSteps
  <1>6. Deploys(r, t) /\ ~Deploys(r, t)'
    BY <1>1, <1>2, <1>5, ReturnIsOver DEF Deploys
  <1>7. Runners!Leave(r, t)
    <2>1. r \in AtWork[t] /\ AtWork' = [AtWork EXCEPT ![t] = @ \ {r}]
      BY <1>1, <1>3, <1>6, WorkMoves
    <2> QED BY <1>3, <1>4, <2>1 DEF Runners!Leave, AtWork
  <1>8. Undeleted(t) => \E S : Ends(r, t, S)
    BY <1>3, <1>6, StepOnTeam DEF Rests, Gains, Continues
  <1>9. \E s \in {"pending", "failed", "deployed"} : Runners!Show(t, Runners!Now(t, s))
    <2>1. CASE Runners!Doomed(t)
      BY <1>1, <1>3, <2>1, StepShowsWhen
    <2>2. CASE Undeleted(t)
      <3>1. PICK s \in {"pending", "failed", "deployed"} : Fleet'[t] \in Runners!Now(t, s)
        BY <1>3, <1>8, <2>2, EndsShow
      <3> QED BY <1>1, <1>3, <3>1, StepShowsWhen
    <2> QED BY <2>1, <2>2, DoomedOrNot
  <1>10. ASSUME HelmReturns(r, "ok"),
                Runners!Spared(r) => hist' = Recorded(t, {Own(r, "deployed")})
         PROVE  Runners!Succeed(r, t)
    <2>1. Runners!Well(r, t)
      BY <1>1, <1>2, <1>10, EndsWell
    <2>2. Runners!Spared(r) => Runners!Show(t, Runners!Now(t, "deployed"))
      <3>1. SUFFICES ASSUME Runners!Spared(r)
                     PROVE  Runners!Show(t, Runners!Now(t, "deployed"))
        OBVIOUS
      <3>2. CASE Runners!Doomed(t)
        BY <1>1, <1>3, <3>2, StepShowsWhen
      <3>3. CASE Undeleted(t)
        <4>1. hist'[t] = Updated(hist[t], {Own(r, "deployed")})
          BY <1>3, <1>10, <3>1, IInvParts DEF Ground, TypesOK, ClusterTypeOK, Recorded
        <4>2. late' = late
          BY <3>1, StepJobs DEF Runners!Spared
        <4>3. Ends(r, t, {Own(r, "deployed")})
          BY <1>6, <4>1, <4>2 DEF Ends
        <4>4. Fleet'[t] \in Runners!Now(t, "deployed")
          BY <1>3, <3>3, <4>3, EndsShow
        <4> QED BY <1>1, <1>3, <4>4, StepShowsWhen
      <3> QED BY <3>2, <3>3, DoomedOrNot
    <2> QED BY <1>7, <1>9, <2>1, <2>2 DEF Runners!Succeed
  <1>11. ASSUME \E res \in {"notFound", "error"} : HelmReturns(r, res),
                ~Runners!Spared(r) \/ ~Undeleted(t)
         PROVE  Runners!Fail(r, t)
    <2>1. Runners!Badly(r, t)
      <3>1. pc[r] \notin {"list", "nextRelease", "reply"}
        BY <1>2 DEF Waiting
      <3> QED BY <1>1, <1>11, <3>1, EndsBadly
    <2> QED BY <1>7, <1>9, <1>11, <2>1, DoomedOrNot DEF Runners!Fail
  <1>12. Runners!Succeed(r, t) \/ Runners!Fail(r, t)
    BY <1>1, <1>3, <1>10, <1>11, EndingSteps
  <1> QED BY <1>3, <1>12 DEF Runners!Next

\* The calls of UpgradeAllRunners that are about no release.
LEMMA ListRefines ==
  ASSUME Ground, DeployInv, NEW r \in Reqs, Step(r), List(r)
  PROVE  Runners!Next
  <1>1. /\ pc[r] = "list" /\ arg[r].kind = "upgrade" /\ outcome[r] = NoOutcome
        /\ TypesOK /\ Busy(r) /\ UNCHANGED <<arg, target>> /\ Stages[r] = "working"
    BY StepWorks, DeployInvIs DEF List, KindsAt, DeployPlace
  <1>2. UNCHANGED Fleet /\ UNCHANGED hist
    BY DEF List, cluster, Fleet, Latest, Newest
  <1>3. UNCHANGED AtWork
    <2>1. pc'[r] \in {"nextRelease", "answered"}
      BY <1>1 DEF List, Answer, TypesOK, RequestOK, RequestTypeOK
    <2> QED BY <1>1, <2>1, WorkStays DEF Waiting
  <1>4. ASSUME NEW o \in [Teams -> Outcomes], \A t \in Teams : o[t] \in Listing(t),
               outcome' = [outcome EXCEPT ![r] = o],
               pc' = [pc EXCEPT ![r] = "nextRelease"], resp' = resp
        PROVE  Runners!ListAll(r)
    <2>1. o \in [Teams -> {"absent", "todo", "skipped"}]
      <3>1. \A t \in Teams : Listing(t) \subseteq {"absent", "todo", "skipped"}
        BY DEF Listing
      <3> QED BY <1>4, <3>1
    <2>2. UNCHANGED <<Stages, Tellings>>
      <3>1. "nextRelease" \in Calls \ {"reply"}
        BY DEF Calls
      <3> QED BY <1>1, <1>4, <3>1, StaysWorking
    <2> QED BY <1>1, <1>2, <1>3, <1>4, <2>1, <2>2
        DEF Runners!ListAll, Fleet, AtWork, Stages, Tellings
  <1>5. ASSUME Answer(r, 500) PROVE Runners!ListAll(r)
    <2>1. Runners!End(r, "failure")
      BY <1>1, <1>5, AnswerEndsRun, FailureIsTold
    <2>2. UNCHANGED outcome
      BY <1>5 DEF Answer
    <2> QED BY <1>1, <1>2, <1>3, <2>1, <2>2 DEF Runners!ListAll, Fleet, AtWork, Stages
  <1>6. Runners!ListAll(r)
    BY <1>4, <1>5 DEF List
  <1> QED BY <1>6 DEF Runners!Next

LEMMA NextReleaseRefines ==
  ASSUME Ground, NEW r \in Reqs, Step(r), NextRelease(r)
  PROVE  Runners!Next \/ UNCHANGED Runners!vars
  <1>1. /\ pc[r] = "nextRelease" /\ arg[r].kind = "upgrade"
        /\ TypesOK /\ Busy(r) /\ UNCHANGED <<arg, target>> /\ Stages[r] = "working"
    BY StepWorks DEF NextRelease, KindsAt
  <1>2. UNCHANGED Fleet
    BY DEF NextRelease, cluster, Fleet, Latest, Newest
  <1>3. UNCHANGED AtWork
    <2>1. pc'[r] \in {"chartGet", "answered"}
      BY <1>1 DEF NextRelease, Answer, TypesOK, RequestOK, RequestTypeOK
    <2> QED BY <1>1, <2>1, WorkStays DEF Waiting
  <1>4. CASE pc' = [pc EXCEPT ![r] = "chartGet"] /\ UNCHANGED <<resp, outcome>>
    <2>1. UNCHANGED <<Stages, Tellings>>
      <3>1. "chartGet" \in Calls \ {"reply"}
        BY DEF Calls
      <3> QED BY <1>1, <1>4, <3>1, StaysWorking
    <2> QED BY <1>1, <1>2, <1>3, <1>4, <2>1, Stutters
  <1>5. CASE Todo(r) = {} /\ Answer(r, 200)
    <2>1. Runners!End(r, "success")
      BY <1>1, <1>5, AnswerEndsRun, FailureIsTold
    <2>2. UNCHANGED outcome
      BY <1>5 DEF Answer
    <2>3. Runners!EndUpgrade(r)
      BY <1>1, <1>2, <1>3, <1>5, <2>1, <2>2
         DEF Runners!EndUpgrade, Fleet, AtWork, Stages, Todo
    <2> QED BY <2>3 DEF Runners!Next
  <1> QED BY <1>4, <1>5 DEF NextRelease

LEMMA NsDeleteRefines ==
  ASSUME Ground, NEW r \in Reqs, Step(r), NsDelete(r)
  PROVE  Runners!Next
  <1>1. /\ pc[r] = "nsDelete" /\ arg[r].kind = "delete"
        /\ TypesOK /\ UNCHANGED <<arg, target>> /\ Stages[r] = "working"
    BY StepWorks DEF NsDelete, KindsAt
  <1>2. UNCHANGED Fleet
    BY DEF NsDelete, Fleet, Latest, Newest
  <1>3. pc' = [pc EXCEPT ![r] = "reply"] /\ UNCHANGED <<resp, outcome>>
    BY DEF NsDelete, Goto
  <1>4. UNCHANGED AtWork
    <2>1. pc'[r] = "reply"
      BY <1>1, <1>3 DEF TypesOK, RequestOK, RequestTypeOK
    <2> QED BY <1>1, <2>1, WorkStays DEF Waiting
  <1>5. Stages' = [Stages EXCEPT ![r] = "done"] /\ Tellings' = Tellings
    BY <1>1, <1>3, BecomesDone
  <1>6. Runners!Delete(r)
    BY <1>1, <1>2, <1>3, <1>4, <1>5 DEF Runners!Delete, Fleet, AtWork, Stages, Tellings
  <1> QED BY <1>6 DEF Runners!Next

LEMMA ReplyRefines ==
  ASSUME Ground, NEW r \in Reqs, Step(r), Reply(r)
  PROVE  Runners!Next
  <1>1. /\ pc[r] = "reply" /\ arg[r].kind \in {"create", "update", "delete"}
        /\ TypesOK /\ UNCHANGED <<arg, target>> /\ Stages[r] = "done"
    BY StepWorks DEF Reply, KindsAt
  <1>2. UNCHANGED Fleet
    BY DEF Reply, cluster, Fleet, Latest, Newest
  <1>3. UNCHANGED AtWork
    <2>1. pc'[r] = "answered"
      BY <1>1 DEF Reply, Answer, TypesOK, RequestOK, RequestTypeOK
    <2> QED BY <1>1, <2>1, WorkStays DEF Waiting
  <1>4. Runners!End(r, "success") /\ UNCHANGED outcome
    <2>1. SuccessCode(arg[r].kind) \in {200, 201, 204}
      BY <1>1 DEF SuccessCode
    <2>2. PICK code \in {200, 201, 204} : Answer(r, code)
      BY <2>1 DEF Reply
    <2>3. Runners!End(r, "success")
      <3>1. Runners!End(r, Told(code)) /\ Told(code) = "success"
        BY <1>1, <2>2, AnswerEndsRun, FailureIsTold
      <3> QED BY <3>1
    <2> QED BY <2>2, <2>3 DEF Answer
  <1>5. Runners!Reply(r)
    BY <1>1, <1>2, <1>3, <1>4 DEF Runners!Reply, Fleet, AtWork, Stages
  <1> QED BY <1>5 DEF Runners!Next

LEMMA StepRunnersRefine ==
  ASSUME Ground, ReportInv, DeployInv, NEW r \in Reqs, Step(r)
  PROVE  Runners!Next \/ UNCHANGED Runners!vars
  BY StepEnds, MovesRefine, FailsRefine, ContinueRefines, EndRefines, ListRefines,
     NextReleaseRefines, NsDeleteRefines, ReplyRefines

-----------------------------------------------------------------------------
(* The goroutines that were left behind. *)

LEMMA LateRefines ==
  ASSUME Ground, ReportInv, DeployInv, NEW j \in late, Late(j)
  PROVE  Runners!Next \/ UNCHANGED Runners!vars
  <1>1. PICK t : t = j.team
    OBVIOUS
  <1>2. t \in Teams /\ j.by \in Reqs /\ j.own \in Revision /\ TypesOK /\ [Next]_vars
    BY <1>1, IInvParts DEF Ground, TypesOK, BoundTypeOK, Job, Next
  <1>3. UNCHANGED <<target, arg, Stages, Tellings, outcome>>
    <2>1. UNCHANGED <<target, arg, pc, resp, outcome>>
      BY <1>2, LateIsAbout
    <2> QED BY <2>1 DEF Stages, Stage, Tellings
  <1>4. UNCHANGED AtWork
    <2>1. \A u \in Teams, o \in Reqs : Deploys(o, u)' <=> Deploys(o, u)
      BY LateIsAbout
    <2> QED BY <2>1 DEF AtWork
  <1>5. \A u \in Teams \ {t} : Fleet'[u] = Fleet[u]
    <2>1. \A u \in Teams \ {t} : hist'[u] = hist[u]
      BY <1>1, LateIsAbout DEF Jobs
    <2> QED BY <2>1 DEF Fleet, Latest
  <1>6. CASE Latest(t)' = Latest(t)
    BY <1>2, <1>3, <1>4, <1>5, <1>6, FleetStays, Stutters
  <1>7. CASE Runners!Doomed(t)
    <2>1. Fleet'[t] \in Runners!Anything(t)
      BY <1>2, LateConfigs, DoomedShows DEF Known
    <2>2. Runners!Show(t, {})
      BY <1>2, <1>5, <1>7, <2>1, ShowsWhen
    <2>3. Runners!Vanish(t)
      BY <1>3, <1>4, <1>7, <2>2 DEF Runners!Vanish, AtWork, Stages, Tellings
    <2> QED BY <1>2, <2>3 DEF Runners!Next
  <1>8. CASE Undeleted(t) /\ Latest(t)' # Latest(t)
    <2>1. RevisionsApart(t) /\ Follows(t) /\ LatePlace(j)
      BY <1>2, <1>8, DeployInvIs DEF ReportInv
    <2>2. hist'[t] # hist[t]
      BY <1>8 DEF Latest
    <2>3. PICK S : /\ j \in Jobs(t) /\ LateRewrites(j, S)
                   /\ hist'[t] = Updated(hist[t], S)
      BY <1>2, <2>2, LateIsAbout
    <2>4. \A x \in Latest(t)' : \/ x \in Latest(t)
                                \/ /\ j.base = {} /\ x = As(j.own, "deployed")
                                   /\ j.own \in Latest(t)
      BY <1>2, <2>1, <2>3, LateLatest
    <2>5. \A x, y \in Latest(t)' : x = y
      BY <1>2, <2>3, LatestAfter
    <2>6. Latest(t) # {} => Latest(t)' # {}
      BY <1>2, <2>3, LatestRemains
    <2>7. PICK x \in Latest(t)' : x \notin Latest(t)
      <3>1. SUFFICES ASSUME \A y \in Latest(t)' : y \in Latest(t) PROVE FALSE
        OBVIOUS
      <3>2. \A v, w \in Latest(t) : v = w
        BY <1>2, LatestIsOne
      <3> QED BY <1>8, <2>6, <3>1, <3>2
    <2>8. /\ j.base = {} /\ x = As(j.own, "deployed") /\ j.own \in Latest(t)
          /\ Latest(t)' = {x} /\ Latest(t) = {j.own}
      BY <1>2, <2>4, <2>5, <2>7, LatestIsOne
    <2>9. j.own.status = "failed"
      <3>1. j.own.status \notin Pending
        <4>1. j.own \in Owns(t)
          BY <2>3 DEF Owns, Jobs
        <4> QED BY <2>1, <4>1 DEF RevisionsApart
      <3>2. j.own.status # "deployed"
        BY <1>2, <2>7, <2>8 DEF As, Revision
      <3> QED BY <2>1, <2>8, <3>1, <3>2 DEF Follows
    <2>10. /\ arg[j.by].kind = "create" /\ resp[j.by] = 500 /\ j.by \in gone
           /\ arg[j.by].team = t /\ j.own.cfg \in Runners!Of(j.by, t)
      BY <1>1, <2>1, <2>8 DEF LatePlace
    <2> DEFINE w == Shown(j.own)
    <2>11. Fleet[t] = {w} /\ Fleet'[t] = {[w EXCEPT !.status = "deployed"]}
      <3>1. Fleet[t] = {w} /\ Fleet'[t] = {Shown(x)}
        BY <1>2, <2>8 DEF Fleet
      <3>2. Shown(x) = [w EXCEPT !.status = "deployed"]
        BY <1>2, <2>8 DEF Shown, As, Revision, Pending
      <3> QED BY <3>1, <3>2
    <2>12. w.status = "failed" /\ w.cfg = j.own.cfg
      BY <2>9 DEF Shown, Pending
    <2> HIDE DEF w
    <2>13. Fleet' = [Fleet EXCEPT ![t] = {[v EXCEPT !.status = "deployed"] : v \in @}]
      <3>1. Fleet'[t] = {[v EXCEPT !.status = "deployed"] : v \in Fleet[t]}
        BY <2>11
      <3> QED BY <1>2, <1>5, <3>1 DEF Fleet
    <2>14. \E v \in Fleet[t] : v.status = "failed" /\ v.cfg \in Runners!Of(j.by, t)
      BY <2>10, <2>11, <2>12
    <2>15. Tellings[j.by] = "failure"
      BY <1>2, <2>10, FailureIsTold DEF Tellings
    <2>16. PICK r \in Reqs : r = j.by
      BY <1>2
    <2>17. Runners!DeployLate(r)
      BY <1>3, <1>4, <2>10, <2>13, <2>14, <2>15, <2>16
         DEF Runners!DeployLate, Fleet, AtWork, Stages, Tellings
    <2> QED BY <2>17 DEF Runners!Next
  <1> QED BY <1>6, <1>7, <1>8, DoomedOrNot

-----------------------------------------------------------------------------
(* The world around the handlers. *)

LEMMA ReceiveAsks ==
  ASSUME Ground, NEW r \in Reqs, Receive(r)
  PROVE  Runners!Next
  <1>1. /\ pc \in [Reqs -> Calls \union {"idle", "answered", "dead"}]
        /\ DOMAIN resp = Reqs
    BY IInvParts DEF Ground, TypesOK, RequestOK, RequestTypeOK
  <1>2. PICK q \in Offered :
          /\ arg' = [arg EXCEPT ![r] = q]
          /\ \/ /\ pc' = [pc EXCEPT ![r] = "answered"]
                /\ resp' = [resp EXCEPT ![r] = 422]
             \/ /\ pc' = [pc EXCEPT ![r] = EntryCall(q)]
                /\ UNCHANGED resp
    BY ReceiveIs
  <1>3. UNCHANGED <<Fleet, target, outcome>> /\ pc[r] = "idle"
    BY DEF Receive, cluster, bounds, Fleet, Latest
  <1>4. Stages[r] = "new"
    BY <1>3 DEF Stages, Stage, Calls
  <1>5. UNCHANGED AtWork
    <2>1. EntryCall(q) \notin Waiting
      BY ApiAssumption DEF Request, Kinds, EntryCall, Waiting
    <2>2. pc'[r] \notin Waiting /\ pc[r] \notin Waiting
          /\ \A o \in Reqs \ {r} : pc'[o] = pc[o] /\ cur'[o] = cur[o]
      BY <1>1, <1>2, <1>3, <2>1 DEF Receive, Waiting
    <2>3. \A o \in Reqs, u \in Teams : Deploys(o, u)' <=> Deploys(o, u)
      BY <2>2 DEF Deploys
    <2> QED BY <2>3 DEF AtWork
  <1>6. CASE pc' = [pc EXCEPT ![r] = "answered"] /\ resp' = [resp EXCEPT ![r] = 422]
    <2>1. Stage(r)' = "refused" /\ \A o \in Reqs \ {r} : Stage(o)' = Stage(o)
      BY <1>1, <1>6 DEF Stage, Calls
    <2>2. Stages' = [Stages EXCEPT ![r] = "refused"]
      BY <2>1 DEF Stages
    <2>3. Tellings' = [Tellings EXCEPT ![r] = "failure"]
      BY <1>1, <1>6, EndPhases DEF Tellings
    <2>4. Runners!Ask(r)
      BY <1>2, <1>3, <1>4, <1>5, <2>2, <2>3 DEF Fleet, AtWork, Stages, Tellings, Runners!Ask
    <2> QED BY <2>4 DEF Runners!Next
  <1>7. CASE pc' = [pc EXCEPT ![r] = EntryCall(q)] /\ UNCHANGED resp
    <2>1. EntryCall(q) \in Calls \ {"reply"}
      BY ApiAssumption DEF Request, Kinds, EntryCall, Calls
    <2>2. Stage(r)' = "working" /\ \A o \in Reqs \ {r} : Stage(o)' = Stage(o)
      BY <1>1, <1>7, <2>1 DEF Stage, Calls
    <2>3. Stages' = [Stages EXCEPT ![r] = "working"]
      BY <2>2 DEF Stages
    <2>4. UNCHANGED Tellings
      BY <1>7 DEF Tellings
    <2>5. Runners!Ask(r)
      BY <1>2, <1>3, <1>4, <1>5, <2>3, <2>4 DEF Fleet, AtWork, Stages, Tellings, Runners!Ask
    <2> QED BY <2>5 DEF Runners!Next
  <1> QED BY <1>2, <1>6, <1>7

LEMMA CrashKills ==
  ASSUME Ground, Crash
  PROVE  Runners!Next
  <1>1. TypesOK /\ pc \in [Reqs -> Calls \union {"idle", "answered", "dead"}]
    BY IInvParts DEF Ground, TypesOK, RequestOK, RequestTypeOK
  <1>2. /\ UNCHANGED <<Fleet, arg, resp, outcome>> /\ target' \in Charts
        /\ pc' = [r \in Reqs |-> IF Busy(r) THEN "dead" ELSE pc[r]]
    BY DEF Crash, cluster, Fleet, Latest
  <1>3. ASSUME NEW r \in Reqs
        PROVE  Stage(r)' = IF Stage(r) \in {"working", "done"} THEN "dead" ELSE Stage(r)
    <2>1. CASE Busy(r)
      <3>1. pc'[r] = "dead"
        BY <1>2, <2>1
      <3>2. Stage(r)' = "dead"
        BY <3>1 DEF Stage, Calls
      <3> QED BY <1>1, <2>1, <3>2, StageMoves
    <2>2. CASE ~Busy(r)
      <3>1. pc'[r] = pc[r] /\ resp'[r] = resp[r]
        BY <1>2, <2>2
      <3>2. Stage(r)' = Stage(r)
        BY <3>1 DEF Stage
      <3> QED BY <1>1, <2>2, <3>2, StageMoves
    <2> QED BY <2>1, <2>2
  <1>4. Stages' = [r \in Reqs |-> IF Stages[r] \in {"working", "done"} THEN "dead"
                                  ELSE Stages[r]]
    BY <1>3 DEF Stages
  <1>5. AtWork' = [t \in Teams |-> {}]
    <2>1. \A r \in Reqs : pc'[r] \notin Waiting
      BY <1>1, <1>2 DEF Busy, Waiting, Calls
    <2> QED BY <2>1 DEF AtWork, Deploys
  <1>6. UNCHANGED Tellings
    BY <1>2 DEF Tellings
  <1>7. Runners!Crash
    BY <1>2, <1>4, <1>5, <1>6 DEF Fleet, AtWork, Stages, Tellings, Runners!Crash
  <1> QED BY <1>7 DEF Runners!Next

\* A namespace that goes takes the runner with it; somebody wanted that.
LEMMA RunnerVanishes ==
  ASSUME Ground, NEW t \in Teams, NsEmpty(t), Namespaces
  PROVE  Runners!Next
  <1>1. Runners!Doomed(t)
    BY UndeletedStands, DoomedOrNot DEF NsEmpty
  <1>2. UNCHANGED <<arg, pc, cur, resp, outcome, target>>
    BY DEF Namespaces, request, bounds
  <1>3. hist \in [Teams -> SUBSET Revision] /\ hist' = [hist EXCEPT ![t] = {}]
    BY IInvParts DEF Ground, TypesOK, ClusterTypeOK, NsEmpty
  <1>4. Latest(t)' = {} /\ \A u \in Teams \ {t} : hist'[u] = hist[u]
    BY <1>3 DEF Latest, Newest
  <1>5. Fleet'[t] = {} /\ \A u \in Teams \ {t} : Fleet'[u] = Fleet[u]
    BY <1>4 DEF Fleet, Latest
  <1>6. Runners!Show(t, {})
    BY <1>1, <1>5, ShowsWhen DEF Runners!Anything
  <1>7. UNCHANGED <<AtWork, Stages, Tellings>>
    BY <1>2 DEF AtWork, Deploys, Stages, Stage, Tellings
  <1>8. Runners!Vanish(t)
    BY <1>1, <1>2, <1>6, <1>7 DEF AtWork, Stages, Tellings, Runners!Vanish
  <1> QED BY <1>8 DEF Runners!Next

LEMMA InitRunners == Init => Runners!Init
  <1> SUFFICES ASSUME Init PROVE Runners!Init
    OBVIOUS
  <1>1. PICK P \in SUBSET Provisioned :
          hist = [u \in Teams |->
              IF u \in P
              THEN {[rev |-> 1, status |-> "deployed", chart |-> Installed,
                     cfg |-> [url |-> Prior, rest |-> Prior]]}
              ELSE {}]
    BY DEF Init
  <1>2. Installed \in Charts /\ target \in Charts
    BY ApiAssumption DEF Init
  <1>3. ASSUME NEW t \in Teams
        PROVE  \/ Fleet[t] = {}
               \/ \E v \in Charts, c \in Runners!Configs(t) :
                     Fleet[t] = {Runners!Runner("deployed", v, c)}
    <2>1. CASE t \notin P
      BY <1>1, <2>1 DEF Fleet, Latest, Newest
    <2>2. CASE t \in P
      <3> DEFINE c == [url |-> Prior, rest |-> Prior]
                 v == [rev |-> 1, status |-> "deployed", chart |-> Installed, cfg |-> c]
      <3>1. c \in Runners!Configs(t)
        BY DEF Runners!Configs
      <3>2. Latest(t) = {v}
        BY <1>1, <2>2 DEF Latest, Newest
      <3>3. Fleet[t] = {Shown(v)}
        BY <3>2 DEF Fleet
      <3>4. Shown(v) = Runners!Runner("deployed", Installed, c)
        BY DEF Shown, Pending, Runners!Runner
      <3> QED BY <1>2, <3>1, <3>3, <3>4
    <2> QED BY <2>1, <2>2
  <1>4. arg = [r \in Reqs |-> NoRequest] /\ outcome = [r \in Reqs |-> NoOutcome]
    BY DEF Init
  <1>5. Stages = [r \in Reqs |-> "new"] /\ Tellings = [r \in Reqs |-> "nothing"]
    BY EndPhases DEF Init, Stages, Stage, Calls, Tellings
  <1>6. AtWork = [t \in Teams |-> {}]
    BY DEF Init, AtWork, Deploys, Waiting
  <1> QED BY <1>2, <1>3, <1>4, <1>5, <1>6 DEF Fleet, AtWork, Stages, Tellings, Runners!Init

LEMMA NextRunners ==
  Ground /\ ReportInv /\ DeployInv /\ [Next]_vars => [Runners!Next]_(Runners!vars)
  <1> SUFFICES ASSUME Ground, ReportInv, DeployInv, [Next]_vars
               PROVE  Runners!Next \/ UNCHANGED Runners!vars
    OBVIOUS
  <1>1. ASSUME UNCHANGED <<hist, target, arg, pc, cur, resp, outcome>>
        PROVE  UNCHANGED Runners!vars
    <2>1. UNCHANGED <<Fleet, AtWork, Stages, Tellings>>
      BY <1>1 DEF Fleet, Latest, AtWork, Deploys, Stages, Stage, Tellings
    <2> QED BY <1>1, <2>1, Stutters
  <1>2. ASSUME NEW r \in Reqs, Receive(r) \/ Step(r) \/ Cancel(r)
        PROVE  Runners!Next \/ UNCHANGED Runners!vars
    BY <1>1, <1>2, ReceiveAsks, StepRunnersRefine DEF Cancel, cluster, request
  <1>3. CASE Namespaces
    <2>1. PICK t \in Teams : NsEmpty(t) \/ NsGone(t)
      BY <1>3 DEF Namespaces
    <2> QED BY <1>1, <1>3, <2>1, RunnerVanishes DEF NsGone, Namespaces, request, bounds
  <1> QED BY <1>1, <1>2, <1>3, CrashKills, LateRefines DEF Next, vars, cluster, request, bounds

\* Install, upgradeWithChart, UpgradeChart, Uninstall and the handlers that
\* call them: every behaviour of the handlers is one of the service.
THEOREM RunnersFollowRequests == Spec => RunnersAreRequested
  <1>1. Spec => []Ground
    BY InitGround, NextGround, PTL DEF Spec
  <1> QED BY <1>1, ReportInvariance, DeployInvariance, InitRunners, NextRunners, PTL
          DEF Spec, RunnersAreRequested, Runners!Spec

=============================================================================
