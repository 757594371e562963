---------------------- MODULE RunnerUndisturbedProofs ----------------------
(***************************************************************************)
(* A request that meets no fault and no rival has its team to itself: a    *)
(* create succeeds and an upgrade keeps the values it has to keep, for any *)
(* sets of teams, requests and chart versions and any bounds.              *)
(***************************************************************************)
EXTENDS RunnerReportProofs

\* A step of r changes the stores of no team but the one r works on.
LEMMA StepKeepsToTeam ==
  ASSUME TypesOK, NEW r \in Reqs, Step(r), NEW t \in Teams, cur[r] # t
  PROVE  ns'[t] = ns[t] /\ secret'[t] = secret[t] /\ hist'[t] = hist[t]
  <1>1. /\ ns \in [Teams -> NsState] /\ secret \in [Teams -> SecretState]
        /\ hist \in [Teams -> SUBSET Revision]
    BY DEF TypesOK, ClusterTypeOK
  <1>2. ns'[t] = ns[t]
    BY <1>1, StepNamespace DEF Created
  <1>3. secret'[t] = secret[t]
    BY <1>1, StepSecret DEF Written
  <1>4. hist'[t] = hist[t]
    BY StepHistory
  <1> QED BY <1>2, <1>3, <1>4

-----------------------------------------------------------------------------
(* What an undisturbed request relies on stays so while others step. *)

\* Whose step it may be: only that of a request for another team.
LEMMA RivalsAreElsewhere ==
  ASSUME Ground, NEW r \in Reqs, NEW o \in Reqs, Busy(r), Busy(o), o # r,
         Rivals(arg[r]) = {r}
  PROVE  /\ arg[r].kind # "upgrade" /\ arg[o].kind # "upgrade"
         /\ arg[o].team # arg[r].team
         /\ cur[r] = arg[r].team /\ cur[o] = arg[o].team
  BY DEF Rivals, Ground, OnItsTeam

\* A step that ends with the request undisturbed was served without a fault.
LEMMA NoFaultMet ==
  ASSUME NEW r \in Reqs, r \notin disturbed'
  PROVE  /\ ~Fault(r)
         /\ r \notin gone => ~Broken(r)
  BY DEF Fault, Broken

LEMMA StepDisturbs ==
  ASSUME NEW r \in Reqs, Step(r)
  PROVE  disturbed \subseteq disturbed'
  <1> DEFINE Counted == Healthy \/ Fault(r) \/ disturbed' = disturbed \union {r}
  <1>1. NsGet(r) \/ NsCreate(r) \/ SecretGet(r) => Counted
    BY DEF NsGet, NsCreate, SecretGet, Served, Broken
  <1>2. SecretCreate(r) \/ SecretUpdate(r) => Counted
    BY DEF SecretCreate, SecretUpdate, WriteSecret, Served, Broken
  <1>3. ChartUnavailable(r) \/ InstallGet(r) \/ InstallRun(r) => Counted
    BY DEF ChartUnavailable, InstallGet, InstallRun
  <1>4. InstallWait(r) \/ UpgradeWait(r) \/ UpgradeRecord(r) \/ RunFails(r) => Counted
    BY DEF InstallWait, UpgradeWait, UpgradeRecord, RunFails
  <1>5. UpgradeGet(r) \/ ChartGet(r) \/ UpgradeRun(r) => Counted
    BY DEF UpgradeGet, ChartGet, UpgradeRun
  <1>6. List(r) \/ NextRelease(r) \/ Reply(r) \/ Abandoned(r) => Counted
    BY DEF List, NextRelease, Reply, Abandoned
  <1>7. UninstallRun(r) \/ UninstallWait(r) \/ NsDelete(r) => Counted
    BY DEF UninstallRun, UninstallWait, NsDelete, DeleteNamespace
  <1> HIDE DEF Counted
  <1>8. Counted
    BY <1>1, <1>2, <1>3, <1>4, <1>5, <1>6, <1>7 DEF Step
  <1> QED BY <1>8 DEF Counted, Healthy, Fault

\* Nobody leaves anything behind where an undisturbed request works, unless it
\* is that request.
LEMMA StaysQuiet ==
  ASSUME Ground, NEW r \in Reqs, Step(r), NEW o \in Reqs, Busy(o), Rivals(arg[o]) = {o},
         ~StillBusy(arg[o]), o \notin disturbed'
  PROVE  ~StillBusy(arg[o])'
  <1>1. arg' = arg /\ Busy(r)
    BY StepLeavesOthers
  <1>2. CASE late' = late
    BY <1>1, <1>2 DEF StillBusy
  <1>3. CASE late' = late \union {Left(r)} /\ Abandoned(r)
    <2>1. o # r
      BY <1>3 DEF Abandoned
    <2>2. PICK job : job = Left(r)
      OBVIOUS
    <2>3. /\ arg[o].kind # "upgrade" /\ arg[r].team # arg[o].team
          /\ cur[r] = arg[r].team
      BY <1>1, <2>1, RivalsAreElsewhere
    <2>4. job.team # arg[o].team /\ late' = late \union {job}
      BY <1>3, <2>2, <2>3 DEF Left
    <2> QED BY <1>1, <2>3, <2>4 DEF StillBusy
  <1> QED BY <1>2, <1>3 DEF Step, Abandoned, Left

LEMMA OthersKeepRecent ==
  ASSUME Ground, NEW r \in Reqs, Step(r), NEW o \in Reqs \ {r}, Busy(o),
         Rivals(arg[o]) = {o}, Recent(o)
  PROVE  Recent(o)'
  <1>1. TypesOK /\ Busy(r)
    BY IInvParts, StepLeavesOthers DEF Ground
  <1>2. arg[o].kind # "upgrade" /\ cur[r] # cur[o]
    BY <1>1, RivalsAreElsewhere
  <1>3. cur[o] \in Teams
    <2>1. /\ arg[o].kind \in KindsAt(pc[o])
          /\ pc[o] \notin {"list", "nextRelease"} => cur[o] \in Teams
      BY <1>1, AtCall DEF TypesOK, Busy
    <2> QED BY <1>2, <2>1 DEF KindsAt
  <1>4. /\ ns'[cur[o]] = ns[cur[o]] /\ secret'[cur[o]] = secret[cur[o]]
        /\ hist'[cur[o]] = hist[cur[o]]
    BY <1>1, <1>2, <1>3, StepKeepsToTeam
  <1>5. UNCHANGED <<pc[o], cur[o], loc[o], arg>>
    BY StepLeavesOthers
  <1>6. /\ Latest(cur[o])' = Latest(cur[o])
        /\ Revs(cur[o])' = Revs(cur[o])
    BY <1>4, <1>5 DEF Latest, Newest, Revs
  <1> QED BY <1>4, <1>5, <1>6 DEF Recent, Wanted, Stored

-----------------------------------------------------------------------------
(* What an undisturbed request relies on after a step of its own. *)

\* The values laid over a release's own are those the request wants.
LEMMA MergedIsWanted ==
  ASSUME NEW r \in Reqs, NEW v \in Revision, arg[r].kind # "upgrade"
  PROVE  Merged(r, v.cfg) = Wanted(r, v)
  <1>1. r # None
    BY ClusterAssumption DEF Writers
  <1>2. BuiltValues(r).rest = r /\ BuiltValues(r).url = IF arg[r].url THEN r ELSE None
    BY DEF BuiltValues
  <1>3. /\ Merged(r, v.cfg) = [k \in {"url", "rest"} |->
                IF BuiltValues(r)[k] = None THEN v.cfg[k] ELSE BuiltValues(r)[k]]
        /\ Wanted(r, v) = [url |-> IF arg[r].url THEN r ELSE v.cfg.url, rest |-> r]
    BY DEF Merged, Wanted
  <1> QED BY <1>1, <1>2, <1>3

LEMMA OwnStepKeepsRecent ==
  ASSUME Ground, NEW r \in Reqs, Step(r), Busy(r)', r \notin disturbed',
         arg[r].kind = "create" => arg[r].url, Recent(r)
  PROVE  Recent(r)'
  <1>1. TypesOK /\ TypesOK'
    BY IInvParts, NextTypes DEF Ground, Next
  <1>2. /\ hist \in [Teams -> SUBSET Revision]
        /\ secret \in [Teams -> SecretState]
        /\ pc \in [Reqs -> Calls \union {"idle", "answered", "dead"}]
        /\ loc \in [Reqs -> Local] /\ cur \in [Reqs -> Teams \union {None}]
    BY <1>1 DEF TypesOK, ClusterTypeOK, RequestOK, RequestTypeOK
  <1>3. /\ arg[r].kind \in KindsAt(pc[r]) /\ arg' = arg
        /\ pc[r] \notin {"list", "nextRelease"} => cur[r] \in Teams
    BY <1>1, StepLeavesOthers, AtCall DEF TypesOK, Busy
  <1>4. ~Fault(r) /\ ~\E code : Answer(r, code)
    BY <1>2, NoFaultMet DEF Busy, Calls, Answer
  <1>5. ASSUME NEW call \in {"nsGet", "nsCreate", "secretGet", "installGet", "installWait",
                             "chartGet", "list", "nextRelease", "uninstallRun",
                             "uninstallWait", "nsDelete", "reply"},
               pc'[r] = call
        PROVE  Recent(r)'
    BY <1>5 DEF Recent
  <1>6. ASSUME NEW res, HelmReturns(r, res) PROVE Recent(r)'
    BY <1>2, <1>4, <1>5, <1>6 DEF HelmReturns, Goto
  <1>7. CASE NsGet(r) \/ NsCreate(r)
    BY <1>2, <1>4, <1>5, <1>7 DEF NsGet, NsCreate, Goto
  <1>8. CASE SecretGet(r)
    <2>1. /\ Goto(r, IF secret[cur[r]].exists THEN "secretUpdate" ELSE "secretCreate",
                  Read(secret[cur[r]]))
          /\ UNCHANGED cluster
      BY <1>4, <1>8 DEF SecretGet
    <2>2. /\ pc'[r] = IF secret[cur[r]].exists THEN "secretUpdate" ELSE "secretCreate"
          /\ cur' = cur /\ secret' = secret
          /\ loc'[r].seen = secret[cur[r]]
      BY <1>2, <2>1 DEF Goto, Read, NoLocal, cluster
    <2> QED BY <2>2 DEF Recent
  <1>9. CASE SecretCreate(r) \/ SecretUpdate(r)
    <2>1. Goto(r, AfterSecret(r), NoLocal)
      BY <1>4, <1>9 DEF SecretCreate, SecretUpdate, WriteSecret
    <2>2. CASE arg[r].kind = "create"
      BY <1>2, <1>5, <2>1, <2>2 DEF AfterSecret, Goto
    <2>3. CASE arg[r].kind # "create"
      <3>1. pc'[r] = "upgradeGet" /\ arg'[r].kind # "create"
        BY <1>2, <1>3, <2>1, <2>3 DEF AfterSecret, Goto
      <3> QED BY <3>1 DEF Recent
    <2> QED BY <2>2, <2>3
  <1>10. CASE ChartUnavailable(r)
    BY <1>4, <1>10 DEF ChartUnavailable
  <1>11. CASE InstallGet(r)
    <2>1. CASE hist[cur[r]] = {} /\ Goto(r, "installRun", Built(BuiltValues(r)))
      <3>1. pc'[r] = "installRun" /\ cur' = cur /\ hist' = hist
        BY <1>2, <1>11, <2>1 DEF InstallGet, Goto, cluster
      <3> QED BY <2>1, <3>1 DEF Recent
    <2>2. ASSUME NEW v \in Latest(cur[r]), Goto(r, "upgradeGet", NoLocal)
          PROVE  Recent(r)'
      <3>1. pc'[r] = "upgradeGet" /\ cur' = cur /\ hist' = hist
        BY <1>2, <1>11, <2>2 DEF InstallGet, Goto, cluster
      <3>2. hist[cur[r]] # {}
        BY <2>2 DEF Latest, Newest
      <3> QED BY <3>1, <3>2 DEF Recent
    <2> QED BY <1>4, <1>6, <1>11, <2>1, <2>2 DEF InstallGet
  <1>12. CASE InstallRun(r)
    <2>1. \/ Goto(r, "installWait", Deploying(r, 1, {}))
          \/ \E res : HelmReturns(r, res)
      BY <1>12 DEF InstallRun
    <2> QED BY <1>2, <1>5, <1>6, <2>1 DEF Goto
  <1>13. CASE InstallWait(r) \/ UpgradeRecord(r) \/ RunFails(r) \/ Abandoned(r)
    BY <1>6, <1>13 DEF InstallWait, UpgradeRecord, RunFails, Abandoned
  <1>19. CASE UpgradeWait(r)
    <2>1. PICK S : hist' = Recorded(cur[r], S)
      <3>1. UNCHANGED hist => hist' = Recorded(cur[r], {})
        BY <1>2, UpdatedNothing DEF Recorded
      <3> QED BY <1>19, <3>1 DEF UpgradeWait, Unsure
    <2>2. /\ pc[r] = "upgradeWait" /\ pc'[r] = "upgradeRecord"
          /\ UNCHANGED <<cur, loc, ns>> /\ cur[r] \in Teams
      BY <1>2, <1>3, <1>19 DEF UpgradeWait, Goto
    <2>3. hist'[cur[r]] = Updated(hist[cur[r]], S)
      BY <1>2, <2>1, <2>2 DEF Recorded
    <2>4. Stored(cur[r], loc[r].rev) => Stored(cur[r], loc[r].rev)'
      <3>1. \A v \in hist[cur[r]] : \E w \in Updated(hist[cur[r]], S) : w.rev = v.rev
        BY RewritesKeepNumbers
      <3>2. SUFFICES ASSUME NEW v \in hist[cur[r]], v.rev = loc[r].rev
                     PROVE  \E w \in hist'[cur[r]] : w.rev = loc[r].rev
        BY <2>2 DEF Stored, Revs
      <3> QED BY <2>3, <3>1, <3>2
    <2> QED BY <2>2, <2>4 DEF Recent
  <1>14. CASE UpgradeGet(r)
    <2>1. pc[r] = "upgradeGet" /\ arg[r].kind # "upgrade" /\ cur[r] \in Teams
      BY <1>3, <1>14 DEF UpgradeGet, KindsAt
    <2>2. PICK old :
            /\ Goto(r, "upgradeRun", Built(Merged(r, old)))
            /\ UNCHANGED cluster
            /\ \/ hist[cur[r]] = {} /\ old = NoConfig
               \/ \E v \in Latest(cur[r]) : old = v.cfg
      BY <1>4, <1>14 DEF UpgradeGet
    <2>3. /\ pc'[r] = "upgradeRun" /\ cur' = cur /\ ns' = ns /\ hist' = hist
          /\ loc'[r].cfg = Merged(r, old) /\ Latest(cur[r])' = Latest(cur[r])
      BY <1>2, <2>2 DEF Goto, cluster, Built, NoLocal, Latest, Newest
    <2>4. \A v \in Latest(cur[r]) : loc'[r].cfg = Wanted(r, v)
      <3>1. TAKE v \in Latest(cur[r])
      <3>2. v \in hist[cur[r]] /\ v \in Revision
        BY <1>2, <2>1 DEF Latest, Newest
      <3>3. old = v.cfg
        BY <2>1, <2>2, <3>1, <3>2, LatestIsOne
      <3> QED BY <2>1, <2>3, <3>2, <3>3, MergedIsWanted
    <2>5. arg[r].kind = "create" => loc'[r].cfg.url # None
      <3>1. r # None
        BY ClusterAssumption DEF Writers
      <3>2. arg[r].url => Merged(r, old).url = r
        BY <3>1 DEF Merged, BuiltValues
      <3> QED BY <2>3, <3>1, <3>2
    <2>6. arg[r].kind = "create" => hist[cur[r]] # {} \/ ns[cur[r]] # "active"
      BY <2>1 DEF Recent
    <2>7. \A v \in Latest(cur[r]) : loc'[r].cfg = Wanted(r, v)'
      BY <1>3, <2>4 DEF Wanted
    <2> QED BY <1>3, <2>3, <2>5, <2>6, <2>7 DEF Recent
  <1>15. CASE ChartGet(r)
    <2>1. pc[r] = "chartGet" /\ arg[r].kind = "upgrade" /\ cur[r] \in Teams
      BY <1>3, <1>15 DEF ChartGet, KindsAt
    <2>2. CASE \E res : HelmReturns(r, res)
      BY <1>6, <2>2
    <2>3. ASSUME NEW v \in Latest(cur[r]), Goto(r, "upgradeRun", Built(v.cfg))
          PROVE  Recent(r)'
      <3>1. UNCHANGED cluster
        BY <1>15 DEF ChartGet
      <3>2. /\ pc'[r] = "upgradeRun" /\ cur' = cur /\ loc'[r].cfg = v.cfg
            /\ Latest(cur[r])' = Latest(cur[r])
        BY <1>2, <2>3, <3>1 DEF Goto, cluster, Built, NoLocal, Latest, Newest
      <3>3. \A w \in Latest(cur[r]) : loc'[r].cfg = Wanted(r, w)'
        BY <1>3, <2>1, <2>3, <3>2, LatestIsOne DEF Wanted
      <3> QED BY <1>3, <2>1, <3>2, <3>3 DEF Recent
    <2> QED BY <1>15, <2>2, <2>3 DEF ChartGet
  <1>16. CASE UpgradeRun(r)
    <2>1. CASE \E res : HelmReturns(r, res)
      BY <1>6, <2>1
    <2>2. ASSUME NEW v \in Latest(cur[r]),
                 hist' = [hist EXCEPT ![cur[r]] = StoreIn(@,
                            [rev |-> v.rev + 1, status |-> "pending-upgrade",
                             chart |-> target, cfg |-> loc[r].cfg])],
                 Goto(r, "upgradeWait", Deploying(r, v.rev + 1, Base(cur[r], v)))
          PROVE  Recent(r)'
      <3>1. \E w \in hist'[cur[r]] : w.rev = v.rev + 1
        <4> DEFINE p == [rev |-> v.rev + 1, status |-> "pending-upgrade",
                         chart |-> target, cfg |-> loc[r].cfg]
        <4>1. cur[r] \in Teams
          BY <1>3, <1>16 DEF UpgradeRun
        <4>2. hist'[cur[r]] = StoreIn(hist[cur[r]], p)
          BY <1>2, <2>2, <4>1
        <4>3. p \in hist'[cur[r]] /\ p.rev = v.rev + 1
          BY <4>2 DEF StoreIn
        <4> QED BY <4>3
      <3>2. pc'[r] = "upgradeWait" /\ cur' = cur /\ loc'[r].rev = v.rev + 1
        BY <1>2, <2>2 DEF Goto, Deploying, Local
      <3> QED BY <3>1, <3>2 DEF Recent, Stored, Revs
    <2> QED BY <1>16, <2>1, <2>2 DEF UpgradeRun
  <1>17. CASE List(r) \/ NextRelease(r)
    BY <1>2, <1>4, <1>5, <1>17 DEF List, NextRelease
  <1>18. CASE UninstallRun(r) \/ UninstallWait(r) \/ NsDelete(r)
    <2>1. \/ \E x : Goto(r, "uninstallWait", x) \/ Goto(r, "reply", x)
          \/ \E res : HelmReturns(r, res)
      BY <1>4, <1>18 DEF UninstallRun, UninstallWait, NsDelete
    <2> QED BY <1>2, <1>5, <1>6, <2>1 DEF Goto
  <1>20. CASE Reply(r)
    BY <1>4, <1>20 DEF Reply
  <1> QED
    BY <1>7, <1>8, <1>9, <1>10, <1>11, <1>12, <1>13, <1>14, <1>15, <1>16, <1>17,
       <1>18, <1>19, <1>20 DEF Step

-----------------------------------------------------------------------------
(* The invariant. *)

LEMMA UndisturbedInit == Init => UndisturbedInv
  <1> SUFFICES ASSUME Init PROVE UndisturbedInv
    OBVIOUS
  <1>1. \A r \in Reqs : ~Busy(r)
    BY DEF Init, Busy, Calls
  <1> QED BY <1>1 DEF UndisturbedInv

\* Steps of the handlers.
LEMMA StepUndisturbed ==
  ASSUME Ground, UndisturbedInv, NEW r \in Reqs, Step(r)
  PROVE  UndisturbedInv'
  <1>1. TypesOK
    BY IInvParts DEF Ground
  <1>3. ASSUME NEW o \in Reqs, Busy(o)'
        PROVE  /\ arg'[o].kind = "create" => arg'[o].url
               /\ o \notin disturbed' =>
                     Rivals(arg[o])' = {o} /\ ~StillBusy(arg[o])' /\ Recent(o)'
    <2>1. Busy(o)
      BY <1>3, StepLeavesOthers DEF Busy
    <2>2. arg[o].kind = "create" => arg[o].url
      BY <2>1 DEF UndisturbedInv
    <2>3. ASSUME o \notin disturbed'
          PROVE  Rivals(arg[o])' = {o} /\ ~StillBusy(arg[o])' /\ Recent(o)'
      <3>1. Rivals(arg[o]) = {o} /\ ~StillBusy(arg[o]) /\ Recent(o)
        BY <2>1, <2>3, StepDisturbs DEF UndisturbedInv
      <3>2. \A q \in Reqs : Busy(q)' => Busy(q)
        BY StepLeavesOthers DEF Busy
      <3>3. Rivals(arg[o])' = {o}
        BY <1>3, <3>1, <3>2, StepLeavesOthers DEF Rivals
      <3>6. ~StillBusy(arg[o])'
        BY <2>1, <2>3, <3>1, StaysQuiet
      <3>4. CASE o = r
        <4>1. Recent(r)'
          BY <1>3, <2>2, <2>3, <3>1, <3>4, OwnStepKeepsRecent
        <4> QED BY <3>3, <3>4, <3>6, <4>1
      <3>5. CASE o # r
        <4>1. Recent(o)'
          BY <2>1, <3>1, <3>5, OthersKeepRecent
        <4> QED BY <3>3, <3>6, <4>1
      <3> QED BY <3>4, <3>5
    <2> QED BY <2>2, <2>3, StepLeavesOthers
  <1> QED BY <1>3, StepLeavesOthers DEF UndisturbedInv

\* A request that arrives is a rival of nobody, or all its rivals learn of it.
LEMMA ReceiveUndisturbed ==
  ASSUME Ground, UndisturbedInv, NEW r \in Reqs, Receive(r)
  PROVE  UndisturbedInv'
  <1>1. /\ pc \in [Reqs -> Calls \union {"idle", "answered", "dead"}]
        /\ arg \in [Reqs -> Request \union {NoRequest}]
        /\ cur \in [Reqs -> Teams \union {None}]
        /\ pc[r] = "idle" /\ ~Busy(r)
    BY IInvParts DEF Ground, TypesOK, RequestOK, RequestTypeOK, Receive, Busy, Calls
  <1>2. PICK q \in Offered :
          /\ arg' = [arg EXCEPT ![r] = q]
          /\ cur' = [cur EXCEPT ![r] = q.team]
          /\ IF q.kind = "create" /\ ~ValidCreate(q)
             THEN /\ pc' = [pc EXCEPT ![r] = "answered"]
                  /\ UNCHANGED disturbed
             ELSE /\ pc' = [pc EXCEPT ![r] = EntryCall(q)]
                  /\ disturbed' = IF Rivals(q) = {} /\ ~StillBusy(q) THEN disturbed
                                  ELSE disturbed \union Rivals(q) \union {r}
    BY DEF Receive
  <1>3. UNCHANGED <<ns, secret, hist, loc, late>>
    BY DEF Receive, cluster
  <1>4. q.kind \in Kinds /\ arg'[r] = q
    BY <1>1, <1>2, ApiAssumption DEF Request
  <1>5. \A o \in Reqs \ {r} : /\ pc'[o] = pc[o] /\ arg'[o] = arg[o] /\ cur'[o] = cur[o]
                              /\ Busy(o)' <=> Busy(o)
    BY <1>1, <1>2 DEF Busy
  <1>6. Busy(r)' => /\ q.kind = "create" => q.url
                    /\ pc'[r] \in {"nsGet", "secretGet", "upgradeGet", "uninstallRun", "list"}
                    /\ pc'[r] = "upgradeGet" => q.kind # "create"
                    /\ disturbed' = IF Rivals(q) = {} /\ ~StillBusy(q) THEN disturbed
                                    ELSE disturbed \union Rivals(q) \union {r}
    BY <1>1, <1>2, <1>4 DEF Busy, Calls, Kinds, EntryCall, ValidCreate
  <1>7. ASSUME Busy(r)', r \notin disturbed'
        PROVE  Rivals(arg[r])' = {r} /\ ~StillBusy(arg[r])' /\ Recent(r)'
    <2>1. Rivals(q) = {} /\ ~StillBusy(q)
      BY <1>6, <1>7
    <2>2. \A o \in Reqs \ {r} : o \notin Rivals(arg[r])'
      BY <1>4, <1>5, <2>1 DEF Rivals
    <2>3. r \in Rivals(arg[r])'
      BY <1>7 DEF Rivals
    <2>4. Recent(r)'
      BY <1>4, <1>6, <1>7 DEF Recent
    <2>5. ~StillBusy(arg[r])'
      BY <1>3, <1>4, <2>1 DEF StillBusy
    <2> QED BY <2>2, <2>3, <2>4, <2>5 DEF Rivals
  <1>8. ASSUME NEW o \in Reqs \ {r}, Busy(o), o \notin disturbed'
        PROVE  Rivals(arg[o])' = {o} /\ ~StillBusy(arg[o])' /\ Recent(o)'
    <2>1. o \notin disturbed
      BY <1>2, <1>8
    <2>2. Rivals(arg[o]) = {o} /\ ~StillBusy(arg[o]) /\ Recent(o)
      BY <1>8, <2>1 DEF UndisturbedInv
    <2>3. ASSUME Busy(r)' PROVE r \notin Rivals(arg[o])'
      <3>1. o \notin Rivals(q)
        BY <1>6, <1>8, <2>3
      <3> QED BY <1>4, <1>5, <1>8, <3>1 DEF Rivals
    <2>4. Rivals(arg[o])' = {o}
      BY <1>1, <1>5, <2>2, <2>3 DEF Rivals
    <2>5. /\ Latest(cur[o])' = Latest(cur[o])
          /\ Revs(cur[o])' = Revs(cur[o])
      BY <1>3, <1>5 DEF Latest, Newest, Revs
    <2>6. Recent(o)'
      BY <1>3, <1>5, <2>2, <2>5 DEF Recent, Wanted, Stored
    <2>7. ~StillBusy(arg[o])'
      BY <1>3, <1>5, <2>2 DEF StillBusy
    <2> QED BY <2>4, <2>6, <2>7
  <1>10. ASSUME NEW o \in Reqs, Busy(o)'
         PROVE  /\ arg'[o].kind = "create" => arg'[o].url
                /\ o \notin disturbed' =>
                      Rivals(arg[o])' = {o} /\ ~StillBusy(arg[o])' /\ Recent(o)'
    BY <1>4, <1>5, <1>6, <1>7, <1>8, <1>10 DEF UndisturbedInv
  <1> QED BY <1>10 DEF UndisturbedInv

\* The namespace controller takes away what an earlier DELETE left.
LEMMA NamespacesUndisturbed ==
  ASSUME Ground, UndisturbedInv, Namespaces
  PROVE  UndisturbedInv'
  <1>1. /\ ns \in [Teams -> NsState] /\ secret \in [Teams -> SecretState]
        /\ hist \in [Teams -> SUBSET Revision]
    BY IInvParts DEF Ground, TypesOK, ClusterTypeOK
  <1>2. PICK t \in Teams : NsEmpty(t) \/ NsGone(t)
    BY DEF Namespaces
  <1>3. /\ ns[t] = "terminating" /\ ns'[t] # "active"
        /\ \A u \in Teams \ {t} : /\ ns'[u] = ns[u] /\ secret'[u] = secret[u]
                                 /\ hist'[u] = hist[u]
        /\ ~secret'[t].exists /\ hist'[t] = {}
    BY <1>1, <1>2 DEF NsEmpty, NsGone, NoSecret
  <1>4. UNCHANGED <<pc, cur, loc, arg, late, disturbed>>
    BY DEF Namespaces, request
  <1>6. ASSUME NEW r \in Reqs, Busy(r), Recent(r) PROVE Recent(r)'
    <2>1. pc[r] \notin {"list", "nextRelease"} => cur[r] \in Teams
      BY <1>6, IInvParts, AtCall DEF Ground, TypesOK, Busy
    <2>2. CASE cur[r] = t
      <3>1. ~secret'[cur'[r]].exists /\ hist'[cur'[r]] = {} /\ ns'[cur'[r]] # "active"
        BY <1>3, <1>4, <2>2
      <3>2. Latest(cur[r])' = {}
        BY <3>1 DEF Latest, Newest
      <3> QED BY <1>4, <1>6, <3>1, <3>2 DEF Recent
    <2>3. CASE cur[r] \in Teams \ {t}
      <3>1. /\ ns'[cur[r]] = ns[cur[r]] /\ secret'[cur[r]] = secret[cur[r]]
            /\ hist'[cur[r]] = hist[cur[r]]
        BY <1>3, <2>3
      <3>2. /\ Latest(cur[r])' = Latest(cur[r])
            /\ Revs(cur[r])' = Revs(cur[r])
        BY <1>4, <3>1 DEF Latest, Newest, Revs
      <3> QED BY <1>4, <1>6, <3>1, <3>2 DEF Recent, Wanted, Stored
    <2>4. CASE pc[r] \in {"list", "nextRelease"}
      BY <1>4, <2>4 DEF Recent
    <2> QED BY <2>1, <2>2, <2>3, <2>4
  <1>7. ASSUME NEW r \in Reqs
        PROVE  /\ Rivals(arg[r])' = Rivals(arg[r])
               /\ StillBusy(arg[r])' <=> StillBusy(arg[r])
    BY <1>4 DEF Rivals, Busy, StillBusy
  <1> QED BY <1>4, <1>6, <1>7 DEF UndisturbedInv, Busy

\* What Helm still does for a request that left it does not touch the teams
\* of those that are undisturbed.
LEMMA LateUndisturbed ==
  ASSUME Ground, UndisturbedInv, NEW j \in late, Late(j)
  PROVE  UndisturbedInv'
  <1>1. TypesOK /\ UNCHANGED <<pc, cur, loc, arg, ns, secret>>
    BY IInvParts DEF Ground, Late, request
  <1>2. late' \subseteq late /\ disturbed \subseteq disturbed'
    BY DEF Late, LateDone, LateFailed, Healthy, Fault
  <1>3. ASSUME NEW r \in Reqs, Busy(r), ~StillBusy(arg[r]), Recent(r)
        PROVE  Recent(r)'
    <2>1. CASE cur[r] \in Teams /\ arg[r].kind # "upgrade"
      <3>1. j.team # cur[r]
        BY <1>3, <2>1 DEF StillBusy, Ground, OnItsTeam
      <3>2. hist'[cur[r]] = hist[cur[r]]
        BY <2>1, <3>1, LateIsAbout DEF Jobs
      <3>3. Latest(cur[r])' = Latest(cur[r]) /\ Revs(cur[r])' = Revs(cur[r])
        BY <1>1, <3>2 DEF Latest, Newest, Revs
      <3> QED BY <1>1, <1>3, <3>2, <3>3 DEF Recent, Wanted, Stored
    <2>2. arg[r].kind # "upgrade"
      BY <1>3 DEF StillBusy
    <2>3. /\ arg[r].kind \in KindsAt(pc[r])
          /\ pc[r] \notin {"list", "nextRelease"} => cur[r] \in Teams
      BY <1>1, <1>3, AtCall DEF TypesOK, Busy
    <2>4. pc[r] \notin {"list", "nextRelease"}
      BY <2>2, <2>3 DEF KindsAt
    <2> QED BY <2>1, <2>2, <2>3, <2>4
  <1>4. \A r \in Reqs : /\ Rivals(arg[r])' = Rivals(arg[r])
                        /\ StillBusy(arg[r])' => StillBusy(arg[r])
    BY <1>1, <1>2 DEF Rivals, Busy, StillBusy
  <1> QED BY <1>1, <1>2, <1>3, <1>4 DEF UndisturbedInv, Busy

LEMMA NextUndisturbed == Ground /\ UndisturbedInv /\ [Next]_vars => UndisturbedInv'
  <1> SUFFICES ASSUME Ground, UndisturbedInv, [Next]_vars PROVE UndisturbedInv'
    OBVIOUS
  <1>1. ASSUME UNCHANGED <<cluster, request, pc, late, disturbed>>
        PROVE  UndisturbedInv'
    BY <1>1 DEF UndisturbedInv, Recent, Wanted, Rivals, StillBusy, Busy, Stored, Revs,
       Latest, Newest, cluster, request
  <1>2. CASE UNCHANGED vars
    BY <1>1, <1>2 DEF vars
  <1>3. ASSUME NEW r \in Reqs, Receive(r) \/ Step(r) PROVE UndisturbedInv'
    BY <1>3, StepUndisturbed, ReceiveUndisturbed
  <1>4. ASSUME NEW r \in Reqs, Cancel(r) PROVE UndisturbedInv'
    BY <1>1, <1>4 DEF Cancel
  <1>5. CASE Crash
    <2>1. \A r \in Reqs : ~Busy(r)'
      BY <1>5, IInvParts DEF Crash, Busy, Calls, Ground, TypesOK, RequestOK, RequestTypeOK
    <2> QED BY <2>1 DEF UndisturbedInv
  <1>6. CASE Namespaces
    BY <1>6, NamespacesUndisturbed
  <1> QED BY <1>2, <1>3, <1>4, <1>5, <1>6, LateUndisturbed DEF Next

\* The invariant of the undisturbed requests is inductive, given IInv.
THEOREM UndisturbedInvariance == Spec => []UndisturbedInv
  <1> QED BY InitGround, NextGround, UndisturbedInit, NextUndisturbed, PTL DEF Spec

-----------------------------------------------------------------------------
(* What follows from it. *)

\* A step that takes a request from upgradeRun to upgradeWait deploys the
\* values it built as the latest revision.
LEMMA UpgradeDeploys ==
  ASSUME Ground, NEW r \in Reqs, Step(r), pc[r] = "upgradeRun", pc'[r] = "upgradeWait"
  PROVE  \A w \in Latest(cur[r])' : w.cfg = loc[r].cfg
  <1>1. /\ hist \in [Teams -> SUBSET Revision]
        /\ pc \in [Reqs -> Calls \union {"idle", "answered", "dead"}]
        /\ cur[r] \in Teams
    BY IInvParts, AtCall DEF Ground, TypesOK, ClusterTypeOK, RequestOK, RequestTypeOK, Calls
  <1>2. ~\E res : HelmReturns(r, res)
    BY ReturnIsOver DEF Waiting
  <1>3. UpgradeRun(r) \/ ChartUnavailable(r)
    BY DEF Step, NsGet, NsCreate, SecretGet, SecretCreate, SecretUpdate, InstallGet,
           InstallRun, InstallWait, UpgradeGet, ChartGet, UpgradeWait, UpgradeRecord,
           RunFails, Abandoned, List, NextRelease, UninstallRun, UninstallWait, NsDelete,
           Reply
  <1>4. PICK v \in Latest(cur[r]) :
          /\ hist' = [hist EXCEPT ![cur[r]] = StoreIn(@,
                        [rev |-> v.rev + 1, status |-> "pending-upgrade",
                         chart |-> target, cfg |-> loc[r].cfg])]
          /\ Goto(r, "upgradeWait", Deploying(r, v.rev + 1, Base(cur[r], v)))
    BY <1>2, <1>3 DEF UpgradeRun, ChartUnavailable
  <1> DEFINE p == [rev |-> v.rev + 1, status |-> "pending-upgrade",
                   chart |-> target, cfg |-> loc[r].cfg]
  <1>5. hist'[cur[r]] = StoreIn(hist[cur[r]], p) /\ cur' = cur
    BY <1>1, <1>4 DEF Goto
  <1>6. /\ v.rev \in Nat /\ p \in hist'[cur[r]]
        /\ \A w \in hist[cur[r]] : w.rev \in Nat /\ w.rev <= v.rev
    BY <1>1, <1>4, <1>5 DEF Latest, Newest, StoreIn, Revision
  <1>7. ASSUME NEW w \in Latest(cur[r])' PROVE w = p
    <2>1. w \in hist'[cur[r]] /\ p.rev <= w.rev
      BY <1>5, <1>6, <1>7 DEF Latest, Newest
    <2>2. w \notin hist[cur[r]]
      BY <1>6, <2>1
    <2> QED BY <1>5, <2>1, <2>2 DEF StoreIn
  <1> QED BY <1>7

\* UpgradeChart and upgradeWithChart: a request that met no fault and no rival
\* deploys the values of the release it found, changed as its caller asked and
\* in no other way, although it read them in an earlier call.
THEOREM KeepsValues == Spec => UndisturbedUpgradeKeepsValues
  <1>1. ASSUME Ground, UndisturbedInv, [Next]_vars, NEW r \in Reqs,
               pc[r] = "upgradeRun", pc'[r] = "upgradeWait", r \notin disturbed
        PROVE  \A v \in Latest(cur[r]), w \in Latest(cur[r])' :
                 w.cfg = IF arg[r].kind = "upgrade" THEN v.cfg
                         ELSE [url |-> IF arg[r].url THEN r ELSE v.cfg.url,
                               rest |-> r]
    <2>1. pc \in [Reqs -> Calls \union {"idle", "answered", "dead"}]
      BY <1>1, IInvParts DEF Ground, TypesOK, RequestOK, RequestTypeOK
    <2>2. ASSUME NEW o \in Reqs, Receive(o) PROVE FALSE
      BY <1>1, <2>1, <2>2 DEF Receive
    <2>3. ASSUME NEW o \in Reqs, Step(o) PROVE o = r
      BY <1>1, <2>3, StepLeavesOthers
    <2>4. ~Crash
      BY <1>1, <2>1 DEF Crash
    <2>5. Step(r)
      BY <1>1, <2>2, <2>3, <2>4 DEF Next, Cancel, Late, Namespaces, vars
    <2>6. Recent(r)
      BY <1>1 DEF UndisturbedInv, Busy, Calls
    <2>7. \A v \in Latest(cur[r]) : loc[r].cfg = Wanted(r, v)
      BY <1>1, <2>6 DEF Recent
    <2>8. \A w \in Latest(cur[r])' : w.cfg = loc[r].cfg
      BY <1>1, <2>5, UpgradeDeploys
    <2> QED BY <2>7, <2>8 DEF Wanted
  <1>2. Ground /\ UndisturbedInv /\ [Next]_vars =>
          [\A r \in Reqs :
             pc[r] = "upgradeRun" /\ pc'[r] = "upgradeWait" /\ r \notin disturbed
             => \A v \in Latest(cur[r]), w \in Latest(cur[r])' :
                w.cfg = IF arg[r].kind = "upgrade" THEN v.cfg
                        ELSE [url |-> IF arg[r].url THEN r ELSE v.cfg.url,
                              rest |-> r]]_vars
    BY <1>1
  <1> QED
    BY <1>2, InitGround, NextGround, UndisturbedInit, NextUndisturbed, PTL
    DEF Spec, UndisturbedUpgradeKeepsValues

\* What is in the way of a create that fails by itself.
LEMMA CreateFailsFor ==
  ASSUME Ground, NEW r \in Reqs, Step(r), Busy(r), Recent(r),
         arg[r].kind = "create", Answers(r, 500),
         r \notin disturbed', r \notin gone
  PROVE  ns[cur[r]] # "active" \/ \E v \in Latest(cur[r]) : v.status # "failed"
  <1>1. /\ DOMAIN resp = Reqs
        /\ arg[r].kind \in KindsAt(pc[r]) /\ pc[r] \in Calls /\ cur[r] \in Teams
    BY IInvParts, AtCall DEF Ground, TypesOK, RequestOK, RequestTypeOK, Busy, KindsAt
  <1>2. ~Fault(r) /\ ~Broken(r)
    BY NoFaultMet
  <1>3. ~\E call, x : Goto(r, call, x)
    BY DEF Goto, Answers
  <1>4. ~HelmReturns(r, "ok")
    <2>1. HelmReturns(r, "ok") => \E call : Goto(r, call, NoLocal)
      BY DEF HelmReturns
    <2> QED BY <1>3, <2>1
  <1>5. CASE NsGet(r) \/ NsCreate(r) \/ SecretGet(r) \/ ChartUnavailable(r)
             \/ UpgradeGet(r)
    BY <1>2, <1>3, <1>5 DEF NsGet, NsCreate, SecretGet, ChartUnavailable, UpgradeGet
  <1>6. CASE SecretCreate(r)
    BY <1>2, <1>3, <1>6 DEF SecretCreate, WriteSecret, CanCreateSecret, Recent
  <1>7. CASE SecretUpdate(r)
    BY <1>2, <1>3, <1>7 DEF SecretUpdate, WriteSecret, CanUpdateSecret, Recent
  <1>8. CASE InstallGet(r)
    BY <1>2, <1>3, <1>8 DEF InstallGet, Reinstallable
  <1>9. CASE InstallRun(r)
    BY <1>2, <1>3, <1>9 DEF InstallRun, Recent
  <1>10. CASE InstallWait(r) \/ RunFails(r) \/ Abandoned(r)
    BY <1>2, <1>4, <1>10 DEF InstallWait, RunFails, Abandoned
  <1>11. CASE UpgradeRun(r)
    <2>1. \/ hist[cur[r]] = {}
          \/ \E v \in Latest(cur[r]) : ~(Base(cur[r], v) # {} /\ Deployable(r))
      BY <1>2, <1>3, <1>11 DEF UpgradeRun
    <2>2. pc[r] = "upgradeRun"
      BY <1>11 DEF UpgradeRun
    <2>3. \A v : Base(cur[r], v) = {} => v.status # "failed"
      BY DEF Base, Pending
    <2> QED BY <2>1, <2>2, <2>3 DEF Recent, Deployable
  <1>12. CASE UpgradeRecord(r)
    <2>1. pc[r] = "upgradeRecord" /\ ~Stored(cur[r], loc[r].rev)
      BY <1>2, <1>4, <1>12 DEF UpgradeRecord
    <2> QED BY <2>1 DEF Recent
  <1>13. CASE UpgradeWait(r) \/ Reply(r)
    <2>1. arg[r].kind = "create" => SuccessCode(arg[r].kind) = 201
      BY DEF SuccessCode
    <2> QED BY <1>1, <1>3, <1>13, <2>1 DEF UpgradeWait, Reply, Answer, Answers
  <1> QED
    BY <1>1, <1>5, <1>6, <1>7, <1>8, <1>9, <1>10, <1>11, <1>12, <1>13
    DEF Step, KindsAt, Calls, ChartGet, List, NextRelease, UninstallRun,
        UninstallWait, NsDelete

\* CreateRunner and Install: a POST that meets no fault and no rival and is not
\* cancelled installs the runner, a failed release included, unless a release
\* that is not failed or the namespace of an earlier DELETE is in its way.
THEOREM CreateSucceeds == Spec => CleanCreateSucceeds
  <1>1. ASSUME Ground, UndisturbedInv, [Next]_vars, NEW r \in Reqs, Answers(r, 500),
               arg[r].kind = "create", r \notin disturbed' \union gone
        PROVE  ns[cur[r]] # "active" \/ \E v \in Latest(cur[r]) : v.status # "failed"
    <2>1. DOMAIN resp = Reqs /\ TypesOK
      BY <1>1, IInvParts DEF Ground, TypesOK, RequestOK, RequestTypeOK
    <2>2. ASSUME NEW o \in Reqs, Receive(o) PROVE FALSE
      BY <1>1, <2>1, <2>2 DEF Receive, Answers
    <2>3. ASSUME NEW o \in Reqs, Step(o) PROVE o = r
      BY <1>1, <2>3, StepLeavesOthers DEF Answers
    <2>4. Step(r)
      BY <1>1, <2>2, <2>3 DEF Next, Cancel, Late, Crash, Namespaces, vars, request, Answers
    <2>5. Busy(r) /\ r \notin disturbed
      BY <1>1, <2>4, StepLeavesOthers, StepDisturbs
    <2>6. Recent(r)
      BY <1>1, <2>5 DEF UndisturbedInv
    <2> QED BY <1>1, <2>4, <2>5, <2>6, CreateFailsFor
  <1>2. Ground /\ UndisturbedInv /\ [Next]_vars =>
          [\A r \in Reqs :
             Answers(r, 500) /\ arg[r].kind = "create" /\ r \notin disturbed' \union gone
             => \/ ns[cur[r]] # "active"
                \/ \E v \in Latest(cur[r]) : v.status # "failed"]_vars
    BY <1>1
  <1> QED
    BY <1>2, InitGround, NextGround, UndisturbedInit, NextUndisturbed, PTL
    DEF Spec, CleanCreateSucceeds

=============================================================================
