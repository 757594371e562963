-------------------------- MODULE RunnerApiProofs --------------------------
(***************************************************************************)
(* Proofs about RunnerApi, for any sets of teams, requests, chart versions *)
(* and credential fields and any bounds.                                   *)
(***************************************************************************)
EXTENDS RunnerInvariant, TLAPS

RequestOK == RequestTypeOK /\ Placed

\* A request has not replied, nor asked for a namespace to go.
NotYet(r) == pc[r] # "reply" /\ r \notin removing

-----------------------------------------------------------------------------
(***************************************************************************)
(* What the building blocks of the actions preserve.                       *)
(***************************************************************************)

LEMMA NoLocalType == NoLocal \in Local /\ NoSecret \in SecretState
  <1>1. NoSecret \in SecretState
    BY DEF NoSecret, SecretState, Blank
  <1> QED BY <1>1 DEF NoLocal, Local, NoConfig, Config

LEMMA GotoOK ==
  ASSUME RequestOK, NEW r \in Reqs, NEW call \in Calls, NEW x \in Local,
         Busy(r), NotYet(r), UNCHANGED arg, Goto(r, call, x),
         removing' = removing \/ removing' = removing \union {r},
         r \in removing' <=> call = "reply" /\ arg[r].kind = "delete",
         arg[r].kind \in KindsAt(call),
         call \notin {"list", "nextRelease"} => cur[r] \in Teams,
         call = "secretUpdate" => x.seen.exists,
         call = "secretCreate" => x.seen = NoSecret
  PROVE  RequestOK'
  <1>1. RequestTypeOK'
    BY DEF RequestOK, RequestTypeOK, Goto
  <1>2. ASSUME NEW o \in Reqs PROVE InPlace(o)'
    BY DEF RequestOK, RequestTypeOK, Placed, InPlace, Goto, Busy, Calls
  <1> QED BY <1>1, <1>2 DEF RequestOK, Placed

LEMMA AnswerOK ==
  ASSUME RequestOK, NEW r \in Reqs, NEW code \in Codes(arg[r].kind),
         UNCHANGED <<arg, removing>>, Answer(r, code)
  PROVE  RequestOK'
  <1>1. RequestTypeOK'
    BY NoLocalType DEF RequestOK, RequestTypeOK, Answer
  <1>2. ASSUME NEW o \in Reqs PROVE InPlace(o)'
    BY DEF RequestOK, RequestTypeOK, Placed, InPlace, Answer, Busy, Calls
  <1> QED BY <1>1, <1>2 DEF RequestOK, Placed

LEMMA HelmReturnsOK ==
  ASSUME RequestOK, NEW r \in Reqs, NEW res \in Result,
         Busy(r), NotYet(r), UNCHANGED <<arg, removing>>, cur[r] \in Teams,
         HelmReturns(r, res)
  PROVE  RequestOK'
  <1>1. arg[r].kind \in Kinds /\ r \notin removing
    BY DEF RequestOK, Placed, InPlace, Request, Busy, NotYet
  <1>2. CASE arg[r].kind = "upgrade"
    <2>1. RequestTypeOK'
      <3>1. /\ pc' = [pc EXCEPT ![r] = "nextRelease"]
            /\ loc' = [loc EXCEPT ![r] = NoLocal]
            /\ outcome' = [outcome EXCEPT ![r][cur[r]] = Booked(res)]
            /\ UNCHANGED <<cur, resp>>
        BY <1>2 DEF HelmReturns
      <3>2. Booked(res) \in Outcomes /\ "nextRelease" \in Calls
        BY DEF Booked, Outcomes, Calls
      <3>3. outcome' \in [Reqs -> [Teams -> Outcomes]]
        BY <3>1, <3>2 DEF RequestOK, RequestTypeOK
      <3>4. loc' \in [Reqs -> Local]
        BY <3>1, NoLocalType DEF RequestOK, RequestTypeOK
      <3> QED BY <3>1, <3>2, <3>3, <3>4 DEF RequestOK, RequestTypeOK
    <2>2. ASSUME NEW o \in Reqs PROVE InPlace(o)'
      BY <1>2 DEF RequestOK, RequestTypeOK, Placed, InPlace, HelmReturns,
                  Busy, Calls, KindsAt
    <2> QED BY <2>1, <2>2 DEF RequestOK, Placed
  <1>3. CASE arg[r].kind # "upgrade" /\ res = "ok"
    <2>1. Goto(r, IF arg[r].kind = "delete" THEN "nsDelete" ELSE "reply", NoLocal)
      BY <1>3 DEF HelmReturns
    <2> QED BY <1>1, <1>3, <2>1, GotoOK, NoLocalType DEF Calls, KindsAt, Kinds
  <1>4. CASE arg[r].kind # "upgrade" /\ res # "ok"
    <2>1. Answer(r, Code(arg[r].kind, res))
      BY <1>4 DEF HelmReturns
    <2>2. Code(arg[r].kind, res) \in Codes(arg[r].kind)
      BY <1>1, <1>4 DEF Kinds, Code, Codes, Result
    <2> QED BY <2>1, <2>2, AnswerOK
  <1> QED BY <1>2, <1>3, <1>4

LEMMA StoreInType ==
  ASSUME NEW h \in SUBSET Revision, NEW v \in Revision
  PROVE  StoreIn(h, v) \in SUBSET Revision
  BY DEF StoreIn

LEMMA UpdatedType ==
  ASSUME NEW h \in SUBSET Revision, NEW S \in SUBSET Revision
  PROVE  Updated(h, S) \in SUBSET Revision
  BY DEF Updated

LEMMA AsType ==
  ASSUME NEW v \in Revision, NEW status \in Status
  PROVE  As(v, status) \in Revision
  BY DEF As, Revision

LEMMA SupersededType ==
  ASSUME NEW S \in SUBSET Revision
  PROVE  Superseded(S) \in SUBSET Revision
  BY AsType DEF Superseded, Status

LEMMA LatestIn ==
  ASSUME NEW t \in Teams
  PROVE  Latest(t) \subseteq hist[t]
  BY DEF Latest, Newest

LEMMA BaseIn ==
  ASSUME NEW t \in Teams, NEW v \in hist[t], v.status \in Status
  PROVE  Base(t, v) \subseteq hist[t]
  <1> DEFINE D == Newest({w \in hist[t] : w.status = "deployed"})
  <1>1. D \subseteq hist[t]
    BY DEF Newest
  <1>2. Base(t, v) \in {{}, {v}, D}
    BY DEF Base, Status, Pending
  <1> QED BY <1>1, <1>2

-----------------------------------------------------------------------------
(***************************************************************************)
(* Requests: every step of a handler keeps RequestOK.                      *)
(***************************************************************************)

TypesOK == ClusterTypeOK /\ SecretsOK /\ RequestOK /\ BoundTypeOK

LEMMA AtCall ==
  ASSUME RequestOK, NEW r \in Reqs, NEW call \in Calls, pc[r] = call
  PROVE  /\ Busy(r)
         /\ arg[r] \in Request
         /\ arg[r].kind \in KindsAt(call)
         /\ call \notin {"list", "nextRelease"} => cur[r] \in Teams
         /\ call # "reply" => NotYet(r)
  BY DEF NotYet, Calls, RequestOK, Placed, InPlace, Busy

LEMMA ReceiveIs ==
  ASSUME NEW r \in Reqs, Receive(r)
  PROVE  \E q \in Offered :
          /\ arg' = [arg EXCEPT ![r] = q]
          /\ cur' = [cur EXCEPT ![r] = q.team]
          /\ \/ /\ q.kind = "create" /\ ~ValidCreate(q)
                /\ pc' = [pc EXCEPT ![r] = "answered"]
                /\ resp' = [resp EXCEPT ![r] = 422]
             \/ /\ q.kind = "create" => ValidCreate(q)
                /\ pc' = [pc EXCEPT ![r] = EntryCall(q)]
                /\ UNCHANGED resp
  <1>1. PICK q \in Offered :
          /\ arg' = [arg EXCEPT ![r] = q]
          /\ cur' = [cur EXCEPT ![r] = q.team]
          /\ IF q.kind = "create" /\ ~ValidCreate(q)
             THEN /\ pc' = [pc EXCEPT ![r] = "answered"]
                  /\ resp' = [resp EXCEPT ![r] = 422]
             ELSE /\ pc' = [pc EXCEPT ![r] = EntryCall(q)]
                  /\ UNCHANGED resp
    BY DEF Receive
  <1>2. CASE q.kind = "create" /\ ~ValidCreate(q)
    BY <1>1, <1>2
  <1>3. CASE ~(q.kind = "create" /\ ~ValidCreate(q))
    BY <1>1, <1>3
  <1> QED BY <1>2, <1>3

LEMMA ReceiveOK ==
  ASSUME RequestOK, NEW r \in Reqs, Receive(r)
  PROVE  RequestOK'
  <1> USE DEF RequestOK
  <1>1. PICK q \in Offered :
          /\ arg' = [arg EXCEPT ![r] = q]
          /\ cur' = [cur EXCEPT ![r] = q.team]
          /\ \/ /\ q.kind = "create" /\ ~ValidCreate(q)
                /\ pc' = [pc EXCEPT ![r] = "answered"]
                /\ resp' = [resp EXCEPT ![r] = 422]
             \/ /\ q.kind = "create" => ValidCreate(q)
                /\ pc' = [pc EXCEPT ![r] = EntryCall(q)]
                /\ UNCHANGED resp
    BY ReceiveIs
  <1>2. /\ q \in Request /\ q.kind \in Kinds
        /\ q.team \in Teams \union {None}
        /\ q.kind # "upgrade" => q.team \in Teams
        /\ q.kind = "create" /\ ValidCreate(q) => q.fields = Fields
    BY ApiAssumption DEF Request, ValidCreate
  <1>3. /\ EntryCall(q) \in {"nsGet", "secretGet", "upgradeGet", "uninstallRun", "list"}
        /\ q.kind \in KindsAt(EntryCall(q))
        /\ EntryCall(q) = "list" <=> q.kind = "upgrade"
    BY <1>2 DEF EntryCall, Kinds, KindsAt
  <1>4. /\ pc[r] = "idle" /\ resp[r] = 0 /\ r \notin removing
        /\ UNCHANGED <<loc, outcome, removing>>
    BY DEF Receive, Placed, InPlace
  <1>5. RequestTypeOK'
    <2>1. arg' \in [Reqs -> Request \union {NoRequest}]
      BY <1>1, <1>2 DEF RequestTypeOK
    <2>2. pc' \in [Reqs -> Calls \union {"idle", "answered", "dead"}]
      BY <1>1, <1>3 DEF RequestTypeOK, Calls
    <2>3. \A o \in Reqs : resp'[o] \in Codes(arg'[o].kind)
      BY <1>1, <1>2, <1>4 DEF RequestTypeOK, Codes, Kinds
    <2> QED BY <1>1, <1>2, <1>4, <2>1, <2>2, <2>3 DEF RequestTypeOK
  <1>6. ASSUME NEW o \in Reqs PROVE InPlace(o)'
    <2>1. CASE o = r
      BY <1>1, <1>2, <1>3, <1>4, <2>1
      DEF RequestTypeOK, Placed, InPlace, Busy, Calls
    <2>2. CASE o # r
      BY <1>1, <1>4, <2>2 DEF RequestTypeOK, Placed, InPlace, Busy
    <2> QED BY <2>1, <2>2
  <1> QED BY <1>5, <1>6 DEF Placed

\* The types of what a handler keeps from one call to the next.
LEMMA LocalTypes ==
  ASSUME TypesOK, NEW r \in Reqs, cur[r] \in Teams, arg[r] \in Request
  PROVE  /\ Read(secret[cur[r]]) \in Local
         /\ Built(BuiltValues(r)) \in Local
         /\ Built(Merged(r, NoConfig)) \in Local
         /\ \A v \in hist[cur[r]] :
              /\ v \in Revision
              /\ Built(v.cfg) \in Local
              /\ Built(Merged(r, v.cfg)) \in Local
              /\ Deploying(r, v.rev + 1, Base(cur[r], v)) \in Local
         /\ Deploying(r, 1, {}) \in Local
         /\ Purging(Revs(cur[r])) \in Local
  <1>1. secret[cur[r]] \in SecretState /\ hist[cur[r]] \subseteq Revision
    BY DEF TypesOK, ClusterTypeOK
  <1>2. loc[r] \in Local
    BY DEF TypesOK, RequestOK, RequestTypeOK
  <1>3. NoConfig \in Config /\ BuiltValues(r) \in Config
    BY DEF NoConfig, Config, BuiltValues, Writers
  <1>4. \A old \in Config : Merged(r, old) \in Config
    BY <1>3 DEF Merged, Config
  <1>5. \A v \in hist[cur[r]] : v \in Revision /\ v.cfg \in Config /\ v.rev \in Nat
    BY <1>1 DEF Revision
  <1>6. Revs(cur[r]) \in SUBSET Nat
    BY <1>5 DEF Revs
  <1>7. \A c \in Config : Built(c) \in Local
    BY NoLocalType DEF Local, NoLocal, Built
  <1>8. Read(secret[cur[r]]) \in Local
    BY <1>1, NoLocalType DEF Local, NoLocal, Read
  <1>9. \A n \in Nat, S \in SUBSET Revision : Deploying(r, n, S) \in Local
    BY <1>2 DEF Local, Deploying
  <1>11. \A v \in hist[cur[r]] : Base(cur[r], v) \in SUBSET Revision
    BY <1>1, <1>5, BaseIn DEF Revision
  <1>10. Purging(Revs(cur[r])) \in Local
    BY <1>6, NoLocalType DEF Local, NoLocal, Purging
  <1> QED BY <1>3, <1>4, <1>5, <1>7, <1>8, <1>9, <1>10, <1>11

LEMMA StepRequestOK ==
  ASSUME TypesOK, NEW r \in Reqs, Step(r)
  PROVE  RequestOK'
  <1> DEFINE t == cur[r]
  <1> USE DEF NotYet
  <1>1. UNCHANGED arg /\ RequestOK
    BY DEF Step, TypesOK
  <1>a. UNCHANGED removing \/ NsDelete(r)
    BY DEF Step
  <1>2. "ok" \in Result /\ "notFound" \in Result /\ "error" \in Result
    BY DEF Result
  <1>3. \A v \in Latest(t) : v \in hist[t]
    BY DEF Latest, Newest
  <1>4. CASE NsGet(r) /\ UNCHANGED removing
    <2>1. Busy(r) /\ NotYet(r) /\ arg[r].kind = "create" /\ t \in Teams
      BY <1>1, <1>4, AtCall DEF NsGet, KindsAt, Calls
    <2>2. CASE Goto(r, IF ns[t] = "absent" THEN "nsCreate" ELSE "secretGet", NoLocal)
      BY <1>1, <1>4, <2>1, <2>2, GotoOK, NoLocalType DEF KindsAt, Calls
    <2>3. CASE Answer(r, 500)
      BY <1>1, <1>4, <2>1, <2>3, AnswerOK DEF Codes
    <2> QED BY <1>4, <2>2, <2>3 DEF NsGet
  <1>5. CASE NsCreate(r) /\ UNCHANGED removing
    <2>1. Busy(r) /\ NotYet(r) /\ arg[r].kind = "create" /\ t \in Teams
      BY <1>1, <1>5, AtCall DEF NsCreate, KindsAt, Calls
    <2>2. CASE Goto(r, "secretGet", NoLocal)
      BY <1>1, <1>5, <2>1, <2>2, GotoOK, NoLocalType DEF KindsAt, Calls
    <2>3. CASE Answer(r, 500)
      BY <1>1, <1>5, <2>1, <2>3, AnswerOK DEF Codes
    <2> QED BY <1>5, <2>2, <2>3 DEF NsCreate
  <1>6. CASE SecretGet(r) /\ UNCHANGED removing
    <2>1. /\ Busy(r) /\ NotYet(r) /\ t \in Teams
          /\ arg[r].kind \in {"create", "update"}
          /\ arg[r] \in Request
      BY <1>1, <1>6, AtCall DEF SecretGet, KindsAt, Calls
    <2>2. CASE Goto(r, IF secret[t].exists THEN "secretUpdate" ELSE "secretCreate",
                    Read(secret[t]))
      <3>1. Read(secret[t]).seen = secret[t]
        BY DEF Read, NoLocal
      <3>2. secret[t].exists \/ secret[t] = NoSecret
        BY <2>1 DEF TypesOK, SecretsOK
      <3> QED BY <1>1, <1>6, <2>1, <2>2, <3>1, <3>2, GotoOK, LocalTypes DEF KindsAt, Calls
    <2>3. CASE Answer(r, 500)
      BY <1>1, <1>6, <2>1, <2>3, AnswerOK DEF Codes
    <2> QED BY <1>6, <2>2, <2>3 DEF SecretGet
  <1>7. CASE (SecretCreate(r) \/ SecretUpdate(r)) /\ UNCHANGED removing
    <2>1. /\ Busy(r) /\ NotYet(r) /\ t \in Teams
          /\ arg[r].kind \in {"create", "update"}
      BY <1>1, <1>7, AtCall DEF SecretCreate, SecretUpdate, KindsAt, Calls
    <2>2. CASE Goto(r, AfterSecret(r), NoLocal)
      BY <1>1, <1>7, <2>1, <2>2, GotoOK, NoLocalType DEF KindsAt, Calls, AfterSecret
    <2>3. CASE Answer(r, 500)
      BY <1>1, <1>7, <2>1, <2>3, AnswerOK DEF Codes
    <2> QED BY <1>7, <2>2, <2>3 DEF SecretCreate, SecretUpdate, WriteSecret
  <1>8. CASE ChartUnavailable(r) /\ UNCHANGED removing
    <2>1. Busy(r) /\ NotYet(r) /\ t \in Teams
      BY <1>1, <1>8, AtCall DEF ChartUnavailable, Calls
    <2> QED BY <1>1, <1>2, <1>8, <2>1, HelmReturnsOK DEF ChartUnavailable
  <1>9. CASE InstallGet(r) /\ UNCHANGED removing
    <2>1. Busy(r) /\ NotYet(r) /\ arg[r].kind = "create" /\ t \in Teams /\ arg[r] \in Request
      BY <1>1, <1>9, AtCall DEF InstallGet, KindsAt, Calls
    <2>2. CASE Goto(r, "installRun", Built(BuiltValues(r)))
      BY <1>1, <1>9, <2>1, <2>2, GotoOK, LocalTypes DEF KindsAt, Calls
    <2>3. CASE Goto(r, "upgradeGet", NoLocal)
      BY <1>1, <1>9, <2>1, <2>3, GotoOK, NoLocalType DEF KindsAt, Calls
    <2>4. CASE HelmReturns(r, "error")
      BY <1>1, <1>2, <1>9, <2>1, <2>4, HelmReturnsOK
    <2> QED BY <1>9, <2>2, <2>3, <2>4 DEF InstallGet
  <1>10. CASE InstallRun(r) /\ UNCHANGED removing
    <2>1. Busy(r) /\ NotYet(r) /\ arg[r].kind = "create" /\ t \in Teams /\ arg[r] \in Request
      BY <1>1, <1>10, AtCall DEF InstallRun, KindsAt, Calls
    <2>2. CASE Goto(r, "installWait", Deploying(r, 1, {}))
      BY <1>1, <1>10, <2>1, <2>2, GotoOK, LocalTypes DEF KindsAt, Calls
    <2>3. CASE HelmReturns(r, "error")
      BY <1>1, <1>2, <1>10, <2>1, <2>3, HelmReturnsOK
    <2> QED BY <1>10, <2>2, <2>3 DEF InstallRun
  <1>11. CASE (InstallWait(r) \/ UpgradeRecord(r) \/ RunFails(r) \/ Abandoned(r))
              /\ UNCHANGED removing
    <2>1. Busy(r) /\ NotYet(r) /\ t \in Teams
      BY <1>1, <1>11, AtCall
      DEF InstallWait, UpgradeRecord, RunFails, Abandoned, Calls
    <2>2. \E res \in Result : HelmReturns(r, res)
      BY <1>2, <1>11 DEF InstallWait, UpgradeRecord, RunFails, Abandoned
    <2> QED BY <1>1, <1>11, <2>1, <2>2, HelmReturnsOK
  <1>20. CASE UpgradeWait(r) /\ UNCHANGED removing
    <2>1. /\ Busy(r) /\ NotYet(r) /\ t \in Teams
          /\ arg[r].kind \in {"create", "update", "upgrade"}
          /\ loc[r] \in Local /\ r \notin removing
      BY <1>1, <1>20, AtCall
      DEF UpgradeWait, KindsAt, Calls, RequestOK, RequestTypeOK, Placed, InPlace
    <2>2. Goto(r, "upgradeRecord", loc[r])
      BY <1>20 DEF UpgradeWait
    <2> QED BY <1>1, <1>20, <2>1, <2>2, GotoOK DEF KindsAt, Calls
  <1>21. CASE Reply(r) /\ UNCHANGED removing
    <2>1. arg[r].kind \in {"create", "update", "delete"}
      BY <1>1, <1>21, AtCall DEF Reply, KindsAt, Calls
    <2>2. SuccessCode(arg[r].kind) \in Codes(arg[r].kind)
      BY <2>1 DEF SuccessCode, Codes
    <2> QED BY <1>1, <1>21, <2>2, AnswerOK DEF Reply
  <1>12. CASE UpgradeGet(r) /\ UNCHANGED removing
    <2>1. /\ Busy(r) /\ NotYet(r) /\ t \in Teams
          /\ arg[r].kind \in {"create", "update"}
          /\ arg[r] \in Request
      BY <1>1, <1>12, AtCall DEF UpgradeGet, KindsAt, Calls
    <2>2. \E x \in Local : Goto(r, "upgradeRun", x)
      BY <1>3, <1>12, <2>1, LocalTypes DEF UpgradeGet
    <2> QED BY <1>1, <1>12, <2>1, <2>2, GotoOK DEF KindsAt, Calls
  <1>13. CASE ChartGet(r) /\ UNCHANGED removing
    <2>1. Busy(r) /\ NotYet(r) /\ arg[r].kind = "upgrade" /\ t \in Teams /\ arg[r] \in Request
      BY <1>1, <1>13, AtCall DEF ChartGet, KindsAt, Calls
    <2>2. CASE \E x \in Local : Goto(r, "upgradeRun", x)
      BY <1>1, <1>13, <2>1, <2>2, GotoOK DEF KindsAt, Calls
    <2>3. CASE \E res \in Result : HelmReturns(r, res)
      BY <1>1, <1>13, <2>1, <2>3, HelmReturnsOK
    <2> QED BY <1>2, <1>3, <1>13, <2>1, <2>2, <2>3, LocalTypes DEF ChartGet
  <1>14. CASE UpgradeRun(r) /\ UNCHANGED removing
    <2>1. Busy(r) /\ NotYet(r) /\ arg[r].kind \in {"create", "update", "upgrade"} /\ t \in Teams
          /\ arg[r] \in Request
      BY <1>1, <1>14, AtCall DEF UpgradeRun, KindsAt, Calls
    <2>2. CASE \E x \in Local : Goto(r, "upgradeWait", x)
      BY <1>1, <1>14, <2>1, <2>2, GotoOK DEF KindsAt, Calls
    <2>3. CASE \E res \in Result : HelmReturns(r, res)
      BY <1>1, <1>14, <2>1, <2>3, HelmReturnsOK
    <2> QED BY <1>2, <1>3, <1>14, <2>1, <2>2, <2>3, LocalTypes DEF UpgradeRun
  <1>15. CASE List(r) /\ UNCHANGED removing
    <2>1. Busy(r) /\ NotYet(r) /\ arg[r].kind = "upgrade"
      BY <1>1, <1>15, AtCall DEF List, KindsAt, Calls
    <2>2. CASE Answer(r, 500)
      BY <1>1, <1>15, <2>1, <2>2, AnswerOK DEF Codes
    <2>3. CASE /\ \E o \in [Teams -> Outcomes] : outcome' = [outcome EXCEPT ![r] = o]
               /\ pc' = [pc EXCEPT ![r] = "nextRelease"]
               /\ UNCHANGED <<cur, loc, resp>>
      <3>1. RequestTypeOK'
        BY <1>1, <2>3 DEF RequestOK, RequestTypeOK, Calls
      <3>2. Placed'
        BY <1>1, <1>15, <2>1, <2>3
        DEF RequestOK, RequestTypeOK, Placed, InPlace, Busy, Calls, KindsAt
      <3> QED BY <3>1, <3>2 DEF RequestOK
    <2> QED BY <1>15, <2>2, <2>3 DEF List
  <1>16. CASE NextRelease(r) /\ UNCHANGED removing
    <2>1. Busy(r) /\ NotYet(r) /\ arg[r].kind = "upgrade"
      BY <1>1, <1>16, AtCall DEF NextRelease, KindsAt, Calls
    <2>2. CASE Answer(r, 200)
      BY <1>1, <1>16, <2>1, <2>2, AnswerOK DEF Codes
    <2>3. CASE \E u \in Teams : /\ cur' = [cur EXCEPT ![r] = u]
                                /\ pc' = [pc EXCEPT ![r] = "chartGet"]
                                /\ UNCHANGED <<loc, resp, outcome>>
      <3>1. RequestTypeOK'
        BY <1>1, <2>3 DEF RequestOK, RequestTypeOK, Calls
      <3>2. Placed'
        BY <1>1, <1>16, <2>1, <2>3
        DEF RequestOK, RequestTypeOK, Placed, InPlace, Busy, Calls, KindsAt
      <3> QED BY <3>1, <3>2 DEF RequestOK
    <2> QED BY <1>16, <2>2, <2>3 DEF NextRelease, Todo
  <1>17. CASE UninstallRun(r) /\ UNCHANGED removing
    <2>1. Busy(r) /\ NotYet(r) /\ arg[r].kind = "delete" /\ t \in Teams /\ arg[r] \in Request
      BY <1>1, <1>17, AtCall DEF UninstallRun, KindsAt, Calls
    <2>2. CASE Goto(r, "uninstallWait", Purging(Revs(t)))
      BY <1>1, <1>17, <2>1, <2>2, GotoOK, LocalTypes DEF KindsAt, Calls
    <2>3. CASE \E res \in Result : HelmReturns(r, res)
      BY <1>1, <1>17, <2>1, <2>3, HelmReturnsOK
    <2> QED BY <1>2, <1>17, <2>2, <2>3 DEF UninstallRun
  <1>18. CASE UninstallWait(r) /\ UNCHANGED removing
    <2>1. Busy(r) /\ NotYet(r) /\ t \in Teams
      BY <1>1, <1>18, AtCall DEF UninstallWait, Calls
    <2>2. \E res \in Result : HelmReturns(r, res)
      BY <1>2, <1>18 DEF UninstallWait
    <2> QED BY <1>1, <1>18, <2>1, <2>2, HelmReturnsOK
  <1>19. CASE NsDelete(r)
    <2>1. /\ Busy(r) /\ NotYet(r) /\ t \in Teams
          /\ arg[r].kind = "delete" /\ Goto(r, "reply", NoLocal)
          /\ removing' = removing \union {r}
      BY <1>1, <1>19, AtCall DEF NsDelete, KindsAt, Calls
    <2> QED BY <1>1, <2>1, GotoOK, NoLocalType DEF KindsAt, Calls
  <1> QED
    BY <1>a, <1>4, <1>5, <1>6, <1>7, <1>8, <1>9, <1>10, <1>11, <1>12, <1>13, <1>14,
       <1>15, <1>16, <1>17, <1>18, <1>19, <1>20, <1>21 DEF Step

-----------------------------------------------------------------------------
(***************************************************************************)
(* The cluster: every step keeps its types.                                *)
(***************************************************************************)

LEMMA CreatedType ==
  ASSUME TypesOK, NEW t \in Teams
  PROVE  Created(t) \in [Teams -> NsState]
  BY DEF TypesOK, ClusterTypeOK, Created, NsState

LEMMA WrittenType ==
  ASSUME TypesOK, NEW r \in Reqs, cur[r] \in Teams
  PROVE  /\ Written(r) \in [Teams -> SecretState]
         /\ Written(r)[cur[r]].exists
  <1>1. loc[r].seen.data \in [Fields -> Writers \union {None}]
    BY DEF TypesOK, RequestOK, RequestTypeOK, Local, SecretState
  <1>2. Overlay(r, loc[r].seen.data) \in [Fields -> Writers \union {None}]
    BY <1>1 DEF Overlay, Writers
  <1> QED BY <1>2 DEF TypesOK, ClusterTypeOK, Written, SecretState

LEMMA OwnType ==
  ASSUME TypesOK, NEW r \in Reqs, NEW status \in Status
  PROVE  Own(r, status) \in Revision
  BY DEF TypesOK, RequestOK, RequestTypeOK, BoundTypeOK, Local, Own, Revision

LEMMA RecordedType ==
  ASSUME TypesOK, NEW t \in Teams, NEW S \in SUBSET Revision
  PROVE  Recorded(t, S) \in [Teams -> SUBSET Revision]
  <1>1. hist \in [Teams -> SUBSET Revision]
    BY DEF TypesOK, ClusterTypeOK
  <1>2. Updated(hist[t], S) \in SUBSET Revision
    BY <1>1, UpdatedType
  <1> QED BY <1>1, <1>2 DEF Recorded

\* The end of an install or an upgrade stores revisions again, or nothing.
LEMMA WaitRecords ==
  ASSUME TypesOK, NEW r \in Reqs,
         InstallWait(r) \/ UpgradeWait(r) \/ UpgradeRecord(r) \/ RunFails(r) \/ Abandoned(r)
  PROVE  /\ cur[r] \in Teams
         /\ UNCHANGED <<ns, secret>>
         /\ \/ hist' = hist
            \/ \E S \in SUBSET Revision : hist' = Recorded(cur[r], S)
  <1>1. cur[r] \in Teams
    BY AtCall DEF InstallWait, UpgradeWait, UpgradeRecord, RunFails, Abandoned, Calls,
                  TypesOK
  <1>2. loc[r].base \in SUBSET Revision
    BY DEF TypesOK, RequestOK, RequestTypeOK, Local
  <1>3. Own(r, "deployed") \in Revision /\ Own(r, "failed") \in Revision
    BY OwnType DEF Status
  <1>4. /\ Superseded(loc[r].base) \in SUBSET Revision
        /\ {Own(r, "deployed")} \in SUBSET Revision
        /\ {Own(r, "failed")} \in SUBSET Revision
        /\ loc[r].base \union {Own(r, "failed")} \in SUBSET Revision
    BY <1>2, <1>3, SupersededType
  <1>5. CASE InstallWait(r)
    BY <1>1, <1>4, <1>5 DEF InstallWait, Unsure
  <1>6. CASE UpgradeWait(r)
    BY <1>1, <1>4, <1>6 DEF UpgradeWait, Unsure
  <1>7. CASE UpgradeRecord(r)
    BY <1>1, <1>4, <1>7 DEF UpgradeRecord, Unsure
  <1>8. CASE RunFails(r) \/ Abandoned(r)
    BY <1>1, <1>4, <1>8 DEF RunFails, Abandoned, Unsure
  <1> QED BY <1>5, <1>6, <1>7, <1>8

\* So does a goroutine that goes on by itself.
LEMMA LateRecords ==
  ASSUME TypesOK, NEW j \in late, Late(j)
  PROVE  /\ j.team \in Teams /\ j.by \in Reqs
         /\ UNCHANGED <<ns, secret, request, pc, target, gone, crashes, removing>>
         /\ \/ hist' = hist
            \/ \E S \in SUBSET Revision : hist' = Recorded(j.team, S)
  <1>1. /\ j.team \in Teams /\ j.by \in Reqs
        /\ j.base \in SUBSET Revision /\ j.own \in Revision
    BY DEF TypesOK, BoundTypeOK, Job
  <1>2. As(j.own, "deployed") \in Revision
    BY <1>1, AsType DEF Status
  <1>3. /\ Superseded(j.base) \in SUBSET Revision
        /\ {As(j.own, "deployed")} \in SUBSET Revision
        /\ j.base \union {j.own} \in SUBSET Revision
    BY <1>1, <1>2, SupersededType
  <1>4. UNCHANGED <<ns, secret, request, pc, target, gone, crashes, removing>>
    BY DEF Late
  <1>5. CASE LateDone(j)
    BY <1>1, <1>3, <1>4, <1>5 DEF LateDone
  <1>6. CASE LateFailed(j)
    BY <1>1, <1>3, <1>4, <1>6 DEF LateFailed, Unsure
  <1> QED BY <1>5, <1>6 DEF Late

LEMMA RecordedKeepsTypes ==
  ASSUME TypesOK, NEW t \in Teams, UNCHANGED <<ns, secret>>,
         \/ hist' = hist
         \/ \E S \in SUBSET Revision : hist' = Recorded(t, S)
  PROVE  ClusterTypeOK' /\ SecretsOK'
  <1>1. hist' \in [Teams -> SUBSET Revision]
    BY RecordedType DEF TypesOK, ClusterTypeOK
  <1> QED BY <1>1 DEF TypesOK, ClusterTypeOK, SecretsOK

LEMMA StepClusterTypes ==
  ASSUME TypesOK, NEW r \in Reqs, Step(r)
  PROVE  ClusterTypeOK' /\ SecretsOK'
  <1> DEFINE t == cur[r]
  <1>1. RequestOK /\ ClusterTypeOK /\ SecretsOK
    BY DEF TypesOK
  <1>2. CASE UNCHANGED cluster
    BY <1>1, <1>2 DEF ClusterTypeOK, SecretsOK, cluster
  <1>3. CASE NsCreate(r)
    <2>1. t \in Teams
      BY <1>1, <1>3, AtCall DEF NsCreate, Calls
    <2> QED BY <1>1, <1>3, <2>1, CreatedType
            DEF NsCreate, Unsure, ClusterTypeOK, SecretsOK
  <1>4. CASE SecretCreate(r) \/ SecretUpdate(r)
    <2>1. t \in Teams
      BY <1>1, <1>4, AtCall DEF SecretCreate, SecretUpdate, Calls
    <2>2. /\ ns' = ns /\ hist' = hist
          /\ secret' = Written(r) \/ secret' = secret
      BY <1>4 DEF SecretCreate, SecretUpdate, WriteSecret, Unsure
    <2>3. \A u \in Teams : u # t => Written(r)[u] = secret[u]
      BY DEF Written
    <2> QED BY <1>1, <2>1, <2>2, <2>3, WrittenType DEF ClusterTypeOK, SecretsOK
  <1>5. CASE InstallRun(r)
    <2>1. t \in Teams /\ arg[r] \in Request
      BY <1>1, <1>5, AtCall DEF InstallRun, Calls
    <2>2. [rev |-> 1, status |-> "pending-install", chart |-> target,
           cfg |-> loc[r].cfg] \in Revision
      BY DEF TypesOK, RequestOK, RequestTypeOK, BoundTypeOK, Local, Revision,
             Status, Pending
    <2>3. /\ secret' = secret
          /\ ns' \in {ns, Created(t)}
          /\ hist' \in {hist, [hist EXCEPT ![t] =
                {[rev |-> 1, status |-> "pending-install", chart |-> target,
                  cfg |-> loc[r].cfg]}]}
      BY <1>5 DEF InstallRun
    <2>4. ns' \in [Teams -> NsState]
      BY <1>1, <2>1, <2>3, CreatedType DEF ClusterTypeOK
    <2>5. hist' \in [Teams -> SUBSET Revision]
      BY <1>1, <2>1, <2>2, <2>3 DEF ClusterTypeOK
    <2> QED BY <1>1, <2>3, <2>4, <2>5 DEF ClusterTypeOK, SecretsOK
  <1>6. CASE InstallWait(r) \/ UpgradeWait(r) \/ UpgradeRecord(r) \/ RunFails(r)
             \/ Abandoned(r)
    BY <1>6, WaitRecords, RecordedKeepsTypes
  <1>7. CASE UpgradeRun(r)
    <2>1. t \in Teams
      BY <1>1, <1>7, AtCall DEF UpgradeRun, Calls
    <2>2. CASE UNCHANGED hist
      BY <1>1, <1>7, <2>2 DEF UpgradeRun, ClusterTypeOK, SecretsOK
    <2>3. ASSUME NEW v \in Latest(t),
                 hist' = [hist EXCEPT ![t] = StoreIn(@,
                            [rev |-> v.rev + 1, status |-> "pending-upgrade",
                             chart |-> target, cfg |-> loc[r].cfg])]
          PROVE  ClusterTypeOK' /\ SecretsOK'
      <3>1. v.rev \in Nat
        BY <1>1, <2>1 DEF Latest, Newest, ClusterTypeOK, Revision
      <3>2. [rev |-> v.rev + 1, status |-> "pending-upgrade", chart |-> target,
             cfg |-> loc[r].cfg] \in Revision
        BY <3>1 DEF TypesOK, RequestOK, RequestTypeOK, BoundTypeOK, Local,
                    Revision, Status, Pending
      <3> QED BY <1>1, <1>7, <2>1, <2>3, <3>2, StoreInType
              DEF UpgradeRun, ClusterTypeOK, SecretsOK
    <2> QED BY <1>7, <2>2, <2>3 DEF UpgradeRun
  <1>8. CASE UninstallRun(r)
    <2>1. t \in Teams
      BY <1>1, <1>8, AtCall DEF UninstallRun, Calls
    <2>2. ASSUME NEW v \in Latest(t)
          PROVE  {As(v, "uninstalling")} \in SUBSET Revision
      BY <1>1, <2>1, AsType DEF Latest, Newest, ClusterTypeOK, Status
    <2>3. \/ hist' = hist
          \/ \E S \in SUBSET Revision : hist' = Recorded(t, S)
      BY <1>8, <2>2 DEF UninstallRun, Unsure
    <2>4. UNCHANGED <<ns, secret>>
      BY <1>8 DEF UninstallRun
    <2> QED BY <2>1, <2>3, <2>4, RecordedKeepsTypes
  <1>9. CASE UninstallWait(r)
    <2>1. t \in Teams
      BY <1>1, <1>9, AtCall DEF UninstallWait, Calls
    <2>2. PurgeFrom(t, loc[r].revs) \subseteq hist[t]
      BY DEF PurgeFrom
    <2> QED BY <1>1, <1>9, <2>1, <2>2
            DEF UninstallWait, Unsure, ClusterTypeOK, SecretsOK
  <1>10. CASE NsDelete(r)
    BY <1>1, <1>10 DEF NsDelete, DeleteNamespace, Unsure, ClusterTypeOK, SecretsOK,
                       NsState
  <1> QED
    BY <1>2, <1>3, <1>4, <1>5, <1>6, <1>7, <1>8, <1>9, <1>10
    DEF Step, NsGet, SecretGet, ChartUnavailable, InstallGet, UpgradeGet, ChartGet,
        List, NextRelease, Reply

LEMMA StepBoundTypes ==
  ASSUME TypesOK, NEW r \in Reqs, Step(r)
  PROVE  BoundTypeOK'
  <1>1. BoundTypeOK
    BY DEF TypesOK
  <1>2. Healthy \/ Fault(r) \/ Abandoned(r)
    BY DEF Step, Served, Broken, NsGet, NsCreate, SecretGet, SecretCreate,
           SecretUpdate, WriteSecret, ChartUnavailable, InstallGet, InstallRun,
           InstallWait, RunFails, UpgradeGet, ChartGet, UpgradeRun, UpgradeWait,
           UpgradeRecord, List, NextRelease, UninstallRun, UninstallWait, NsDelete,
           DeleteNamespace, Reply
  <1>3. faults' \in Nat /\ disturbed' \subseteq Reqs
    BY <1>1, <1>2 DEF Healthy, Fault, Abandoned, BoundTypeOK
  <1>4. removing' \subseteq Reqs
    BY <1>1 DEF Step, NsDelete, BoundTypeOK
  <1>5. late' \subseteq Job
    <2>1. CASE Abandoned(r)
      <3>1. cur[r] \in Teams
        BY <2>1, WaitRecords
      <3>2. loc[r].base \in SUBSET Revision
        BY DEF TypesOK, RequestOK, RequestTypeOK, Local
      <3>3. Own(r, "failed") \in Revision
        BY OwnType DEF Status
      <3> QED BY <1>1, <2>1, <3>1, <3>2, <3>3 DEF Abandoned, BoundTypeOK, Job
    <2>2. CASE UNCHANGED late
      BY <1>1, <2>2 DEF BoundTypeOK
    <2> QED BY <2>1, <2>2 DEF Step
  <1>6. UNCHANGED <<target, gone, crashes>>
    BY DEF Step
  <1> QED BY <1>1, <1>3, <1>4, <1>5, <1>6 DEF BoundTypeOK

LEMMA LateTypes ==
  ASSUME TypesOK, NEW j \in late, Late(j)
  PROVE  TypesOK'
  <1>1. ClusterTypeOK' /\ SecretsOK'
    BY LateRecords, RecordedKeepsTypes
  <1>2. RequestOK'
    BY LateRecords DEF TypesOK, request, RequestOK, RequestTypeOK, Placed, InPlace, Busy
  <1>0. Healthy \/ Fault(j.by)
    BY DEF Late, LateDone, LateFailed
  <1>3. faults' \in Nat /\ disturbed' \subseteq Reqs
    BY <1>0, LateRecords DEF Healthy, Fault, TypesOK, BoundTypeOK
  <1>4. late' \subseteq late
    BY DEF Late
  <1>5. BoundTypeOK'
    BY <1>3, <1>4, LateRecords DEF TypesOK, BoundTypeOK
  <1> QED BY <1>1, <1>2, <1>5 DEF TypesOK

-----------------------------------------------------------------------------
(***************************************************************************)
(* Type correctness.                                                       *)
(***************************************************************************)

LEMMA InitTypes == Init => TypesOK
  <1> SUFFICES ASSUME Init PROVE TypesOK
    OBVIOUS
  <1>1. PICK P \in SUBSET Provisioned :
          /\ ns = [t \in Teams |-> IF t \in P THEN "active" ELSE "absent"]
          /\ secret = [t \in Teams |->
                IF t \in P
                THEN [exists |-> TRUE, data |-> [f \in Fields |-> Prior]]
                ELSE NoSecret]
          /\ hist = [t \in Teams |->
                IF t \in P
                THEN {[rev |-> 1, status |-> "deployed", chart |-> Installed,
                       cfg |-> [url |-> Prior, rest |-> Prior]]}
                ELSE {}]
    BY DEF Init
  <1>2. [exists |-> TRUE, data |-> [f \in Fields |-> Prior]] \in SecretState
    BY DEF SecretState, Writers
  <1>3. [rev |-> 1, status |-> "deployed", chart |-> Installed,
         cfg |-> [url |-> Prior, rest |-> Prior]] \in Revision
    BY ApiAssumption DEF Revision, Status, Pending, Config, Writers
  <1>4. ClusterTypeOK /\ SecretsOK
    BY <1>1, <1>2, <1>3, NoLocalType DEF ClusterTypeOK, SecretsOK, NsState
  <1>5. RequestTypeOK
    <2>1. /\ NoOutcome \in [Teams -> Outcomes]
          /\ 0 \in Codes(NoRequest.kind)
      BY DEF NoOutcome, Outcomes, Codes
    <2>2. /\ pc = [r \in Reqs |-> "idle"] /\ arg = [r \in Reqs |-> NoRequest]
          /\ cur = [r \in Reqs |-> None] /\ loc = [r \in Reqs |-> NoLocal]
          /\ resp = [r \in Reqs |-> 0] /\ outcome = [r \in Reqs |-> NoOutcome]
      BY DEF Init
    <2> QED BY <2>1, <2>2, NoLocalType DEF RequestTypeOK
  <1>6. Placed
    BY DEF Init, Placed, InPlace, Busy, Calls
  <1>7. BoundTypeOK
    BY DEF Init, BoundTypeOK
  <1> QED BY <1>4, <1>5, <1>6, <1>7 DEF TypesOK, RequestOK

LEMMA NextTypes == TypesOK /\ [Next]_vars => TypesOK'
  <1> SUFFICES ASSUME TypesOK, [Next]_vars PROVE TypesOK'
    OBVIOUS
  <1> USE DEF TypesOK
  <1>1. CASE UNCHANGED vars
    BY <1>1 DEF vars, cluster, request, bounds, ClusterTypeOK, SecretsOK, RequestOK,
                RequestTypeOK, Placed, InPlace, Busy, BoundTypeOK
  <1>2. ASSUME NEW r \in Reqs, Receive(r) PROVE TypesOK'
    <2>1. /\ UNCHANGED <<cluster, bounds, late, removing>>
          /\ disturbed' \subseteq Reqs
      BY <1>2 DEF Receive, Rivals, BoundTypeOK
    <2> QED BY <1>2, <2>1, ReceiveOK
            DEF cluster, bounds, ClusterTypeOK, SecretsOK, BoundTypeOK
  <1>3. ASSUME NEW r \in Reqs, Step(r) PROVE TypesOK'
    BY <1>3, StepRequestOK, StepClusterTypes, StepBoundTypes
  <1>4. ASSUME NEW r \in Reqs, Cancel(r) PROVE TypesOK'
    BY <1>4 DEF Cancel, cluster, request, ClusterTypeOK, SecretsOK, RequestOK,
                RequestTypeOK, Placed, InPlace, Busy, BoundTypeOK
  <1>5. CASE Crash
    <2>1. ClusterTypeOK' /\ SecretsOK' /\ BoundTypeOK'
      BY <1>5 DEF Crash, cluster, ClusterTypeOK, SecretsOK, BoundTypeOK
    <2>2. RequestTypeOK'
      BY <1>5, NoLocalType DEF Crash, RequestOK, RequestTypeOK
    <2>3. Placed'
      BY <1>5 DEF Crash, RequestOK, RequestTypeOK, Placed, InPlace, Busy, Calls
    <2> QED BY <2>1, <2>2, <2>3 DEF RequestOK
  <1>6. CASE Namespaces
    <2>1. ClusterTypeOK' /\ SecretsOK'
      BY <1>6, NoLocalType
      DEF Namespaces, NsEmpty, NsGone, ClusterTypeOK, SecretsOK, NsState
    <2>2. RequestOK' /\ BoundTypeOK'
      BY <1>6 DEF Namespaces, request, bounds, RequestOK, RequestTypeOK, Placed,
                  InPlace, Busy, BoundTypeOK
    <2> QED BY <2>1, <2>2
  <1>7. ASSUME NEW j \in late, Late(j) PROVE TypesOK'
    BY <1>7, LateTypes
  <1> QED BY <1>1, <1>2, <1>3, <1>4, <1>5, <1>6, <1>7 DEF Next

\* In every reachable state every variable has its type, and every request
\* was answered with a code of its handler, or not yet.
THEOREM TypeCorrect == Spec => []TypeOK
  <1>1. TypesOK => TypeOK
    BY DEF TypesOK, RequestOK, TypeOK
  <1> QED BY <1>1, InitTypes, NextTypes, PTL DEF Spec

-----------------------------------------------------------------------------
(***************************************************************************)
(* What a step of a handler can do to the three stores, and to whom.       *)
(***************************************************************************)

LEMMA StepIsLocal ==
  ASSUME TypesOK, NEW r \in Reqs, Step(r)
  PROVE  /\ Busy(r) /\ UNCHANGED arg
         /\ \A o \in Reqs \ {r} :
              pc'[o] = pc[o] /\ cur'[o] = cur[o] /\ resp'[o] = resp[o]
         /\ arg[r].kind # "upgrade" => cur'[r] = cur[r]
  <1>1. Busy(r) /\ UNCHANGED arg
    BY DEF Step, Busy, Calls, NsGet, NsCreate, SecretGet, SecretCreate,
           SecretUpdate, ChartUnavailable, InstallGet, InstallRun, InstallWait,
           UpgradeGet, ChartGet, UpgradeRun, UpgradeWait, UpgradeRecord, RunFails,
           Abandoned, List, NextRelease, UninstallRun, UninstallWait, NsDelete,
           Reply
  <1>2. \/ \E call, x : Goto(r, call, x)
        \/ \E code : Answer(r, code)
        \/ \E res : HelmReturns(r, res)
        \/ List(r) \/ NextRelease(r)
    BY DEF Step, NsGet, NsCreate, SecretGet, SecretCreate, SecretUpdate,
           WriteSecret, ChartUnavailable, InstallGet, InstallRun, InstallWait,
           RunFails, UpgradeGet, ChartGet, UpgradeRun, UpgradeWait, UpgradeRecord,
           Abandoned, UninstallRun, UninstallWait, NsDelete, Reply
  <1>3. \/ \E call, x : Goto(r, call, x)
        \/ \E code : Answer(r, code)
        \/ pc' = [pc EXCEPT ![r] = "nextRelease"] /\ UNCHANGED <<cur, resp>>
        \/ /\ pc[r] = "nextRelease"
           /\ pc' = [pc EXCEPT ![r] = "chartGet"] /\ UNCHANGED resp
           /\ \E u \in Teams : cur' = [cur EXCEPT ![r] = u]
    BY <1>2 DEF HelmReturns, List, NextRelease, Todo
  <1>4. pc[r] = "nextRelease" => arg[r].kind = "upgrade"
    BY AtCall DEF TypesOK, Calls, KindsAt
  <1> QED BY <1>1, <1>3, <1>4 DEF TypesOK, RequestOK, RequestTypeOK, Goto, Answer

LEMMA StepSecret ==
  ASSUME NEW r \in Reqs, Step(r)
  PROVE  \/ secret' = secret
         \/ /\ secret' = Written(r) /\ ns' = ns /\ hist' = hist
            /\ \/ pc[r] = "secretCreate" /\ CanCreateSecret(r)
               \/ pc[r] = "secretUpdate" /\ CanUpdateSecret(r)
  BY DEF Step, cluster, NsGet, NsCreate, SecretGet, SecretCreate, SecretUpdate,
         WriteSecret, Unsure, ChartUnavailable, InstallGet, InstallRun,
         InstallWait, UpgradeGet, ChartGet, UpgradeRun, UpgradeWait, UpgradeRecord,
         RunFails, Abandoned, List, NextRelease, UninstallRun, UninstallWait,
         NsDelete, Reply

LEMMA StepNamespace ==
  ASSUME NEW r \in Reqs, Step(r)
  PROVE  \/ ns' = ns
         \/ ns' = Created(cur[r])
         \/ /\ pc[r] = "nsDelete" /\ removing' = removing \union {r}
            /\ ns' = [ns EXCEPT ![cur[r]] = "terminating"]
  BY DEF Step, cluster, NsGet, NsCreate, SecretGet, SecretCreate, SecretUpdate,
         WriteSecret, Unsure, ChartUnavailable, InstallGet, InstallRun,
         InstallWait, UpgradeGet, ChartGet, UpgradeRun, UpgradeWait, UpgradeRecord,
         RunFails, Abandoned, List, NextRelease, UninstallRun, UninstallWait,
         NsDelete, DeleteNamespace, Reply

LEMMA StepRemoving ==
  ASSUME NEW r \in Reqs, Step(r)
  PROVE  removing \subseteq removing'
  BY DEF Step, NsDelete

\* Storing again what is stored makes no release.
LEMMA RecordedNothing ==
  ASSUME TypesOK, NEW t \in Teams, NEW u \in Teams, NEW S, ~Released(t),
         hist' = hist \/ hist' = Recorded(u, S)
  PROVE  ~Released(t)'
  <1>1. hist \in [Teams -> SUBSET Revision] /\ hist[t] = {}
    BY DEF TypesOK, ClusterTypeOK, Released
  <1>2. Updated({}, S) = {}
    BY DEF Updated
  <1> QED BY <1>1, <1>2 DEF Recorded, Released

LEMMA StepRelease ==
  ASSUME TypesOK, NEW r \in Reqs, Step(r), NEW t \in Teams, ~Released(t), Released(t)'
  PROVE  pc[r] = "installRun" /\ t = cur[r]
  <1>1. hist \in [Teams -> SUBSET Revision] /\ hist[t] = {} /\ hist'[t] # {}
    BY DEF TypesOK, ClusterTypeOK, Released
  <1>2. CASE InstallRun(r)
    BY <1>1, <1>2 DEF InstallRun
  <1>3. CASE InstallWait(r) \/ UpgradeWait(r) \/ UpgradeRecord(r) \/ RunFails(r)
             \/ Abandoned(r)
    BY <1>3, WaitRecords, RecordedNothing
  <1>4. CASE UpgradeRun(r) \/ UninstallRun(r)
    <2>1. CASE hist[cur[r]] = {}
      BY <1>1, <1>4, <2>1
      DEF UpgradeRun, UninstallRun, Latest, Newest
    <2>2. CASE cur[r] # t
      BY <1>1, <1>4, <2>2
      DEF UpgradeRun, UninstallRun, Unsure, Recorded
    <2> QED BY <1>1, <2>1, <2>2
  <1>5. CASE UninstallWait(r)
    BY <1>1, <1>5 DEF UninstallWait, Unsure, PurgeFrom
  <1> QED
    BY <1>1, <1>2, <1>3, <1>4, <1>5
    DEF Step, cluster, NsGet, NsCreate, SecretGet, SecretCreate, SecretUpdate,
        WriteSecret, ChartUnavailable, InstallGet, UpgradeGet, ChartGet, List,
        NextRelease, NsDelete, Reply

LEMMA StepPastSecret ==
  ASSUME TypesOK, NEW r \in Reqs, Step(r), arg[r].kind = "create",
         pc'[r] \in PastSecret, pc[r] \notin PastSecret
  PROVE  secret' = Written(r)
  <1>1. pc \in [Reqs -> Calls \union {"idle", "answered", "dead"}]
    BY DEF TypesOK, RequestOK, RequestTypeOK
  <1>2. CASE SecretCreate(r) \/ SecretUpdate(r)
    BY <1>1, <1>2 DEF SecretCreate, SecretUpdate, WriteSecret, Answer, PastSecret
  <1>3. CASE NsGet(r) \/ NsCreate(r) \/ SecretGet(r)
    BY <1>1, <1>3 DEF NsGet, NsCreate, SecretGet, Goto, Answer, PastSecret
  <1>4. Busy(r) /\ arg[r].kind \in KindsAt(pc[r])
    BY StepIsLocal, AtCall DEF TypesOK, Busy
  <1>5. pc[r] \in {"nsGet", "nsCreate", "secretGet", "secretCreate", "secretUpdate",
                  "reply"}
    BY <1>4 DEF Busy, Calls, KindsAt, PastSecret
  <1>6. CASE Reply(r)
    BY <1>1, <1>6 DEF Reply, Answer, PastSecret
  <1> QED
    BY <1>2, <1>3, <1>5, <1>6
    DEF Step, ChartUnavailable, InstallGet, InstallRun, InstallWait, UpgradeGet,
        ChartGet, UpgradeRun, UpgradeWait, UpgradeRecord, RunFails, Abandoned,
        List, NextRelease, UninstallRun, UninstallWait, NsDelete, Reply

-----------------------------------------------------------------------------
(***************************************************************************)
(* What becomes of a history.                                              *)
(***************************************************************************)

Distinct(S) == \A v, w \in S : v.rev = w.rev => v = w

\* A new revision, above all that are stored.
NewOn(r, t, p) ==
    /\ p \in Revision /\ p.status \in Pending
    /\ p.chart = target /\ p.cfg = loc[r].cfg
    /\ \A w \in hist[t] : w.rev < p.rev
    /\ hist'[t] = hist[t] \union {p}

\* What a request stores again.
Rewrites(r, S) ==
    \/ /\ pc[r] \in Waiting
       /\ S \in {{Own(r, "deployed")}, {Own(r, "failed")},
                 loc[r].base \union {Own(r, "failed")}, Superseded(loc[r].base)}
    \/ /\ pc[r] = "uninstallRun"
       /\ \E v \in Latest(cur[r]) : S = {As(v, "uninstalling")}

LEMMA StepHistory ==
  ASSUME TypesOK, NEW r \in Reqs, Step(r), NEW t \in Teams, hist'[t] # hist[t]
  PROVE  /\ cur[r] = t
         /\ \/ pc[r] \in {"installRun", "upgradeRun"} /\ \E p : NewOn(r, t, p)
            \/ \E S : Rewrites(r, S) /\ hist'[t] = Updated(hist[t], S)
            \/ pc[r] = "uninstallWait" /\ hist'[t] = PurgeFrom(t, loc[r].revs)
  <1>1. hist \in [Teams -> SUBSET Revision] /\ target \in Charts /\ loc[r].cfg \in Config
    BY DEF TypesOK, ClusterTypeOK, BoundTypeOK, RequestOK, RequestTypeOK, Local
  <1>2. ASSUME NEW S, hist' = Recorded(cur[r], S)
        PROVE  cur[r] = t /\ hist'[t] = Updated(hist[t], S)
    BY <1>1, <1>2 DEF Recorded
  <1>3. CASE InstallRun(r)
    <2> DEFINE p == [rev |-> 1, status |-> "pending-install", chart |-> target,
                     cfg |-> loc[r].cfg]
    <2>1. hist[cur[r]] = {} /\ hist' = [hist EXCEPT ![cur[r]] = {p}]
      BY <1>3 DEF InstallRun
    <2>2. cur[r] = t /\ hist[t] = {} /\ hist'[t] = {p}
      BY <1>1, <2>1
    <2>3. p \in Revision /\ p.status \in Pending
      BY <1>1 DEF Revision, Status, Pending
    <2>4. NewOn(r, t, p)
      BY <2>2, <2>3 DEF NewOn
    <2> QED BY <1>3, <2>2, <2>4 DEF InstallRun
  <1>4. CASE UpgradeRun(r)
    <2>1. PICK v \in Latest(cur[r]) :
            hist' = [hist EXCEPT ![cur[r]] = StoreIn(@,
                      [rev |-> v.rev + 1, status |-> "pending-upgrade",
                       chart |-> target, cfg |-> loc[r].cfg])]
      BY <1>4 DEF UpgradeRun
    <2> DEFINE p == [rev |-> v.rev + 1, status |-> "pending-upgrade",
                     chart |-> target, cfg |-> loc[r].cfg]
    <2>2. cur[r] = t /\ hist'[t] = StoreIn(hist[t], p)
      BY <1>1, <2>1
    <2>3. v \in Revision /\ \A w \in hist[t] : w \in Revision /\ w.rev <= v.rev
      BY <1>1, <2>1, <2>2 DEF Latest, Newest
    <2>4. v.rev \in Nat /\ \A w \in hist[t] : w.rev \in Nat /\ w.rev < v.rev + 1
      BY <2>3 DEF Revision
    <2>5. p \in Revision /\ p.status \in Pending
      BY <1>1, <2>4 DEF Revision, Status, Pending
    <2>6. \A w \in hist[t] : w.rev # p.rev
      BY <2>4
    <2>7. hist'[t] = hist[t] \union {p}
      BY <2>2, <2>6 DEF StoreIn
    <2>8. NewOn(r, t, p)
      BY <2>4, <2>5, <2>7 DEF NewOn
    <2> QED BY <1>4, <2>2, <2>8 DEF UpgradeRun
  <1>5. CASE InstallWait(r)
    BY <1>2, <1>5 DEF InstallWait, Unsure, Rewrites, Waiting
  <1>6. CASE UpgradeWait(r)
    BY <1>2, <1>6 DEF UpgradeWait, Unsure, Rewrites, Waiting
  <1>7. CASE UpgradeRecord(r)
    BY <1>2, <1>7 DEF UpgradeRecord, Unsure, Rewrites, Waiting
  <1>8. CASE RunFails(r) \/ Abandoned(r)
    BY <1>2, <1>8 DEF RunFails, Abandoned, Unsure, Rewrites, Waiting
  <1>9. CASE UninstallRun(r)
    BY <1>2, <1>9 DEF UninstallRun, Unsure, Rewrites
  <1>10. CASE UninstallWait(r)
    BY <1>1, <1>10 DEF UninstallWait, Unsure
  <1> QED
    BY <1>3, <1>4, <1>5, <1>6, <1>7, <1>8, <1>9, <1>10
    DEF Step, cluster, NsGet, NsCreate, SecretGet, SecretCreate, SecretUpdate,
        WriteSecret, ChartUnavailable, InstallGet, UpgradeGet, ChartGet, List,
        NextRelease, NsDelete, Reply

\* What a goroutine that goes on by itself stores again.
LateRewrites(j, S) ==
    \/ j.base = {} /\ S = {As(j.own, "deployed")}
    \/ j.base # {} /\ S \in {Superseded(j.base), j.base \union {j.own}}

LEMMA LateHistory ==
  ASSUME TypesOK, NEW j \in late, Late(j), NEW t \in Teams, hist'[t] # hist[t]
  PROVE  j.team = t /\ \E S : LateRewrites(j, S) /\ hist'[t] = Updated(hist[t], S)
  <1>1. hist \in [Teams -> SUBSET Revision]
    BY DEF TypesOK, ClusterTypeOK
  <1>2. ASSUME NEW S, hist' = Recorded(j.team, S)
        PROVE  j.team = t /\ hist'[t] = Updated(hist[t], S)
    BY <1>1, <1>2 DEF Recorded
  <1>3. \E S : LateRewrites(j, S) /\ hist' = Recorded(j.team, S)
    BY DEF Late, LateDone, LateFailed, Unsure, LateRewrites
  <1> QED BY <1>2, <1>3

\* Where the revision that is being deployed, and the one under it, come from.
LEMMA StepDeploys ==
  ASSUME TypesOK, NEW r \in Reqs, Step(r)
  PROVE  /\ \A o \in Reqs \ {r} : loc'[o] = loc[o]
         /\ pc'[r] \in Waiting =>
              \/ pc[r] \in Waiting /\ loc'[r] = loc[r]
              \/ loc'[r].base = {}
              \/ /\ cur[r] \in Teams
                 /\ \E v \in Latest(cur[r]) :
                      loc'[r].base = Base(cur[r], v) /\ loc'[r].rev = v.rev + 1
  <1>1. /\ loc \in [Reqs -> Local]
        /\ pc \in [Reqs -> Calls \union {"idle", "answered", "dead"}]
    BY DEF TypesOK, RequestOK, RequestTypeOK
  <1>2. \/ \E call, x : Goto(r, call, x)
        \/ \E code : Answer(r, code)
        \/ \E res : HelmReturns(r, res)
        \/ List(r) \/ NextRelease(r)
    BY DEF Step, NsGet, NsCreate, SecretGet, SecretCreate, SecretUpdate,
           WriteSecret, ChartUnavailable, InstallGet, InstallRun, InstallWait,
           RunFails, UpgradeGet, ChartGet, UpgradeRun, UpgradeWait, UpgradeRecord,
           Abandoned, UninstallRun, UninstallWait, NsDelete, Reply
  <1>3. \A o \in Reqs \ {r} : loc'[o] = loc[o]
    BY <1>1, <1>2 DEF Goto, Answer, HelmReturns, List, NextRelease
  <1>4. ASSUME NEW res, HelmReturns(r, res) PROVE pc'[r] \notin Waiting
    BY <1>1, <1>4 DEF HelmReturns, Goto, Answer, Waiting
  <1>5. ASSUME NEW code, Answer(r, code) PROVE pc'[r] \notin Waiting
    BY <1>1, <1>5 DEF Answer, Waiting
  <1>6. ASSUME NEW call, NEW x, Goto(r, call, x)
        PROVE  pc'[r] = call /\ loc'[r] = x
    BY <1>1, <1>6 DEF Goto
  <1>7. CASE InstallRun(r)
    <2>1. ASSUME Goto(r, "installWait", Deploying(r, 1, {})) PROVE loc'[r].base = {}
      <3>1. loc'[r] = [loc[r] EXCEPT !.rev = 1, !.base = {}]
        BY <1>6, <2>1 DEF Deploying
      <3> QED BY <1>1, <3>1 DEF Local
    <2> QED BY <1>3, <1>4, <1>7, <2>1 DEF InstallRun
  <1>8. CASE UpgradeRun(r)
    <2>1. cur[r] \in Teams
      BY <1>8, AtCall DEF UpgradeRun, TypesOK, Calls
    <2>2. ASSUME NEW v \in Latest(cur[r]),
                 Goto(r, "upgradeWait", Deploying(r, v.rev + 1, Base(cur[r], v)))
          PROVE  loc'[r].base = Base(cur[r], v) /\ loc'[r].rev = v.rev + 1
      <3>1. loc'[r] = [loc[r] EXCEPT !.rev = v.rev + 1, !.base = Base(cur[r], v)]
        BY <1>6, <2>2 DEF Deploying
      <3> QED BY <1>1, <3>1 DEF Local
    <2>3. CASE \E res : HelmReturns(r, res)
      BY <1>3, <1>4, <2>3
    <2>4. CASE \E v \in Latest(cur[r]) :
                  Goto(r, "upgradeWait", Deploying(r, v.rev + 1, Base(cur[r], v)))
      BY <1>3, <2>1, <2>2, <2>4
    <2> QED BY <1>8, <2>3, <2>4 DEF UpgradeRun
  <1>9. CASE UpgradeWait(r)
    BY <1>3, <1>6, <1>9 DEF UpgradeWait, Waiting
  <1>10. CASE ~(InstallRun(r) \/ UpgradeRun(r) \/ UpgradeWait(r))
    <2>1. pc'[r] \notin Waiting
      BY <1>1, <1>4, <1>5, <1>10
      DEF Step, NsGet, NsCreate, SecretGet, SecretCreate, SecretUpdate, WriteSecret,
          AfterSecret, Goto, ChartUnavailable, InstallGet, InstallWait, RunFails,
          UpgradeGet, ChartGet, UpgradeRecord, Abandoned, UninstallRun,
          UninstallWait, NsDelete, Reply, List, NextRelease, Waiting
    <2> QED BY <1>3, <2>1
  <1> QED BY <1>3, <1>7, <1>8, <1>9, <1>10

-----------------------------------------------------------------------------
(***************************************************************************)
(* Revisions have numbers of their own.                                    *)
(***************************************************************************)

LEMMA NewestIsOne ==
  ASSUME NEW S \in SUBSET Revision, Distinct(S)
  PROVE  \A v, w \in Newest(S) : v = w
  <1> SUFFICES ASSUME NEW v \in Newest(S), NEW w \in Newest(S)
               PROVE  v = w
    OBVIOUS
  <1>1. v \in S /\ w \in S /\ v.rev <= w.rev /\ w.rev <= v.rev
    BY DEF Newest
  <1>2. v.rev \in Nat /\ w.rev \in Nat
    BY <1>1 DEF Revision
  <1>3. v.rev = w.rev
    BY <1>1, <1>2
  <1> QED BY <1>1, <1>3 DEF Distinct

LEMMA BaseUnder ==
  ASSUME TypesOK, NEW t \in Teams, Numbered(t), NEW v \in Latest(t)
  PROVE  Under(Base(t, v), v.rev + 1)
  <1> DEFINE H == {w \in hist[t] : w.status = "deployed"}
             D == Newest(H)
  <1>1. hist[t] \in SUBSET Revision /\ v \in hist[t]
        /\ \A w \in hist[t] : w.rev <= v.rev
    BY DEF TypesOK, ClusterTypeOK, Latest, Newest
  <1>2. D \subseteq hist[t]
    BY DEF Newest
  <1>3. \A b, c \in D : b = c
    <2>1. H \in SUBSET Revision /\ Distinct(H)
      BY <1>1 DEF Numbered, Distinct
    <2> HIDE DEF H
    <2> QED BY <2>1, NewestIsOne
  <1>4. v.status \in Status
    BY <1>1 DEF Revision
  <1>5. Base(t, v) \in {{}, {v}, D}
    BY <1>4 DEF Base, Status, Pending
  <1>6. \A b \in hist[t] : b.rev < v.rev + 1
    BY <1>1 DEF Revision
  <1> HIDE DEF D
  <1> QED BY <1>1, <1>2, <1>3, <1>5, <1>6 DEF Under

LEMMA UpdatedDistinct ==
  ASSUME NEW h, NEW S, Distinct(h), Distinct(S)
  PROVE  Distinct(Updated(h, S))
  BY DEF Distinct, Updated

LEMMA UnderDistinct ==
  ASSUME NEW B \in SUBSET Revision, NEW n \in Nat, Under(B, n), NEW w, w.rev = n
  PROVE  Distinct(B \union {w}) /\ Distinct(Superseded(B))
  <1>1. \A b \in B : b.rev # n
    <2>1. \A b \in B : b.rev \in Nat /\ b.rev < n
      BY DEF Under, Revision
    <2> QED BY <2>1
  <1>2. Distinct(B \union {w})
    BY <1>1 DEF Distinct, Under
  <1>3. \A x, y \in Superseded(B) : x = y
    BY DEF Superseded, Under
  <1> QED BY <1>2, <1>3 DEF Distinct

LEMMA RewritesDistinct ==
  ASSUME TypesOK, Numbers, NEW r \in Reqs, NEW S, Rewrites(r, S)
  PROVE  Distinct(S)
  <1>1. loc[r].base \in SUBSET Revision /\ loc[r].rev \in Nat
    BY DEF TypesOK, RequestOK, RequestTypeOK, Local
  <1>2. CASE pc[r] \in Waiting
    <2>1. Own(r, "failed").rev = loc[r].rev
      BY DEF Own
    <2>2. Under(loc[r].base, loc[r].rev)
      BY <1>2 DEF Numbers
    <2>3. /\ Distinct(loc[r].base \union {Own(r, "failed")})
          /\ Distinct(Superseded(loc[r].base))
      BY <1>1, <2>1, <2>2, UnderDistinct
    <2>4. pc[r] # "uninstallRun"
      BY <1>2 DEF Waiting
    <2>5. Distinct({Own(r, "deployed")}) /\ Distinct({Own(r, "failed")})
      BY DEF Distinct
    <2> QED BY <2>3, <2>4, <2>5 DEF Rewrites
  <1>3. CASE pc[r] \notin Waiting
    BY <1>3 DEF Rewrites, Distinct
  <1> QED BY <1>2, <1>3

LEMMA LateDistinct ==
  ASSUME TypesOK, Numbers, NEW j \in late, NEW S, LateRewrites(j, S)
  PROVE  Distinct(S)
  <1>1. j.base \in SUBSET Revision /\ j.own.rev \in Nat
    BY DEF TypesOK, BoundTypeOK, Job, Revision
  <1>2. Under(j.base, j.own.rev)
    BY DEF Numbers
  <1>3. Distinct(j.base \union {j.own}) /\ Distinct(Superseded(j.base))
    BY <1>1, <1>2, UnderDistinct
  <1> QED BY <1>3 DEF LateRewrites, Distinct

LEMMA StepNumbers ==
  ASSUME TypesOK, Numbers, NEW r \in Reqs, Step(r)
  PROVE  Numbers'
  <1>1. ASSUME NEW t \in Teams PROVE Numbered(t)'
    <2>1. Numbered(t) /\ hist[t] \in SUBSET Revision
      BY DEF Numbers, TypesOK, ClusterTypeOK
    <2>2. CASE hist'[t] = hist[t]
      BY <2>1, <2>2 DEF Numbered
    <2>3. ASSUME NEW p, NewOn(r, t, p) PROVE Numbered(t)'
      <3>1. \A w \in hist[t] : w.rev # p.rev
        BY <2>1, <2>3 DEF NewOn, Revision
      <3> QED BY <2>1, <2>3, <3>1 DEF NewOn, Numbered
    <2>4. ASSUME NEW S, Rewrites(r, S), hist'[t] = Updated(hist[t], S)
          PROVE  Numbered(t)'
      <3>1. Distinct(Updated(hist[t], S))
        BY <2>1, <2>4, RewritesDistinct, UpdatedDistinct DEF Numbered, Distinct
      <3> QED BY <2>4, <3>1 DEF Numbered, Distinct
    <2>5. CASE hist'[t] = PurgeFrom(t, loc[r].revs)
      BY <2>1, <2>5 DEF PurgeFrom, Numbered
    <2> QED BY <2>2, <2>3, <2>4, <2>5, StepHistory
  <1>2. ASSUME NEW o \in Reqs, pc'[o] \in Waiting
        PROVE  Under(loc[o].base, loc[o].rev)'
    <2>1. CASE o # r
      BY <1>2, <2>1, StepIsLocal, StepDeploys DEF Numbers, Under
    <2>2. CASE o = r /\ pc[r] \in Waiting /\ loc'[r] = loc[r]
      BY <2>2 DEF Numbers, Under
    <2>3. CASE o = r /\ loc'[r].base = {}
      BY <2>3 DEF Under
    <2>4. ASSUME o = r, cur[r] \in Teams, NEW v \in Latest(cur[r]),
                 loc'[r].base = Base(cur[r], v), loc'[r].rev = v.rev + 1
          PROVE  Under(loc[o].base, loc[o].rev)'
      <3>1. PICK t \in Teams : t = cur[r]
        BY <2>4
      <3>2. Under(Base(t, v), v.rev + 1)
        BY <2>4, <3>1, BaseUnder DEF Numbers
      <3> QED BY <2>4, <3>1, <3>2 DEF Under
    <2> QED BY <1>2, <2>1, <2>2, <2>3, <2>4, StepDeploys
  <1>3. ASSUME NEW j \in late' PROVE Under(j.base, j.own.rev)
    <2>1. CASE j \in late
      BY <2>1 DEF Numbers
    <2>2. CASE j \notin late
      <3>1. /\ pc[r] \in Waiting
            /\ j = [by |-> r, team |-> cur[r], base |-> loc[r].base,
                    own |-> Own(r, "failed")]
        BY <1>3, <2>2 DEF Step, Abandoned, Waiting
      <3>2. j.base = loc[r].base /\ j.own.rev = loc[r].rev
        BY <3>1 DEF Own
      <3> QED BY <3>1, <3>2 DEF Numbers
    <2> QED BY <2>1, <2>2
  <1> QED BY <1>1, <1>2, <1>3 DEF Numbers, Under

LEMMA InitNumbers == Init => Numbers
  <1> SUFFICES ASSUME Init PROVE Numbers
    OBVIOUS
  <1>1. \A t \in Teams : Numbered(t)
    BY DEF Init, Numbered
  <1>2. late = {} /\ \A r \in Reqs : pc[r] = "idle"
    BY DEF Init
  <1> QED BY <1>1, <1>2 DEF Numbers, Waiting

LEMMA NextNumbers == TypesOK /\ Numbers /\ [Next]_vars => Numbers'
  <1> SUFFICES ASSUME TypesOK, Numbers, [Next]_vars PROVE Numbers'
    OBVIOUS
  <1>1. CASE UNCHANGED vars
    BY <1>1 DEF vars, cluster, request, Numbers, Numbered, Under
  <1>2. ASSUME NEW r \in Reqs, Receive(r) PROVE Numbers'
    <2>1. UNCHANGED <<cluster, loc, late>>
      BY <1>2 DEF Receive
    <2>3. /\ \A o \in Reqs \ {r} : pc'[o] = pc[o]
          /\ pc'[r] = "answered" \/ \E q \in Offered : pc'[r] = EntryCall(q)
      BY <1>2, ReceiveIs DEF TypesOK, RequestOK, RequestTypeOK
    <2>4. \A q \in Offered : EntryCall(q) \notin Waiting
      BY ApiAssumption DEF EntryCall, Waiting, Request, Kinds
    <2>2. \A o \in Reqs : pc'[o] \in Waiting => pc[o] \in Waiting
      BY <2>3, <2>4 DEF Waiting
    <2> QED BY <2>1, <2>2 DEF cluster, Numbers, Numbered, Under
  <1>3. ASSUME NEW r \in Reqs, Step(r) PROVE Numbers'
    BY <1>3, StepNumbers
  <1>4. ASSUME NEW r \in Reqs, Cancel(r) PROVE Numbers'
    BY <1>4 DEF Cancel, cluster, request, Numbers, Numbered, Under
  <1>5. CASE Crash
    <2>1. late' = {} /\ UNCHANGED cluster
      BY <1>5 DEF Crash
    <2>2. \A r \in Reqs : pc'[r] \notin Waiting
      BY <1>5 DEF Crash, Waiting, Busy, Calls
    <2> QED BY <2>1, <2>2 DEF cluster, Numbers, Numbered
  <1>6. CASE Namespaces
    <2>1. \A t \in Teams : hist'[t] \subseteq hist[t]
      BY <1>6 DEF Namespaces, NsEmpty, NsGone, TypesOK, ClusterTypeOK
    <2>2. UNCHANGED <<pc, loc, late>>
      BY <1>6 DEF Namespaces, request
    <2> QED BY <2>1, <2>2 DEF Numbers, Numbered, Under
  <1>7. ASSUME NEW j \in late, Late(j) PROVE Numbers'
    <2>1. UNCHANGED <<pc, loc>> /\ late' \subseteq late
      BY <1>7 DEF Late, request
    <2>2. ASSUME NEW t \in Teams PROVE Numbered(t)'
      <3>1. Distinct(hist[t])
        BY DEF Numbers, Numbered, Distinct
      <3>2. CASE hist'[t] = hist[t]
        BY <3>1, <3>2 DEF Numbered, Distinct
      <3>3. ASSUME NEW S, LateRewrites(j, S), hist'[t] = Updated(hist[t], S)
            PROVE  Numbered(t)'
        <4>1. Distinct(Updated(hist[t], S))
          BY <3>1, <3>3, LateDistinct, UpdatedDistinct
        <4> QED BY <3>3, <4>1 DEF Numbered, Distinct
      <3> QED BY <1>7, <3>2, <3>3, LateHistory
    <2> QED BY <2>1, <2>2 DEF Numbers, Under
  <1> QED BY <1>1, <1>2, <1>3, <1>4, <1>5, <1>6, <1>7 DEF Next

-----------------------------------------------------------------------------
(***************************************************************************)
(* Credentials come before the release.                                    *)
(***************************************************************************)

Safe == (\A t \in Teams : Standing(t)) /\ \A r \in Reqs : Prepared(r)

LEMMA IInvParts == IInv <=> TypesOK /\ Numbers /\ Safe
  BY DEF IInv, TypeOK, TypesOK, RequestOK, Safe

LEMMA RemovedStays ==
  ASSUME TypesOK, NEW r \in Reqs, Step(r), NEW t \in Teams, Removed(t)
  PROVE  Removed(t)'
  <1>1. PICK o \in removing : cur[o] = t
    BY DEF Removed
  <1>2. o \in Reqs /\ arg[o].kind = "delete"
    BY <1>1 DEF TypesOK, BoundTypeOK, RequestOK, Placed, InPlace
  <1>3. cur'[o] = cur[o] /\ o \in removing'
    BY <1>1, <1>2, StepIsLocal, StepRemoving
  <1> QED BY <1>1, <1>3 DEF Removed

\* As long as no DELETE has asked for it to go, a namespace does not
\* terminate, and an active one stays active.
LEMMA NamespaceStays ==
  ASSUME TypesOK, NEW r \in Reqs, Step(r), NEW t \in Teams, ~Removed(t)',
         ns[t] # "terminating"
  PROVE  ns'[t] # "terminating" /\ (ns[t] = "active" => ns'[t] = "active")
  <1>1. ns \in [Teams -> NsState]
    BY DEF TypesOK, ClusterTypeOK
  <1>2. CASE ns' = Created(cur[r])
    BY <1>1, <1>2 DEF Created
  <1>3. CASE /\ pc[r] = "nsDelete" /\ removing' = removing \union {r}
             /\ ns' = [ns EXCEPT ![cur[r]] = "terminating"]
    <2>1. cur'[r] = cur[r]
      BY <1>3, AtCall, StepIsLocal DEF TypesOK, Calls, KindsAt
    <2>2. cur[r] # t
      BY <1>3, <2>1 DEF Removed
    <2> QED BY <1>1, <1>3, <2>2
  <1> QED BY <1>2, <1>3, StepNamespace

LEMMA CompleteStays ==
  ASSUME TypesOK, NEW r \in Reqs, Step(r), NEW t \in Teams, Complete(secret[t])
  PROVE  Complete(secret[t])'
  <1>1. CASE secret' = secret
    BY <1>1 DEF Complete
  <1>2. CASE secret' = Written(r) /\ cur[r] # t
    BY <1>2 DEF Written, Complete
  <1>3. CASE secret' = Written(r) /\ cur[r] = t
             /\ pc[r] = "secretUpdate" /\ CanUpdateSecret(r)
    <2>1. secret'[t] = [exists |-> TRUE, data |-> Overlay(r, secret[t].data)]
      BY <1>3 DEF CanUpdateSecret, Written, TypesOK, ClusterTypeOK
    <2>2. r # None
      BY ClusterAssumption DEF Writers
    <2> QED BY <2>1, <2>2 DEF Complete, Overlay
  <1> QED BY <1>1, <1>2, <1>3, StepSecret DEF CanCreateSecret, Complete

\* What a create writes is complete: it passed validation.
LEMMA CreateWritesAll ==
  ASSUME TypesOK, NEW r \in Reqs, Busy(r), arg[r].kind = "create", cur[r] \in Teams,
         secret' = Written(r)
  PROVE  Complete(secret'[cur[r]])
  <1>1. arg[r].fields = Fields
    BY DEF TypesOK, RequestOK, Placed, InPlace
  <1>2. r # None
    BY ClusterAssumption DEF Writers
  <1>3. secret'[cur[r]] = [exists |-> TRUE, data |-> Overlay(r, loc[r].seen.data)]
    BY DEF Written, TypesOK, ClusterTypeOK
  <1> QED BY <1>1, <1>2, <1>3 DEF Complete, Overlay

LEMMA StepSafe ==
  ASSUME TypesOK, Safe, NEW r \in Reqs, Step(r)
  PROVE  Safe'
  <1>1. Busy(r) /\ arg[r] \in Request /\ arg' = arg
    BY StepIsLocal, AtCall DEF TypesOK, Busy
  <1>2. ASSUME NEW t \in Teams, ~Removed(t)'
        PROVE  /\ ns'[t] # "terminating"
               /\ secret'[t].exists => ns'[t] = "active"
               /\ Released(t)' => Complete(secret[t])'
    <2>1. ~Removed(t)
      BY <1>2, RemovedStays
    <2>2. /\ ns[t] # "terminating"
          /\ secret[t].exists => ns[t] = "active"
          /\ Released(t) => Complete(secret[t])
      BY <2>1 DEF Safe, Standing
    <2>3. ns'[t] # "terminating"
      BY <1>2, <2>2, NamespaceStays
    <2>4. ASSUME secret'[t].exists PROVE ns'[t] = "active"
      <3>1. CASE secret[t].exists
        BY <1>2, <2>2, <3>1, NamespaceStays
      <3>2. CASE ~secret[t].exists
        <4>1. secret' = Written(r) /\ ns' = ns /\ cur[r] = t
          BY <2>4, <3>2, StepSecret DEF Written, TypesOK, ClusterTypeOK
        <4>2. CASE pc[r] = "secretCreate" /\ CanCreateSecret(r)
          BY <4>1, <4>2 DEF CanCreateSecret
        <4>3. CASE pc[r] = "secretUpdate" /\ CanUpdateSecret(r)
          BY <3>2, <4>1, <4>3, <1>1
          DEF CanUpdateSecret, TypesOK, RequestOK, Placed, InPlace
        <4> QED BY <2>4, <3>2, <4>2, <4>3, StepSecret
      <3> QED BY <3>1, <3>2
    <2>5. ASSUME Released(t)' PROVE Complete(secret[t])'
      <3>1. CASE Released(t)
        BY <2>2, <3>1, CompleteStays
      <3>2. CASE ~Released(t)
        <4>1. pc[r] = "installRun" /\ t = cur[r]
          BY <2>5, <3>2, StepRelease
        <4>2. arg[r].kind = "create"
          BY <4>1, AtCall DEF TypesOK, Calls, KindsAt
        <4>3. Complete(secret[t])
          BY <2>1, <4>1, <4>2 DEF Safe, Prepared, PastSecret
        <4> QED BY <4>3, CompleteStays
      <3> QED BY <3>1, <3>2
    <2> QED BY <2>3, <2>4, <2>5
  <1>3. ASSUME NEW o \in Reqs, arg[o].kind = "create", pc'[o] \in PastSecret,
               ~Removed(cur[o])'
        PROVE  Complete(secret[cur[o]])'
    <2>1. cur'[o] = cur[o]
      BY <1>3, StepIsLocal
    <2>2. CASE pc[o] \in PastSecret
      <3>1. cur[o] \in Teams
        BY <2>2, AtCall DEF TypesOK, PastSecret, Calls
      <3>2. ~Removed(cur[o])
        BY <1>3, <2>1, <3>1, RemovedStays DEF Removed
      <3>3. Complete(secret[cur[o]])
        BY <1>3, <2>2, <3>2 DEF Safe, Prepared
      <3> QED BY <2>1, <3>1, <3>3, CompleteStays DEF Complete
    <2>3. CASE pc[o] \notin PastSecret
      <3>1. o = r
        BY <1>3, <2>3, StepIsLocal
      <3>2. secret' = Written(r)
        BY <1>3, <2>3, <3>1, StepPastSecret
      <3>3. cur[r] \in Teams
        BY <1>1, <1>3, <3>1, AtCall DEF TypesOK, Busy, Calls, KindsAt
      <3> QED BY <1>1, <1>3, <2>1, <3>1, <3>2, <3>3, CreateWritesAll DEF Complete
    <2> QED BY <2>2, <2>3
  <1>4. \A t \in Teams : Standing(t)'
    BY <1>2 DEF Standing
  <1>5. \A o \in Reqs : Prepared(o)'
    BY <1>1, <1>3 DEF Prepared
  <1> QED BY <1>4, <1>5 DEF Safe

LEMMA InitSafe == Init => Safe
  <1> SUFFICES ASSUME Init PROVE Safe
    OBVIOUS
  <1>1. PICK P \in SUBSET Provisioned :
          /\ ns = [t \in Teams |-> IF t \in P THEN "active" ELSE "absent"]
          /\ secret = [t \in Teams |->
                IF t \in P
                THEN [exists |-> TRUE, data |-> [f \in Fields |-> Prior]]
                ELSE NoSecret]
          /\ hist = [t \in Teams |->
                IF t \in P
                THEN {[rev |-> 1, status |-> "deployed", chart |-> Installed,
                       cfg |-> [url |-> Prior, rest |-> Prior]]}
                ELSE {}]
    BY DEF Init
  <1>2. Prior # None
    BY DEF Prior, None
  <1>3. \A t \in Teams : Standing(t)
    BY <1>1, <1>2 DEF Standing, Released, Complete, NoSecret
  <1>4. \A r \in Reqs : Prepared(r)
    BY DEF Init, Prepared, PastSecret
  <1> QED BY <1>3, <1>4 DEF Safe

LEMMA NextSafe == TypesOK /\ Safe /\ [Next]_vars => Safe'
  <1> SUFFICES ASSUME TypesOK, Safe, [Next]_vars PROVE Safe'
    OBVIOUS
  <1>1. CASE UNCHANGED vars
    BY <1>1 DEF vars, cluster, request, Safe, Standing, Prepared, Removed, Released,
                Complete
  <1>2. ASSUME NEW r \in Reqs, Receive(r) PROVE Safe'
    <2>1. /\ UNCHANGED <<cluster, removing>>
          /\ pc[r] = "idle" /\ r \notin removing
          /\ \A o \in Reqs \ {r} : /\ arg'[o] = arg[o] /\ cur'[o] = cur[o]
                                   /\ pc'[o] = pc[o]
      BY <1>2 DEF Receive, TypesOK, RequestOK, RequestTypeOK, Placed, InPlace
    <2>2. ASSUME NEW t \in Teams, Removed(t) PROVE Removed(t)'
      BY <2>1, <2>2 DEF Removed, TypesOK, BoundTypeOK
    <2>3. arg'[r].kind = "create" => pc'[r] \notin PastSecret
      BY <1>2, <2>1, ApiAssumption
      DEF Receive, EntryCall, PastSecret, TypesOK, RequestOK, RequestTypeOK
    <2>4. \A t \in Teams : Standing(t)'
      BY <2>1, <2>2 DEF cluster, Safe, Standing, Released, Complete
    <2>5. ASSUME NEW o \in Reqs PROVE Prepared(o)'
      <3>1. CASE o = r
        BY <2>3, <3>1 DEF Prepared
      <3>2. CASE o # r
        <4>1. pc[o] \in PastSecret => cur[o] \in Teams
          BY AtCall DEF TypesOK, PastSecret, Calls
        <4> QED BY <2>1, <2>2, <3>2, <4>1
                DEF cluster, Safe, Prepared, Removed, Complete
      <3> QED BY <3>1, <3>2
    <2> QED BY <2>4, <2>5 DEF Safe
  <1>3. ASSUME NEW r \in Reqs, Step(r) PROVE Safe'
    BY <1>3, StepSafe
  <1>4. ASSUME NEW r \in Reqs, Cancel(r) PROVE Safe'
    BY <1>4 DEF Cancel, cluster, request, Safe, Standing, Prepared, Removed,
                Released, Complete
  <1>5. CASE Crash
    BY <1>5 DEF Crash, cluster, Safe, Standing, Prepared, Removed, Released,
                Complete, PastSecret, TypesOK, RequestOK, RequestTypeOK
  <1>6. CASE Namespaces
    <2>1. PICK u \in Teams :
            /\ ns[u] = "terminating"
            /\ \A t \in Teams \ {u} :
                 ns'[t] = ns[t] /\ secret'[t] = secret[t] /\ hist'[t] = hist[t]
      BY <1>6 DEF Namespaces, NsEmpty, NsGone, TypesOK, ClusterTypeOK
    <2>2. Removed(u) /\ \A t \in Teams : Removed(t)' <=> Removed(t)
      BY <1>6, <2>1 DEF Namespaces, request, Removed, Safe, Standing
    <2>3. \A t \in Teams : Standing(t)'
      BY <2>1, <2>2 DEF Safe, Standing, Released, Complete
    <2>4. ASSUME NEW r \in Reqs PROVE Prepared(r)'
      <3>1. pc[r] \in PastSecret => cur[r] \in Teams
        BY AtCall DEF TypesOK, PastSecret, Calls
      <3> QED BY <1>6, <2>1, <2>2, <3>1
              DEF Namespaces, request, Safe, Prepared, Removed, Complete
    <2> QED BY <2>3, <2>4 DEF Safe
  <1>7. ASSUME NEW j \in late, Late(j) PROVE Safe'
    <2>1. UNCHANGED <<ns, secret, request, pc, removing>>
      BY <1>7, LateRecords
    <2>2. \A t \in Teams : Released(t)' => Released(t)
      BY <1>7, LateRecords, RecordedNothing
    <2>3. \A t \in Teams : Standing(t)'
      BY <2>1, <2>2 DEF request, Safe, Standing, Removed, Complete
    <2>4. \A r \in Reqs : Prepared(r)'
      BY <2>1 DEF request, Safe, Prepared, Removed, Complete
    <2> QED BY <2>3, <2>4 DEF Safe
  <1> QED BY <1>1, <1>2, <1>3, <1>4, <1>5, <1>6, <1>7 DEF Next

\* The invariant is inductive.
THEOREM Invariance == Spec => []IInv
  <1>1. Init => TypesOK /\ Numbers /\ Safe
    BY InitTypes, InitNumbers, InitSafe
  <1>2. TypesOK /\ Numbers /\ Safe /\ [Next]_vars => (TypesOK /\ Numbers /\ Safe)'
    BY NextTypes, NextNumbers, NextSafe
  <1> QED BY <1>1, <1>2, IInvParts, PTL DEF Spec

\* Until a DELETE of its team has got so far as to ask for the namespace to
\* go, answered or not, a stored release has an active namespace and a Secret
\* with every credential field, whatever requests overlap, fail, are
\* cancelled, leave Helm behind or die with the server.
THEOREM CredentialsFirst == Spec => []CredentialsBeforeRelease
  <1>1. IInv => CredentialsBeforeRelease
    BY DEF IInv, Standing, CredentialsBeforeRelease, Complete
  <1> QED BY <1>1, Invariance, PTL

-----------------------------------------------------------------------------
(***************************************************************************)
(* Rotations.                                                              *)
(***************************************************************************)

LEMMA StepRotation ==
  ASSUME TypesOK, NEW r \in Reqs, Step(r), NEW t \in Teams, NEW f \in Fields,
         secret'[t].exists, secret'[t].data[f] # secret[t].data[f]
  PROVE  /\ pc[r] \in {"secretCreate", "secretUpdate"}
         /\ cur[r] = t /\ f \in arg[r].fields
         /\ secret'[t].data[f] = r
  <1>1. secret' = Written(r)
    BY StepSecret
  <1>2. cur[r] = t
    BY <1>1 DEF Written, TypesOK, ClusterTypeOK
  <1>3. secret'[t].data = Overlay(r, loc[r].seen.data)
    BY <1>1, <1>2 DEF Written, TypesOK, ClusterTypeOK
  <1>4. loc[r].seen.data = secret[t].data /\ pc[r] \in {"secretCreate", "secretUpdate"}
    <2>1. CASE pc[r] = "secretCreate" /\ CanCreateSecret(r)
      <3>1. loc[r].seen = NoSecret
        BY <2>1, StepIsLocal DEF TypesOK, RequestOK, Placed, InPlace
      <3>2. secret[t] = NoSecret
        BY <1>2, <2>1 DEF CanCreateSecret, TypesOK, SecretsOK
      <3> QED BY <2>1, <3>1, <3>2
    <2>2. CASE pc[r] = "secretUpdate" /\ CanUpdateSecret(r)
      BY <1>2, <2>2 DEF CanUpdateSecret
    <2> QED BY <2>1, <2>2, StepSecret
  <1> QED BY <1>2, <1>3, <1>4 DEF Overlay

\* A credential field changes only by a request that supplied it, at its
\* write of the Secret, to the value it supplied.
THEOREM Rotation == Spec => RotationWritesOnlyItsFields
  <1> DEFINE Rotated(t, f) ==
        secret'[t].exists /\ secret'[t].data[f] # secret[t].data[f]
        => \E r \in Reqs :
              /\ pc[r] \in {"secretCreate", "secretUpdate"}
              /\ cur[r] = t /\ f \in arg[r].fields
              /\ secret'[t].data[f] = r
  <1>1. ASSUME TypesOK, [Next]_vars, NEW t \in Teams, NEW f \in Fields
        PROVE  Rotated(t, f)
    <2>1. ASSUME NEW r \in Reqs, Step(r) PROVE Rotated(t, f)
      BY <1>1, <2>1, StepRotation
    <2>2. CASE Namespaces
      BY <1>1, <2>2 DEF Namespaces, NsEmpty, NsGone, NoSecret, TypesOK, ClusterTypeOK
    <2>3. ASSUME NEW j \in late, Late(j) PROVE Rotated(t, f)
      BY <1>1, <2>3, LateRecords
    <2> QED BY <1>1, <2>1, <2>2, <2>3
            DEF Next, vars, cluster, Receive, Cancel, Crash
  <1>2. TypesOK /\ [Next]_vars
        => [\A t \in Teams, f \in Fields : Rotated(t, f)]_vars
    BY <1>1
  <1> QED BY <1>2, InitTypes, NextTypes, PTL DEF Spec, RotationWritesOnlyItsFields

=============================================================================
