----------------------- MODULE RunnerRefinementProofs -----------------------
(***************************************************************************)
(* RunnerApi implements CredentialService, for any sets of teams, requests *)
(* and credential fields and any bounds.                                   *)
(***************************************************************************)
EXTENDS RunnerRefinement, RunnerApiProofs

\* Every request but upgrade-chart keeps to the team it names.
OnItsTeam ==
    \A r \in Reqs : arg[r].kind # "upgrade" => cur[r] = arg[r].team

\* What the refinement rests on.
Ground == IInv /\ OnItsTeam

LEMMA InitGround == Init => Ground
  <1> SUFFICES ASSUME Init PROVE Ground
    OBVIOUS
  <1>1. IInv
    BY InitTypes, InitNumbers, InitSafe, IInvParts
  <1>2. OnItsTeam
    BY DEF Init, OnItsTeam, NoRequest
  <1> QED BY <1>1, <1>2 DEF Ground

LEMMA NextGround == Ground /\ [Next]_vars => Ground'
  <1> SUFFICES ASSUME Ground, [Next]_vars PROVE Ground'
    OBVIOUS
  <1>1. IInv'
    <2>1. TypesOK /\ Numbers /\ Safe
      BY IInvParts DEF Ground
    <2>2. TypesOK' /\ Numbers' /\ Safe'
      BY <2>1, NextTypes, NextNumbers, NextSafe
    <2> QED BY <2>2 DEF IInv, TypeOK, TypesOK, RequestOK, Safe
  <1>2. TypesOK
    BY IInvParts DEF Ground
  <1>3. OnItsTeam'
    <2>1. ASSUME NEW r \in Reqs, Step(r) PROVE OnItsTeam'
      BY <1>2, <2>1, StepIsLocal DEF Ground, OnItsTeam
    <2>2. ASSUME NEW r \in Reqs, Receive(r) PROVE OnItsTeam'
      BY <1>2, <2>2 DEF Receive, Ground, OnItsTeam, TypesOK, RequestOK, RequestTypeOK
    <2>3. CASE UNCHANGED <<arg, cur>>
      BY <2>3 DEF Ground, OnItsTeam
    <2> QED BY <2>1, <2>2, <2>3 DEF Next, vars, request, Late, Cancel, Crash, Namespaces
  <1> QED BY <1>1, <1>3 DEF Ground

-----------------------------------------------------------------------------
(***************************************************************************)
(* The refinement mapping, action by action.                               *)
(***************************************************************************)

LEMMA EndPhases ==
  /\ Phase("idle") = "new" /\ Phase("answered") = "over" /\ Phase("dead") = "dead"
  /\ Told(0) = "nothing" /\ Told(422) = "failure" /\ Told(500) = "failure"
  BY DEF Phase, Told, Calls, BeforeSecret

LEMMA PhaseMoves ==
  ASSUME TypesOK, NEW r \in Reqs, NEW call, pc' = [pc EXCEPT ![r] = call]
  PROVE  Service!Move(r, Phase(call))
  BY DEF TypesOK, RequestOK, RequestTypeOK, Service!Move

LEMMA PhaseStays ==
  ASSUME TypesOK, NEW r \in Reqs, NEW call, pc' = [pc EXCEPT ![r] = call],
         Phase(call) = Phase(pc[r])
  PROVE  UNCHANGED [o \in Reqs |-> Phase(pc[o])]
  BY DEF TypesOK, RequestOK, RequestTypeOK

LEMMA AnswerEnds ==
  ASSUME TypesOK, NEW r \in Reqs, NEW code, Answer(r, code)
  PROVE  Service!End(r, Told(code))
  <1>1. Service!Move(r, "over")
    <2>1. pc' = [pc EXCEPT ![r] = "answered"]
      BY DEF Answer
    <2>2. Service!Move(r, Phase("answered"))
      BY <2>1, PhaseMoves
    <2> QED BY <2>2, EndPhases
  <1>2. resp' = [resp EXCEPT ![r] = code] /\ DOMAIN resp = Reqs
    BY DEF Answer, TypesOK, RequestOK, RequestTypeOK
  <1>3. [o \in Reqs |-> Told(resp[o])]'
          = [[o \in Reqs |-> Told(resp[o])] EXCEPT ![r] = Told(code)]
    BY <1>2
  <1> QED BY <1>1, <1>3 DEF Service!End

\* The conditional write of the Secret is an overlay of what is there.
LEMMA WriteApplies ==
  ASSUME Ground, NEW r \in Reqs, Step(r), secret' = Written(r),
         \/ pc[r] = "secretCreate" /\ CanCreateSecret(r)
         \/ pc[r] = "secretUpdate" /\ CanUpdateSecret(r)
  PROVE  Service!Apply(r)
  <1>1. TypesOK /\ Busy(r)
    BY IInvParts, StepIsLocal DEF Ground
  <1>2. arg[r].kind \in {"create", "update"} /\ cur[r] \in Teams
    BY <1>1, AtCall DEF TypesOK, Calls, KindsAt
  <1>3. cur[r] = arg[r].team
    BY <1>2 DEF Ground, OnItsTeam
  <1>4. loc[r].seen.data = secret[cur[r]].data
    <2>1. CASE pc[r] = "secretCreate" /\ CanCreateSecret(r)
      <3>1. loc[r].seen = NoSecret
        BY <1>1, <2>1 DEF TypesOK, RequestOK, Placed, InPlace
      <3>2. secret[cur[r]] = NoSecret
        BY <1>1, <1>2, <2>1 DEF CanCreateSecret, TypesOK, SecretsOK
      <3> QED BY <3>1, <3>2
    <2>2. CASE pc[r] = "secretUpdate" /\ CanUpdateSecret(r)
      BY <2>2 DEF CanUpdateSecret
    <2> QED BY <2>1, <2>2
  <1> QED BY <1>3, <1>4 DEF Written, Overlay, Service!Apply, Service!Overlaid

\* What a handler does once the Secret is written: it goes on, asks for the
\* namespace to go, or answers, a delete with success only after that.
GoesOn(r) ==
    /\ \E call \in Calls \ BeforeSecret : pc' = [pc EXCEPT ![r] = call]
    /\ resp' = resp
    /\ removing' = IF pc[r] = "nsDelete" THEN removing \union {r} ELSE removing

Answers2xx(r) ==
    /\ \E code \in {200, 201, 204} : Answer(r, code)
    /\ pc[r] = "reply" \/ arg[r].kind = "upgrade"
    /\ UNCHANGED removing

AnswersError(r) ==
    /\ pc[r] # "reply"
    /\ \E code \in {404, 500} : Answer(r, code)
    /\ UNCHANGED removing

Finishing(r) == GoesOn(r) \/ Answers2xx(r) \/ AnswersError(r)

LEMMA HelmFinishes ==
  ASSUME TypesOK, NEW r \in Reqs, NEW res \in Result, arg[r] \in Request,
         pc[r] \notin {"reply", "nsDelete"}, HelmReturns(r, res), UNCHANGED removing
  PROVE  Finishing(r)
  <1>1. CASE arg[r].kind = "upgrade"
    BY <1>1 DEF HelmReturns, Calls, BeforeSecret, Finishing, GoesOn
  <1>2. CASE arg[r].kind # "upgrade" /\ res = "ok"
    BY <1>2 DEF HelmReturns, Goto, Calls, BeforeSecret, Finishing, GoesOn
  <1>3. CASE arg[r].kind # "upgrade" /\ res # "ok"
    BY <1>3 DEF HelmReturns, Code, Result, Finishing, AnswersError
  <1> QED BY <1>1, <1>2, <1>3

LEMMA PassesFinishing ==
  ASSUME NEW r \in Reqs, NEW call \in Calls \ BeforeSecret, NEW x, Goto(r, call, x),
         pc[r] # "nsDelete", UNCHANGED removing
  PROVE  Finishing(r)
  BY DEF Goto, Finishing, GoesOn

\* What a step of a handler does as the service sees it.
LEMMA StepShape ==
  ASSUME TypesOK, NEW r \in Reqs, Step(r)
  PROVE  \/ /\ pc[r] \in BeforeSecret
            /\ UNCHANGED removing
            /\ \/ /\ \E call \in BeforeSecret : \E x : Goto(r, call, x)
                  /\ secret' = secret
               \/ /\ pc[r] \in {"secretCreate", "secretUpdate"}
                  /\ Goto(r, AfterSecret(r), NoLocal)
                  /\ secret' = Written(r)
               \/ Answer(r, 500)
         \/ /\ pc[r] \in Calls \ BeforeSecret
            /\ secret' = secret
            /\ Finishing(r)
  <1>1. NsDelete(r) \/ UNCHANGED removing
    BY DEF Step
  <1>2. CASE (NsGet(r) \/ NsCreate(r) \/ SecretGet(r)) /\ UNCHANGED removing
    BY <1>2 DEF NsGet, NsCreate, SecretGet, BeforeSecret, cluster
  <1>3. CASE (SecretCreate(r) \/ SecretUpdate(r)) /\ UNCHANGED removing
    BY <1>3 DEF SecretCreate, SecretUpdate, WriteSecret, BeforeSecret
  <1>4. arg[r] \in Request
    BY StepIsLocal, AtCall DEF TypesOK, Busy
  <1>5. "ok" \in Result /\ "notFound" \in Result /\ "error" \in Result
    BY DEF Result
  <1>6. {"installRun", "upgradeGet", "installWait", "upgradeRun", "upgradeWait",
         "upgradeRecord", "nextRelease", "uninstallWait"} \subseteq Calls \ BeforeSecret
    BY DEF Calls, BeforeSecret
  <1>7. CASE ChartUnavailable(r) /\ UNCHANGED removing
    BY <1>4, <1>5, <1>7, HelmFinishes DEF ChartUnavailable, Calls, BeforeSecret, cluster
  <1>8. CASE (InstallGet(r) \/ InstallRun(r)) /\ UNCHANGED removing
    BY <1>4, <1>5, <1>6, <1>8, HelmFinishes, PassesFinishing
    DEF InstallGet, InstallRun, Calls, BeforeSecret, cluster
  <1>9. CASE (\/ InstallWait(r) \/ UpgradeRecord(r) \/ RunFails(r) \/ Abandoned(r))
             /\ UNCHANGED removing
    <2>1. \E res \in Result : HelmReturns(r, res)
      BY <1>5, <1>9 DEF InstallWait, UpgradeRecord, RunFails, Abandoned
    <2>2. /\ pc[r] \in {"installWait", "upgradeWait", "upgradeRecord"}
          /\ secret' = secret
      BY <1>9 DEF InstallWait, UpgradeRecord, RunFails, Abandoned
    <2> QED BY <1>4, <1>9, <2>1, <2>2, HelmFinishes DEF Calls, BeforeSecret
  <1>10. CASE (UpgradeGet(r) \/ UpgradeWait(r)) /\ UNCHANGED removing
    BY <1>6, <1>10, PassesFinishing
    DEF UpgradeGet, UpgradeWait, Calls, BeforeSecret, cluster
  <1>11. CASE (ChartGet(r) \/ UpgradeRun(r)) /\ UNCHANGED removing
    BY <1>4, <1>5, <1>6, <1>11, HelmFinishes, PassesFinishing
    DEF ChartGet, UpgradeRun, Calls, BeforeSecret, cluster
  <1>12. CASE (List(r) \/ NextRelease(r)) /\ UNCHANGED removing
    <2>1. arg[r].kind = "upgrade" /\ pc[r] \in {"list", "nextRelease"}
      BY <1>12, AtCall DEF TypesOK, List, NextRelease, Calls, KindsAt
    <2> QED BY <1>6, <1>12, <2>1
            DEF List, NextRelease, Finishing, GoesOn, Answers2xx, AnswersError,
                Calls, BeforeSecret, cluster
  <1>13. CASE (UninstallRun(r) \/ UninstallWait(r)) /\ UNCHANGED removing
    BY <1>4, <1>5, <1>6, <1>13, HelmFinishes, PassesFinishing
    DEF UninstallRun, UninstallWait, Calls, BeforeSecret
  <1>14. CASE NsDelete(r)
    BY <1>14 DEF NsDelete, Goto, Finishing, GoesOn, Calls, BeforeSecret
  <1>15. CASE Reply(r) /\ UNCHANGED removing
    <2>1. SuccessCode(arg[r].kind) \in {200, 201, 204}
      BY <1>15, AtCall DEF TypesOK, Reply, Calls, KindsAt, SuccessCode
    <2> QED BY <1>15, <2>1
            DEF Reply, Finishing, Answers2xx, Calls, BeforeSecret, cluster
  <1> QED BY <1>1, <1>2, <1>3, <1>7, <1>8, <1>9, <1>10, <1>11, <1>12, <1>13,
             <1>14, <1>15 DEF Step

LEMMA StepRefines ==
  ASSUME Ground, NEW r \in Reqs, Step(r)
  PROVE  Service!Next \/ UNCHANGED Service!vars
  <1> DEFINE phase == [o \in Reqs |-> Phase(pc[o])]
  <1>1. TypesOK /\ arg' = arg
    BY IInvParts, StepIsLocal DEF Ground
  <1>2. Phase(pc[r]) = phase[r]
    OBVIOUS
  <1>3. CASE pc[r] \in BeforeSecret
    <2>1. Phase(pc[r]) = "rotating" /\ removing' = removing
      BY <1>1, <1>3, StepShape DEF Phase, Calls, BeforeSecret
    <2>2. ASSUME NEW call \in BeforeSecret, NEW x, Goto(r, call, x), secret' = secret
          PROVE  UNCHANGED Service!vars
      <3>1. Phase(call) = "rotating"
        BY <2>2 DEF Phase, BeforeSecret
      <3>2. UNCHANGED phase /\ resp' = resp
        BY <1>1, <2>1, <2>2, <3>1, PhaseStays DEF Goto
      <3> QED BY <1>1, <2>1, <2>2, <3>2 DEF Service!vars
    <2>3. CASE /\ pc[r] \in {"secretCreate", "secretUpdate"}
               /\ Goto(r, AfterSecret(r), NoLocal) /\ secret' = Written(r)
      <3>1. Phase(AfterSecret(r)) = "rotated"
        BY DEF AfterSecret, Phase, Calls, BeforeSecret
      <3>2. Service!Move(r, "rotated") /\ resp' = resp
        BY <1>1, <2>3, <3>1, PhaseMoves DEF Goto
      <3>3. \/ pc[r] = "secretCreate" /\ CanCreateSecret(r)
            \/ pc[r] = "secretUpdate" /\ CanUpdateSecret(r)
        <4>1. CASE pc[r] = "secretCreate"
          BY <1>1, <2>3, <4>1 DEF Step, SecretCreate, SecretUpdate, WriteSecret, Goto, Answer,
             AfterSecret, TypesOK, RequestOK, RequestTypeOK, NsGet, NsCreate, SecretGet,
             ChartUnavailable, InstallGet, InstallRun, InstallWait, UpgradeGet, ChartGet,
             UpgradeRun, UpgradeWait, UpgradeRecord, RunFails, Abandoned, List,
             NextRelease, UninstallRun, UninstallWait, NsDelete, Reply
        <4>2. CASE pc[r] = "secretUpdate"
          BY <1>1, <2>3, <4>2 DEF Step, SecretCreate, SecretUpdate, WriteSecret, Goto, Answer,
             AfterSecret, TypesOK, RequestOK, RequestTypeOK, NsGet, NsCreate, SecretGet,
             ChartUnavailable, InstallGet, InstallRun, InstallWait, UpgradeGet, ChartGet,
             UpgradeRun, UpgradeWait, UpgradeRecord, RunFails, Abandoned, List,
             NextRelease, UninstallRun, UninstallWait, NsDelete, Reply
        <4> QED BY <2>3, <4>1, <4>2
      <3>4. Service!Rotate(r)
        BY <1>1, <1>2, <2>1, <2>3, <3>2, <3>3, WriteApplies DEF Service!Rotate
      <3> QED BY <3>4 DEF Service!Next
    <2>4. CASE Answer(r, 500)
      <3>1. Service!End(r, "failure")
        BY <1>1, <2>4, AnswerEnds DEF Told
      <3>2. Service!Apply(r) \/ UNCHANGED secret
        BY StepSecret, WriteApplies
      <3>3. Service!FailToRotate(r)
        BY <1>1, <1>2, <2>1, <3>1, <3>2 DEF Service!FailToRotate
      <3> QED BY <3>3 DEF Service!Next
    <2> QED BY <1>1, <1>3, <2>2, <2>3, <2>4, StepShape
  <1>4. CASE pc[r] \in Calls \ BeforeSecret
    <2>1. Phase(pc[r]) = "rotated" /\ secret' = secret
      BY <1>1, <1>4, StepShape DEF Phase, Calls, BeforeSecret
    <2>2. InPlace(r) /\ arg[r].kind \in KindsAt(pc[r])
      BY <1>1, <1>4, AtCall DEF TypesOK, RequestOK, Placed
    <2>3. CASE GoesOn(r)
      <3>1. PICK call \in Calls \ BeforeSecret : pc' = [pc EXCEPT ![r] = call]
        BY <2>3 DEF GoesOn
      <3>2. Phase(call) = "rotated"
        BY <3>1 DEF Phase, Calls, BeforeSecret
      <3>3. UNCHANGED phase /\ resp' = resp
        BY <1>1, <2>1, <2>3, <3>1, <3>2, PhaseStays DEF GoesOn
      <3>4. CASE pc[r] = "nsDelete"
        <4>1. arg[r].kind = "delete"
          BY <2>2, <3>4 DEF KindsAt
        <4>2. Service!Doom(r)
          BY <1>1, <1>2, <2>1, <2>3, <3>3, <3>4, <4>1 DEF GoesOn, Service!Doom
        <4> QED BY <4>2 DEF Service!Next
      <3>5. CASE pc[r] # "nsDelete"
        BY <1>1, <2>1, <2>3, <3>3, <3>5 DEF GoesOn, Service!vars
      <3> QED BY <3>4, <3>5
    <2>4. CASE Answers2xx(r)
      <3>1. arg[r].kind = "delete" => r \in removing
        BY <2>2, <2>4 DEF Answers2xx, InPlace, Busy, Calls
      <3>2. Service!End(r, "success")
        BY <1>1, <2>4, AnswerEnds DEF Answers2xx, Told
      <3>3. Service!Finish(r)
        BY <1>1, <1>2, <2>1, <2>4, <3>1, <3>2 DEF Answers2xx, Service!Finish
      <3> QED BY <3>3 DEF Service!Next
    <2>5. CASE AnswersError(r)
      <3>1. r \notin removing
        BY <1>4, <2>2, <2>5 DEF AnswersError, InPlace, Calls
      <3>2. Service!End(r, "failure")
        BY <1>1, <2>5, AnswerEnds DEF AnswersError, Told
      <3>3. Service!Finish(r)
        BY <1>1, <1>2, <2>1, <2>5, <3>1, <3>2 DEF AnswersError, Service!Finish
      <3> QED BY <3>3 DEF Service!Next
    <2> QED BY <1>1, <1>4, <2>3, <2>4, <2>5, StepShape DEF Finishing
  <1> QED BY <1>1, <1>3, <1>4, StepShape

LEMMA ReceiveRefines ==
  ASSUME Ground, NEW r \in Reqs, Receive(r)
  PROVE  Service!Next
  <1>1. TypesOK
    BY IInvParts DEF Ground
  <1>2. PICK q \in Offered :
          /\ arg' = [arg EXCEPT ![r] = q]
          /\ \/ /\ pc' = [pc EXCEPT ![r] = "answered"]
                /\ resp' = [resp EXCEPT ![r] = 422]
             \/ /\ q.kind = "create" => ValidCreate(q)
                /\ pc' = [pc EXCEPT ![r] = EntryCall(q)]
                /\ UNCHANGED resp
    BY ReceiveIs
  <1>3. UNCHANGED <<secret, removing>> /\ Phase(pc[r]) = "new"
    BY EndPhases DEF Receive, cluster
  <1>4. q.kind \in Kinds
    BY ApiAssumption DEF Request
  <1>5. CASE /\ pc' = [pc EXCEPT ![r] = "answered"]
             /\ resp' = [resp EXCEPT ![r] = 422]
    <2>1. Service!Move(r, "over")
      <3>1. Service!Move(r, Phase("answered"))
        BY <1>1, <1>5, PhaseMoves
      <3> QED BY <3>1, EndPhases
    <2>2. [o \in Reqs |-> Told(resp[o])]'
            = [[o \in Reqs |-> Told(resp[o])] EXCEPT ![r] = "failure"]
      BY <1>1, <1>5, EndPhases DEF TypesOK, RequestOK, RequestTypeOK
    <2>3. Service!End(r, "failure")
      BY <2>1, <2>2 DEF Service!End
    <2> QED BY <1>2, <1>3, <2>3 DEF Service!Ask, Service!Next
  <1>6. CASE /\ q.kind = "create" => ValidCreate(q)
             /\ pc' = [pc EXCEPT ![r] = EntryCall(q)]
             /\ UNCHANGED resp
    <2>1. Phase(EntryCall(q)) = IF Service!Rotates(q) THEN "rotating" ELSE "rotated"
      <3>1. q.kind = "create" => q.fields # {}
        BY <1>6, ClusterAssumption DEF ValidCreate
      <3> QED BY <1>4, <3>1
              DEF Kinds, EntryCall, Phase, Calls, BeforeSecret, Service!Rotates
    <2>2. Service!Move(r, IF Service!Rotates(q) THEN "rotating" ELSE "rotated")
      BY <1>1, <1>6, <2>1, PhaseMoves
    <2> QED BY <1>2, <1>3, <1>6, <2>2 DEF Service!Ask, Service!Next
  <1> QED BY <1>2, <1>5, <1>6

LEMMA VanishRefines ==
  ASSUME Ground, NEW t \in Teams, NsEmpty(t), Namespaces
  PROVE  Service!Next
  <1>1. PICK o \in removing : cur[o] = t
    BY DEF NsEmpty, Ground, IInv, Standing, Removed
  <1>2. o \in Reqs /\ arg[o].kind = "delete"
    BY <1>1 DEF Ground, IInv, TypeOK, BoundTypeOK, Placed, InPlace
  <1>3. arg[o].team = t
    BY <1>1, <1>2 DEF Ground, OnItsTeam
  <1>4. Service!NoCreds = NoSecret
    BY DEF Service!NoCreds, NoSecret, Blank
  <1>5. UNCHANGED <<arg, pc, resp, removing>>
    BY DEF Namespaces, request
  <1>6. Service!Vanish(t)
    BY <1>1, <1>3, <1>4, <1>5 DEF NsEmpty, Service!Vanish
  <1> QED BY <1>6 DEF Service!Next

LEMMA CrashRefines ==
  ASSUME Ground, Crash
  PROVE  Service!Next
  <1>1. pc \in [Reqs -> Calls \union {"idle", "answered", "dead"}]
    BY IInvParts DEF Ground, TypesOK, RequestOK, RequestTypeOK
  <1>2. ASSUME NEW r \in Reqs
        PROVE  Phase(pc'[r]) = IF Phase(pc[r]) \in {"rotating", "rotated"}
                               THEN "dead" ELSE Phase(pc[r])
    BY <1>1 DEF Crash, Busy, Phase, Calls, BeforeSecret
  <1>3. UNCHANGED <<secret, arg, resp, removing>>
    BY DEF Crash, cluster
  <1>4. Service!Crash
    BY <1>2, <1>3 DEF Service!Crash
  <1> QED BY <1>4 DEF Service!Next

LEMMA InitRefines == Init => Service!Init
  <1> SUFFICES ASSUME Init PROVE Service!Init
    OBVIOUS
  <1>1. Service!NoCreds = NoSecret
    BY DEF Service!NoCreds, NoSecret, Blank
  <1>2. \A t \in Teams : secret[t].exists \/ secret[t] = NoSecret
    BY InitTypes DEF TypesOK, SecretsOK
  <1>3. arg = [r \in Reqs |-> NoRequest]
    BY DEF Init
  <1>4. [r \in Reqs |-> Phase(pc[r])] = [r \in Reqs |-> "new"]
    BY EndPhases DEF Init
  <1>5. [r \in Reqs |-> Told(resp[r])] = [r \in Reqs |-> "nothing"]
    BY EndPhases DEF Init
  <1>6. removing = {}
    BY DEF Init
  <1> QED BY <1>1, <1>2, <1>3, <1>4, <1>5, <1>6 DEF Service!Init

LEMMA NextRefines == Ground /\ [Next]_vars => [Service!Next]_(Service!vars)
  <1> SUFFICES ASSUME Ground, [Next]_vars
               PROVE  Service!Next \/ UNCHANGED Service!vars
    OBVIOUS
  <1>1. CASE UNCHANGED <<secret, arg, pc, resp, removing>>
    BY <1>1 DEF Service!vars
  <1>2. ASSUME NEW r \in Reqs, Receive(r) \/ Step(r) \/ Cancel(r)
        PROVE  Service!Next \/ UNCHANGED Service!vars
    BY <1>1, <1>2, ReceiveRefines, StepRefines DEF Cancel, cluster, request
  <1>3. CASE Namespaces
    <2>1. PICK t \in Teams : NsEmpty(t) \/ NsGone(t)
      BY <1>3 DEF Namespaces
    <2> QED BY <1>1, <1>3, <2>1, VanishRefines DEF NsGone, Namespaces, request
  <1>4. ASSUME NEW j \in late, Late(j) PROVE UNCHANGED Service!vars
    BY <1>4 DEF Late, request, Service!vars
  <1> QED BY <1>1, <1>2, <1>3, <1>4, CrashRefines DEF Next, vars, cluster, request

\* UpsertGitHubAppSecret and the handlers around it: every behaviour of the
\* handlers is one of the service, with one atomic overlay per request.
THEOREM Refinement == Spec => CredentialsAreAtomic
  <1>1. Spec => []Ground
    BY InitGround, NextGround, PTL DEF Spec
  <1> QED BY <1>1, InitRefines, NextRefines, PTL
          DEF Spec, CredentialsAreAtomic, Service!Spec

=============================================================================
