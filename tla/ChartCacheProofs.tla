-------------------------- MODULE ChartCacheProofs --------------------------
(***************************************************************************)
(* Theorems about the chart cache, for any number of requests, versions,   *)
(* files, faults and crashes.                                              *)
(***************************************************************************)
EXTENDS ChartCache, TLAPS

\* A request that goes on, or returns, keeps its bookkeeping in type.
LEMMA GotoType ==
    ASSUME TypeOK, NEW r \in Reqs, NEW place \in Places,
           NEW todo \in SUBSET Files, Goto(r, place, todo)
    PROVE  /\ at' \in [Reqs -> Places \union {"new", "done", "dead"}]
           /\ left' \in [Reqs -> SUBSET Files]
           /\ writing' \in [Reqs -> Files \union {NoFile}]
           /\ result' \in [Reqs -> {"none", "chart", "error"}]
           /\ at' = [at EXCEPT ![r] = place]
BY DEF Goto, TypeOK

LEMMA ReturnType ==
    ASSUME TypeOK, NEW r \in Reqs, NEW res \in {"chart", "error"}, Return(r, res)
    PROVE  /\ at' \in [Reqs -> Places \union {"new", "done", "dead"}]
           /\ left' \in [Reqs -> SUBSET Files]
           /\ writing' \in [Reqs -> Files \union {NoFile}]
           /\ result' \in [Reqs -> {"none", "chart", "error"}]
           /\ at' = [at EXCEPT ![r] = "done"]
BY DEF Return, TypeOK

LEMMA FaultType ==
    ASSUME TypeOK, NEW r \in Reqs, Fault(r) \/ Healthy
    PROVE  faults' \in Nat /\ upset' \subseteq Versions
BY DEF Fault, Healthy, TypeOK

LEMMA TypeStep ==
    ASSUME TypeOK, [Next]_vars
    PROVE  TypeOK'
<1> USE CacheAssumption DEF Content, Blank
<1>1. CASE UNCHANGED vars
    BY <1>1 DEF vars, cache, load, TypeOK
<1>2. CASE Crash
    BY <1>2 DEF Crash, cache, Busy, Places, TypeOK
<1>3. ASSUME NEW r \in Reqs, Step(r)
      PROVE  TypeOK'
    <2>0. version' = version /\ crashes' = crashes
        BY <1>3 DEF Step
    <2>a. "load" \in Places /\ "pull" \in Places /\ "stat" \in Places
          /\ "mkdir" \in Places /\ "expand" \in Places /\ "reload" \in Places
        BY DEF Places
    <2>1. CASE StartLoad(r)
        <3>1. /\ \/ version \in made /\ Goto(r, "load", Files)
                 \/ Goto(r, "pull", {})
              /\ got' = [got EXCEPT ![r] = Blank]
              /\ made' = made /\ disk' = disk /\ faults' = faults
            BY <2>1 DEF StartLoad, cache
        <3>2. upset' \subseteq Versions
            BY <2>1 DEF StartLoad, TypeOK
        <3>3. CASE version \in made /\ Goto(r, "load", Files)
            <4>1. \A x \in Reqs : at'[x] = "expand" => version \in made
                BY <3>3
            <4> QED BY <2>0, <2>a, <3>1, <3>2, <3>3, <4>1, GotoType DEF TypeOK
        <3>4. CASE Goto(r, "pull", {})
            <4>1. \A x \in Reqs : at'[x] = "expand" => version \in made
                BY <2>a, <3>4, GotoType DEF TypeOK
            <4> QED BY <2>0, <2>a, <3>1, <3>2, <3>4, <4>1, GotoType DEF TypeOK
        <3> QED BY <3>1, <3>3, <3>4
    <2>2. CASE ReadFile(r)
        BY <2>0, <2>2 DEF ReadFile, Goto, Healthy, cache, TypeOK
    <2>3. CASE EndLoad(r)
        <3>1. /\ \/ Return(r, "chart") \/ Return(r, "error")
                 \/ Goto(r, "pull", {})
              /\ UNCHANGED <<made, disk, got, faults, upset>>
            BY <2>3 DEF EndLoad, cache, Healthy
        <3>2. \A x \in Reqs : at'[x] = "expand" => version \in made
            BY <2>a, <3>1, GotoType, ReturnType DEF TypeOK
        <3> QED BY <2>0, <2>a, <3>1, <3>2, GotoType, ReturnType DEF TypeOK
    <2>4. CASE Pull(r)
        <3>1. /\ Return(r, "error") \/ Goto(r, "stat", {})
              /\ Fault(r) \/ Healthy
              /\ UNCHANGED <<made, disk, got>>
            BY <2>4 DEF Pull, MkdirAll
        <3>2. \A x \in Reqs : at'[x] = "expand" => version \in made
            BY <2>a, <3>1, GotoType, ReturnType DEF TypeOK
        <3> QED BY <2>0, <2>a, <3>1, <3>2, GotoType, ReturnType, FaultType
                DEF TypeOK
    <2>5. CASE Stat(r)
        BY <2>0, <2>5 DEF Stat, Goto, Return, Healthy, cache, Places, TypeOK
    <2>6. CASE Mkdir(r)
        <3>1. /\ \/ made' = made \union {version} /\ Goto(r, "expand", Files)
                 \/ made' = made /\ Return(r, "error")
              /\ Fault(r) \/ Healthy
              /\ UNCHANGED <<disk, got>>
            BY <2>6 DEF Mkdir, Made
        <3>2. \A x \in Reqs : at'[x] = "expand" => version \in made'
            BY <3>1, ReturnType DEF TypeOK
        <3>3. made' \subseteq Versions /\ made \subseteq made'
            BY <3>1 DEF TypeOK
        <3> QED BY <2>0, <2>a, <3>1, <3>2, <3>3, GotoType, ReturnType, FaultType
                DEF TypeOK
    <2>7. CASE Truncate(r)
        BY <2>0, <2>7 DEF Truncate, Healthy, TypeOK
    <2>8. CASE WriteFile(r)
        <3>0. version \in made
            BY <2>8 DEF WriteFile, TypeOK
        <3>1. CASE Return(r, "error") /\ disk' = disk
            <4>1. Fault(r) \/ Healthy
                BY <2>8 DEF WriteFile
            <4> QED BY <2>0, <2>8, <3>0, <3>1, <4>1, ReturnType, FaultType
                    DEF WriteFile, TypeOK
        <3>2. CASE /\ Healthy
                   /\ disk' = [disk EXCEPT ![version][writing[r]] = "whole"]
                   /\ writing' = [writing EXCEPT ![r] = NoFile]
                   /\ left' = [left EXCEPT ![r] = @ \ {writing[r]}]
                   /\ UNCHANGED <<at, result>>
            <4>1. /\ disk' \in [Versions -> [Files -> Content]]
                  /\ \A v \in Versions : v \in made \/ disk'[v] = Blank
                BY <2>8, <3>0, <3>2 DEF WriteFile, TypeOK
            <4> QED BY <2>0, <2>8, <3>0, <3>2, <4>1 DEF WriteFile, Healthy, TypeOK
        <3> QED BY <2>8, <3>1, <3>2 DEF WriteFile
    <2>9. CASE Expanded(r)
        BY <2>0, <2>9 DEF Expanded, Goto, Healthy, cache, Places, TypeOK
    <2> QED BY <1>3, <2>1, <2>2, <2>3, <2>4, <2>5, <2>6, <2>7, <2>8, <2>9
            DEF Step
<1> QED BY <1>1, <1>2, <1>3 DEF Next

LEMMA TypeInit == Init => TypeOK
BY CacheAssumption DEF Init, TypeOK, Places, Content, Blank

\* Every variable keeps its type; whoever writes a chart's files has a
\* directory to write them into (loadChart).
THEOREM TypeCorrect == Spec => []TypeOK
BY TypeInit, TypeStep, PTL DEF Spec

-----------------------------------------------------------------------------

\* No step of a request, and no restart, unsettles a chart.
LEMMA StepSettles ==
    ASSUME TypeOK, [Next]_vars, NEW v \in Versions, Settled(v)
    PROVE  Settled(v)'
<1> USE CacheAssumption DEF Settled, Whole, Filling
<1>1. CASE UNCHANGED vars
    BY <1>1 DEF vars, cache, load
<1>2. CASE Crash
    BY <1>2 DEF Crash, cache, TypeOK, Busy, Places
<1>3. ASSUME NEW r \in Reqs, Step(r)
      PROVE  Settled(v)'
    <2>0. version' = version
        BY <1>3 DEF Step
    <2>1. v \in made
        BY DEF TypeOK, Blank
    <2>2. CASE StartLoad(r) \/ ReadFile(r) \/ EndLoad(r) \/ Pull(r) \/ Expanded(r)
        BY <2>0, <2>2 DEF StartLoad, ReadFile, EndLoad, Pull, Expanded, Goto,
            Return, cache, TypeOK
    <2>3. CASE Stat(r)
        BY <2>0, <2>1, <2>3 DEF Stat, MayUntar, Goto, Return, cache, TypeOK
    <2>4. CASE Mkdir(r)
        BY <2>0, <2>4 DEF Mkdir, Goto, Return, TypeOK
    <2>5. CASE Truncate(r)
        BY <2>0, <2>5 DEF Truncate, TypeOK
    <2>6. CASE WriteFile(r)
        BY <2>0, <2>6 DEF WriteFile, Return, TypeOK
    <2> QED BY <1>3, <2>2, <2>3, <2>4, <2>5, <2>6 DEF Step
<1> QED BY <1>1, <1>2, <1>3 DEF Next

\* A chart that is complete once, with nobody about to write to it, is never
\* written to again (loadChart, with Helm's refusal of an existing directory).
THEOREM SettledForGood == Spec => SettledStaysSettled
<1>1. TypeOK /\ [Next]_vars
        => [\A v \in Versions : Settled(v) => Settled(v)']_vars
    BY StepSettles
<1> QED BY <1>1, TypeCorrect, PTL DEF Spec, SettledStaysSettled

-----------------------------------------------------------------------------

LEMMA StepDirsWhole ==
    ASSUME CacheInv, TypeOK', NEW r \in Reqs, Step(r)
    PROVE  DirsWhole'
<1> USE CacheAssumption DEF CacheInv, TypeOK, Content, Calm, DirsWhole, Alone, Missing, Filled, ReadWhole
<1>0. version' = version
    BY DEF Step
<1>1. CASE StartLoad(r)
    BY <1>0, <1>1 DEF StartLoad, Goto, cache, Blank, Whole
<1>2. CASE ReadFile(r)
    BY <1>0, <1>2 DEF ReadFile, Goto, Healthy, cache, Whole
<1>3. CASE EndLoad(r)
    BY <1>0, <1>3 DEF EndLoad, Loaded, Goto, Return, Healthy, cache, Whole
<1>4. CASE Pull(r)
    BY <1>0, <1>4 DEF Pull, MkdirAll, Goto, Return, Healthy, Fault, Filling, Whole
<1>5. CASE Stat(r)
    BY <1>0, <1>5 DEF Stat, MayUntar, Goto, Return, Healthy, cache, Whole
<1>6. CASE Mkdir(r)
    BY <1>0, <1>6 DEF Mkdir, Made, Goto, Return, Healthy, Fault, Filling, Whole
<1>7. CASE Truncate(r)
    BY <1>0, <1>7 DEF Truncate, Healthy, Whole
<1>8. CASE WriteFile(r)
    BY <1>0, <1>8 DEF WriteFile, Return, Healthy, Fault, Filling, Whole
<1>9. CASE Expanded(r)
    BY <1>0, <1>9 DEF Expanded, Goto, Healthy, cache, Whole
<1> QED BY <1>1, <1>2, <1>3, <1>4, <1>5, <1>6, <1>7, <1>8, <1>9 DEF Step

LEMMA StepAlone ==
    ASSUME CacheInv, TypeOK', NEW r \in Reqs, Step(r)
    PROVE  Alone'
<1> USE CacheAssumption DEF CacheInv, TypeOK, Content, Calm, DirsWhole, Alone, Missing, Filled, ReadWhole
<1>0. version' = version
    BY DEF Step
<1>1. CASE StartLoad(r)
    BY <1>0, <1>1 DEF StartLoad, Goto, cache, Blank, Busy, Places, Settled, Whole, Filling
<1>2. CASE ReadFile(r)
    BY <1>0, <1>2 DEF ReadFile, Goto, Healthy, cache, Busy, Places, Settled, Whole, Filling
<1>3. CASE EndLoad(r)
    BY <1>0, <1>3 DEF EndLoad, Loaded, Goto, Return, Healthy, cache, Busy, Places, Settled, Whole, Filling
<1>4. CASE Pull(r)
    BY <1>0, <1>4 DEF Pull, MkdirAll, Goto, Return, Healthy, Fault, Filling, Busy, Places, Settled, Whole
<1>5. CASE Stat(r)
    <2>1. UNCHANGED <<made, disk, upset>> /\ at[r] = "stat"
        BY <1>5 DEF Stat, Healthy, cache
    <2>2. CASE version \notin made /\ at' = [at EXCEPT ![r] = "mkdir"]
        <3>1. ~Settled(version)
            BY <2>2 DEF Settled, Whole, Blank
        <3> QED BY <1>0, <2>1, <2>2, <3>1 DEF Busy, Places
    <2>3. CASE at' = [at EXCEPT ![r] = "done"]
        <3>1. Settled(version)' => Settled(version)
            BY <1>0, <2>1, <2>3 DEF Settled, Whole, Filling
        <3>2. ~Settled(version)' => ~Settled(version)
            BY <1>0, <2>1, <2>3 DEF Settled, Whole, Filling
        <3> QED BY <1>0, <2>1, <2>3, <3>2 DEF Busy, Places
    <2> QED BY <1>5, <2>2, <2>3 DEF Stat, MayUntar, Goto, Return
<1>6. CASE Mkdir(r)
    BY <1>0, <1>6 DEF Mkdir, Made, Goto, Return, Healthy, Fault, Filling, Busy, Places, Settled, Whole
<1>7. CASE Truncate(r)
    BY <1>0, <1>7 DEF Truncate, Healthy, Busy, Places, Settled, Whole, Filling
<1>8. CASE WriteFile(r)
    BY <1>0, <1>8 DEF WriteFile, Return, Healthy, Fault, Filling, Busy, Places, Settled, Whole
<1>9. CASE Expanded(r)
    BY <1>0, <1>9 DEF Expanded, Goto, Healthy, cache, Busy, Places, Settled, Whole, Filling
<1> QED BY <1>1, <1>2, <1>3, <1>4, <1>5, <1>6, <1>7, <1>8, <1>9 DEF Step

LEMMA StepMissing ==
    ASSUME CacheInv, TypeOK', NEW r \in Reqs, Step(r)
    PROVE  Missing'
<1> USE CacheAssumption DEF CacheInv, TypeOK, Content, Calm, DirsWhole, Alone, Missing, Filled, ReadWhole
<1>0. version' = version
    BY DEF Step
<1>1. CASE StartLoad(r)
    BY <1>0, <1>1 DEF StartLoad, Goto, cache, Blank
<1>2. CASE ReadFile(r)
    BY <1>0, <1>2 DEF ReadFile, Goto, Healthy, cache
<1>3. CASE EndLoad(r)
    BY <1>0, <1>3 DEF EndLoad, Loaded, Goto, Return, Healthy, cache
<1>4. CASE Pull(r)
    BY <1>0, <1>4 DEF Pull, MkdirAll, Goto, Return, Healthy, Fault, Filling
<1>5. CASE Stat(r)
    BY <1>0, <1>5 DEF Stat, MayUntar, Goto, Return, Healthy, cache
<1>6. CASE Mkdir(r)
    <2>1. at[r] = "mkdir"
        BY <1>6 DEF Mkdir
    <2>2. Calm => \A o \in Reqs \ {r} : ~Busy(o)
        BY <2>1 DEF Settled, Filling, Busy, Places
    <2>3. CASE Healthy /\ Goto(r, "expand", Files)
        BY <1>0, <2>2, <2>3 DEF Goto, Healthy, Busy, Places
    <2>4. CASE Fault(r)
        BY <1>0, <2>1, <2>4 DEF Fault, Filling
    <2> QED BY <1>6, <2>3, <2>4 DEF Mkdir
<1>7. CASE Truncate(r)
    BY <1>0, <1>7 DEF Truncate, Healthy
<1>8. CASE WriteFile(r)
    BY <1>0, <1>8 DEF WriteFile, Return, Healthy, Fault, Filling
<1>9. CASE Expanded(r)
    BY <1>0, <1>9 DEF Expanded, Goto, Healthy, cache
<1> QED BY <1>1, <1>2, <1>3, <1>4, <1>5, <1>6, <1>7, <1>8, <1>9 DEF Step

LEMMA StepFilled ==
    ASSUME CacheInv, TypeOK', NEW r \in Reqs, Step(r)
    PROVE  Filled'
<1> USE CacheAssumption DEF CacheInv, TypeOK, Content, Calm, DirsWhole, Alone, Missing, Filled, ReadWhole
<1>0. version' = version
    BY DEF Step
<1>1. CASE StartLoad(r)
    BY <1>0, <1>1 DEF StartLoad, Goto, cache, Blank
<1>2. CASE ReadFile(r)
    BY <1>0, <1>2 DEF ReadFile, Goto, Healthy, cache
<1>3. CASE EndLoad(r)
    BY <1>0, <1>3 DEF EndLoad, Loaded, Goto, Return, Healthy, cache
<1>4. CASE Pull(r)
    BY <1>0, <1>4 DEF Pull, MkdirAll, Goto, Return, Healthy, Fault, Filling
<1>5. CASE Stat(r)
    BY <1>0, <1>5 DEF Stat, MayUntar, Goto, Return, Healthy, cache
<1>6. CASE Mkdir(r)
    BY <1>0, <1>6 DEF Mkdir, Made, Goto, Return, Healthy, Fault, Filling
<1>7. CASE Truncate(r)
    <2>1. Calm => \A o \in Reqs \ {r} : at[o] # "expand"
        BY <1>7 DEF Truncate, Settled, Filling, Busy, Places
    <2>2. PICK f \in left[r] :
            /\ disk' = [disk EXCEPT ![version][f] = "empty"]
            /\ writing' = [writing EXCEPT ![r] = f]
        BY <1>7 DEF Truncate
    <2>3. UNCHANGED <<at, left, upset>>
        BY <1>7 DEF Truncate, Healthy
    <2>4. \A g \in Files \ {f} : disk'[version][g] = disk[version][g]
        BY <2>2
    <2> QED BY <1>0, <2>1, <2>2, <2>3, <2>4
<1>8. CASE WriteFile(r)
    <2>0. at[r] = "expand" /\ writing[r] # NoFile
        BY <1>8 DEF WriteFile
    <2>1. Calm => \A o \in Reqs \ {r} : at[o] # "expand"
        BY <2>0 DEF Settled, Filling, Busy, Places
    <2>2. CASE /\ Healthy
               /\ disk' = [disk EXCEPT ![version][writing[r]] = "whole"]
               /\ writing' = [writing EXCEPT ![r] = NoFile]
               /\ left' = [left EXCEPT ![r] = @ \ {writing[r]}]
               /\ UNCHANGED <<at, result>>
        <3>1. \A g \in Files : disk'[version][g]
                = IF g = writing[r] THEN "whole" ELSE disk[version][g]
            BY <2>0, <2>2
        <3>2. left'[r] = left[r] \ {writing[r]} /\ writing'[r] = NoFile
            BY <2>2
        <3> QED BY <1>0, <2>0, <2>1, <2>2, <3>1, <3>2 DEF Healthy
    <2>3. CASE Fault(r)
        BY <1>0, <2>0, <2>3 DEF Fault, Filling
    <2> QED BY <1>8, <2>2, <2>3 DEF WriteFile
<1>9. CASE Expanded(r)
    BY <1>0, <1>9 DEF Expanded, Goto, Healthy, cache
<1> QED BY <1>1, <1>2, <1>3, <1>4, <1>5, <1>6, <1>7, <1>8, <1>9 DEF Step

LEMMA StepReadWhole ==
    ASSUME CacheInv, TypeOK', NEW r \in Reqs, Step(r)
    PROVE  ReadWhole'
<1> USE CacheAssumption DEF CacheInv, TypeOK, Content, Calm, DirsWhole, Alone, Missing, Filled, ReadWhole
<1>0. version' = version
    BY DEF Step
<1>1. CASE StartLoad(r)
    <2>1. UNCHANGED <<made, disk>> /\ at[r] = "new"
        BY <1>1 DEF StartLoad, cache
    <2>2. Calm' => Calm
        BY <1>0, <1>1 DEF StartLoad
    <2>3. ASSUME Calm', version \in made
          PROVE  Settled(version)
        <3>1. Settled(version) \/ \A o \in Reqs : ~Busy(o)
            BY <1>0, <1>1, <2>3 DEF StartLoad
        <3>2. (\A o \in Reqs : ~Busy(o)) => Settled(version)
            BY <2>2, <2>3 DEF Settled, Busy, Places, Filling
        <3> QED BY <3>1, <3>2
    <2>4. CASE version \in made /\ Goto(r, "load", Files)
        <3>1. Calm' => Settled(version)'
            BY <1>0, <2>1, <2>3, <2>4 DEF Settled, Whole, Goto, Filling
        <3> QED BY <1>0, <1>1, <2>2, <2>4, <3>1 DEF StartLoad, Goto
    <2>5. CASE version \notin made /\ Goto(r, "pull", {})
        <3>1. Settled(version) => Settled(version)'
            BY <1>0, <2>1, <2>5 DEF Settled, Whole, Goto, Filling
        <3> QED BY <1>0, <1>1, <2>2, <2>5, <3>1 DEF StartLoad, Goto
    <2> QED BY <1>1, <2>4, <2>5 DEF StartLoad
<1>2. CASE ReadFile(r)
    BY <1>0, <1>2 DEF ReadFile, Goto, Healthy, cache, Settled, Whole, Filling
<1>3. CASE EndLoad(r)
    BY <1>0, <1>3 DEF EndLoad, Loaded, Goto, Return, Healthy, cache, Settled, Whole, Filling
<1>4. CASE Pull(r)
    BY <1>0, <1>4 DEF Pull, MkdirAll, Goto, Return, Healthy, Fault, Filling, Settled, Whole
<1>5. CASE Stat(r)
    <2>1. UNCHANGED <<made, disk, upset, got>> /\ at[r] = "stat"
        BY <1>5 DEF Stat, Healthy, cache
    <2>2. CASE version \notin made /\ Goto(r, "mkdir", {})
        <3>1. ~Settled(version)
            BY <2>2 DEF Settled, Whole, Blank
        <3> QED BY <1>0, <2>1, <2>2, <3>1 DEF Goto
    <2>3. CASE Return(r, "error")
        <3>1. Settled(version) => Settled(version)'
            BY <1>0, <2>1, <2>3 DEF Settled, Whole, Filling, Return
        <3> QED BY <1>0, <2>1, <2>3, <3>1 DEF Return
    <2> QED BY <1>5, <2>2, <2>3 DEF Stat, MayUntar
<1>6. CASE Mkdir(r)
    BY <1>0, <1>6 DEF Mkdir, Made, Goto, Return, Healthy, Fault, Filling, Settled, Whole
<1>7. CASE Truncate(r)
    BY <1>0, <1>7 DEF Truncate, Healthy, Settled, Whole, Filling
<1>8. CASE WriteFile(r)
    BY <1>0, <1>8 DEF WriteFile, Return, Healthy, Fault, Filling, Settled, Whole
<1>9. CASE Expanded(r)
    <2>0. /\ at[r] = "expand" /\ left[r] = {}
          /\ UNCHANGED <<made, disk, upset, got>>
          /\ at' = [at EXCEPT ![r] = "reload"]
          /\ left' = [left EXCEPT ![r] = Files]
        BY <1>9 DEF Expanded, Goto, Healthy, cache
    <2>1. Calm => \A o \in Reqs \ {r} : ~Busy(o)
        BY <2>0 DEF Settled, Filling, Busy, Places
    <2>2. Calm => Settled(version)'
        BY <1>0, <2>0, <2>1 DEF Settled, Whole, Filling, Busy, Places
    <2>3. Calm => \A o \in Reqs \ {r} : at'[o] \notin {"load", "reload"}
        BY <2>0, <2>1 DEF Busy, Places
    <2> QED BY <1>0, <2>0, <2>2, <2>3
<1> QED BY <1>1, <1>2, <1>3, <1>4, <1>5, <1>6, <1>7, <1>8, <1>9 DEF Step

LEMMA InvInit == Init => CacheInv
<1> SUFFICES ASSUME Init PROVE CacheInv
    OBVIOUS
<1> USE DEF Init, Busy, Places
<1>1. TypeOK
    BY TypeInit
<1>2. DirsWhole /\ Alone /\ Missing /\ Filled /\ ReadWhole
    BY DEF DirsWhole, Alone, Missing, Filled, ReadWhole
<1> QED BY <1>1, <1>2 DEF CacheInv

\* A restart leaves nobody under way, and marks a chart it cut short.
LEMMA CrashInv ==
    ASSUME CacheInv, TypeOK', Crash
    PROVE  CacheInv'
<1>1. \A r \in Reqs : ~Busy(r)'
    BY DEF Crash, Busy, Places, CacheInv, TypeOK
<1>2. \A r \in Reqs : at'[r] \notin Places
    BY <1>1 DEF Busy
<1>3. Alone' /\ Missing' /\ Filled' /\ ReadWhole'
    BY <1>1, <1>2 DEF Alone, Missing, Filled, ReadWhole, Places
<1>4. DirsWhole'
    BY DEF Crash, cache, CacheInv, DirsWhole, Whole, Filling
<1> QED BY <1>3, <1>4 DEF CacheInv

LEMMA InvStep ==
    ASSUME CacheInv, [Next]_vars
    PROVE  CacheInv'
<1>1. TypeOK'
    BY TypeStep DEF CacheInv
<1>2. CASE UNCHANGED vars
    BY <1>2 DEF vars, cache, load, CacheInv, TypeOK, DirsWhole, Alone, Missing,
        Filled, ReadWhole, Calm, Settled, Whole, Busy
<1>3. CASE Crash
    BY <1>1, <1>3, CrashInv
<1>4. ASSUME NEW r \in Reqs, Step(r)
      PROVE  CacheInv'
    BY <1>1, <1>4, StepDirsWhole, StepAlone, StepMissing, StepFilled,
        StepReadWhole DEF CacheInv
<1> QED BY <1>2, <1>3, <1>4 DEF Next

THEOREM CacheInvariance == Spec => []CacheInv
BY InvInit, InvStep, PTL DEF Spec

\* A load on a chart whose first pull was neither cut short nor overlapped
\* ends with the whole chart unless a call of its own fails (loadChart).
THEOREM CleanLoad == Spec => CleanLoadIsWhole
<1>1. ASSUME CacheInv, [Next]_vars,
             NEW r \in Reqs, Busy(r), at'[r] = "done",
             faults' = faults, version \notin upset
      PROVE  result'[r] = "chart" /\ \A f \in Files : got[r][f] = "whole"
    <2> USE <1>1 DEF CacheInv, TypeOK
    <2>1. ~UNCHANGED vars
        BY DEF vars, load, Busy, Places
    <2>2. ~Crash
        BY DEF Crash, Busy
    <2>3. PICK o \in Reqs : Step(o)
        BY <2>1, <2>2 DEF Next
    <2>4. ~Fault(o)
        BY DEF Fault
    <2>5. EndLoad(o) \/ Stat(o)
        BY <2>3, <2>4 DEF Step, StartLoad, ReadFile, Pull, Mkdir, Truncate,
            WriteFile, Expanded, Goto, Busy, Places
    <2>6. o = r
        BY <2>5 DEF EndLoad, Stat, Goto, Return, Busy, Places
    <2>7. CASE Stat(r)
        BY <2>7 DEF Stat, MayUntar, Goto, Missing, Calm
    <2>8. CASE EndLoad(r)
        <3>1. \A f \in Files : got[r][f] = "whole"
            BY <2>8 DEF EndLoad, ReadWhole, Calm
        <3> QED BY <2>8, <3>1, CacheAssumption DEF EndLoad, Loaded, Return
    <2> QED BY <2>5, <2>6, <2>7, <2>8
<1>2. CacheInv /\ [Next]_vars
        => [\A r \in Reqs :
              Busy(r) /\ at'[r] = "done" /\ faults' = faults /\ version \notin upset
              => result'[r] = "chart" /\ \A f \in Files : got[r][f] = "whole"]_vars
    BY <1>1
<1> QED BY <1>2, CacheInvariance, PTL DEF Spec, CleanLoadIsWhole

=============================================================================
