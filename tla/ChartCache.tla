----------------------------- MODULE ChartCache -----------------------------
(***************************************************************************)
(* loadChart (api/internal/helm/client.go): every install, upgrade and     *)
(* chart upgrade first loads the chart from a directory under /tmp, and    *)
(* pulls it into that directory when it cannot be loaded.  Requests run    *)
(* concurrently and nothing is locked.  /tmp is an emptyDir: it outlives   *)
(* the process, so a crash leaves the directory as it was.                 *)
(*                                                                         *)
(* Helm's loader and puller are external: Load reads the files one after   *)
(* the other and fails without a proper Chart.yaml; Pull downloads the     *)
(* archive, refuses an existing chart directory, makes it, and writes the  *)
(* files one after the other, each by truncating it first.                 *)
(***************************************************************************)
EXTENDS Naturals

CONSTANTS
    Reqs,           \* requests, each of which loads the chart once
    Versions,       \* chart versions an operator may configure
    Files,          \* the files of the chart
    Meta,           \* Chart.yaml, the one file the loader insists on
    MaxFaults,      \* bound: pulls and writes that fail
    MaxCrashes      \* bound: server restarts

NoFile == "no file"

ASSUME CacheAssumption ==
    /\ Meta \in Files
    /\ NoFile \notin Files
    /\ MaxFaults \in Nat /\ MaxCrashes \in Nat

VARIABLES
    version,    \* cfg.ARCChartVersion of the running server
    made,       \* versions whose chart directory exists
    disk,       \* disk[v][f]: what the file f of version v holds
    at,         \* at[r]: where request r is
    left,       \* left[r]: the files it has still to read, or to write
    writing,    \* writing[r]: the file it has truncated and not yet written
    got,        \* got[r]: what it read
    result,     \* result[r]: "none", "chart" or "error"
    faults, crashes,
    upset       \* versions whose first pull was cut short or overlapped

cache == <<made, disk>>
load == <<at, left, writing, got, result>>
vars == <<version, cache, load, faults, crashes, upset>>

Content == {"none", "empty", "whole"}
Blank == [f \in Files |-> "none"]

Places == {"load", "pull", "stat", "mkdir", "expand", "reload"}
Filling == {"mkdir", "expand"}

Busy(r) == at[r] \in Places

Whole(v) == \A f \in Files : disk[v][f] = "whole"

\* Whole, and nobody is about to write to it again.
Settled(v) == Whole(v) /\ (v = version => \A r \in Reqs : at[r] \notin Filling)

Init ==
    /\ version \in Versions
    /\ made = {}
    /\ disk = [v \in Versions |-> Blank]
    /\ at = [r \in Reqs |-> "new"]
    /\ left = [r \in Reqs |-> {}]
    /\ writing = [r \in Reqs |-> NoFile]
    /\ got = [r \in Reqs |-> Blank]
    /\ result = [r \in Reqs |-> "none"]
    /\ faults = 0 /\ crashes = 0 /\ upset = {}

-----------------------------------------------------------------------------

Goto(r, place, todo) ==
    /\ at' = [at EXCEPT ![r] = place]
    /\ left' = [left EXCEPT ![r] = todo]
    /\ UNCHANGED <<writing, result>>

Return(r, res) ==
    /\ at' = [at EXCEPT ![r] = "done"]
    /\ left' = [left EXCEPT ![r] = {}]
    /\ writing' = [writing EXCEPT ![r] = NoFile]
    /\ result' = [result EXCEPT ![r] = res]

Healthy == UNCHANGED <<faults, upset>>

\* The network, the registry or the disk fails; in the middle of the untar
\* that leaves a part of the chart behind.
Fault(r) ==
    /\ faults < MaxFaults
    /\ faults' = faults + 1
    /\ upset' = IF at[r] \in Filling THEN upset \union {version} ELSE upset

\* loader.Load: of a directory that is not there it fails at once.
StartLoad(r) ==
    /\ at[r] = "new"
    /\ got' = [got EXCEPT ![r] = Blank]
    /\ IF version \in made THEN Goto(r, "load", Files) ELSE Goto(r, "pull", {})
    /\ upset' = IF ~Settled(version) /\ \E o \in Reqs : Busy(o)
                THEN upset \union {version} ELSE upset
    /\ UNCHANGED <<cache, faults>>

ReadFile(r) ==
    /\ at[r] \in {"load", "reload"}
    /\ \E f \in left[r] :
        /\ got' = [got EXCEPT ![r][f] = disk[version][f]]
        /\ Goto(r, at[r], left[r] \ {f})
    /\ Healthy
    /\ UNCHANGED cache

Loaded(r) == got[r][Meta] = "whole"

EndLoad(r) ==
    /\ at[r] \in {"load", "reload"} /\ left[r] = {}
    /\ IF Loaded(r) THEN Return(r, "chart")
       ELSE IF at[r] = "load" THEN Goto(r, "pull", {})
       ELSE Return(r, "error")
    /\ Healthy
    /\ UNCHANGED <<cache, got>>

\* Mutant: the directory made before the pull is the chart's own.
MkdirAllOfChart(v) == made \union {v}

\* os.MkdirAll(destDir): the parent of the chart directory, which stays missing.
MkdirAll(v) == made

\* os.MkdirAll and the download.
Pull(r) ==
    /\ at[r] = "pull"
    /\ made' = MkdirAll(version)
    /\ \/ Healthy /\ Goto(r, "stat", {})
       \/ Fault(r) /\ Return(r, "error")
    /\ UNCHANGED <<disk, got>>

\* Mutant: the untar goes into a directory that exists as well.
MayAlwaysUntar == TRUE

MayUntar == version \notin made

\* "failed to untar: a file or directory with the name ... already exists"
Stat(r) ==
    /\ at[r] = "stat"
    /\ IF MayUntar THEN Goto(r, "mkdir", {}) ELSE Return(r, "error")
    /\ Healthy
    /\ UNCHANGED <<cache, got>>

\* Mutant: nothing makes the directory.
NotMade(v) == made

Made(v) == made \union {v}

Mkdir(r) ==
    /\ at[r] = "mkdir"
    /\ \/ /\ Healthy
          /\ made' = Made(version)
          /\ Goto(r, "expand", Files)
       \/ /\ Fault(r)
          /\ Return(r, "error")
          /\ UNCHANGED made
    /\ UNCHANGED <<disk, got>>

\* os.WriteFile, first half: the file is there and empty.
Truncate(r) ==
    /\ at[r] = "expand" /\ writing[r] = NoFile
    /\ \E f \in left[r] :
        /\ disk' = [disk EXCEPT ![version][f] = "empty"]
        /\ writing' = [writing EXCEPT ![r] = f]
    /\ Healthy
    /\ UNCHANGED <<made, at, left, got, result>>

WriteFile(r) ==
    /\ at[r] = "expand" /\ writing[r] # NoFile
    /\ \/ /\ Healthy
          /\ disk' = [disk EXCEPT ![version][writing[r]] = "whole"]
          /\ writing' = [writing EXCEPT ![r] = NoFile]
          /\ left' = [left EXCEPT ![r] = @ \ {writing[r]}]
          /\ UNCHANGED <<at, result>>
       \/ /\ Fault(r)
          /\ Return(r, "error")
          /\ UNCHANGED disk
    /\ UNCHANGED <<made, got>>

Expanded(r) ==
    /\ at[r] = "expand" /\ writing[r] = NoFile /\ left[r] = {}
    /\ Goto(r, "reload", Files)
    /\ Healthy
    /\ UNCHANGED <<cache, got>>

\* The server is killed and started again, perhaps on another version.
Crash ==
    /\ crashes < MaxCrashes
    /\ crashes' = crashes + 1
    /\ version' \in Versions
    /\ at' = [r \in Reqs |-> IF Busy(r) THEN "dead" ELSE at[r]]
    /\ left' = [r \in Reqs |-> {}]
    /\ writing' = [r \in Reqs |-> NoFile]
    /\ upset' = IF \E r \in Reqs : at[r] \in Filling
                THEN upset \union {version} ELSE upset
    /\ UNCHANGED <<cache, got, result, faults>>

Step(r) ==
    /\ \/ StartLoad(r) \/ ReadFile(r) \/ EndLoad(r)
       \/ Pull(r) \/ Stat(r) \/ Mkdir(r)
       \/ Truncate(r) \/ WriteFile(r) \/ Expanded(r)
    /\ UNCHANGED <<version, crashes>>

Next == Crash \/ \E r \in Reqs : Step(r)

Spec == Init /\ [][Next]_vars

-----------------------------------------------------------------------------

\* Every variable has its type; a chart's files stand in its directory, and
\* only a request that made that directory writes to it.
TypeOK ==
    /\ version \in Versions
    /\ made \subseteq Versions
    /\ disk \in [Versions -> [Files -> Content]]
    /\ at \in [Reqs -> Places \union {"new", "done", "dead"}]
    /\ left \in [Reqs -> SUBSET Files]
    /\ writing \in [Reqs -> Files \union {NoFile}]
    /\ got \in [Reqs -> [Files -> Content]]
    /\ result \in [Reqs -> {"none", "chart", "error"}]
    /\ faults \in Nat /\ crashes \in Nat
    /\ upset \subseteq Versions
    /\ \A v \in Versions : v \in made \/ disk[v] = Blank
    /\ \A r \in Reqs : at[r] = "expand" => version \in made

\* "Each version gets its own subdirectory so that changing ARCChartVersion
\* forces a fresh pull" (loadChart): a chart that is complete once is never
\* written to again, not by requests that found it missing before, not after
\* restarts that go to another version and back.
SettledStaysSettled ==
    [][\A v \in Versions : Settled(v) => Settled(v)']_vars

\* "The chart is cached in /tmp/helm-charts after first pull" (loadChart): a
\* request ends with every file of the chart, unless a call of its own fails,
\* or the first pull of that version was cut short or overlapped by another
\* request.  Once the chart is there, overlaps do no harm.
CleanLoadIsWhole ==
    [][\A r \in Reqs :
          Busy(r) /\ at'[r] = "done" /\ faults' = faults /\ version \notin upset
          => result'[r] = "chart" /\ \A f \in Files : got[r][f] = "whole"]_vars

-----------------------------------------------------------------------------
(***************************************************************************)
(* The inductive invariant behind CleanLoadIsWhole.                        *)
(***************************************************************************)

Calm == version \notin upset

\* A directory that stands is a whole chart, unless one request fills it now.
DirsWhole ==
    \A v \in made \ upset :
        Whole(v) \/ (v = version /\ \E r \in Reqs : at[r] = "expand")

\* Before the chart has settled at most one request is under way.
Alone ==
    Calm /\ ~Settled(version)
        => \A r, o \in Reqs : Busy(r) /\ Busy(o) => r = o

\* Who is about to make the directory finds none.
Missing ==
    Calm => \A r \in Reqs : at[r] \in {"pull", "stat", "mkdir"} => version \notin made

\* Whoever fills the directory has written all that it has not left to write.
Filled ==
    Calm => \A r \in Reqs : at[r] = "expand"
        => /\ \A f \in Files \ left[r] : disk[version][f] = "whole"
           /\ writing[r] # NoFile => writing[r] \in left[r]

\* Whoever reads reads a settled chart, and has read it whole so far.
ReadWhole ==
    Calm => \A r \in Reqs : at[r] \in {"load", "reload"}
        => /\ Settled(version)
           /\ \A f \in Files \ left[r] : got[r][f] = "whole"

\* The shared directory as every load that starts in peace meets it.
CacheInv ==
    /\ TypeOK /\ DirsWhole /\ Alone /\ Missing /\ Filled /\ ReadWhole

-----------------------------------------------------------------------------
(***************************************************************************)
(* What the comments say and the code does not keep.                       *)
(***************************************************************************)

\* "concurrent upgrades share the same cached chart" (helm/client.go:262):
\* what a request loads is that chart.  Between the first and the last file of
\* the untar it is a part of it, once Chart.yaml is there.
SharedChartIsWhole ==
    \A r \in Reqs :
        result[r] = "chart" => \A f \in Files : got[r][f] = "whole"

=============================================================================
