---------------------------- MODULE RunnerValues ----------------------------
(***************************************************************************)
(* The settings of one runner on their way round: out of the request or    *)
(* the form of the page, through buildValues and the merge into the Helm   *)
(* release, back through releaseToModel and into the form again.  Clients  *)
(* of the API, a page with its form open, and restarts of the server with  *)
(* other defaults take turns.                                              *)
(*                                                                         *)
(* The string options with a server default (image, storage, resources)    *)
(* are treated alike and are one function; 0 and the empty string are what *)
(* Go decodes from a field that is left out.                               *)
(***************************************************************************)
EXTENDS Naturals, FiniteSets

CONSTANTS
    Strings,        \* non-empty strings
    Name,           \* the team
    Options,        \* keys of the options with a default
    MaxCount,       \* bound of the runner counts
    PageMax,        \* 10: maxRunners in a form whose page has no defaults
    Configs,        \* the defaults an operator may configure
    Bodies,         \* the request bodies of API clients
    MaxTouched,     \* bound: fields the user touches before a save
    MaxRestarts     \* bound

None == ""
Counts == 0..MaxCount

\* RunnerScaleSet, as a request body, an answer or the fields of the form.
Model == [url : Strings \union {None}, label : Strings \union {None},
          min : Counts, max : Counts, opt : [Options -> Strings \union {None}]]

\* The values of a release.
Values == [url : Strings, label : Strings, min : Counts, max : Counts,
           opt : [Options -> Strings]]

\* cfg.Default*: getEnv gives a string even for a variable that is set empty.
Defaults == [min : Counts, max : Counts, opt : [Options -> Strings]]

ASSUME ValuesAssumption ==
    /\ None \notin Strings /\ Name \in Strings
    /\ MaxCount \in Nat /\ PageMax \in Counts
    /\ Configs \subseteq Defaults /\ Bodies \subseteq Model
    /\ MaxTouched \in Nat /\ MaxRestarts \in Nat

VARIABLES
    defaults,   \* cfg of the running server
    release,    \* the latest revision: its status, "none" before, and values
    page,       \* serverDefaults of the page
    form,       \* the form: create or edit, its fields, those the user has
                \* touched, the values it was filled from
    answer,     \* what the successful POST or PUT of this step answered
    restarts

vars == <<defaults, release, page, form, answer, restarts>>

Or(s, t) == IF s = None THEN t ELSE s

Blank == [url |-> None, label |-> None, min |-> 0, max |-> 0,
          opt |-> [o \in Options |-> None]]

NoRelease == [status |-> "none", values |-> Blank]
Unloaded == [min |-> 0, max |-> PageMax, opt |-> [o \in Options |-> None]]
Closed ==
    [mode |-> "closed", fields |-> Blank, touched |-> {}, read |-> Blank]
NoAnswer == Blank

Init ==
    /\ defaults \in Configs
    /\ release = NoRelease
    /\ page = Unloaded
    /\ form = Closed
    /\ answer = NoAnswer
    /\ restarts = 0

-----------------------------------------------------------------------------
(* The server. *)

BuildValues(cfg, body, isUpgrade) ==
    [url |-> body.url,
     label |-> Or(body.label, Name),
     min |-> body.min,
     max |-> IF ~isUpgrade /\ body.max = 0 THEN cfg.max ELSE body.max,
     opt |-> [o \in Options |-> Or(body.opt[o], cfg.opt[o])]]

\* Mutant: the new values replace the old ones.
Replace(old, new) == new

\* Mutant: a value that is there stays.
MergeKeeping(old, new) ==
    [new EXCEPT !.url = Or(@, old.url), !.label = Or(old.label, @)]

\* upgradeWithChart: empty strings leave the old value, and of all keys only
\* githubConfigUrl can be one.
Merge(old, new) == [new EXCEPT !.url = Or(@, old.url)]

\* Mutant: storage is left out of the answer.
OptionsUnread(values, number) ==
    [values EXCEPT !.opt = [o \in Options |-> None]]

\* releaseToModel looks for counts of type float64.  A release read from the
\* cluster went through JSON and has them, one that was deployed by this very
\* call holds the ints of buildValues.
ReleaseToModel(values, number) ==
    IF number = "float64" THEN values
    ELSE [values EXCEPT !.min = 0, !.max = 0]

\* GetRunner and ListRunners.
Shown == ReleaseToModel(release.values, "float64")

\* helm install or upgrade with these values; either may leave a failed
\* revision, which the caller is told of.
Deploy(values) ==
    \/ /\ release' = [status |-> "deployed", values |-> values]
       /\ answer' = ReleaseToModel(values, "int")
    \/ /\ release' = [status |-> "failed", values |-> values]
       /\ answer' = NoAnswer

\* POST: validateCreate, then Install, over nothing or over a failed release.
Post(body) ==
    LET new == BuildValues(defaults, body, FALSE)
    IN  /\ body.url # None
        /\ \/ release.status = "none" /\ Deploy(new)
           \/ release.status = "failed" /\ Deploy(Merge(release.values, new))

\* PUT of a runner that is there.
Put(body) ==
    /\ release.status # "none"
    /\ Deploy(Merge(release.values, BuildValues(defaults, body, TRUE)))

Client ==
    /\ \E body \in Bodies : Post(body) \/ Put(body)
    /\ UNCHANGED <<defaults, page, form, restarts>>

Delete ==
    /\ release' = NoRelease
    /\ answer' = NoAnswer
    /\ UNCHANGED <<defaults, page, form, restarts>>

Restart ==
    /\ restarts < MaxRestarts
    /\ restarts' = restarts + 1
    /\ defaults' \in Configs
    /\ answer' = NoAnswer
    /\ UNCHANGED <<release, page, form>>

-----------------------------------------------------------------------------
(* The page. *)

\* The page is loaded; loadDefaults lets a failure pass.
Load ==
    /\ page' \in {defaults, Unloaded}
    /\ form' = Closed
    /\ answer' = NoAnswer
    /\ UNCHANGED <<defaults, release, restarts>>

ClearForm ==
    [url |-> None, label |-> None, min |-> page.min, max |-> page.max,
     opt |-> page.opt]

\* What the answer leaves out keeps what clearForm has put there.
PopulateForm(m) ==
    [url |-> m.url, label |-> m.label, min |-> m.min, max |-> m.max,
     opt |-> [o \in Options |-> Or(m.opt[o], ClearForm.opt[o])]]

BuildPayload(f) == [f EXCEPT !.label = Or(@, Name)]

OpenCreate ==
    /\ form' = [mode |-> "create", fields |-> ClearForm, touched |-> {},
                read |-> Blank]
    /\ answer' = NoAnswer
    /\ UNCHANGED <<defaults, release, page, restarts>>

OpenEdit ==
    /\ release.status # "none"
    /\ form' = [mode |-> "edit", fields |-> PopulateForm(Shown), touched |-> {},
                read |-> release.values]
    /\ answer' = NoAnswer
    /\ UNCHANGED <<defaults, release, page, restarts>>

\* The user fills in, changes or empties a field.
Type ==
    /\ form.mode # "closed"
    /\ Cardinality(form.touched) < MaxTouched
    /\ \E body \in Bodies, k \in DOMAIN Blank :
        form' = [form EXCEPT !.fields[k] = body[k], !.touched = @ \union {k}]
    /\ answer' = NoAnswer
    /\ UNCHANGED <<defaults, release, page, restarts>>

\* saveRunner: the form closes when the call succeeds.
Save ==
    /\ form.fields.url # None
    /\ \/ form.mode = "create" /\ Post(BuildPayload(form.fields))
       \/ form.mode = "edit" /\ Put(BuildPayload(form.fields))
    /\ form' = IF release'.status = "deployed" THEN Closed ELSE form
    /\ UNCHANGED <<defaults, page, restarts>>

Next ==
    \/ Client \/ Delete \/ Restart
    \/ Load \/ OpenCreate \/ OpenEdit \/ Type \/ Save

Spec == Init /\ [][Next]_vars

-----------------------------------------------------------------------------

\* Every variable has its type; a release has a githubConfigUrl and no empty
\* option, whatever clients leave out.
TypeOK ==
    /\ defaults \in Configs
    /\ release = NoRelease
       \/ release \in [status : {"deployed", "failed"}, values : Values]
    /\ page \in Configs \union {Unloaded}
    /\ form \in [mode : {"closed", "create", "edit"}, fields : Model,
                 touched : SUBSET DOMAIN Blank, read : Values \union {Blank}]
    /\ answer \in Model
    /\ restarts \in Nat

\* openEdit, saveRunner: an edit changes nothing but the fields the user has
\* touched, provided nobody else has changed the runner since the form was
\* filled: the form reads and writes the same, whatever the defaults of the
\* page and of the server are by now.
UntouchedFieldsSurvive ==
    [][Save /\ form.mode = "edit" /\ release.values = form.read
       => \A k \in DOMAIN Blank \ form.touched :
            release'.values[k] = release.values[k]]_vars

\* "upgrade it rather than failing" (Install): a create over a failed release
\* deploys what it would deploy over none; nothing of the failed attempt, of
\* other values and perhaps other defaults, is left.
CreateIsFresh ==
    [][\A body \in Bodies \union {BuildPayload(form.fields)} :
          release.status = "failed" /\ Post(body) => release'.values = BuildValues(defaults, body, FALSE)]_vars

-----------------------------------------------------------------------------
(***************************************************************************)
(* What the comments and the README say and the code does not keep.        *)
(***************************************************************************)

\* "omitted fields are carried forward from the existing release"
\* (api/README.md:100), "only non-zero values are applied" (models.go:65):
\* a PUT leaves what it does not supply as it was.
OmittedIsCarriedForward ==
    [][\A body \in Bodies :
          Client /\ Put(body)
          => \A k \in DOMAIN Blank :
                body[k] = Blank[k] => release'.values[k] = release.values[k]]_vars

=============================================================================
