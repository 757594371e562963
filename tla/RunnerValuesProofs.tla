------------------------- MODULE RunnerValuesProofs -------------------------
(***************************************************************************)
(* Theorems about RunnerValues, for any strings, options, configurations,  *)
(* request bodies and bounds.                                              *)
(***************************************************************************)
EXTENDS RunnerValues, TLAPS

Keys == DOMAIN Blank

LEMMA KeysAre == Keys = {"url", "label", "min", "max", "opt"}
BY DEF Keys, Blank

LEMMA BlankType == Blank \in Model
BY ValuesAssumption DEF Blank, Model, Counts

LEMMA ValuesAreModels == Values \subseteq Model
BY DEF Values, Model

\* What a body becomes: complete but for the URL.
LEMMA BuiltType ==
    ASSUME NEW cfg \in Defaults, NEW body \in Model, NEW up \in BOOLEAN
    PROVE  /\ BuildValues(cfg, body, up) \in Model
           /\ BuildValues(cfg, body, up).label \in Strings
           /\ BuildValues(cfg, body, up).opt \in [Options -> Strings]
BY ValuesAssumption DEF Defaults, Model, BuildValues, Or

\* Merging keeps a URL that is there, or brings one.
LEMMA MergeType ==
    ASSUME NEW cfg \in Defaults, NEW body \in Model, NEW up \in BOOLEAN,
           NEW old \in Model, old.url # None \/ body.url # None
    PROVE  Merge(old, BuildValues(cfg, body, up)) \in Values
<1>1. BuildValues(cfg, body, up).url = body.url
    BY DEF BuildValues
<1> QED BY <1>1, BuiltType DEF Merge, Model, Values, Or

LEMMA ShownType ==
    ASSUME NEW v \in Values
    PROVE  /\ ReleaseToModel(v, "float64") = v
           /\ ReleaseToModel(v, "int") \in Model
<1>1. ReleaseToModel(v, "float64") = v
    BY DEF ReleaseToModel
<1>2. ReleaseToModel(v, "int") = [v EXCEPT !.min = 0, !.max = 0]
    BY DEF ReleaseToModel
<1>3. 0 \in Counts
    BY ValuesAssumption DEF Counts
<1>4. v \in Model
    BY ValuesAreModels
<1>5. [v EXCEPT !.min = 0, !.max = 0] \in Model
    BY <1>3, <1>4 DEF Model
<1> QED BY <1>1, <1>2, <1>5

LEMMA PayloadType ==
    ASSUME NEW f \in Model
    PROVE  BuildPayload(f) \in Model /\ BuildPayload(f).url = f.url
BY ValuesAssumption DEF BuildPayload, Model, Or

\* The edit form shows what it was filled from wherever the user has not
\* touched it.
Faithful ==
    form.mode = "edit" =>
        /\ form.read \in Values
        /\ \A k \in Keys \ form.touched : form.fields[k] = form.read[k]

Inv == TypeOK /\ Faithful

LEMMA InitInv == Init => Inv
<1> SUFFICES ASSUME Init PROVE Inv
    OBVIOUS
<1>1. TypeOK
    BY BlankType, ValuesAssumption DEF Init, TypeOK, NoRelease, Closed, NoAnswer
<1>2. Faithful
    BY DEF Init, Faithful, Closed
<1> QED BY <1>1, <1>2 DEF Inv

LEMMA DeployStores ==
    ASSUME NEW v, Deploy(v)
    PROVE  release'.values = v
BY DEF Deploy

\* What Deploy leaves when the values are complete.
LEMMA DeployType ==
    ASSUME NEW v \in Values, Deploy(v)
    PROVE  /\ release' \in [status : {"deployed", "failed"}, values : Values]
           /\ release'.values = v
           /\ answer' \in Model
BY ShownType, BlankType DEF Deploy, NoAnswer

\* A POST or a PUT with any body stores complete values.
LEMMA WriteType ==
    ASSUME Inv, NEW body \in Model, Post(body) \/ Put(body)
    PROVE  /\ release' \in [status : {"deployed", "failed"}, values : Values]
           /\ answer' \in Model
<1>1. defaults \in Defaults
    BY ValuesAssumption DEF Inv, TypeOK
<1>2. CASE Post(body) /\ release.status = "none"
    <2>1. BuildValues(defaults, body, FALSE) \in Values
        BY <1>1, <1>2, BuiltType DEF Post, Model, Values, BuildValues
    <2>2. Deploy(BuildValues(defaults, body, FALSE))
        BY <1>2 DEF Post
    <2> QED BY <2>1, <2>2, DeployType
<1>3. ASSUME release.status # "none"
      PROVE  release.values \in Values /\ release.values.url # None
    BY <1>3, ValuesAssumption DEF Inv, TypeOK, NoRelease, Values
<1>4. CASE Post(body) /\ release.status = "failed"
    <2>1. Merge(release.values, BuildValues(defaults, body, FALSE)) \in Values
        BY <1>1, <1>3, <1>4, MergeType, ValuesAreModels
    <2>2. Deploy(Merge(release.values, BuildValues(defaults, body, FALSE)))
        BY <1>4 DEF Post
    <2> QED BY <2>1, <2>2, DeployType
<1>5. CASE Put(body)
    <2>1. Merge(release.values, BuildValues(defaults, body, TRUE)) \in Values
        BY <1>1, <1>3, <1>5, MergeType, ValuesAreModels DEF Put
    <2>2. Deploy(Merge(release.values, BuildValues(defaults, body, TRUE)))
        BY <1>5 DEF Put
    <2> QED BY <2>1, <2>2, DeployType
<1> QED BY <1>2, <1>4, <1>5 DEF Post

FormType ==
    [mode : {"closed", "create", "edit"}, fields : Model,
     touched : SUBSET Keys, read : Values \union {Blank}]

LEMMA TypeOKParts ==
    TypeOK <=> /\ defaults \in Configs
               /\ release = NoRelease
                  \/ release \in [status : {"deployed", "failed"}, values : Values]
               /\ page \in Configs \union {Unloaded}
               /\ form \in FormType
               /\ answer \in Model
               /\ restarts \in Nat
BY DEF TypeOK, FormType, Keys

LEMMA ClearType ==
    ASSUME Inv
    PROVE  ClearForm \in Model
<1>1. 0 \in Counts
    BY ValuesAssumption DEF Counts
<1>2. CASE page \in Configs
    BY <1>2, ValuesAssumption DEF ClearForm, Model, Defaults
<1>3. CASE page = Unloaded
    BY <1>1, <1>3, ValuesAssumption DEF ClearForm, Model, Unloaded
<1> QED BY <1>2, <1>3 DEF Inv, TypeOK

\* A complete runner fills the whole form: nothing of the defaults is left.
LEMMA PopulateAll ==
    ASSUME NEW v \in Values
    PROVE  PopulateForm(v) = v
BY ValuesAssumption DEF PopulateForm, Values, Or

LEMMA NextInv == Inv /\ [Next]_vars => Inv'
<1> SUFFICES ASSUME Inv, [Next]_vars PROVE Inv'
    OBVIOUS
<1>0. TypeOK
    BY DEF Inv
<1>1. CASE UNCHANGED vars
    BY <1>1 DEF vars, Inv, TypeOK, Faithful
<1>2. CASE Client
    <2>1. PICK body \in Bodies : Post(body) \/ Put(body)
        BY <1>2 DEF Client
    <2>2. body \in Model /\ UNCHANGED <<defaults, page, form, restarts>>
        BY <1>2, ValuesAssumption DEF Client
    <2>3. TypeOK'
        BY <1>0, <2>1, <2>2, WriteType, TypeOKParts DEF TypeOK
    <2> QED BY <2>2, <2>3 DEF Inv, Faithful
<1>3. CASE Delete
    BY <1>3, BlankType DEF Delete, Inv, TypeOK, Faithful, NoAnswer
<1>4. CASE Restart
    BY <1>4, BlankType DEF Restart, Inv, TypeOK, Faithful, NoAnswer
<1>5. CASE Load
    <2>1. Closed \in FormType
        BY BlankType DEF Closed, FormType
    <2>2. form' = Closed /\ page' \in Configs \union {Unloaded} /\ answer' \in Model
          /\ UNCHANGED <<defaults, release, restarts>>
        BY <1>0, <1>5, BlankType DEF Load, TypeOK, NoAnswer
    <2>3. TypeOK'
        BY <1>0, <2>1, <2>2 DEF TypeOK, FormType, Keys
    <2>4. Faithful'
        BY <2>2 DEF Faithful, Closed
    <2> QED BY <2>3, <2>4 DEF Inv
<1>6. CASE OpenCreate
    <2>1. /\ form' = [mode |-> "create", fields |-> ClearForm, touched |-> {},
                      read |-> Blank]
          /\ answer' \in Model /\ UNCHANGED <<defaults, release, page, restarts>>
        BY <1>6, BlankType DEF OpenCreate, NoAnswer
    <2>2. TypeOK'
        BY <1>0, <2>1, ClearType DEF TypeOK
    <2>3. Faithful'
        BY <2>1 DEF Faithful
    <2> QED BY <2>2, <2>3 DEF Inv
<1>7. CASE OpenEdit
    <2>1. release.values \in Values
        BY <1>0, <1>7 DEF OpenEdit, TypeOK, NoRelease
    <2>2. PopulateForm(Shown) = release.values
        BY <2>1, ShownType, PopulateAll DEF Shown
    <2>3. /\ form' = [mode |-> "edit", fields |-> release.values, touched |-> {},
                      read |-> release.values]
          /\ answer' \in Model /\ UNCHANGED <<defaults, release, page, restarts>>
        BY <1>7, <2>2, BlankType DEF OpenEdit, NoAnswer
    <2>4. TypeOK'
        BY <1>0, <2>1, <2>3, ValuesAreModels DEF TypeOK
    <2>5. Faithful'
        BY <2>1, <2>3 DEF Faithful
    <2> QED BY <2>4, <2>5 DEF Inv
<1>8. CASE Type
    <2>1. PICK body \in Bodies, k \in Keys :
            form' = [form EXCEPT !.fields[k] = body[k], !.touched = @ \union {k}]
        BY <1>8 DEF Type, Keys
    <2>2. form \in FormType /\ body \in Model
        BY <1>0, <2>1, ValuesAssumption, TypeOKParts
    <2>3. k \in {"url", "label", "min", "max", "opt"}
        BY <2>1, KeysAre
    <2>4. [form.fields EXCEPT ![k] = body[k]] \in Model
        BY <2>2, <2>3 DEF FormType, Model
    <2>5. /\ form'.mode = form.mode /\ form'.read = form.read
          /\ form'.touched = form.touched \union {k}
          /\ form'.fields = [form.fields EXCEPT ![k] = body[k]]
          /\ form' \in FormType
        BY <2>1, <2>2, <2>4 DEF FormType
    <2>6. UNCHANGED <<defaults, release, page, restarts>> /\ answer' \in Model
        BY <1>8, BlankType DEF Type, NoAnswer
    <2>7. TypeOK'
        BY <1>0, <2>5, <2>6 DEF TypeOK, FormType, Keys
    <2>8. Faithful'
        BY <2>2, <2>5 DEF Inv, Faithful, FormType, Model
    <2> QED BY <2>7, <2>8 DEF Inv
<1>9. CASE Save
    <2>1. BuildPayload(form.fields) \in Model
        BY <1>0, TypeOKParts, PayloadType DEF FormType
    <2>2. Post(BuildPayload(form.fields)) \/ Put(BuildPayload(form.fields))
        BY <1>9 DEF Save
    <2>3. /\ release' \in [status : {"deployed", "failed"}, values : Values]
          /\ answer' \in Model
        BY <2>1, <2>2, WriteType
    <2>4. UNCHANGED <<defaults, page, restarts>> /\ (form' = Closed \/ form' = form)
        BY <1>9 DEF Save
    <2>5. Closed \in FormType
        BY BlankType DEF Closed, FormType
    <2>6. TypeOK'
        BY <1>0, <2>3, <2>4, <2>5 DEF TypeOK, FormType, Keys
    <2>7. Faithful'
        BY <2>4 DEF Inv, Faithful, Closed
    <2> QED BY <2>6, <2>7 DEF Inv
<1> QED BY <1>1, <1>2, <1>3, <1>4, <1>5, <1>6, <1>7, <1>8, <1>9 DEF Next

\* Every variable has its type; a release is never without a URL or an option.
THEOREM TypeCorrect == Spec => []TypeOK
BY InitInv, NextInv, PTL DEF Spec, Inv

\* openEdit, saveRunner, upgradeWithChart: an edit changes only what the user
\* has touched, unless the runner has changed since the form was filled.
THEOREM EditIsFaithful == Spec => UntouchedFieldsSurvive
<1> DEFINE Kept ==
        Save /\ form.mode = "edit" /\ release.values = form.read
        => \A k \in DOMAIN Blank \ form.touched :
             release'.values[k] = release.values[k]
<1>1. ASSUME Inv, Save, form.mode = "edit", release.values = form.read,
             NEW k \in Keys \ form.touched
      PROVE  release'.values[k] = release.values[k]
    <2> DEFINE old == release.values
               f == form.fields
               built == BuildValues(defaults, BuildPayload(f), TRUE)
    <2>1. old \in Values /\ f \in Model
        BY <1>1, TypeOKParts DEF Inv, Faithful, FormType
    <2>2. f[k] = old[k]
        BY <1>1 DEF Inv, Faithful
    <2>3. release'.values = Merge(old, built)
        BY <1>1, DeployStores DEF Save, Put
    <2>4. k \in {"url", "label", "min", "max", "opt"}
        BY <1>1, KeysAre
    <2>5. CASE k = "url"
        BY <2>1, <2>2, <2>3, <2>5
        DEF Merge, BuildValues, BuildPayload, Or, Values, Model
    <2>6. CASE k = "label"
        BY <2>1, <2>2, <2>3, <2>6, ValuesAssumption
        DEF Merge, BuildValues, BuildPayload, Or, Values, Model
    <2>7. CASE k \in {"min", "max"}
        BY <2>1, <2>2, <2>3, <2>7
        DEF Merge, BuildValues, BuildPayload, Or, Values, Model
    <2>8. CASE k = "opt"
        BY <2>1, <2>2, <2>3, <2>8, ValuesAssumption
        DEF Merge, BuildValues, BuildPayload, Or, Values, Model
    <2> QED BY <2>4, <2>5, <2>6, <2>7, <2>8
<1>2. Inv /\ [Next]_vars => [Kept]_vars
    BY <1>1 DEF Keys
<1> QED BY <1>2, InitInv, NextInv, PTL DEF Spec, UntouchedFieldsSurvive

\* Install over a failed release: nothing of the failed attempt is left.
THEOREM FreshCreate == Spec => CreateIsFresh
<1> DEFINE Fresh ==
        \A body \in Bodies \union {BuildPayload(form.fields)} :
            release.status = "failed" /\ Post(body)
            => release'.values = BuildValues(defaults, body, FALSE)
<1>1. ASSUME Inv, NEW body \in Model, release.status = "failed", Post(body)
      PROVE  release'.values = BuildValues(defaults, body, FALSE)
    <2>1. release'.values = Merge(release.values, BuildValues(defaults, body, FALSE))
        BY <1>1, DeployStores DEF Post
    <2>2. BuildValues(defaults, body, FALSE).url # None
        BY <1>1 DEF Post, BuildValues
    <2> QED BY <2>1, <2>2 DEF Merge, Or, BuildValues
<1>2. Inv => \A body \in Bodies \union {BuildPayload(form.fields)} : body \in Model
    BY ValuesAssumption, TypeOKParts, PayloadType DEF Inv, FormType
<1>3. Inv /\ [Next]_vars => [Fresh]_vars
    BY <1>1, <1>2
<1> QED BY <1>3, InitInv, NextInv, PTL DEF Spec, CreateIsFresh

=============================================================================
