-------------------------- MODULE WebClientProofs --------------------------
(***************************************************************************)
(* What holds of the page for any runners, any number of functions that    *)
(* wait at once and any number of failures.                                *)
(***************************************************************************)
EXTENDS WebClient, TLAPS

-----------------------------------------------------------------------------
(* What the steps do to the functions that wait. *)

Others(t) == \A o \in Tasks \ {t} : task'[o] = task[o]

Ops == {"none", "init", "login", "logout", "list", "upgrade", "edit",
        "create", "update", "delete", "detail"}
Ats == {"idle", "auth", "defaults", "work", "list"}

\* A function that is called waits as its call says, and it did not before.
LEMMA AwaitFacts ==
    ASSUME task \in [Tasks -> Task], NEW t \in Tasks,
           NEW op \in Ops, NEW at \in Ats, NEW n \in Runners \union {None},
           NEW v \in Runners \union {None, New}, Await(t, Call(op, at, n, v))
    PROVE  /\ task' \in [Tasks -> Task] /\ Others(t) /\ task[t] = Idle
           /\ task'[t].op = op /\ task'[t].at = at
           /\ task'[t].name = n /\ task'[t].values = v
<1>1. Call(op, at, n, v) \in Task
    BY DEF Call, Task, Ops, Ats
<1>2. task' = [task EXCEPT ![t] = Call(op, at, n, v)] /\ task[t] = Idle
    BY DEF Await
<1>3. task' \in [Tasks -> Task] /\ task'[t] = Call(op, at, n, v)
    BY <1>1, <1>2
<1>4. Others(t)
    BY <1>2 DEF Others
<1> QED
    BY <1>2, <1>3, <1>4 DEF Call

\* A function that goes on to its next await stays what it is.
LEMMA ProceedFacts ==
    ASSUME task \in [Tasks -> Task], NEW t \in Tasks, NEW at \in Ats, Proceed(t, at)
    PROVE  /\ task' \in [Tasks -> Task] /\ Others(t)
           /\ task'[t].op = task[t].op /\ task'[t].at = at
           /\ task'[t].name = task[t].name /\ task'[t].values = task[t].values
<1> DEFINE k == [task[t] EXCEPT !.at = at, !.got = "nothing", !.rows = {}]
<1>1. task[t] \in Task
    OBVIOUS
<1>2. k \in Task /\ k.op = task[t].op /\ k.at = at
      /\ k.name = task[t].name /\ k.values = task[t].values
    BY <1>1 DEF Task, Ats
<1>3. task' = [task EXCEPT ![t] = k]
    BY DEF Proceed
<1> QED
    BY <1>2, <1>3 DEF Others

\* An answer changes nothing of what waits for it.
LEMMA AnswerFacts ==
    ASSUME task \in [Tasks -> Task], NEW t \in Tasks,
           NEW got \in {"ok", "refused", "failed"}, NEW rows \in SUBSET Runners,
           Answer(t, got, rows)
    PROVE  /\ task' \in [Tasks -> Task] /\ Others(t)
           /\ task'[t].op = task[t].op /\ task'[t].at = task[t].at
           /\ task'[t].name = task[t].name /\ task'[t].values = task[t].values
<1> DEFINE k == [task[t] EXCEPT !.got = got, !.rows = rows]
<1>1. task[t] \in Task
    OBVIOUS
<1>2. k \in Task /\ k.op = task[t].op /\ k.at = task[t].at
      /\ k.name = task[t].name /\ k.values = task[t].values
    BY <1>1 DEF Task
<1>3. task' = [task EXCEPT ![t] = k]
    BY DEF Answer
<1> QED
    BY <1>2, <1>3 DEF Others

\* A function that ends is gone.
LEMMA EndFacts ==
    ASSUME task \in [Tasks -> Task], NEW t \in Tasks, End(t)
    PROVE  /\ task' \in [Tasks -> Task] /\ Others(t) /\ task'[t] = Idle
<1>1. Idle \in Task
    BY DEF Idle, Call, Task
<1> QED
    BY <1>1 DEF End, Others

LEMMA IdleFacts ==
    Idle.op = "none" /\ Idle.at = "idle"
BY DEF Idle, Call

\* What empty dialogs hold.
LEMMA BlankFacts ==
    EmptyForm \in Form /\ NoDetail \in Drawer
BY DEF EmptyForm, Form, NoDetail, Drawer

-----------------------------------------------------------------------------
(* What the user does keeps the invariant. *)

\* Refresh (loadRunners, from the user).
LEMMA RefreshKeeps ==
    ASSUME PageInv, NEW t \in Tasks, Refresh(t),
           UNCHANGED <<world, auth, table>>
    PROVE  PageInv'
<1>0. /\ TypeOK /\ Named /\ OverlayCovers /\ WaitsUndisturbed
      /\ OneDetail /\ Rendering /\ EditsStayApart /\ DialogMeansIt
      /\ DetailMatches /\ PageComesBack
    BY DEF PageInv
<1>1. /\ task' \in [Tasks -> Task] /\ Others(t) /\ task[t].op = "none"
      /\ task[t].at = "idle" /\ task'[t].op = "list" /\ task'[t].at = "list"
      /\ task'[t].name = None /\ task'[t].values = None
    <2>1. Await(t, Call("list", "list", None, None))
        BY DEF Refresh
    <2>2. /\ "list" \in Ops /\ "list" \in Ats /\ None \in Runners \union {None}
          /\ None \in Runners \union {None, New} /\ task \in [Tasks -> Task]
        BY <1>0 DEF TypeOK, Ops, Ats
    <2> HIDE DEF Ops, Ats
    <2> QED BY <2>1, <2>2, AwaitFacts, IdleFacts
<1>2. TypeOK'
    BY <1>0, <1>1 DEF TypeOK, Refresh, OnPage, Raise, Others, world, auth,
        dialogs, view
<1>3. Named'
    BY <1>0, <1>1 DEF Named, Refresh, Others
<1>4. OverlayCovers'
    BY <1>0, <1>1 DEF OverlayCovers, Shielded, Working, Refresh, OnPage,
        Raise, Others, dialogs, view
<1>5. WaitsUndisturbed'
    BY <1>0, <1>1 DEF WaitsUndisturbed, Refresh, OnPage, Raise, Others,
        dialogs, view
<1>6. OneDetail'
    BY <1>0, <1>1 DEF OneDetail, Refresh, Others, dialogs, view
<1>7. Rendering'
    BY <1>0, <1>1 DEF Rendering, Refresh, Others, auth, view
<1>8. EditsStayApart'
    BY <1>0, <1>1 DEF EditsStayApart, Refresh, OnPage, Raise, Others,
        dialogs, view
<1>9. DialogMeansIt'
    BY <1>0, <1>1 DEF DialogMeansIt, Refresh, OnPage, Raise, Others,
        dialogs, view
<1>10. DetailMatches'
    BY <1>0, <1>1 DEF DetailMatches, Refresh, Others, view
<1>11. PageComesBack'
    BY <1>0, <1>1 DEF PageComesBack, Shielded, Working, Refresh, OnPage,
        Raise, Others, view
<1> QED
    BY <1>2, <1>3, <1>4, <1>5, <1>6, <1>7, <1>8, <1>9, <1>10, <1>11 DEF PageInv

\* UpgradeAllCharts (upgradeAllCharts up to its fetch).
LEMMA UpgradeAllChartsKeeps ==
    ASSUME PageInv, NEW t \in Tasks, UpgradeAllCharts(t),
           UNCHANGED <<world, auth, table>>
    PROVE  PageInv'
<1>0. /\ TypeOK /\ Named /\ OverlayCovers /\ WaitsUndisturbed
      /\ OneDetail /\ Rendering /\ EditsStayApart /\ DialogMeansIt
      /\ DetailMatches /\ PageComesBack
    BY DEF PageInv
<1>1. /\ task' \in [Tasks -> Task] /\ Others(t) /\ task[t].op = "none"
      /\ task[t].at = "idle" /\ task'[t].op = "upgrade" /\ task'[t].at = "work"
      /\ task'[t].name = None /\ task'[t].values = None
    <2>1. Await(t, Call("upgrade", "work", None, None))
        BY DEF UpgradeAllCharts
    <2>2. /\ "upgrade" \in Ops /\ "work" \in Ats /\ None \in Runners \union {None}
          /\ None \in Runners \union {None, New} /\ task \in [Tasks -> Task]
        BY <1>0 DEF TypeOK, Ops, Ats
    <2> HIDE DEF Ops, Ats
    <2> QED BY <2>1, <2>2, AwaitFacts, IdleFacts
<1>2. TypeOK'
    BY <1>0, <1>1 DEF TypeOK, UpgradeAllCharts, OnPage, Raise, Others,
        world, auth, dialogs, view
<1>3. Named'
    BY <1>0, <1>1 DEF Named, UpgradeAllCharts, Others
<1>4. OverlayCovers'
    BY <1>0, <1>1 DEF OverlayCovers, Shielded, Working, UpgradeAllCharts,
        OnPage, Raise, Others, dialogs, view
<1>5. WaitsUndisturbed'
    BY <1>0, <1>1 DEF WaitsUndisturbed, UpgradeAllCharts, OnPage, Raise,
        Others, dialogs, view
<1>6. OneDetail'
    BY <1>0, <1>1 DEF OneDetail, UpgradeAllCharts, Others, dialogs, view
<1>7. Rendering'
    BY <1>0, <1>1 DEF Rendering, UpgradeAllCharts, Others, auth, view
<1>8. EditsStayApart'
    BY <1>0, <1>1 DEF EditsStayApart, UpgradeAllCharts, OnPage, Raise,
        Others, dialogs, view
<1>9. DialogMeansIt'
    BY <1>0, <1>1 DEF DialogMeansIt, UpgradeAllCharts, OnPage, Raise,
        Others, dialogs, view
<1>10. DetailMatches'
    BY <1>0, <1>1 DEF DetailMatches, UpgradeAllCharts, Others, view
<1>11. PageComesBack'
    BY <1>0, <1>1 DEF PageComesBack, Shielded, Working, UpgradeAllCharts,
        OnPage, Raise, Others, view
<1> QED
    BY <1>2, <1>3, <1>4, <1>5, <1>6, <1>7, <1>8, <1>9, <1>10, <1>11 DEF PageInv

\* OpenCreate (openCreate).
LEMMA OpenCreateKeeps ==
    ASSUME PageInv,  OpenCreate,
           UNCHANGED <<world, auth, table>>
    PROVE  PageInv'
<1>0. /\ TypeOK /\ Named /\ OverlayCovers /\ WaitsUndisturbed
      /\ OneDetail /\ Rendering /\ EditsStayApart /\ DialogMeansIt
      /\ DetailMatches /\ PageComesBack
    BY DEF PageInv
<1>1. task' = task
    BY DEF OpenCreate, world, auth, dialogs, view
<1>2. TypeOK'
    <2> QED
        BY <1>0, <1>1, BlankFacts DEF TypeOK, OpenCreate, OnPage, Show,
            world, auth, dialogs, view
<1>3. Named'
    BY <1>0, <1>1 DEF Named, OpenCreate, Others
<1>4. OverlayCovers'
    BY <1>0, <1>1 DEF OverlayCovers, Shielded, Working, OpenCreate, OnPage,
        Show, Others, dialogs, view
<1>5. WaitsUndisturbed'
    BY <1>0, <1>1 DEF WaitsUndisturbed, OverlayCovers, Shielded, Working,
        OpenCreate, OnPage, Show, EmptyForm, Others, dialogs, view
<1>6. OneDetail'
    BY <1>0, <1>1 DEF OneDetail, OpenCreate, Show, Others, dialogs, view
<1>7. Rendering'
    BY <1>0, <1>1 DEF Rendering, OpenCreate, Others, auth, view
<1>8. EditsStayApart'
    BY <1>0, <1>1 DEF EditsStayApart, OpenCreate, OnPage, Show, EmptyForm,
        Others, dialogs, view
<1>9. DialogMeansIt'
    BY <1>0, <1>1 DEF DialogMeansIt, OpenCreate, OnPage, Show, Others,
        dialogs, view
<1>10. DetailMatches'
    BY <1>0, <1>1 DEF DetailMatches, OpenCreate, Others, view
<1>11. PageComesBack'
    BY <1>0, <1>1 DEF PageComesBack, Shielded, Working, OpenCreate, OnPage,
        Others, view
<1> QED
    BY <1>2, <1>3, <1>4, <1>5, <1>6, <1>7, <1>8, <1>9, <1>10, <1>11 DEF PageInv

\* OpenEdit (openEdit up to its fetch).
LEMMA OpenEditKeeps ==
    ASSUME PageInv, NEW t \in Tasks, NEW n \in Runners, OpenEdit(t, n),
           UNCHANGED <<world, auth, table>>
    PROVE  PageInv'
<1>0. /\ TypeOK /\ Named /\ OverlayCovers /\ WaitsUndisturbed
      /\ OneDetail /\ Rendering /\ EditsStayApart /\ DialogMeansIt
      /\ DetailMatches /\ PageComesBack
    BY DEF PageInv
<1>1. /\ task' \in [Tasks -> Task] /\ Others(t) /\ task[t].op = "none"
      /\ task[t].at = "idle" /\ task'[t].op = "edit" /\ task'[t].at = "work"
      /\ task'[t].name = n /\ task'[t].values = None
    <2>1. Await(t, Call("edit", "work", n, None))
        BY DEF OpenEdit
    <2>2. /\ "edit" \in Ops /\ "work" \in Ats /\ n \in Runners \union {None}
          /\ None \in Runners \union {None, New} /\ task \in [Tasks -> Task]
        BY <1>0 DEF TypeOK, Ops, Ats
    <2> HIDE DEF Ops, Ats
    <2> QED BY <2>1, <2>2, AwaitFacts, IdleFacts
<1>2. TypeOK'
    <2>1. form' \in Form
        BY <1>0 DEF TypeOK, OpenEdit, Form
    <2> QED
        BY <1>0, <1>1, <2>1, BlankFacts DEF TypeOK, OpenEdit, Raise,
            world, auth, dialogs, view
<1>3. Named'
    BY <1>0, <1>1 DEF Named, OpenEdit, Others
<1>4. OverlayCovers'
    BY <1>0, <1>1 DEF OverlayCovers, Shielded, Working, OpenEdit, Offered,
        OnPage, InDialog, Raise, Others, dialogs, view
<1>5. WaitsUndisturbed'
    BY <1>0, <1>1 DEF WaitsUndisturbed, OverlayCovers, Shielded, Working,
        OpenEdit, Offered, OnPage, InDialog, Raise, Others, dialogs, view
<1>6. OneDetail'
    BY <1>0, <1>1 DEF OneDetail, OpenEdit, NoDetail, Others, dialogs, view
<1>7. Rendering'
    BY <1>0, <1>1 DEF Rendering, OpenEdit, Others, auth, view
<1>8. EditsStayApart'
    BY <1>0, <1>1 DEF EditsStayApart, OverlayCovers, Shielded, Working,
        OpenEdit, Offered, OnPage, InDialog, Raise, Others, dialogs, view
<1>9. DialogMeansIt'
    BY <1>0, <1>1 DEF DialogMeansIt, OpenEdit, Offered, OnPage, InDialog,
        Raise, Others, dialogs, view
<1>10. DetailMatches'
    BY <1>0, <1>1 DEF DetailMatches, OpenEdit, NoDetail, Others, view
<1>11. PageComesBack'
    BY <1>0, <1>1 DEF PageComesBack, Shielded, Working, OpenEdit, Offered,
        OnPage, InDialog, Raise, Others, view
<1> QED
    BY <1>2, <1>3, <1>4, <1>5, <1>6, <1>7, <1>8, <1>9, <1>10, <1>11 DEF PageInv

\* SaveRunner (saveRunner up to its fetch).
LEMMA SaveRunnerKeeps ==
    ASSUME PageInv, NEW t \in Tasks, SaveRunner(t),
           UNCHANGED <<world, auth, table>>
    PROVE  PageInv'
<1>0. /\ TypeOK /\ Named /\ OverlayCovers /\ WaitsUndisturbed
      /\ OneDetail /\ Rendering /\ EditsStayApart /\ DialogMeansIt
      /\ DetailMatches /\ PageComesBack
    BY DEF PageInv
<1>1. /\ task' \in [Tasks -> Task] /\ Others(t) /\ task[t].op = "none"
      /\ task[t].at = "idle" /\ task'[t].at = "work"
      /\ task'[t].name \in Runners
      /\ \/ /\ task'[t].op = "update" /\ editingName # None
            /\ task'[t].name = editingName /\ task'[t].values = form.values
         \/ task'[t].op = "create"
    <2>1. PICK n \in IF form.values = New THEN Runners ELSE {form.values} :
              Await(t, IF editingName # None
                       THEN Call("update", "work", editingName, form.values)
                       ELSE Call("create", "work", n, form.values))
        BY DEF SaveRunner
    <2>2. /\ "update" \in Ops /\ "create" \in Ops /\ "work" \in Ats
          /\ task \in [Tasks -> Task] /\ editingName \in Runners \union {None}
        BY <1>0 DEF TypeOK, Ops, Ats
    <2>3. form.values \in Runners \union {New} /\ n \in Runners
        <3>1. form.values \in Runners \union {New}
            BY <1>0 DEF TypeOK, Form
        <3> QED
            BY <2>1, <3>1
    <2> HIDE DEF Ops, Ats
    <2>4. CASE editingName # None
        <3>1. Await(t, Call("update", "work", editingName, form.values))
            BY <2>1, <2>4
        <3> QED BY <2>2, <2>3, <2>4, <3>1, AwaitFacts, IdleFacts
    <2>5. CASE editingName = None
        <3>1. Await(t, Call("create", "work", n, form.values))
            BY <2>1, <2>5
        <3> QED BY <2>2, <2>3, <3>1, AwaitFacts, IdleFacts
    <2> QED BY <2>4, <2>5
<1>2. TypeOK'
    BY <1>0, <1>1 DEF TypeOK, SaveRunner, InDialog, Raise, Others, world,
        auth, dialogs, view
<1>3. Named'
    BY <1>0, <1>1 DEF Named, SaveRunner, Others
<1>4. OverlayCovers'
    BY <1>0, <1>1 DEF OverlayCovers, Shielded, Working, SaveRunner,
        InDialog, Raise, Others, dialogs, view
<1>5. WaitsUndisturbed'
    BY <1>0, <1>1 DEF WaitsUndisturbed, SaveRunner, InDialog, Raise,
        Others, dialogs, view
<1>6. OneDetail'
    BY <1>0, <1>1 DEF OneDetail, SaveRunner, Others, dialogs, view
<1>7. Rendering'
    BY <1>0, <1>1 DEF Rendering, SaveRunner, Others, auth, view
<1>8. EditsStayApart'
    BY <1>0, <1>1 DEF EditsStayApart, SaveRunner, InDialog, Raise, Others,
        dialogs, view
<1>9. DialogMeansIt'
    BY <1>0, <1>1 DEF DialogMeansIt, SaveRunner, InDialog, Raise, Others,
        dialogs, view
<1>10. DetailMatches'
    BY <1>0, <1>1 DEF DetailMatches, SaveRunner, Others, view
<1>11. PageComesBack'
    BY <1>0, <1>1 DEF PageComesBack, Shielded, Working, SaveRunner,
        InDialog, Raise, Others, view
<1> QED
    BY <1>2, <1>3, <1>4, <1>5, <1>6, <1>7, <1>8, <1>9, <1>10, <1>11 DEF PageInv

\* ConfirmDelete (confirmDelete).
LEMMA ConfirmDeleteKeeps ==
    ASSUME PageInv, NEW n \in Runners, ConfirmDelete(n),
           UNCHANGED <<world, auth, table>>
    PROVE  PageInv'
<1>0. /\ TypeOK /\ Named /\ OverlayCovers /\ WaitsUndisturbed
      /\ OneDetail /\ Rendering /\ EditsStayApart /\ DialogMeansIt
      /\ DetailMatches /\ PageComesBack
    BY DEF PageInv
<1>1. task' = task
    BY DEF ConfirmDelete, world, auth, dialogs, view
<1>2. TypeOK'
    <2> QED
        BY <1>0, <1>1, BlankFacts DEF TypeOK, ConfirmDelete, ToConfirm,
            world, auth, dialogs, view
<1>3. Named'
    BY <1>0, <1>1 DEF Named, ConfirmDelete, Others
<1>4. OverlayCovers'
    BY <1>0, <1>1 DEF OverlayCovers, Shielded, Working, ConfirmDelete,
        Offered, OnPage, InDialog, Others, dialogs, view
<1>5. WaitsUndisturbed'
    BY <1>0, <1>1 DEF WaitsUndisturbed, OverlayCovers, Shielded, Working,
        ConfirmDelete, Offered, OnPage, InDialog, Others, dialogs, view
<1>6. OneDetail'
    BY <1>0, <1>1 DEF OneDetail, ConfirmDelete, NoDetail, Others, dialogs, view
<1>7. Rendering'
    BY <1>0, <1>1 DEF Rendering, ConfirmDelete, Others, auth, view
<1>8. EditsStayApart'
    BY <1>0, <1>1 DEF EditsStayApart, ConfirmDelete, Offered, OnPage,
        InDialog, Others, dialogs, view
<1>9. DialogMeansIt'
    BY <1>0, <1>1 DEF DialogMeansIt, ConfirmDelete, Offered, OnPage,
        InDialog, ToConfirm, Others, dialogs, view
<1>10. DetailMatches'
    BY <1>0, <1>1 DEF DetailMatches, ConfirmDelete, NoDetail, Others, view
<1>11. PageComesBack'
    BY <1>0, <1>1 DEF PageComesBack, Shielded, Working, ConfirmDelete,
        Offered, OnPage, InDialog, Others, view
<1> QED
    BY <1>2, <1>3, <1>4, <1>5, <1>6, <1>7, <1>8, <1>9, <1>10, <1>11 DEF PageInv

\* ExecuteDelete (executeDelete up to its fetch).
LEMMA ExecuteDeleteKeeps ==
    ASSUME PageInv, NEW t \in Tasks, ExecuteDelete(t),
           UNCHANGED <<world, auth, table>>
    PROVE  PageInv'
<1>0. /\ TypeOK /\ Named /\ OverlayCovers /\ WaitsUndisturbed
      /\ OneDetail /\ Rendering /\ EditsStayApart /\ DialogMeansIt
      /\ DetailMatches /\ PageComesBack
    BY DEF PageInv
<1>1. /\ task' \in [Tasks -> Task] /\ Others(t) /\ task[t].op = "none"
      /\ task[t].at = "idle" /\ task'[t].op = "delete" /\ task'[t].at = "work"
      /\ task'[t].name = pendingDelete /\ task'[t].values = None
    <2>1. Await(t, Call("delete", "work", pendingDelete, None))
        BY DEF ExecuteDelete
    <2>2. /\ "delete" \in Ops /\ "work" \in Ats /\ pendingDelete \in Runners \union {None}
          /\ None \in Runners \union {None, New} /\ task \in [Tasks -> Task]
        BY <1>0 DEF TypeOK, Ops, Ats
    <2> HIDE DEF Ops, Ats
    <2> QED BY <2>1, <2>2, AwaitFacts, IdleFacts
<1>2. TypeOK'
    BY <1>0, <1>1 DEF TypeOK, ExecuteDelete, InDialog, Raise, Close,
        EmptyForm, NoDetail, Others, world, auth, dialogs, view
<1>3. Named'
    BY <1>0, <1>1 DEF Named, TypeOK, ExecuteDelete, Others
<1>4. OverlayCovers'
    BY <1>0, <1>1 DEF OverlayCovers, Shielded, Working, ExecuteDelete,
        InDialog, Raise, Close, Others, dialogs, view
<1>5. WaitsUndisturbed'
    BY <1>0, <1>1 DEF WaitsUndisturbed, ExecuteDelete, InDialog, Raise,
        Close, EmptyForm, Others, dialogs, view
<1>6. OneDetail'
    BY <1>0, <1>1 DEF OneDetail, ExecuteDelete, Close, NoDetail, Others,
        dialogs, view
<1>7. Rendering'
    BY <1>0, <1>1 DEF Rendering, ExecuteDelete, Others, auth, view
<1>8. EditsStayApart'
    BY <1>0, <1>1 DEF EditsStayApart, ExecuteDelete, InDialog, Raise,
        Close, EmptyForm, Others, dialogs, view
<1>9. DialogMeansIt'
    BY <1>0, <1>1 DEF DialogMeansIt, ExecuteDelete, InDialog, Raise, Close,
        Others, dialogs, view
<1>10. DetailMatches'
    BY <1>0, <1>1 DEF DetailMatches, ExecuteDelete, Close, NoDetail,
        Others, view
<1>11. PageComesBack'
    BY <1>0, <1>1 DEF PageComesBack, Shielded, Working, ExecuteDelete,
        InDialog, Raise, Others, view
<1> QED
    BY <1>2, <1>3, <1>4, <1>5, <1>6, <1>7, <1>8, <1>9, <1>10, <1>11 DEF PageInv

\* OpenDetail (openDetail up to its fetch).
LEMMA OpenDetailKeeps ==
    ASSUME PageInv, NEW t \in Tasks, NEW n \in Runners, OpenDetail(t, n),
           UNCHANGED <<world, auth, table>>
    PROVE  PageInv'
<1>0. /\ TypeOK /\ Named /\ OverlayCovers /\ WaitsUndisturbed
      /\ OneDetail /\ Rendering /\ EditsStayApart /\ DialogMeansIt
      /\ DetailMatches /\ PageComesBack
    BY DEF PageInv
<1>1. /\ task' \in [Tasks -> Task] /\ Others(t) /\ task[t].op = "none"
      /\ task[t].at = "idle" /\ task'[t].op = "detail" /\ task'[t].at = "work"
      /\ task'[t].name = n /\ task'[t].values = None
    <2>1. Await(t, Call("detail", "work", n, None))
        BY DEF OpenDetail
    <2>2. /\ "detail" \in Ops /\ "work" \in Ats /\ n \in Runners \union {None}
          /\ None \in Runners \union {None, New} /\ task \in [Tasks -> Task]
        BY <1>0 DEF TypeOK, Ops, Ats
    <2> HIDE DEF Ops, Ats
    <2> QED BY <2>1, <2>2, AwaitFacts, IdleFacts
<1>2. TypeOK'
    <2>1. detail' \in Drawer
        BY DEF OpenDetail, Drawer, Heading
    <2> QED
        BY <1>0, <1>1, <2>1 DEF TypeOK, OpenDetail, Show, world, auth,
            dialogs, view
<1>3. Named'
    BY <1>0, <1>1 DEF Named, OpenDetail, Others
<1>4. OverlayCovers'
    BY <1>0, <1>1 DEF OverlayCovers, Shielded, Working, OpenDetail, OnPage,
        Show, Others, dialogs, view
<1>5. WaitsUndisturbed'
    BY <1>0, <1>1 DEF WaitsUndisturbed, OverlayCovers, Shielded, Working,
        OpenDetail, OnPage, Show, Others, dialogs, view
<1>6. OneDetail'
    BY <1>0, <1>1 DEF OneDetail, OpenDetail, Show, Heading, Others,
        dialogs, view
<1>7. Rendering'
    BY <1>0, <1>1 DEF Rendering, OpenDetail, Others, auth, view
<1>8. EditsStayApart'
    BY <1>0, <1>1 DEF EditsStayApart, OpenDetail, OnPage, Show, Others,
        dialogs, view
<1>9. DialogMeansIt'
    BY <1>0, <1>1 DEF DialogMeansIt, OpenDetail, OnPage, Show, Others,
        dialogs, view
<1>10. DetailMatches'
    BY <1>0, <1>1 DEF DetailMatches, OpenDetail, Heading, Others, view
<1>11. PageComesBack'
    BY <1>0, <1>1 DEF PageComesBack, Shielded, Working, OpenDetail, OnPage,
        Others, view
<1> QED
    BY <1>2, <1>3, <1>4, <1>5, <1>6, <1>7, <1>8, <1>9, <1>10, <1>11 DEF PageInv

\* OpenLogin (the sign-in button).
LEMMA OpenLoginKeeps ==
    ASSUME PageInv,  OpenLogin,
           UNCHANGED <<world, auth, table>>
    PROVE  PageInv'
<1>0. /\ TypeOK /\ Named /\ OverlayCovers /\ WaitsUndisturbed
      /\ OneDetail /\ Rendering /\ EditsStayApart /\ DialogMeansIt
      /\ DetailMatches /\ PageComesBack
    BY DEF PageInv
<1>1. task' = task
    BY DEF OpenLogin, world, auth, dialogs, view
<1>2. TypeOK'
    BY <1>0, <1>1 DEF TypeOK, OpenLogin, OnPage, Show, Others, world, auth,
        dialogs, view
<1>3. Named'
    BY <1>0, <1>1 DEF Named, OpenLogin, Others
<1>4. OverlayCovers'
    BY <1>0, <1>1 DEF OverlayCovers, Shielded, Working, OpenLogin, OnPage,
        Show, Others, dialogs, view
<1>5. WaitsUndisturbed'
    BY <1>0, <1>1 DEF WaitsUndisturbed, OverlayCovers, Shielded, Working,
        OpenLogin, OnPage, Show, Others, dialogs, view
<1>6. OneDetail'
    BY <1>0, <1>1 DEF OneDetail, OpenLogin, Show, Others, dialogs, view
<1>7. Rendering'
    BY <1>0, <1>1 DEF Rendering, OpenLogin, Others, auth, view
<1>8. EditsStayApart'
    BY <1>0, <1>1 DEF EditsStayApart, OpenLogin, OnPage, Show, Others,
        dialogs, view
<1>9. DialogMeansIt'
    BY <1>0, <1>1 DEF DialogMeansIt, OpenLogin, OnPage, Show, Others,
        dialogs, view
<1>10. DetailMatches'
    BY <1>0, <1>1 DEF DetailMatches, OpenLogin, Others, view
<1>11. PageComesBack'
    BY <1>0, <1>1 DEF PageComesBack, Shielded, Working, OpenLogin, OnPage,
        Others, view
<1> QED
    BY <1>2, <1>3, <1>4, <1>5, <1>6, <1>7, <1>8, <1>9, <1>10, <1>11 DEF PageInv

\* SubmitLogin (submitLogin up to its fetch).
LEMMA SubmitLoginKeeps ==
    ASSUME PageInv, NEW t \in Tasks, SubmitLogin(t),
           UNCHANGED <<world, auth, table>>
    PROVE  PageInv'
<1>0. /\ TypeOK /\ Named /\ OverlayCovers /\ WaitsUndisturbed
      /\ OneDetail /\ Rendering /\ EditsStayApart /\ DialogMeansIt
      /\ DetailMatches /\ PageComesBack
    BY DEF PageInv
<1>1. /\ task' \in [Tasks -> Task] /\ Others(t) /\ task[t].op = "none"
      /\ task[t].at = "idle" /\ task'[t].op = "login" /\ task'[t].at = "auth"
      /\ task'[t].name = None /\ task'[t].values = None
    <2>1. Await(t, Call("login", "auth", None, None))
        BY DEF SubmitLogin
    <2>2. /\ "login" \in Ops /\ "auth" \in Ats /\ None \in Runners \union {None}
          /\ None \in Runners \union {None, New} /\ task \in [Tasks -> Task]
        BY <1>0 DEF TypeOK, Ops, Ats
    <2> HIDE DEF Ops, Ats
    <2> QED BY <2>1, <2>2, AwaitFacts, IdleFacts
<1>2. TypeOK'
    BY <1>0, <1>1 DEF TypeOK, SubmitLogin, InDialog, Others, world, auth,
        dialogs, view
<1>3. Named'
    BY <1>0, <1>1 DEF Named, SubmitLogin, Others
<1>4. OverlayCovers'
    BY <1>0, <1>1 DEF OverlayCovers, Shielded, Working, SubmitLogin,
        InDialog, Others, dialogs, view
<1>5. WaitsUndisturbed'
    BY <1>0, <1>1 DEF WaitsUndisturbed, SubmitLogin, InDialog, Others,
        dialogs, view
<1>6. OneDetail'
    BY <1>0, <1>1 DEF OneDetail, SubmitLogin, Others, dialogs, view
<1>7. Rendering'
    BY <1>0, <1>1 DEF Rendering, SubmitLogin, Others, auth, view
<1>8. EditsStayApart'
    BY <1>0, <1>1 DEF EditsStayApart, SubmitLogin, InDialog, Others,
        dialogs, view
<1>9. DialogMeansIt'
    BY <1>0, <1>1 DEF DialogMeansIt, SubmitLogin, InDialog, Others,
        dialogs, view
<1>10. DetailMatches'
    BY <1>0, <1>1 DEF DetailMatches, SubmitLogin, Others, view
<1>11. PageComesBack'
    BY <1>0, <1>1 DEF PageComesBack, Shielded, Working, SubmitLogin,
        InDialog, Others, view
<1> QED
    BY <1>2, <1>3, <1>4, <1>5, <1>6, <1>7, <1>8, <1>9, <1>10, <1>11 DEF PageInv

\* Logout (logout up to its fetch).
LEMMA LogoutKeeps ==
    ASSUME PageInv, NEW t \in Tasks, Logout(t),
           UNCHANGED <<world, auth, table>>
    PROVE  PageInv'
<1>0. /\ TypeOK /\ Named /\ OverlayCovers /\ WaitsUndisturbed
      /\ OneDetail /\ Rendering /\ EditsStayApart /\ DialogMeansIt
      /\ DetailMatches /\ PageComesBack
    BY DEF PageInv
<1>1. /\ task' \in [Tasks -> Task] /\ Others(t) /\ task[t].op = "none"
      /\ task[t].at = "idle" /\ task'[t].op = "logout" /\ task'[t].at = "auth"
      /\ task'[t].name = None /\ task'[t].values = None
    <2>1. Await(t, Call("logout", "auth", None, None))
        BY DEF Logout
    <2>2. /\ "logout" \in Ops /\ "auth" \in Ats /\ None \in Runners \union {None}
          /\ None \in Runners \union {None, New} /\ task \in [Tasks -> Task]
        BY <1>0 DEF TypeOK, Ops, Ats
    <2> HIDE DEF Ops, Ats
    <2> QED BY <2>1, <2>2, AwaitFacts, IdleFacts
<1>2. TypeOK'
    BY <1>0, <1>1 DEF TypeOK, Logout, OnPage, Others, world, auth, dialogs, view
<1>3. Named'
    BY <1>0, <1>1 DEF Named, Logout, Others
<1>4. OverlayCovers'
    BY <1>0, <1>1 DEF OverlayCovers, Shielded, Working, Logout, OnPage,
        Others, dialogs, view
<1>5. WaitsUndisturbed'
    BY <1>0, <1>1 DEF WaitsUndisturbed, Logout, OnPage, Others, dialogs, view
<1>6. OneDetail'
    BY <1>0, <1>1 DEF OneDetail, Logout, Others, dialogs, view
<1>7. Rendering'
    BY <1>0, <1>1 DEF Rendering, Logout, Others, auth, view
<1>8. EditsStayApart'
    BY <1>0, <1>1 DEF EditsStayApart, Logout, OnPage, Others, dialogs, view
<1>9. DialogMeansIt'
    BY <1>0, <1>1 DEF DialogMeansIt, Logout, OnPage, Others, dialogs, view
<1>10. DetailMatches'
    BY <1>0, <1>1 DEF DetailMatches, Logout, Others, view
<1>11. PageComesBack'
    BY <1>0, <1>1 DEF PageComesBack, Shielded, Working, Logout, OnPage,
        Others, view
<1> QED
    BY <1>2, <1>3, <1>4, <1>5, <1>6, <1>7, <1>8, <1>9, <1>10, <1>11 DEF PageInv

\* Dismiss (a dialog is closed).
LEMMA DismissKeeps ==
    ASSUME PageInv,  Dismiss,
           UNCHANGED <<world, auth, table>>
    PROVE  PageInv'
<1>0. /\ TypeOK /\ Named /\ OverlayCovers /\ WaitsUndisturbed
      /\ OneDetail /\ Rendering /\ EditsStayApart /\ DialogMeansIt
      /\ DetailMatches /\ PageComesBack
    BY DEF PageInv
<1>1. task' = task
    BY DEF Dismiss, world, auth, dialogs, view
<1>2. TypeOK'
    <2>1. PICK d \in open : InDialog(d) /\ Close(d)
        BY DEF Dismiss
    <2> QED
        BY <1>0, <1>1, <2>1, BlankFacts DEF TypeOK, Dismiss, Close,
            world, auth, dialogs, view
<1>3. Named'
    BY <1>0, <1>1 DEF Named, Dismiss, Others
<1>4. OverlayCovers'
    BY <1>0, <1>1 DEF OverlayCovers, Shielded, Working, Dismiss, InDialog,
        Close, Others, dialogs, view
<1>5. WaitsUndisturbed'
    BY <1>0, <1>1 DEF WaitsUndisturbed, Dismiss, InDialog, Close,
        EmptyForm, Others, dialogs, view
<1>6. OneDetail'
    BY <1>0, <1>1 DEF OneDetail, Dismiss, Close, NoDetail, Others, dialogs, view
<1>7. Rendering'
    BY <1>0, <1>1 DEF Rendering, Dismiss, Others, auth, view
<1>8. EditsStayApart'
    BY <1>0, <1>1 DEF EditsStayApart, Dismiss, InDialog, Close, EmptyForm,
        Others, dialogs, view
<1>9. DialogMeansIt'
    BY <1>0, <1>1 DEF DialogMeansIt, Dismiss, InDialog, Close, Others,
        dialogs, view
<1>10. DetailMatches'
    BY <1>0, <1>1 DEF DetailMatches, Dismiss, Close, NoDetail, Others, view
<1>11. PageComesBack'
    BY <1>0, <1>1 DEF PageComesBack, Shielded, Working, Dismiss, InDialog,
        Others, view
<1> QED
    BY <1>2, <1>3, <1>4, <1>5, <1>6, <1>7, <1>8, <1>9, <1>10, <1>11 DEF PageInv

-----------------------------------------------------------------------------
(* What the servers do keeps the invariant. *)

\* Serve (an answer, or a failure).
LEMMA ServeKeeps ==
    ASSUME PageInv, NEW t \in Tasks, Serve(t)
    PROVE  PageInv'
<1>0. /\ TypeOK /\ Named /\ OverlayCovers /\ WaitsUndisturbed
      /\ OneDetail /\ Rendering /\ EditsStayApart /\ DialogMeansIt
      /\ DetailMatches /\ PageComesBack
    BY DEF PageInv
<1>1. /\ task' \in [Tasks -> Task]
      /\ Others(t) /\ task'[t].op = task[t].op /\ task'[t].at = task[t].at
      /\ task'[t].name = task[t].name /\ task'[t].values = task[t].values
    <2>1. /\ task \in [Tasks -> Task] /\ server \in SUBSET Runners
          /\ {} \in SUBSET Runners
        BY <1>0 DEF TypeOK
    <2>2. \E got \in {"ok", "refused", "failed"}, rows \in SUBSET Runners :
              Answer(t, got, rows)
        BY <2>1 DEF Serve
    <2> QED BY <2>1, <2>2, AnswerFacts
<1>2. TypeOK'
    <2>1. Effect(t) => server' \subseteq Runners /\ session' \in BOOLEAN
        BY <1>0 DEF TypeOK, Named, Effect
    <2>2. Unaffected => server' \subseteq Runners /\ session' \in BOOLEAN
        BY <1>0 DEF TypeOK, Unaffected
    <2>3. Fault => faults' \in Nat
        <3>1. faults \in Nat
            BY <1>0 DEF TypeOK
        <3> QED BY <3>1 DEF Fault
    <2>4. server' \subseteq Runners /\ session' \in BOOLEAN /\ faults' \in Nat
        BY <1>0, <2>1, <2>2, <2>3 DEF TypeOK, Serve
    <2> QED
        BY <1>0, <1>1, <2>4 DEF TypeOK, Serve, world, auth, dialogs, view
<1>3. Named'
    BY <1>0, <1>1 DEF Named, Serve, Others
<1>4. OverlayCovers'
    BY <1>0, <1>1 DEF OverlayCovers, Shielded, Working, Serve, Others,
        dialogs, view
<1>5. WaitsUndisturbed'
    BY <1>0, <1>1 DEF WaitsUndisturbed, Serve, Others, dialogs, view
<1>6. OneDetail'
    BY <1>0, <1>1 DEF OneDetail, Serve, Others, dialogs, view
<1>7. Rendering'
    BY <1>0, <1>1 DEF Rendering, Serve, Others, auth, view
<1>8. EditsStayApart'
    BY <1>0, <1>1 DEF EditsStayApart, Serve, Others, dialogs, view
<1>9. DialogMeansIt'
    BY <1>0, <1>1 DEF DialogMeansIt, Serve, Others, dialogs, view
<1>10. DetailMatches'
    BY <1>0, <1>1 DEF DetailMatches, Serve, Others, view
<1>11. PageComesBack'
    BY <1>0, <1>1 DEF PageComesBack, Shielded, Working, Serve, Others, view
<1> QED
    BY <1>2, <1>3, <1>4, <1>5, <1>6, <1>7, <1>8, <1>9, <1>10, <1>11 DEF PageInv

\* LoseSession (the frontend server is restarted).
LEMMA LoseSessionKeeps ==
    ASSUME PageInv,  LoseSession
    PROVE  PageInv'
<1>0. /\ TypeOK /\ Named /\ OverlayCovers /\ WaitsUndisturbed
      /\ OneDetail /\ Rendering /\ EditsStayApart /\ DialogMeansIt
      /\ DetailMatches /\ PageComesBack
    BY DEF PageInv
<1>1. task' = task
    BY DEF LoseSession, world, auth, dialogs, view
<1>2. TypeOK'
    <2>1. faults' \in Nat
        <3>1. faults \in Nat /\ faults' = faults + 1
            BY <1>0 DEF TypeOK, LoseSession, Fault
        <3> QED BY <3>1
    <2> QED
        BY <1>0, <1>1, <2>1 DEF TypeOK, LoseSession, Fault, world,
            auth, dialogs, view
<1>3. Named'
    BY <1>0, <1>1 DEF Named, LoseSession, Others
<1>4. OverlayCovers'
    BY <1>0, <1>1 DEF OverlayCovers, Shielded, Working, LoseSession,
        Others, dialogs, view
<1>5. WaitsUndisturbed'
    BY <1>0, <1>1 DEF WaitsUndisturbed, LoseSession, Others, dialogs, view
<1>6. OneDetail'
    BY <1>0, <1>1 DEF OneDetail, LoseSession, Others, dialogs, view
<1>7. Rendering'
    BY <1>0, <1>1 DEF Rendering, LoseSession, Others, auth, view
<1>8. EditsStayApart'
    BY <1>0, <1>1 DEF EditsStayApart, LoseSession, Others, dialogs, view
<1>9. DialogMeansIt'
    BY <1>0, <1>1 DEF DialogMeansIt, LoseSession, Others, dialogs, view
<1>10. DetailMatches'
    BY <1>0, <1>1 DEF DetailMatches, LoseSession, Others, view
<1>11. PageComesBack'
    BY <1>0, <1>1 DEF PageComesBack, Shielded, Working, LoseSession,
        Others, view
<1> QED
    BY <1>2, <1>3, <1>4, <1>5, <1>6, <1>7, <1>8, <1>9, <1>10, <1>11 DEF PageInv

-----------------------------------------------------------------------------
(* The functions that go on keep the invariant. *)

\* AuthChecked (checkAuthState after its fetch).
LEMMA AuthCheckedKeeps ==
    ASSUME PageInv, NEW t \in Tasks, AuthChecked(t),
           UNCHANGED world
    PROVE  PageInv'
<1>0. /\ TypeOK /\ Named /\ OverlayCovers /\ WaitsUndisturbed
      /\ OneDetail /\ Rendering /\ EditsStayApart /\ DialogMeansIt
      /\ DetailMatches /\ PageComesBack
    BY DEF PageInv
<1>1. /\ task' \in [Tasks -> Task]
      /\ Others(t) /\ task'[t].op = task[t].op /\ task'[t].at = "defaults"
      /\ task'[t].name = task[t].name /\ task'[t].values = task[t].values
    BY <1>0, ProceedFacts DEF TypeOK, AuthChecked, LoadRunners,
        LogoutReloads, Ats
<1>2. TypeOK'
    BY <1>0, <1>1 DEF TypeOK, AuthChecked, Answered, Ok, Others, world,
        auth, dialogs, view
<1>3. Named'
    BY <1>0, <1>1 DEF Named, AuthChecked, Answered, Others
<1>4. OverlayCovers'
    BY <1>0, <1>1 DEF OverlayCovers, Shielded, Working, AuthChecked,
        Answered, Ok, Others, dialogs, view
<1>5. WaitsUndisturbed'
    BY <1>0, <1>1 DEF WaitsUndisturbed, AuthChecked, Answered, Ok, Others,
        dialogs, view
<1>6. OneDetail'
    BY <1>0, <1>1 DEF OneDetail, AuthChecked, Answered, Ok, Others,
        dialogs, view
<1>7. Rendering'
    BY <1>0, <1>1 DEF Rendering, AuthChecked, Answered, Ok, Others, auth, view
<1>8. EditsStayApart'
    BY <1>0, <1>1 DEF EditsStayApart, AuthChecked, Answered, Ok, Others,
        dialogs, view
<1>9. DialogMeansIt'
    BY <1>0, <1>1 DEF DialogMeansIt, AuthChecked, Answered, Ok, Others,
        dialogs, view
<1>10. DetailMatches'
    BY <1>0, <1>1 DEF DetailMatches, AuthChecked, Answered, Others, view
<1>11. PageComesBack'
    BY <1>0, <1>1 DEF PageComesBack, Shielded, Working, AuthChecked,
        Answered, Ok, Others, view
<1> QED
    BY <1>2, <1>3, <1>4, <1>5, <1>6, <1>7, <1>8, <1>9, <1>10, <1>11 DEF PageInv

\* LoggedIn (submitLogin after its fetch).
LEMMA LoggedInKeeps ==
    ASSUME PageInv, NEW t \in Tasks, LoggedIn(t),
           UNCHANGED world
    PROVE  PageInv'
<1>0. /\ TypeOK /\ Named /\ OverlayCovers /\ WaitsUndisturbed
      /\ OneDetail /\ Rendering /\ EditsStayApart /\ DialogMeansIt
      /\ DetailMatches /\ PageComesBack
    BY DEF PageInv
<1>1. /\ task' \in [Tasks -> Task] /\ Others(t)
      /\ Ok(t) => /\ task'[t].op = task[t].op /\ task'[t].at = "defaults"
                  /\ task'[t].name = task[t].name /\ task'[t].values = task[t].values
      /\ ~Ok(t) => task'[t].op = "none" /\ task'[t].at = "idle"
    <2>1. CASE Ok(t)
        BY <1>0, <2>1, ProceedFacts DEF TypeOK, LoggedIn, LoadRunners,
            DeleteReloads, Ats
    <2>2. CASE ~Ok(t)
        BY <1>0, <2>2, EndFacts, IdleFacts DEF TypeOK, LoggedIn
    <2> QED BY <2>1, <2>2
<1>2. TypeOK'
    BY <1>0, <1>1 DEF TypeOK, LoggedIn, Answered, Ok, Close, EmptyForm,
        NoDetail, Others, world, auth, dialogs, view
<1>3. Named'
    BY <1>0, <1>1 DEF Named, LoggedIn, Answered, Others
<1>4. OverlayCovers'
    BY <1>0, <1>1 DEF OverlayCovers, Shielded, Working, LoggedIn, Answered,
        Ok, Close, Others, dialogs, view
<1>5. WaitsUndisturbed'
    BY <1>0, <1>1 DEF WaitsUndisturbed, LoggedIn, Answered, Ok, Close,
        EmptyForm, Others, dialogs, view
<1>6. OneDetail'
    BY <1>0, <1>1 DEF OneDetail, LoggedIn, Answered, Ok, Close, NoDetail,
        Others, dialogs, view
<1>7. Rendering'
    BY <1>0, <1>1 DEF Rendering, LoggedIn, Answered, Ok, Others, auth, view
<1>8. EditsStayApart'
    BY <1>0, <1>1 DEF EditsStayApart, LoggedIn, Answered, Ok, Close,
        EmptyForm, Others, dialogs, view
<1>9. DialogMeansIt'
    BY <1>0, <1>1 DEF DialogMeansIt, LoggedIn, Answered, Ok, Close, Others,
        dialogs, view
<1>10. DetailMatches'
    BY <1>0, <1>1 DEF DetailMatches, LoggedIn, Answered, Close, NoDetail,
        Others, view
<1>11. PageComesBack'
    BY <1>0, <1>1 DEF PageComesBack, Shielded, Working, LoggedIn, Answered,
        Ok, Others, view
<1> QED
    BY <1>2, <1>3, <1>4, <1>5, <1>6, <1>7, <1>8, <1>9, <1>10, <1>11 DEF PageInv

\* DefaultsLoaded (loadDefaults, renderUI).
LEMMA DefaultsLoadedKeeps ==
    ASSUME PageInv, NEW t \in Tasks, DefaultsLoaded(t),
           UNCHANGED world
    PROVE  PageInv'
<1>0. /\ TypeOK /\ Named /\ OverlayCovers /\ WaitsUndisturbed
      /\ OneDetail /\ Rendering /\ EditsStayApart /\ DialogMeansIt
      /\ DetailMatches /\ PageComesBack
    BY DEF PageInv
<1>1. /\ task' \in [Tasks -> Task]
      /\ Others(t) /\ task'[t].op = task[t].op /\ task'[t].at = "list"
      /\ task'[t].name = task[t].name /\ task'[t].values = task[t].values
    BY <1>0, ProceedFacts DEF TypeOK, DefaultsLoaded, LoadRunners,
        LogoutReloads, Ats
<1>2. TypeOK'
    BY <1>0, <1>1 DEF TypeOK, DefaultsLoaded, Answered, RenderUI,
        LoadRunners, Raise, Others, world, auth, dialogs, view
<1>3. Named'
    BY <1>0, <1>1 DEF Named, DefaultsLoaded, Answered, Others
<1>4. OverlayCovers'
    BY <1>0, <1>1 DEF OverlayCovers, Shielded, Working, DefaultsLoaded,
        Answered, LoadRunners, Raise, Others, dialogs, view
<1>5. WaitsUndisturbed'
    BY <1>0, <1>1 DEF WaitsUndisturbed, DefaultsLoaded, Answered,
        LoadRunners, Raise, Others, dialogs, view
<1>6. OneDetail'
    BY <1>0, <1>1 DEF OneDetail, DefaultsLoaded, Answered, Others, dialogs, view
<1>7. Rendering'
    BY <1>0, <1>1 DEF Rendering, DefaultsLoaded, Answered, RenderUI,
        Others, auth, view
<1>8. EditsStayApart'
    BY <1>0, <1>1 DEF EditsStayApart, DefaultsLoaded, Answered,
        LoadRunners, Raise, Others, dialogs, view
<1>9. DialogMeansIt'
    BY <1>0, <1>1 DEF DialogMeansIt, DefaultsLoaded, Answered, LoadRunners,
        Raise, Others, dialogs, view
<1>10. DetailMatches'
    BY <1>0, <1>1 DEF DetailMatches, DefaultsLoaded, Answered, Others, view
<1>11. PageComesBack'
    BY <1>0, <1>1 DEF PageComesBack, Shielded, Working, DefaultsLoaded,
        Answered, LoadRunners, Raise, Others, view
<1> QED
    BY <1>2, <1>3, <1>4, <1>5, <1>6, <1>7, <1>8, <1>9, <1>10, <1>11 DEF PageInv

\* LoggedOut (logout after its fetch).
LEMMA LoggedOutKeeps ==
    ASSUME PageInv, NEW t \in Tasks, LoggedOut(t),
           UNCHANGED world
    PROVE  PageInv'
<1>0. /\ TypeOK /\ Named /\ OverlayCovers /\ WaitsUndisturbed
      /\ OneDetail /\ Rendering /\ EditsStayApart /\ DialogMeansIt
      /\ DetailMatches /\ PageComesBack
    BY DEF PageInv
<1>1. /\ task' \in [Tasks -> Task]
      /\ Others(t) /\ task'[t].op = task[t].op /\ task'[t].at = "list"
      /\ task'[t].name = task[t].name /\ task'[t].values = task[t].values
    BY <1>0, ProceedFacts DEF TypeOK, LoggedOut, LoadRunners, LogoutReloads, Ats
<1>2. TypeOK'
    BY <1>0, <1>1 DEF TypeOK, LoggedOut, Answered, RenderUI, LogoutReloads,
        LoadRunners, Raise, Others, world, auth, dialogs, view
<1>3. Named'
    BY <1>0, <1>1 DEF Named, LoggedOut, Answered, Others
<1>4. OverlayCovers'
    BY <1>0, <1>1 DEF OverlayCovers, Shielded, Working, LoggedOut,
        Answered, LogoutReloads, LoadRunners, Raise, Others, dialogs, view
<1>5. WaitsUndisturbed'
    BY <1>0, <1>1 DEF WaitsUndisturbed, LoggedOut, Answered, LogoutReloads,
        LoadRunners, Raise, Others, dialogs, view
<1>6. OneDetail'
    BY <1>0, <1>1 DEF OneDetail, LoggedOut, Answered, Others, dialogs, view
<1>7. Rendering'
    BY <1>0, <1>1 DEF Rendering, LoggedOut, Answered, RenderUI, Others,
        auth, view
<1>8. EditsStayApart'
    BY <1>0, <1>1 DEF EditsStayApart, LoggedOut, Answered, LogoutReloads,
        LoadRunners, Raise, Others, dialogs, view
<1>9. DialogMeansIt'
    BY <1>0, <1>1 DEF DialogMeansIt, LoggedOut, Answered, LogoutReloads,
        LoadRunners, Raise, Others, dialogs, view
<1>10. DetailMatches'
    BY <1>0, <1>1 DEF DetailMatches, LoggedOut, Answered, Others, view
<1>11. PageComesBack'
    BY <1>0, <1>1 DEF PageComesBack, Shielded, Working, LoggedOut,
        Answered, LogoutReloads, LoadRunners, Raise, Others, view
<1> QED
    BY <1>2, <1>3, <1>4, <1>5, <1>6, <1>7, <1>8, <1>9, <1>10, <1>11 DEF PageInv

\* Listed (loadRunners after its fetch).
LEMMA ListedKeeps ==
    ASSUME PageInv, NEW t \in Tasks, Listed(t),
           UNCHANGED world
    PROVE  PageInv'
<1>0. /\ TypeOK /\ Named /\ OverlayCovers /\ WaitsUndisturbed
      /\ OneDetail /\ Rendering /\ EditsStayApart /\ DialogMeansIt
      /\ DetailMatches /\ PageComesBack
    BY DEF PageInv
<1>1. /\ task' \in [Tasks -> Task] /\ Others(t)
      /\ task'[t].op = "none" /\ task'[t].at = "idle"
    BY <1>0, EndFacts, IdleFacts DEF TypeOK, Listed
<1>2. TypeOK'
    <2>1. table' \in Table
        <3>1. task[t] \in Task /\ authenticated \in BOOLEAN
            BY <1>0 DEF TypeOK
        <3>2. task[t].rows \in SUBSET Runners
            BY <3>1 DEF Task
        <3> QED
            BY <3>1, <3>2 DEF Listed, Table
    <2> QED
        BY <1>0, <1>1, <2>1 DEF TypeOK, Listed, Lower, world, auth,
            dialogs, view
<1>3. Named'
    BY <1>0, <1>1 DEF Named, Listed, Answered, Others
<1>4. OverlayCovers'
    BY <1>0, <1>1 DEF OverlayCovers, Shielded, Working, Listed, Answered,
        Lower, Others, dialogs, view
<1>5. WaitsUndisturbed'
    BY <1>0, <1>1 DEF WaitsUndisturbed, Listed, Answered, Lower, Others,
        dialogs, view
<1>6. OneDetail'
    BY <1>0, <1>1 DEF OneDetail, Listed, Answered, Others, dialogs, view
<1>7. Rendering'
    BY <1>0, <1>1 DEF Rendering, Listed, Answered, Others, auth, view
<1>8. EditsStayApart'
    BY <1>0, <1>1 DEF EditsStayApart, Listed, Answered, Lower, Others,
        dialogs, view
<1>9. DialogMeansIt'
    BY <1>0, <1>1 DEF DialogMeansIt, WaitsUndisturbed, Listed, Answered,
        Lower, Others, dialogs, view
<1>10. DetailMatches'
    BY <1>0, <1>1 DEF DetailMatches, Listed, Answered, Others, view
<1>11. PageComesBack'
    BY <1>0, <1>1 DEF PageComesBack, Shielded, Working, Listed, Answered,
        Lower, Others, view
<1> QED
    BY <1>2, <1>3, <1>4, <1>5, <1>6, <1>7, <1>8, <1>9, <1>10, <1>11 DEF PageInv

\* EditLoaded (openEdit after its fetch: what was set before it still stands).
LEMMA EditLoadedKeeps ==
    ASSUME PageInv, NEW t \in Tasks, EditLoaded(t),
           UNCHANGED world
    PROVE  PageInv'
<1>0. /\ TypeOK /\ Named /\ OverlayCovers /\ WaitsUndisturbed
      /\ OneDetail /\ Rendering /\ EditsStayApart /\ DialogMeansIt
      /\ DetailMatches /\ PageComesBack
    BY DEF PageInv
<1>1. /\ task' \in [Tasks -> Task] /\ Others(t)
      /\ task'[t].op = "none" /\ task'[t].at = "idle"
    BY <1>0, EndFacts, IdleFacts DEF TypeOK, EditLoaded
<1>1a. /\ task[t].op = "edit" /\ task[t].name \in Runners
       /\ editingName' = editingName /\ pendingDelete' = pendingDelete
       /\ deleteName' = deleteName /\ (covered' => covered)
       /\ covered' => \A o \in Tasks \ {t} : ~Shielded(o)
    BY <1>0 DEF TypeOK, Named, EditLoaded, Answered, Lower, dialogs
<1>1b. covered => open = {} /\ editingName = task[t].name
                            /\ form.title = task[t].name
    BY <1>0, <1>1a DEF WaitsUndisturbed
<1>1c. \/ /\ open' = open \union {"runner"} /\ form'.title = form.title
         /\ form'.values = task[t].name
      \/ open' = open
    <2>1. form \in [title : Runners \union {New}, values : Runners \union {New}]
        BY <1>0 DEF TypeOK, Form
    <2> QED
        BY <2>1 DEF EditLoaded, ShownWhenLoaded, LoadedValues, Show
<1>1d. task[t].name # None
    BY <1>1a, PageAssumption
<1>2. TypeOK'
    <2>1. form' \in Form
        <3>1. form \in Form /\ task[t].name \in Runners
            BY <1>0 DEF TypeOK, Named, EditLoaded, Answered
        <3>2. CASE Ok(t)
            BY <3>1, <3>2 DEF EditLoaded, ShownWhenLoaded, LoadedValues, Form
        <3>3. CASE ~Ok(t)
            BY <3>1, <3>3, BlankFacts DEF EditLoaded, ShownWhenLoaded
        <3> QED BY <3>2, <3>3
    <2> QED
        BY <1>0, <1>1, <2>1 DEF TypeOK, EditLoaded, ShownWhenLoaded,
            Show, Lower,
            world, auth, dialogs, view
<1>3. Named'
    BY <1>0, <1>1 DEF Named, EditLoaded, Answered, Others
<1>4. OverlayCovers'
    BY <1>0, <1>1, <1>1a, <1>1b, <1>1c, <1>1d DEF OverlayCovers, Shielded,
        Working, Others
<1>5. WaitsUndisturbed'
    BY <1>0, <1>1, <1>1a, <1>1b, <1>1c, <1>1d DEF WaitsUndisturbed,
        Shielded, Working, Others
<1>6. OneDetail'
    BY <1>0, <1>1 DEF OneDetail, EditLoaded, Answered, Ok, Show,
        ShownWhenLoaded, Others, dialogs, view
<1>7. Rendering'
    BY <1>0, <1>1 DEF Rendering, EditLoaded, Answered, Ok, Others, auth, view
<1>8. EditsStayApart'
    BY <1>0, <1>1, <1>1a, <1>1b, <1>1c, <1>1d DEF EditsStayApart, Others
<1>9. DialogMeansIt'
    BY <1>0, <1>1, <1>1a, <1>1b, <1>1c, <1>1d DEF DialogMeansIt,
        EditLoaded, Lower, Shielded
<1>10. DetailMatches'
    BY <1>0, <1>1 DEF DetailMatches, EditLoaded, Answered, Others, view
<1>11. PageComesBack'
    BY <1>0, <1>1 DEF PageComesBack, Shielded, Working, EditLoaded,
        Answered, Ok, Lower, Others, view
<1> QED
    BY <1>2, <1>3, <1>4, <1>5, <1>6, <1>7, <1>8, <1>9, <1>10, <1>11 DEF PageInv

\* Saved (saveRunner after its fetch).
LEMMA SavedKeeps ==
    ASSUME PageInv, NEW t \in Tasks, Saved(t),
           UNCHANGED world
    PROVE  PageInv'
<1>0. /\ TypeOK /\ Named /\ OverlayCovers /\ WaitsUndisturbed
      /\ OneDetail /\ Rendering /\ EditsStayApart /\ DialogMeansIt
      /\ DetailMatches /\ PageComesBack
    BY DEF PageInv
<1>1. /\ task' \in [Tasks -> Task] /\ Others(t)
      /\ Ok(t) => /\ task'[t].op = task[t].op /\ task'[t].at = "list"
                  /\ task'[t].name = task[t].name /\ task'[t].values = task[t].values
      /\ ~Ok(t) => task'[t].op = "none" /\ task'[t].at = "idle"
    <2>1. CASE Ok(t)
        BY <1>0, <2>1, ProceedFacts DEF TypeOK, Saved, LoadRunners,
            DeleteReloads, Ats
    <2>2. CASE ~Ok(t)
        BY <1>0, <2>2, EndFacts, IdleFacts DEF TypeOK, Saved
    <2> QED BY <2>1, <2>2
<1>2. TypeOK'
    <2> QED
        BY <1>0, <1>1, BlankFacts DEF TypeOK, Saved, Close,
            LoadRunners, Raise, Finally, Lower, world, auth, dialogs,
            view
<1>3. Named'
    BY <1>0, <1>1 DEF Named, Saved, Answered, Others
<1>4. OverlayCovers'
    <2>1. SUFFICES ASSUME covered'
                   PROVE  /\ \A o \in Tasks : Shielded(o)' => spinner'
                          /\ \A o, p \in Tasks :
                                task'[o].op \in Working /\ task'[p].op \in Working
                                => o = p
                          /\ \A d, e \in open' : d = e
        BY DEF OverlayCovers, Working
    <2>2. covered /\ open' \subseteq open
        BY <2>1 DEF Saved, Close, LoadRunners, Raise, Finally, Lower
    <2>3. \A o \in Tasks : task'[o].op \in {task[o].op, "none"}
        BY <1>1 DEF Others
    <2>4. \A o \in Tasks : Shielded(o)' => spinner'
        <3>1. CASE Ok(t)
            BY <3>1 DEF Saved, LoadRunners, Raise
        <3>2. CASE ~Ok(t)
            BY <1>1, <2>1, <3>2 DEF Saved, Finally, Lower,
                Shielded, Working, Others
        <3> QED BY <3>1, <3>2
    <2> QED
        BY <1>0, <2>2, <2>3, <2>4 DEF OverlayCovers, Working
<1>5. WaitsUndisturbed'
    BY <1>0, <1>1 DEF WaitsUndisturbed, OverlayCovers, Shielded, Working,
        Saved, Answered, Ok, Close, EmptyForm, LoadRunners, Raise, Finally,
        Lower, Others, dialogs, view
<1>6. OneDetail'
    BY <1>0, <1>1 DEF OneDetail, Saved, Answered, Ok, Close, NoDetail,
        Others, dialogs, view
<1>7. Rendering'
    BY <1>0, <1>1 DEF Rendering, Saved, Answered, Ok, Others, auth, view
<1>8. EditsStayApart'
    BY <1>0, <1>1 DEF EditsStayApart, Saved, Answered, Ok, Close,
        EmptyForm, LoadRunners, Raise, Finally, Lower, Others, dialogs,
        view
<1>9. DialogMeansIt'
    BY <1>0, <1>1 DEF DialogMeansIt, Saved, Answered, Ok, Close,
        LoadRunners, Raise, Finally, Lower, Others, dialogs, view
<1>10. DetailMatches'
    BY <1>0, <1>1 DEF DetailMatches, Saved, Answered, Close, NoDetail,
        Others, view
<1>11. PageComesBack'
    BY <1>0, <1>1 DEF PageComesBack, Shielded, Working, Saved, Answered,
        Ok, LoadRunners, Raise, Finally, Lower, Others, view
<1> QED
    BY <1>2, <1>3, <1>4, <1>5, <1>6, <1>7, <1>8, <1>9, <1>10, <1>11 DEF PageInv

\* Upgraded (upgradeAllCharts after its fetch).
LEMMA UpgradedKeeps ==
    ASSUME PageInv, NEW t \in Tasks, Upgraded(t),
           UNCHANGED world
    PROVE  PageInv'
<1>0. /\ TypeOK /\ Named /\ OverlayCovers /\ WaitsUndisturbed
      /\ OneDetail /\ Rendering /\ EditsStayApart /\ DialogMeansIt
      /\ DetailMatches /\ PageComesBack
    BY DEF PageInv
<1>1. /\ task' \in [Tasks -> Task] /\ Others(t)
      /\ Ok(t) => /\ task'[t].op = task[t].op /\ task'[t].at = "list"
                  /\ task'[t].name = task[t].name /\ task'[t].values = task[t].values
      /\ ~Ok(t) => task'[t].op = "none" /\ task'[t].at = "idle"
    <2>1. CASE Ok(t)
        BY <1>0, <2>1, ProceedFacts DEF TypeOK, Upgraded, LoadRunners,
            DeleteReloads, Ats
    <2>2. CASE ~Ok(t)
        BY <1>0, <2>2, EndFacts, IdleFacts DEF TypeOK, Upgraded
    <2> QED BY <2>1, <2>2
<1>2. TypeOK'
    BY <1>0, <1>1 DEF TypeOK, Upgraded, Answered, Ok, LoadRunners, Raise,
        Finally, Lower, Others, world, auth, dialogs, view
<1>3. Named'
    BY <1>0, <1>1 DEF Named, Upgraded, Answered, Others
<1>4. OverlayCovers'
    <2>1. CASE Ok(t)
        BY <1>0, <1>1, <2>1 DEF OverlayCovers, Shielded, Working, Upgraded,
            Answered, LoadRunners, Raise, Finally, Lower, Others, dialogs, view
    <2>2. CASE ~Ok(t)
        BY <1>0, <1>1, <2>2 DEF OverlayCovers, Shielded, Working, Upgraded,
            Answered, Finally, Lower, Others, dialogs, view
    <2> QED BY <2>1, <2>2
<1>5. WaitsUndisturbed'
    BY <1>0, <1>1 DEF WaitsUndisturbed, Upgraded, Answered, Ok,
        LoadRunners, Raise, Finally, Lower, Others, dialogs, view
<1>6. OneDetail'
    BY <1>0, <1>1 DEF OneDetail, Upgraded, Answered, Ok, Others, dialogs, view
<1>7. Rendering'
    BY <1>0, <1>1 DEF Rendering, Upgraded, Answered, Ok, Others, auth, view
<1>8. EditsStayApart'
    BY <1>0, <1>1 DEF EditsStayApart, Upgraded, Answered, Ok, LoadRunners,
        Raise, Finally, Lower, Others, dialogs, view
<1>9. DialogMeansIt'
    BY <1>0, <1>1 DEF DialogMeansIt, Upgraded, Answered, Ok, LoadRunners,
        Raise, Finally, Lower, Others, dialogs, view
<1>10. DetailMatches'
    BY <1>0, <1>1 DEF DetailMatches, Upgraded, Answered, Others, view
<1>11. PageComesBack'
    BY <1>0, <1>1 DEF PageComesBack, Shielded, Working, Upgraded, Answered,
        Ok, LoadRunners, Raise, Finally, Lower, Others, view
<1> QED
    BY <1>2, <1>3, <1>4, <1>5, <1>6, <1>7, <1>8, <1>9, <1>10, <1>11 DEF PageInv

\* Removed (executeDelete after its fetch).
LEMMA RemovedKeeps ==
    ASSUME PageInv, NEW t \in Tasks, Removed(t),
           UNCHANGED world
    PROVE  PageInv'
<1>0. /\ TypeOK /\ Named /\ OverlayCovers /\ WaitsUndisturbed
      /\ OneDetail /\ Rendering /\ EditsStayApart /\ DialogMeansIt
      /\ DetailMatches /\ PageComesBack
    BY DEF PageInv
<1>1. /\ task' \in [Tasks -> Task] /\ Others(t)
      /\ Ok(t) => /\ task'[t].op = task[t].op /\ task'[t].at = "list"
                  /\ task'[t].name = task[t].name /\ task'[t].values = task[t].values
      /\ ~Ok(t) => task'[t].op = "none" /\ task'[t].at = "idle"
    <2>1. CASE Ok(t)
        BY <1>0, <2>1, ProceedFacts DEF TypeOK, Removed, LoadRunners,
            DeleteReloads, Ats
    <2>2. CASE ~Ok(t)
        BY <1>0, <2>2, EndFacts, IdleFacts DEF TypeOK, Removed
    <2> QED BY <2>1, <2>2
<1>2. TypeOK'
    BY <1>0, <1>1 DEF TypeOK, Removed, Answered, Ok, DeleteReloads,
        LoadRunners, Raise, Finally, Lower, Others, world, auth, dialogs,
        view
<1>3. Named'
    BY <1>0, <1>1 DEF Named, Removed, Answered, Others
<1>4. OverlayCovers'
    BY <1>0, <1>1 DEF OverlayCovers, Shielded, Working, Removed, Answered,
        Ok, DeleteReloads, LoadRunners, Raise, Finally, Lower, Others,
        dialogs, view
<1>5. WaitsUndisturbed'
    BY <1>0, <1>1 DEF WaitsUndisturbed, Removed, Answered, Ok,
        DeleteReloads, LoadRunners, Raise, Finally, Lower, Others, dialogs,
        view
<1>6. OneDetail'
    BY <1>0, <1>1 DEF OneDetail, Removed, Answered, Ok, Others, dialogs, view
<1>7. Rendering'
    BY <1>0, <1>1 DEF Rendering, Removed, Answered, Ok, Others, auth, view
<1>8. EditsStayApart'
    BY <1>0, <1>1 DEF EditsStayApart, Removed, Answered, Ok, DeleteReloads,
        LoadRunners, Raise, Finally, Lower, Others, dialogs, view
<1>9. DialogMeansIt'
    BY <1>0, <1>1 DEF DialogMeansIt, WaitsUndisturbed, Removed, Answered,
        Ok, DeleteReloads, LoadRunners, Raise, Finally, Lower, Others,
        dialogs, view
<1>10. DetailMatches'
    BY <1>0, <1>1 DEF DetailMatches, Removed, Answered, Others, view
<1>11. PageComesBack'
    BY <1>0, <1>1 DEF PageComesBack, Shielded, Working, Removed, Answered,
        Ok, DeleteReloads, LoadRunners, Raise, Finally, Lower, Others, view
<1> QED
    BY <1>2, <1>3, <1>4, <1>5, <1>6, <1>7, <1>8, <1>9, <1>10, <1>11 DEF PageInv

\* DetailLoaded (openDetail after its fetch: the heading is still its own).
LEMMA DetailLoadedKeeps ==
    ASSUME PageInv, NEW t \in Tasks, DetailLoaded(t),
           UNCHANGED world
    PROVE  PageInv'
<1>0. /\ TypeOK /\ Named /\ OverlayCovers /\ WaitsUndisturbed
      /\ OneDetail /\ Rendering /\ EditsStayApart /\ DialogMeansIt
      /\ DetailMatches /\ PageComesBack
    BY DEF PageInv
<1>1. /\ task' \in [Tasks -> Task] /\ Others(t)
      /\ task'[t].op = "none" /\ task'[t].at = "idle"
    BY <1>0, EndFacts, IdleFacts DEF TypeOK, DetailLoaded
<1>2. TypeOK'
    <2>1. detail' \in Drawer
        <3>1. /\ detail \in Drawer /\ task[t].name \in Runners
              /\ authenticated \in BOOLEAN
            BY <1>0 DEF TypeOK, Named, DetailLoaded, Answered
        <3> QED
            BY <3>1 DEF DetailLoaded, Drawer
    <2> QED
        BY <1>0, <1>1, <2>1 DEF TypeOK, DetailLoaded, Answered, world,
            auth, dialogs, view
<1>3. Named'
    BY <1>0, <1>1 DEF Named, DetailLoaded, Answered, Others
<1>4. OverlayCovers'
    BY <1>0, <1>1 DEF OverlayCovers, Shielded, Working, DetailLoaded,
        Answered, Ok, Others, dialogs, view
<1>5. WaitsUndisturbed'
    BY <1>0, <1>1 DEF WaitsUndisturbed, DetailLoaded, Answered, Ok, Others,
        dialogs, view
<1>6. OneDetail'
    BY <1>0, <1>1 DEF OneDetail, DetailLoaded, Answered, Ok, Others,
        dialogs, view
<1>7. Rendering'
    BY <1>0, <1>1 DEF Rendering, DetailLoaded, Answered, Ok, Others, auth, view
<1>8. EditsStayApart'
    BY <1>0, <1>1 DEF EditsStayApart, DetailLoaded, Answered, Ok, Others,
        dialogs, view
<1>9. DialogMeansIt'
    BY <1>0, <1>1 DEF DialogMeansIt, DetailLoaded, Answered, Ok, Others,
        dialogs, view
<1>10. DetailMatches'
    <2>1. detail \in Drawer /\ task[t].op = "detail"
        BY <1>0 DEF TypeOK, DetailLoaded, Answered
    <2>2. CASE "detail" \notin open
        BY <1>0, <2>2 DEF DetailMatches, DetailLoaded
    <2>3. CASE "detail" \in open
        <3>1. /\ detail'.mixed = detail.mixed /\ detail'.title = detail.title
              /\ detail'.body \in {task[t].name, "error"}
            BY <2>1, <2>3 DEF DetailLoaded, Drawer
        <3>2. ~detail.mixed => detail.title = task[t].name
            BY <1>0, <2>1, <2>3 DEF OneDetail
        <3> QED BY <3>1, <3>2 DEF DetailMatches
    <2> QED BY <2>2, <2>3
<1>11. PageComesBack'
    BY <1>0, <1>1 DEF PageComesBack, Shielded, Working, DetailLoaded,
        Answered, Ok, Others, view
<1> QED
    BY <1>2, <1>3, <1>4, <1>5, <1>6, <1>7, <1>8, <1>9, <1>10, <1>11 DEF PageInv

-----------------------------------------------------------------------------
(* The invariant of the page. *)

\* It holds of a page that has just been loaded.
LEMMA InitKeeps ==
    ASSUME Init
    PROVE  PageInv
<1>1. PICK i \in Tasks :
          task = [t \in Tasks |-> IF t = i THEN Call("init", "auth", None, None)
                                  ELSE Idle]
    BY DEF Init
<1>2. Call("init", "auth", None, None) \in Task /\ Idle \in Task
    BY DEF Call, Idle, Task
<1>3. \A t \in Tasks : task[t].op \in {"init", "none"} /\ task[t].at \in {"auth", "idle"}
    BY <1>1 DEF Call, Idle
<1>4. /\ table = [rows |-> {}, actions |-> FALSE] /\ table \in Table
      /\ EmptyForm \in Form /\ NoDetail \in Drawer
    BY BlankFacts DEF Init, Table
<1>5. TypeOK
    BY <1>1, <1>2, <1>4 DEF Init, TypeOK
<1>6. Named /\ WaitsUndisturbed /\ EditsStayApart
    BY <1>3 DEF Init, Named, WaitsUndisturbed, EditsStayApart
<1>7. OverlayCovers /\ PageComesBack
    BY <1>3 DEF Init, OverlayCovers, PageComesBack, Shielded, Working
<1>8. OneDetail /\ DetailMatches /\ DialogMeansIt
    BY DEF Init, OneDetail, DetailMatches, DialogMeansIt, NoDetail
<1>9. Rendering
    BY DEF Init, Rendering
<1> QED
    BY <1>5, <1>6, <1>7, <1>8, <1>9 DEF PageInv

\* Every step of the user, of the servers and of the functions keeps it.
LEMMA StepKeeps ==
    ASSUME PageInv, [Next]_vars
    PROVE  PageInv'
<1>1. CASE User
    <2>0. UNCHANGED <<world, auth, table>>
        BY <1>1 DEF User
    <2>1. CASE \E t \in Tasks : Refresh(t)
        BY <2>0, <2>1, RefreshKeeps
    <2>2. CASE \E t \in Tasks : UpgradeAllCharts(t)
        BY <2>0, <2>2, UpgradeAllChartsKeeps
    <2>3. CASE OpenCreate
        BY <2>0, <2>3, OpenCreateKeeps
    <2>4. CASE \E t \in Tasks, n \in Runners : OpenEdit(t, n)
        BY <2>0, <2>4, OpenEditKeeps
    <2>5. CASE \E t \in Tasks : SaveRunner(t)
        BY <2>0, <2>5, SaveRunnerKeeps
    <2>6. CASE \E n \in Runners : ConfirmDelete(n)
        BY <2>0, <2>6, ConfirmDeleteKeeps
    <2>7. CASE \E t \in Tasks : ExecuteDelete(t)
        BY <2>0, <2>7, ExecuteDeleteKeeps
    <2>8. CASE \E t \in Tasks, n \in Runners : OpenDetail(t, n)
        BY <2>0, <2>8, OpenDetailKeeps
    <2>9. CASE OpenLogin
        BY <2>0, <2>9, OpenLoginKeeps
    <2>10. CASE \E t \in Tasks : SubmitLogin(t)
        BY <2>0, <2>10, SubmitLoginKeeps
    <2>11. CASE \E t \in Tasks : Logout(t)
        BY <2>0, <2>11, LogoutKeeps
    <2>12. CASE Dismiss
        BY <2>0, <2>12, DismissKeeps
    <2> QED
        BY <1>1, <2>1, <2>2, <2>3, <2>4, <2>5, <2>6, <2>7, <2>8, <2>9,
            <2>10, <2>11, <2>12 DEF User
<1>2. CASE LoseSession
    BY <1>2, LoseSessionKeeps
<1>3. CASE \E t \in Tasks : Serve(t)
    BY <1>3, ServeKeeps
<1>4. CASE \E t \in Tasks : Resume(t)
    <2>0. PICK t \in Tasks : Resume(t)
        BY <1>4
    <2>1. CASE AuthChecked(t)
        BY <2>0, <2>1, AuthCheckedKeeps DEF Resume
    <2>2. CASE LoggedIn(t)
        BY <2>0, <2>2, LoggedInKeeps DEF Resume
    <2>3. CASE DefaultsLoaded(t)
        BY <2>0, <2>3, DefaultsLoadedKeeps DEF Resume
    <2>4. CASE LoggedOut(t)
        BY <2>0, <2>4, LoggedOutKeeps DEF Resume
    <2>5. CASE Listed(t)
        BY <2>0, <2>5, ListedKeeps DEF Resume
    <2>6. CASE EditLoaded(t)
        BY <2>0, <2>6, EditLoadedKeeps DEF Resume
    <2>7. CASE Saved(t)
        BY <2>0, <2>7, SavedKeeps DEF Resume
    <2>8. CASE Upgraded(t)
        BY <2>0, <2>8, UpgradedKeeps DEF Resume
    <2>9. CASE Removed(t)
        BY <2>0, <2>9, RemovedKeeps DEF Resume
    <2>10. CASE DetailLoaded(t)
        BY <2>0, <2>10, DetailLoadedKeeps DEF Resume
    <2> QED
        BY <2>0, <2>1, <2>2, <2>3, <2>4, <2>5, <2>6, <2>7, <2>8, <2>9,
            <2>10 DEF Resume
<1>5. CASE UNCHANGED vars
    <2>0. /\ TypeOK /\ Named /\ OverlayCovers /\ WaitsUndisturbed /\ OneDetail
          /\ Rendering /\ EditsStayApart /\ DialogMeansIt /\ DetailMatches
          /\ PageComesBack
        BY DEF PageInv
    <2>1. UNCHANGED <<world, task, auth, dialogs, view>>
        BY <1>5 DEF vars
    <2>2. TypeOK'
        BY <2>0, <2>1 DEF TypeOK, world, auth, dialogs, view
    <2>3. Named'
        BY <2>0, <2>1 DEF Named, world, auth, dialogs, view
    <2>4. OverlayCovers'
        BY <2>0, <2>1 DEF OverlayCovers, Shielded, Working, world,
            auth, dialogs, view
    <2>5. WaitsUndisturbed'
        BY <2>0, <2>1 DEF WaitsUndisturbed, world, auth, dialogs, view
    <2>6. OneDetail'
        BY <2>0, <2>1 DEF OneDetail, world, auth, dialogs, view
    <2>7. Rendering'
        BY <2>0, <2>1 DEF Rendering, world, auth, dialogs, view
    <2>8. EditsStayApart'
        BY <2>0, <2>1 DEF EditsStayApart, world, auth, dialogs, view
    <2>9. DialogMeansIt'
        BY <2>0, <2>1 DEF DialogMeansIt, world, auth, dialogs, view
    <2>10. DetailMatches'
        BY <2>0, <2>1 DEF DetailMatches, world, auth, dialogs, view
    <2>11. PageComesBack'
        BY <2>0, <2>1 DEF PageComesBack, Shielded, Working, world,
            auth, dialogs, view
    <2> QED
        BY <2>2, <2>3, <2>4, <2>5, <2>6, <2>7, <2>8, <2>9, <2>10, <2>11
            DEF PageInv
<1> QED
    BY <1>1, <1>2, <1>3, <1>4, <1>5 DEF Next

\* The page relies on it across all its awaits.
THEOREM PageInvariance == Spec => []PageInv
<1>1. Init => PageInv
    BY InitKeeps
<1>2. PageInv /\ [Next]_vars => PageInv'
    BY StepKeeps
<1> QED
    BY <1>1, <1>2, PTL DEF Spec

\* Every variable keeps its type.
THEOREM TypeCorrect == Spec => []TypeOK
<1>1. PageInv => TypeOK
    BY DEF PageInv
<1> QED
    BY <1>1, PageInvariance, PTL

\* As long as the overlay was never lowered under a function that waits, the
\* form, its heading and the update it makes are about one runner (openEdit,
\* saveRunner), whatever number of functions wait.
THEOREM EditsNeverMix == Spec => []EditsStayApart
<1>1. PageInv => EditsStayApart
    BY DEF PageInv
<1> QED
    BY <1>1, PageInvariance, PTL

\* The delete dialog deletes the runner it names, or nothing (confirmDelete,
\* executeDelete).
THEOREM DeleteIsAsConfirmed == Spec => []DialogMeansIt
<1>1. PageInv => DialogMeansIt
    BY DEF PageInv
<1> QED
    BY <1>1, PageInvariance, PTL

\* The drawer never shows one runner under the heading of another, unless it was
\* opened while another openDetail waited.
THEOREM DrawerMatches == Spec => []DetailMatches
<1>1. PageInv => DetailMatches
    BY DEF PageInv
<1> QED
    BY <1>1, PageInvariance, PTL

\* The overlay is up only while a function is under way that lowers it at its
\* end, after any failures and overlaps.
THEOREM OverlayHasCause == Spec => []PageComesBack
<1>1. PageInv => PageComesBack
    BY DEF PageInv
<1> QED
    BY <1>1, PageInvariance, PTL

\* When nothing is under way, the controls and the buttons of the rows agree
\* with the state of the login.
THEOREM ActionsAreAllowed == Spec => []ActionsFollowAuth
<1>1. PageInv => ActionsFollowAuth
    <2>1. SUFFICES ASSUME PageInv, Quiet
                   PROVE  /\ table.actions = authenticated
                          /\ multiUserMode =>
                              shown = IF authenticated THEN "sign out" ELSE "sign in"
        BY DEF ActionsFollowAuth
    <2>2. \A t \in Tasks : task[t].at = "idle"
        BY <2>1, IdleFacts DEF Quiet
    <2> QED
        BY <2>1, <2>2 DEF PageInv, Rendering
<1> QED
    BY <1>1, PageInvariance, PTL

-----------------------------------------------------------------------------
(* The table: TableInv. *)

LEMMA TableInit == Init => TableInv
<1> SUFFICES ASSUME Init PROVE TableInv
    OBVIOUS
<1>1. PICK i \in Tasks :
        task = [t \in Tasks |-> IF t = i THEN Call("init", "auth", None, None) ELSE Idle]
    BY DEF Init
<1>2. \A t \in Tasks : /\ task[t].got = "nothing"
                       /\ task[t].at # "list"
    BY <1>1 DEF Idle, Call
<1>3. task[i].op = "init" /\ task[i].at = "auth"
    BY <1>1 DEF Call
<1>4. Reloads(i)
    BY <1>3 DEF Reloads
<1> QED BY <1>2, <1>4 DEF TableInv

\* A step of t, which may be answered and may go on, but does not yet change
\* the table: a change of the runners or of who may read them comes with a
\* reload that t owes, and t does not end uncovered when it was covered.
TableStays(t) ==
    /\ Others(t) /\ table' = table
    /\ faults' = 0 => faults = 0 /\ task'[t].got # "failed"
    /\ covered' => covered
    /\ task'[t].at = "list" =>
        \/ task'[t].got = "nothing"
        \/ task'[t].got = "ok" /\ task'[t].rows = server'
        \/ task'[t].got = "refused" /\ ~Reads'
        \/ task'[t].got = "failed"
    /\ Shielded(t) /\ ~Shielded(t)' /\ covered' => \A o \in Tasks \ {t} : ~Shielded(o)
    /\ Reloads(t) => Reloads(t)'
    /\ server' # server => Shielded(t)' /\ Reloads(t)'
    /\ Reads' /\ ~Reads => Reloads(t)'

LEMMA TableStaysKeeps ==
    ASSUME TableInv, NEW t \in Tasks, TableStays(t)
    PROVE  TableInv'
<1>0. \A o \in Tasks \ {t} :
        /\ task'[o] = task[o]
        /\ Shielded(o)' <=> Shielded(o)
        /\ Reloads(o)' <=> Reloads(o)
        /\ Ok(o)' <=> Ok(o)
    BY DEF TableStays, Others, Shielded, Reloads, Ok
<1>1. faults' = 0 => \A m \in Tasks : task'[m].got # "failed"
    BY <1>0 DEF TableStays, TableInv
<1> SUFFICES ASSUME covered', faults' = 0
             PROVE  /\ \A m \in Tasks : task'[m].at = "list" =>
                        /\ Ok(m)' => \/ task'[m].rows = server'
                                     \/ \E o \in Tasks \ {m} : Shielded(o)'
                        /\ task'[m].got = "refused" /\ Reads'
                             => \E o \in Tasks \ {m} : Reloads(o)'
                    /\ Reads' => \/ table'.rows = server'
                                 \/ \E m \in Tasks : Reloads(m)'
    BY <1>1 DEF TableInv
<1>2. covered /\ faults = 0
    BY DEF TableStays
<1>3. ASSUME NEW m \in Tasks, task'[m].at = "list", Ok(m)'
      PROVE  \/ task'[m].rows = server'
             \/ \E o \in Tasks \ {m} : Shielded(o)'
    <2>1. CASE m = t
        BY <1>1, <1>3, <2>1 DEF TableStays, Ok
    <2>2. CASE m # t
        <3>1. task'[m] = task[m] /\ task[m].at = "list" /\ Ok(m) /\ Shielded(m)
            BY <1>0, <1>3, <2>2 DEF Shielded
        <3>2. Shielded(t) => Shielded(t)'
            BY <2>2, <3>1 DEF TableStays
        <3>3. CASE server' = server
            BY <1>0, <1>2, <3>1, <3>2, <3>3 DEF TableInv
        <3>4. CASE server' # server
            BY <2>2, <3>4 DEF TableStays
        <3> QED BY <3>3, <3>4
    <2> QED BY <2>1, <2>2
<1>4. ASSUME NEW m \in Tasks, task'[m].at = "list", task'[m].got = "refused", Reads'
      PROVE  \E o \in Tasks \ {m} : Reloads(o)'
    <2>1. CASE m = t
        BY <1>4, <2>1 DEF TableStays
    <2>2. CASE m # t
        <3>1. task[m].at = "list" /\ task[m].got = "refused"
            BY <1>0, <1>4, <2>2
        <3>2. CASE Reads
            <4>1. PICK o \in Tasks \ {m} : Reloads(o)
                BY <1>2, <3>1, <3>2 DEF TableInv
            <4>2. Reloads(o)'
                BY <1>0, <4>1 DEF TableStays
            <4> QED BY <4>2
        <3>3. CASE ~Reads
            BY <1>4, <2>2, <3>3 DEF TableStays
        <3> QED BY <3>2, <3>3
    <2> QED BY <2>1, <2>2
<1>5. ASSUME Reads'
      PROVE  table'.rows = server' \/ \E m \in Tasks : Reloads(m)'
    <2>1. CASE server' # server \/ ~Reads
        BY <1>5, <2>1 DEF TableStays
    <2>2. CASE server' = server /\ Reads
        <3>1. CASE table.rows = server
            BY <2>2, <3>1 DEF TableStays
        <3>2. CASE \E o \in Tasks : Reloads(o)
            <4>1. PICK o \in Tasks : Reloads(o)
                BY <3>2
            <4>2. Reloads(o)'
                BY <1>0, <4>1 DEF TableStays
            <4> QED BY <4>2
        <3> QED BY <1>2, <2>2, <3>1, <3>2 DEF TableInv
    <2> QED BY <2>1, <2>2
<1> QED BY <1>3, <1>4, <1>5

\* What the user does calls at most one function.
LEMMA UserCalls ==
    ASSUME TypeOK, User
    PROVE  /\ UNCHANGED <<server, session, faults, table, covered>>
           /\ \/ task' = task
              \/ \E t \in Tasks : /\ Others(t) /\ task[t] = Idle
                                  /\ task'[t].got = "nothing"
<1>0. UNCHANGED <<server, session, faults, table>> /\ task \in [Tasks -> Task]
    BY DEF User, world, TypeOK
<1>1. ASSUME NEW t \in Tasks, NEW op, NEW at, NEW n, NEW v, Await(t, Call(op, at, n, v))
      PROVE  Others(t) /\ task[t] = Idle /\ task'[t].got = "nothing"
    BY <1>0, <1>1 DEF Await, Others, Call
<1>2. covered' = covered
    BY DEF User, OpenCreate, OpenLogin, Dismiss, ConfirmDelete, Refresh,
        UpgradeAllCharts, SaveRunner, ExecuteDelete, SubmitLogin, Logout,
        OpenEdit, OpenDetail, Raise
<1>3. CASE OpenCreate \/ OpenLogin \/ Dismiss \/ \E n \in Runners : ConfirmDelete(n)
    <2>1. task' = task
        BY <1>3 DEF OpenCreate, OpenLogin, Dismiss, ConfirmDelete
    <2> QED BY <1>0, <1>2, <2>1
<1>4. ASSUME NEW t \in Tasks,
             \/ Refresh(t) \/ UpgradeAllCharts(t) \/ ExecuteDelete(t)
             \/ SubmitLogin(t) \/ Logout(t)
      PROVE  \E o \in Tasks : Others(o) /\ task[o] = Idle /\ task'[o].got = "nothing"
    <2>1. PICK op, at, n, v : Await(t, Call(op, at, n, v))
        BY <1>4 DEF Refresh, UpgradeAllCharts, ExecuteDelete, SubmitLogin, Logout
    <2> QED BY <1>1, <2>1
<1>5. ASSUME NEW t \in Tasks, SaveRunner(t)
      PROVE  \E o \in Tasks : Others(o) /\ task[o] = Idle /\ task'[o].got = "nothing"
    <2>1. PICK op, at, n, v : Await(t, Call(op, at, n, v))
        BY <1>5 DEF SaveRunner
    <2> QED BY <1>1, <2>1
<1>6. ASSUME NEW t \in Tasks, NEW m \in Runners, OpenEdit(t, m) \/ OpenDetail(t, m)
      PROVE  \E o \in Tasks : Others(o) /\ task[o] = Idle /\ task'[o].got = "nothing"
    <2>1. PICK op, at, n, v : Await(t, Call(op, at, n, v))
        BY <1>6 DEF OpenEdit, OpenDetail
    <2> QED BY <1>1, <2>1
<1> QED BY <1>0, <1>2, <1>3, <1>4, <1>5, <1>6 DEF User

LEMMA UserKeepsTable ==
    ASSUME TypeOK, TableInv, User
    PROVE  TableInv'
<1>1. /\ UNCHANGED <<server, session, faults, table, covered>>
      /\ \/ task' = task
         \/ \E t \in Tasks : /\ Others(t) /\ task[t] = Idle
                             /\ task'[t].got = "nothing"
    BY UserCalls
<1>2. CASE task' = task
    BY <1>1, <1>2 DEF TableInv, Ok, Shielded, Reloads, Reads
<1>3. ASSUME NEW t \in Tasks, Others(t), task[t] = Idle, task'[t].got = "nothing"
      PROVE  TableInv'
    <2>1. ~Shielded(t) /\ ~Reloads(t)
        BY <1>3 DEF Shielded, Reloads, Working, Ok, Idle, Call
    <2>2. UNCHANGED <<server, table, covered, faults>> /\ (Reads' <=> Reads)
        BY <1>1 DEF Reads
    <2>3. TableStays(t)
        BY <1>3, <2>1, <2>2 DEF TableStays
    <2> QED BY <2>3, TableStaysKeeps
<1> QED BY <1>1, <1>2, <1>3

\* An answer: a creation or a deletion that it reports is followed by a load of
\* the list, and so is a login.
LEMMA ServeKeepsTable ==
    ASSUME TypeOK, TableInv, NEW t \in Tasks, Serve(t)
    PROVE  TableInv'
<1>0. /\ task \in [Tasks -> Task] /\ faults \in Nat
      /\ UNCHANGED <<table, covered, spinner>> /\ task[t].got = "nothing"
      /\ task[t].at # "idle"
    BY DEF TypeOK, Serve, view, Waits
<1>a. ASSUME NEW got, NEW rows, Answer(t, got, rows)
      PROVE  /\ Others(t) /\ task'[t].op = task[t].op /\ task'[t].at = task[t].at
             /\ task'[t].got = got /\ task'[t].rows = rows
             /\ Shielded(t)' <=> Shielded(t)
             /\ Reloads(t) => Reloads(t)'
    <2>1. /\ Others(t) /\ task'[t].op = task[t].op /\ task'[t].at = task[t].at
          /\ task'[t].got = got /\ task'[t].rows = rows
        BY <1>0, <1>a DEF Answer, Others, Task
    <2> QED BY <1>0, <2>1 DEF Shielded, Reloads, Ok
<1>1. CASE /\ Fault
           /\ Answer(t, "failed", {})
    <2>1. faults' # 0
        BY <1>0, <1>1 DEF Fault
    <2> QED BY <2>1 DEF TableInv
<1>2. CASE /\ FALSE \in Outcomes(t) /\ Unaffected /\ Answer(t, "refused", {})
           /\ UNCHANGED faults
    <2>1. UNCHANGED <<server, session>> /\ (Reads' <=> Reads)
        BY <1>2 DEF Unaffected, Reads
    <2>2. ASSUME task[t].at = "list"
          PROVE  ~Reads
        <3>1. Outcomes(t) = {Reads}
            BY <2>2 DEF Outcomes
        <3>2. FALSE \in {Reads}
            BY <1>2, <3>1
        <3> QED BY <3>2, Zenon
    <2>3. /\ Others(t) /\ task'[t].at = task[t].at /\ task'[t].got = "refused"
          /\ Shielded(t)' <=> Shielded(t)
          /\ Reloads(t) => Reloads(t)'
        BY <1>2, <1>a
    <2>4. TableStays(t)
        BY <1>0, <1>2, <2>1, <2>2, <2>3 DEF TableStays
    <2> QED BY <2>4, TableStaysKeeps
<1>3. CASE /\ Effect(t)
           /\ Answer(t, "ok", IF task[t].at = "list" THEN server ELSE {})
           /\ UNCHANGED faults
    <2>1. /\ Others(t) /\ task'[t].op = task[t].op /\ task'[t].at = task[t].at
          /\ task'[t].got = "ok"
          /\ task[t].at = "list" => task'[t].rows = server
          /\ Shielded(t)' <=> Shielded(t)
          /\ Reloads(t) => Reloads(t)'
        BY <1>3, <1>a
    <2>2. server' # server => task[t].at = "work" /\ task[t].op \in {"create", "delete"}
        BY <1>3 DEF Effect
    <2>3. session' /\ ~session => task[t].at = "auth" /\ task[t].op = "login"
        BY <1>3 DEF Effect
    <2>4. server' # server => Shielded(t)' /\ Reloads(t)'
        BY <2>1, <2>2 DEF Shielded, Working, Reloads, Ok
    <2>5. Reads' /\ ~Reads => Reloads(t)'
        BY <2>1, <2>3 DEF Reads, Reloads, Ok
    <2>6. TableStays(t)
        BY <1>0, <1>3, <2>1, <2>2, <2>4, <2>5 DEF TableStays
    <2> QED BY <2>6, TableStaysKeeps
<1> QED BY <1>1, <1>2, <1>3 DEF Serve

LEMMA LoseSessionKeepsTable ==
    ASSUME TypeOK, TableInv, LoseSession
    PROVE  TableInv'
<1>a. Fault
    BY DEF LoseSession
<1>b. faults \in Nat
    BY DEF TypeOK
<1>1. faults' # 0
    BY <1>a, <1>b DEF Fault
<1> QED BY <1>1 DEF TableInv

\* The list replaces the table.
LEMMA ListedKeepsTable ==
    ASSUME TypeOK, TableInv, NEW t \in Tasks, Listed(t), UNCHANGED world
    PROVE  TableInv'
<1>0. /\ UNCHANGED <<server, session, faults>> /\ (Reads' <=> Reads)
      /\ task \in [Tasks -> Task]
      /\ task[t].at = "list" /\ task[t].got \in {"ok", "refused", "failed"}
    BY DEF world, Reads, Listed, Answered, TypeOK, Task
<1>1. Others(t) /\ task'[t] = Idle
    BY <1>0, EndFacts DEF Listed
<1>2. table'.rows = task[t].rows
    BY DEF Listed
<1>3. covered' => covered /\ \A o \in Tasks \ {t} : ~Shielded(o)
    BY DEF Listed, Lower
<1>4. \A m \in Tasks : covered' => task'[m].at # "list"
    BY <1>1, <1>3, IdleFacts DEF Others, Shielded
<1>5. faults' = 0 => \A m \in Tasks : task'[m].got # "failed"
    BY <1>0, <1>1 DEF TableInv, Others, Idle, Call
<1>6. ASSUME covered', faults' = 0, Reads'
      PROVE  table'.rows = server' \/ \E m \in Tasks : Reloads(m)'
    <2>1. CASE task[t].got = "ok"
        BY <1>0, <1>2, <1>3, <1>6, <2>1 DEF TableInv, Ok
    <2>2. CASE task[t].got = "refused"
        <3>1. PICK o \in Tasks \ {t} : Reloads(o)
            BY <1>0, <1>3, <1>6, <2>2 DEF TableInv
        <3>2. Reloads(o)'
            BY <1>1, <3>1 DEF Others, Reloads, Ok
        <3> QED BY <3>2
    <2>3. task[t].got # "failed"
        BY <1>0, <1>6 DEF TableInv
    <2> QED BY <1>0, <2>1, <2>2, <2>3
<1> QED BY <1>4, <1>5, <1>6 DEF TableInv

\* A function that goes on owes what it owed, or leaves the overlay down.
LEMMA ResumeKeepsTable ==
    ASSUME TypeOK, TableInv, NEW t \in Tasks, Resume(t)
    PROVE  TableInv'
<1>0. /\ UNCHANGED <<server, session, faults>> /\ (Reads' <=> Reads)
      /\ task \in [Tasks -> Task] /\ UNCHANGED world
    BY DEF Resume, world, Reads, TypeOK
<1>a. ASSUME NEW at, Proceed(t, at)
      PROVE  /\ Others(t) /\ task'[t].op = task[t].op /\ task'[t].at = at
             /\ task'[t].got = "nothing"
    BY <1>0, <1>a DEF Proceed, Others, Task
<1>b. ASSUME End(t)
      PROVE  Others(t) /\ task'[t].got = "nothing" /\ task'[t].at = "idle"
    BY <1>0, <1>b, EndFacts DEF Idle, Call
<1>c. ASSUME LoadRunners(t), table' = table
      PROVE  TableInv'
    <2>1. Others(t) /\ task'[t].at = "list" /\ task'[t].got = "nothing" /\ covered' = covered
        BY <1>a, <1>c DEF LoadRunners, Raise
    <2>2. Shielded(t)' /\ Reloads(t)'
        BY <2>1 DEF Shielded, Reloads
    <2>3. TableStays(t)
        BY <1>0, <1>c, <2>1, <2>2 DEF TableStays
    <2> QED BY <2>3, TableStaysKeeps
<1>d. ASSUME End(t), Lower(t), table' = table, ~Reloads(t)
      PROVE  TableInv'
    <2>1. Others(t) /\ task'[t].got = "nothing" /\ task'[t].at = "idle"
        BY <1>b, <1>d
    <2>2. covered' => covered /\ \A o \in Tasks \ {t} : ~Shielded(o)
        BY <1>d DEF Lower
    <2>3. TableStays(t)
        BY <1>0, <1>d, <2>1, <2>2 DEF TableStays
    <2> QED BY <2>3, TableStaysKeeps
<1>e. ASSUME UNCHANGED <<covered, table>>, ~Shielded(t), Reloads(t) => Reloads(t)',
             Others(t), task'[t].got = "nothing"
      PROVE  TableInv'
    <2>1. TableStays(t)
        BY <1>0, <1>e DEF TableStays
    <2> QED BY <2>1, TableStaysKeeps
<1>1. CASE AuthChecked(t)
    <2>1. /\ task[t].op = "init" /\ task[t].at = "auth" /\ Proceed(t, "defaults")
          /\ UNCHANGED <<covered, table>>
        BY <1>1 DEF AuthChecked, Answered, view
    <2>2. Others(t) /\ task'[t].got = "nothing" /\ Reloads(t)' /\ ~Shielded(t)
        BY <1>a, <2>1 DEF Reloads, Shielded, Working
    <2> QED BY <1>e, <2>1, <2>2
<1>2. CASE LoggedIn(t)
    <2>1. /\ task[t].op = "login" /\ task[t].at = "auth"
          /\ UNCHANGED <<covered, table>>
          /\ IF Ok(t) THEN Proceed(t, "defaults") ELSE End(t)
        BY <1>2 DEF LoggedIn, Answered
    <2>2. ~Shielded(t) /\ (~Ok(t) => ~Reloads(t))
        BY <2>1 DEF Shielded, Reloads, Working
    <2>3. Others(t) /\ task'[t].got = "nothing" /\ (Ok(t) => Reloads(t)')
        BY <1>a, <1>b, <2>1 DEF Reloads
    <2> QED BY <1>e, <2>1, <2>2, <2>3
<1>3. CASE DefaultsLoaded(t)
    BY <1>3, <1>c DEF DefaultsLoaded
<1>4. CASE LoggedOut(t)
    BY <1>4, <1>c DEF LoggedOut, LogoutReloads
<1>5. CASE Listed(t)
    BY <1>0, <1>5, ListedKeepsTable
<1>6. CASE EditLoaded(t)
    <2>1. task[t].op = "edit" /\ task[t].at = "work" /\ End(t) /\ Lower(t) /\ table' = table
        BY <1>6 DEF EditLoaded, Answered
    <2>2. ~Reloads(t)
        BY <2>1 DEF Reloads
    <2> QED BY <1>d, <2>1, <2>2
<1>7. CASE Saved(t)
    <2>1. /\ task[t].at = "work" /\ table' = table /\ task[t].op \in {"create", "update"}
          /\ LoadRunners(t) \/ (~Ok(t) /\ Lower(t) /\ End(t))
        BY <1>7 DEF Saved, Answered, Finally
    <2>2. ~Ok(t) => ~Reloads(t)
        BY <2>1 DEF Reloads
    <2> QED BY <1>c, <1>d, <2>1, <2>2
<1>8. CASE Upgraded(t)
    <2>1. /\ task[t].op = "upgrade" /\ task[t].at = "work" /\ table' = table
          /\ LoadRunners(t) \/ (Lower(t) /\ End(t))
        BY <1>8 DEF Upgraded, Answered, Finally
    <2>2. ~Reloads(t)
        BY <2>1 DEF Reloads
    <2> QED BY <1>c, <1>d, <2>1, <2>2
<1>9. CASE Removed(t)
    <2>1. /\ task[t].at = "work" /\ table' = table /\ task[t].op = "delete"
          /\ LoadRunners(t) \/ (~Ok(t) /\ Lower(t) /\ End(t))
        BY <1>9 DEF Removed, Answered, Finally, DeleteReloads
    <2>2. ~Ok(t) => ~Reloads(t)
        BY <2>1 DEF Reloads
    <2> QED BY <1>c, <1>d, <2>1, <2>2
<1>10. CASE DetailLoaded(t)
    <2>1. /\ task[t].op = "detail" /\ task[t].at = "work" /\ End(t)
          /\ UNCHANGED <<covered, table>>
        BY <1>10 DEF DetailLoaded, Answered
    <2>2. ~Reloads(t) /\ ~Shielded(t)
        BY <2>1 DEF Reloads, Shielded, Working
    <2>3. Others(t) /\ task'[t].got = "nothing"
        BY <1>b, <2>1
    <2> QED BY <1>e, <2>1, <2>2, <2>3
<1> QED BY <1>1, <1>2, <1>3, <1>4, <1>5, <1>6, <1>7, <1>8, <1>9, <1>10 DEF Resume

LEMMA TableStep ==
    ASSUME TypeOK, TableInv, [Next]_vars
    PROVE  TableInv'
<1>1. CASE UNCHANGED vars
    BY <1>1 DEF vars, world, view, TableInv, Ok, Shielded, Reloads, Reads
<1>2. CASE Next
    BY <1>2, UserKeepsTable, LoseSessionKeepsTable, ServeKeepsTable, ResumeKeepsTable DEF Next
<1> QED BY <1>1, <1>2

\* A table that is not current has a load of the list before it.
THEOREM TableInvariance == Spec => []TableInv
<1>1. Init => TableInv
    BY TableInit
<1>2. TypeOK /\ TableInv /\ [Next]_vars => TableInv'
    BY TableStep
<1> QED BY <1>1, <1>2, TypeCorrect, PTL DEF Spec

\* loadRunners: a page at rest shows the runners there are, after whatever
\* creations and deletions, as long as nothing has failed and the overlay has
\* covered what waited.
THEOREM TableCurrent == Spec => []TableIsCurrent
<1>1. Quiet => \A t \in Tasks : ~Reloads(t)
    BY DEF Quiet, Reloads, Ok, Idle, Call
<1>2. TableInv => TableIsCurrent
    BY <1>1 DEF TableInv, TableIsCurrent
<1> QED BY <1>2, TableInvariance, PTL

=============================================================================
