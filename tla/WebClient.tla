----------------------------- MODULE WebClient -----------------------------
(***************************************************************************)
(* The page (frontend/static/js/app.js) as its async functions: each runs  *)
(* without a break from one await to the next, and shares editingName,     *)
(* pendingDelete, the form, the dialogs, the table and the spinner overlay *)
(* with all others that wait.  Requests and answers overtake each other.   *)
(*                                                                         *)
(* The user acts with the mouse: the overlay, as long as it is up, covers  *)
(* the page, and an open dialog covers what is behind it.  The frontend    *)
(* runs in multi-user mode; that other clients change runners as well is   *)
(* left to RunnerApi and RunnerValues.                                     *)
(***************************************************************************)
EXTENDS Naturals

CONSTANTS
    Runners,        \* names of runners
    Tasks,          \* activations of async functions that may wait at once
    Readonly,       \* the API answers GET without a token
    MaxFaults       \* bound: failed fetches and lost sessions

None == "null"
New == "new"        \* the heading and the values of an empty form

ASSUME PageAssumption ==
    /\ {None, New, "loading", "error"} \cap Runners = {}
    /\ Readonly \in BOOLEAN /\ MaxFaults \in Nat

VARIABLES
    server,         \* the runners there are
    session,        \* the cookie stands for a session of the frontend server
    task,           \* task[t]: a function that waits for a fetch
    authenticated, multiUserMode,
    shown,          \* the control renderUI has put up last
    editingName, pendingDelete,
    spinner,        \* the overlay is up
    open,           \* the dialogs that are up
    form,           \* the heading of the form, and whose values its fields hold
    deleteName,     \* the name in the text of the delete dialog
    detail,         \* the heading and the body of the drawer, with its buttons;
                    \* mixed: it was opened while another openDetail waited
    table,          \* the names in the table, and whether it offers actions
    faults,
    covered         \* the overlay was never lowered under a function that had
                    \* raised it

world == <<server, session, faults>>
auth == <<authenticated, multiUserMode, shown>>
dialogs == <<editingName, pendingDelete, open, form, deleteName>>
view == <<spinner, detail, table, covered>>
vars == <<world, task, auth, dialogs, view>>

\* at is the fetch that is awaited: /auth/..., the defaults, the call that is
\* the function's own, or the list.
Task == [op : {"none", "init", "login", "logout", "list", "upgrade", "edit",
               "create", "update", "delete", "detail"},
         at : {"idle", "auth", "defaults", "work", "list"},
         name : Runners \union {None},
         values : Runners \union {None, New},
         got : {"nothing", "ok", "refused", "failed"},
         rows : SUBSET Runners]

Call(op, at, name, values) ==
    [op |-> op, at |-> at, name |-> name, values |-> values,
     got |-> "nothing", rows |-> {}]

Idle == Call("none", "idle", None, None)

Form == [title : Runners \union {New}, values : Runners \union {New}]
Drawer == [title : Runners \union {None},
           body : Runners \union {None, "loading", "error"},
           actions : BOOLEAN, mixed : BOOLEAN]
Table == [rows : SUBSET Runners, actions : BOOLEAN]

EmptyForm == [title |-> New, values |-> New]
NoDetail == [title |-> None, body |-> None, actions |-> FALSE, mixed |-> FALSE]

\* The page has just been loaded, with or without a session from before.
Init ==
    /\ server \in SUBSET Runners
    /\ session \in BOOLEAN
    /\ task \in {[t \in Tasks |-> IF t = i THEN Call("init", "auth", None, None)
                                  ELSE Idle] : i \in Tasks}
    /\ authenticated = FALSE /\ multiUserMode = FALSE /\ shown = "nothing"
    /\ editingName = None /\ pendingDelete = None
    /\ spinner = FALSE
    /\ open = {}
    /\ form = EmptyForm
    /\ deleteName = None
    /\ detail = NoDetail
    /\ table = [rows |-> {}, actions |-> FALSE]
    /\ faults = 0
    /\ covered = TRUE

-----------------------------------------------------------------------------

Await(t, call) == task[t] = Idle /\ task' = [task EXCEPT ![t] = call]

Proceed(t, at) ==
    task' = [task EXCEPT ![t] = [@ EXCEPT !.at = at, !.got = "nothing", !.rows = {}]]

End(t) == task' = [task EXCEPT ![t] = Idle]

Working == {"upgrade", "edit", "create", "update", "delete"}

\* The function has raised the overlay and will lower it.
Shielded(t) == task[t].at = "list" \/ task[t].op \in Working

Raise == spinner' = TRUE /\ UNCHANGED covered

\* showSpinner(false), at the end of t: there is one overlay for all.
Lower(t) ==
    /\ spinner' = FALSE
    /\ covered' = (covered /\ \A o \in Tasks \ {t} : ~Shielded(o))

\* loadRunners, from within the function t.
LoadRunners(t) == Raise /\ Proceed(t, "list")

-----------------------------------------------------------------------------
(* The user. *)

OnPage == ~spinner /\ open = {}
InDialog(d) == ~spinner /\ d \in open

Show(d) == open' = open \union {d}

\* What a dialog holds while it is hidden does not matter: whatever shows it
\* fills it first.
Close(d) ==
    /\ open' = open \ {d}
    /\ form' = IF d = "runner" THEN EmptyForm ELSE form
    /\ deleteName' = IF d = "delete" THEN None ELSE deleteName
    /\ detail' = IF d = "detail" THEN NoDetail ELSE detail

\* The buttons of a row, and of the drawer for the runner it displays.
Offered(n) ==
    \/ OnPage /\ table.actions /\ n \in table.rows
    \/ InDialog("detail") /\ detail.actions /\ n = detail.body

Refresh(t) ==
    /\ OnPage
    /\ Await(t, Call("list", "list", None, None))
    /\ Raise
    /\ UNCHANGED <<dialogs, detail>>

\* upgradeAllCharts; the button is there when a runner may be outdated.
UpgradeAllCharts(t) ==
    /\ OnPage /\ table.actions /\ table.rows # {}
    /\ Await(t, Call("upgrade", "work", None, None))
    /\ Raise
    /\ UNCHANGED <<dialogs, detail>>

OpenCreate ==
    /\ OnPage
    /\ shown = "sign out" \/ (table.actions /\ table.rows = {})
    /\ editingName' = None
    /\ form' = EmptyForm
    /\ Show("runner")
    /\ UNCHANGED <<task, pendingDelete, deleteName, spinner, covered, detail>>

\* The form is not filled before the answer is there.  From the drawer the
\* drawer is closed as well.
OpenEdit(t, n) ==
    /\ Offered(n)
    /\ editingName' = n
    /\ form' = [form EXCEPT !.title = n]
    /\ open' = open \ {"detail"} /\ detail' = NoDetail
    /\ Await(t, Call("edit", "work", n, None))
    /\ Raise
    /\ UNCHANGED <<pendingDelete, deleteName>>

\* saveRunner; an empty form needs a name from the user.
SaveRunner(t) ==
    /\ InDialog("runner")
    /\ \E n \in IF form.values = New THEN Runners ELSE {form.values} :
        Await(t, IF editingName # None
                 THEN Call("update", "work", editingName, form.values)
                 ELSE Call("create", "work", n, form.values))
    /\ Raise
    /\ UNCHANGED <<dialogs, detail>>

\* Mutant: a name that waits for its confirmation is kept.
KeptIfPending(n) == IF pendingDelete = None THEN n ELSE pendingDelete

ToConfirm(n) == n

ConfirmDelete(n) ==
    /\ Offered(n)
    /\ pendingDelete' = ToConfirm(n)
    /\ deleteName' = n
    /\ open' = (open \ {"detail"}) \union {"delete"} /\ detail' = NoDetail
    /\ UNCHANGED <<task, editingName, form, spinner, covered>>

ExecuteDelete(t) ==
    /\ InDialog("delete")
    /\ pendingDelete # None
    /\ Await(t, Call("delete", "work", pendingDelete, None))
    /\ Close("delete")
    /\ Raise
    /\ UNCHANGED <<editingName, pendingDelete>>

\* Mutant: the heading is left for the answer to set.
HeadingLater(n) == detail.title

Heading(n) == n

\* openDetail raises no overlay.
OpenDetail(t, n) ==
    /\ OnPage /\ n \in table.rows
    /\ Await(t, Call("detail", "work", n, None))
    /\ detail' = [title |-> Heading(n), body |-> "loading", actions |-> FALSE,
                  mixed |-> \E o \in Tasks : task[o].op = "detail"]
    /\ Show("detail")
    /\ UNCHANGED <<editingName, pendingDelete, form, deleteName, spinner, covered>>

OpenLogin ==
    /\ OnPage /\ shown = "sign in"
    /\ Show("login")
    /\ UNCHANGED <<task, editingName, pendingDelete, form, deleteName, spinner,
                   covered, detail>>

\* Neither submitLogin nor logout raises the overlay before it loads the list.
SubmitLogin(t) ==
    /\ InDialog("login")
    /\ Await(t, Call("login", "auth", None, None))
    /\ UNCHANGED <<dialogs, spinner, covered, detail>>

Logout(t) ==
    /\ OnPage /\ shown = "sign out"
    /\ Await(t, Call("logout", "auth", None, None))
    /\ UNCHANGED <<dialogs, spinner, covered, detail>>

Dismiss ==
    /\ \E d \in open : InDialog(d) /\ Close(d)
    /\ UNCHANGED <<task, editingName, pendingDelete, spinner, covered>>

User ==
    /\ \/ OpenCreate \/ OpenLogin \/ Dismiss
       \/ \E n \in Runners : ConfirmDelete(n)
       \/ \E t \in Tasks :
            \/ Refresh(t) \/ UpgradeAllCharts(t) \/ SaveRunner(t)
            \/ ExecuteDelete(t) \/ SubmitLogin(t) \/ Logout(t)
            \/ \E n \in Runners : OpenEdit(t, n) \/ OpenDetail(t, n)
    /\ UNCHANGED <<world, auth, table>>

-----------------------------------------------------------------------------
(* The servers. *)

Waits(t) == task[t].at # "idle" /\ task[t].got = "nothing"

Fault == faults < MaxFaults /\ faults' = faults + 1

Answer(t, got, rows) ==
    task' = [task EXCEPT ![t] = [@ EXCEPT !.got = got, !.rows = rows]]

Reads == session \/ Readonly

\* Whether the call of t is accepted; a token may be good or bad.
Outcomes(t) ==
    LET k == task[t] IN
    CASE k.at = "auth" /\ k.op = "init"  -> {session}
      [] k.at = "auth" /\ k.op = "login" -> BOOLEAN
      [] k.at = "list" -> {Reads}
      [] k.at = "work" /\ k.op \in {"edit", "detail"} ->
            {Reads /\ k.name \in server}
      [] k.at = "work" /\ k.op = "create" ->
            {session /\ k.name \notin server}
      [] k.at = "work" /\ k.op \in {"update", "delete"} ->
            {session /\ k.name \in server}
      [] k.at = "work" /\ k.op = "upgrade" -> {session}
      [] OTHER -> {TRUE}

Effect(t) ==
    LET k == task[t] IN
    /\ session' = CASE k.at = "auth" /\ k.op = "login"  -> TRUE
                    [] k.at = "auth" /\ k.op = "logout" -> FALSE
                    [] OTHER -> session
    /\ server' = CASE k.at = "work" /\ k.op = "create" -> server \union {k.name}
                   [] k.at = "work" /\ k.op = "delete" -> server \ {k.name}
                   [] OTHER -> server

Unaffected == UNCHANGED <<server, session>>

\* The answer is on its way; or the fetch fails, executed or not.
Serve(t) ==
    /\ Waits(t)
    /\ \/ /\ TRUE \in Outcomes(t)
          /\ Effect(t)
          /\ Answer(t, "ok", IF task[t].at = "list" THEN server ELSE {})
          /\ UNCHANGED faults
       \/ /\ FALSE \in Outcomes(t)
          /\ Unaffected
          /\ Answer(t, "refused", {})
          /\ UNCHANGED faults
       \/ /\ Fault
          /\ Unaffected \/ (TRUE \in Outcomes(t) /\ Effect(t))
          /\ Answer(t, "failed", {})
    /\ UNCHANGED <<auth, dialogs, view>>

\* The frontend server is restarted and has forgotten the session.
LoseSession ==
    /\ session /\ Fault
    /\ session' = FALSE
    /\ UNCHANGED <<server, task, auth, dialogs, view>>

-----------------------------------------------------------------------------
(* The functions go on. *)

Ok(t) == task[t].got = "ok"
Answered(t, ops, at) ==
    task[t].op \in ops /\ task[t].at = at /\ task[t].got # "nothing"

\* renderUI, renderAuthControls
RenderUI(signedIn, multi) ==
    shown' = IF ~multi THEN "nothing"
             ELSE IF signedIn THEN "sign out" ELSE "sign in"

\* checkAuthState
AuthChecked(t) ==
    /\ Answered(t, {"init"}, "auth")
    /\ authenticated' = Ok(t)
    /\ multiUserMode' = (task[t].got # "failed")
    /\ Proceed(t, "defaults")
    /\ UNCHANGED <<shown, dialogs, view>>

LoggedIn(t) ==
    /\ Answered(t, {"login"}, "auth")
    /\ IF Ok(t) THEN authenticated' = TRUE /\ Close("login") /\ Proceed(t, "defaults")
       ELSE UNCHANGED <<authenticated, open, form, deleteName, detail>> /\ End(t)
    /\ UNCHANGED <<multiUserMode, shown, editingName, pendingDelete, spinner, table,
                   covered>>

\* loadDefaults lets a failure pass; then renderUI and loadRunners.
DefaultsLoaded(t) ==
    /\ Answered(t, {"init", "login"}, "defaults")
    /\ RenderUI(authenticated, multiUserMode)
    /\ LoadRunners(t)
    /\ UNCHANGED <<authenticated, multiUserMode, dialogs, detail, table>>

\* Mutant: logout leaves the table to the next refresh.
LogoutRenders(t) == End(t) /\ UNCHANGED <<spinner, covered>>

LogoutReloads(t) == LoadRunners(t)

\* A failed logout counts as well.
LoggedOut(t) ==
    /\ Answered(t, {"logout"}, "auth")
    /\ authenticated' = FALSE
    /\ RenderUI(FALSE, multiUserMode)
    /\ LogoutReloads(t)
    /\ UNCHANGED <<multiUserMode, dialogs, detail, table>>

\* loadRunners and renderTable; executeDelete has more to do then.
Listed(t) ==
    /\ Answered(t, {"init", "login", "logout", "list", "upgrade", "create", "update",
                    "delete"}, "list")
    /\ table' = [rows |-> task[t].rows, actions |-> authenticated]
    /\ pendingDelete' = IF task[t].op = "delete" THEN None ELSE pendingDelete
    /\ Lower(t)
    /\ End(t)
    /\ UNCHANGED <<auth, editingName, open, form, deleteName, detail>>

\* Mutant: the form is shown as it is when the runner cannot be loaded.
ShownAnyway(t) == TRUE

ShownWhenLoaded(t) == Ok(t)

\* Mutant: the form is filled from the call and not from its answer.
FromCall(t) == task[t].values

LoadedValues(t) == IF Ok(t) THEN task[t].name ELSE form.values

EditLoaded(t) ==
    /\ Answered(t, {"edit"}, "work")
    /\ IF ShownWhenLoaded(t)
       THEN Show("runner") /\ form' = [form EXCEPT !.values = LoadedValues(t)]
       ELSE UNCHANGED open /\ form' = IF "runner" \in open THEN form ELSE EmptyForm
    /\ Lower(t)
    /\ End(t)
    /\ UNCHANGED <<auth, editingName, pendingDelete, deleteName, detail, table>>

\* Mutant: a failed save returns before it hides the spinner.
LeftUp(t) == UNCHANGED <<spinner, covered>>

Finally(t) == Lower(t)

Saved(t) ==
    /\ Answered(t, {"create", "update"}, "work")
    /\ \/ Ok(t) /\ Close("runner") /\ LoadRunners(t)
       \/ ~Ok(t) /\ UNCHANGED <<open, form, deleteName, detail>> /\ Finally(t) /\ End(t)
    /\ UNCHANGED <<auth, editingName, pendingDelete, table>>

Upgraded(t) ==
    /\ Answered(t, {"upgrade"}, "work")
    /\ \/ Ok(t) /\ LoadRunners(t)
       \/ ~Ok(t) /\ Finally(t) /\ End(t)
    /\ UNCHANGED <<auth, dialogs, detail, table>>

\* Mutant: a delete that succeeded is over.
DeleteRenders(t) == End(t) /\ Lower(t)

DeleteReloads(t) == LoadRunners(t)

Removed(t) ==
    /\ Answered(t, {"delete"}, "work")
    /\ \/ Ok(t) /\ DeleteReloads(t) /\ UNCHANGED pendingDelete
       \/ ~Ok(t) /\ pendingDelete' = None /\ Finally(t) /\ End(t)
    /\ UNCHANGED <<auth, editingName, open, form, deleteName, detail, table>>

DetailLoaded(t) ==
    /\ Answered(t, {"detail"}, "work")
    /\ detail' = IF "detail" \notin open THEN detail
                 ELSE IF Ok(t)
                 THEN [detail EXCEPT !.body = task[t].name,
                                     !.actions = authenticated]
                 ELSE [detail EXCEPT !.body = "error", !.actions = FALSE]
    /\ End(t)
    /\ UNCHANGED <<auth, dialogs, spinner, covered, table>>

Resume(t) ==
    /\ \/ AuthChecked(t) \/ LoggedIn(t) \/ DefaultsLoaded(t) \/ LoggedOut(t)
       \/ Listed(t) \/ EditLoaded(t) \/ Saved(t) \/ Upgraded(t) \/ Removed(t)
       \/ DetailLoaded(t)
    /\ UNCHANGED world

Next ==
    \/ User \/ LoseSession
    \/ \E t \in Tasks : Serve(t) \/ Resume(t)

Spec == Init /\ [][Next]_vars

-----------------------------------------------------------------------------
(***************************************************************************)
(* Properties.                                                             *)
(***************************************************************************)

\* Every variable has its type.
TypeOK ==
    /\ server \subseteq Runners /\ session \in BOOLEAN
    /\ task \in [Tasks -> Task]
    /\ authenticated \in BOOLEAN /\ multiUserMode \in BOOLEAN
    /\ shown \in {"nothing", "sign in", "sign out"}
    /\ editingName \in Runners \union {None}
    /\ pendingDelete \in Runners \union {None}
    /\ spinner \in BOOLEAN
    /\ open \subseteq {"runner", "delete", "detail", "login"}
    /\ form \in Form
    /\ deleteName \in Runners \union {None}
    /\ detail \in Drawer
    /\ table \in Table
    /\ faults \in Nat
    /\ covered \in BOOLEAN

Quiet == \A t \in Tasks : task[t] = Idle

\* editingName, "null = create mode, string = edit mode" (app.js:12): the form
\* that is up has one runner in its heading, in its fields and in the request
\* that a save will make, and an update that is under way carries values of the
\* runner it goes to.  So it is as long as the overlay is not lowered under a
\* function that waits, which the end of a login, a logout or the first load
\* can do: then two openEdit may overlap and one runner gets the other's values.
EditsStayApart ==
    covered =>
        /\ "runner" \in open =>
            /\ form.title = form.values
            /\ form.values = IF editingName = None THEN New ELSE editingName
        /\ \A t \in Tasks : task[t].op = "update" => task[t].values = task[t].name

\* pendingDelete, "name awaiting confirmation" (app.js:13): the Delete button
\* deletes the runner that its dialog names or, when an earlier executeDelete
\* has cleared the name at its end, nothing; the latter not as long as the
\* overlay covers that executeDelete.
DialogMeansIt ==
    "delete" \in open =>
        \/ pendingDelete = deleteName
        \/ pendingDelete = None /\ ~covered

\* renderUI, renderTable: when nothing is under way, the rows of the table offer
\* Edit and Delete, and the bar its controls, exactly as the page takes the user
\* to be allowed, however logins, logouts and loads have overlapped or failed.
\* The drawer is left out: it is rendered once (app.js:448-458), and its buttons
\* outlive a logout that was under way when it was opened.
ActionsFollowAuth ==
    Quiet =>
        /\ table.actions = authenticated
        /\ multiUserMode => shown = IF authenticated THEN "sign out" ELSE "sign in"

\* loadRunners: when nothing is under way and nothing has failed, the table
\* shows the runners there are, after whatever creations and deletions.
TableIsCurrent ==
    Quiet /\ covered /\ faults = 0 /\ Reads => table.rows = server

\* "Detail side-drawer with full configuration view" (frontend/README.md:9):
\* the drawer shows the configuration of the runner in its heading, unless two
\* openDetail overlapped, of which the one answered last wins.
DetailMatches ==
    ~detail.mixed => detail.body \in {None, "loading", "error", detail.title}

\* showSpinner: no failure, refusal or overlap leaves the overlay up for good;
\* there is always a function under way that will lower it.
PageComesBack == spinner => \E t \in Tasks : Shielded(t)

-----------------------------------------------------------------------------
(***************************************************************************)
(* The inductive invariant behind them.                                    *)
(***************************************************************************)

Named ==
    \A t \in Tasks :
        task[t].op \in {"edit", "create", "update", "delete", "detail"}
            => task[t].name \in Runners

\* What the overlay is there for: whoever has raised it finds it up, and only
\* one of the user's operations is under way.
OverlayCovers ==
    covered =>
        /\ \A t \in Tasks : Shielded(t) => spinner
        /\ \A t, o \in Tasks :
              task[t].op \in Working /\ task[o].op \in Working => t = o
        /\ \A d, e \in open : d = e

\* What a function that waits has set before its await is as it has left it.
WaitsUndisturbed ==
    covered => \A t \in Tasks :
        /\ task[t].op = "edit" =>
            open = {} /\ editingName = task[t].name /\ form.title = task[t].name
        /\ task[t].op = "delete" => "delete" \notin open

\* The drawer waits for one answer, which is the one to its heading.
OneDetail ==
    /\ "detail" \notin open => detail = NoDetail
    /\ "detail" \in open /\ ~detail.mixed =>
          \A t \in Tasks : task[t].op = "detail" => detail.title = task[t].name

\* A change of authenticated is followed by renderUI and renderTable.
Rendering ==
    /\ \/ table.actions = authenticated
       \/ \E t \in Tasks : task[t].at \in {"defaults", "list"}
    /\ \/ multiUserMode => shown = IF authenticated THEN "sign out" ELSE "sign in"
       \/ \E t \in Tasks : task[t].at = "defaults"

\* What the functions of the page rely on across their awaits.
PageInv ==
    /\ TypeOK /\ Named
    /\ OverlayCovers /\ WaitsUndisturbed /\ OneDetail /\ Rendering
    /\ EditsStayApart /\ DialogMeansIt /\ DetailMatches /\ PageComesBack

\* The function loads the list in any case, before it ends.
Reloads(t) ==
    \/ task[t].at = "list"
    \/ task[t].op = "init" /\ task[t].at \in {"auth", "defaults"}
    \/ task[t].op = "login" /\ (task[t].at = "defaults" \/ Ok(t))
    \/ task[t].op \in {"create", "delete"} /\ Ok(t)

\* Behind TableIsCurrent.  As long as nothing fails a list that has been
\* answered is outdated only while another function is under way that the
\* overlay covers, an answer that was refused before a login has one behind it
\* that loads the list again, and so has a table that is not current.
TableInv ==
    /\ faults = 0 => \A t \in Tasks : task[t].got # "failed"
    /\ covered /\ faults = 0 =>
        /\ \A t \in Tasks : task[t].at = "list" =>
            /\ Ok(t) => \/ task[t].rows = server
                        \/ \E o \in Tasks \ {t} : Shielded(o)
            /\ task[t].got = "refused" /\ Reads => \E o \in Tasks \ {t} : Reloads(o)
        /\ Reads => table.rows = server \/ \E t \in Tasks : Reloads(t)

=============================================================================
