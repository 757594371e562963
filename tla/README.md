# Verification of arc-runner-manager

TLA+ models of the runner management API, its frontend server and its web page,
the TLC runs that check them and the theorems TLAPS proves about them. File and
line references are to this repository.

## 1. The system

| Part | State it keeps | Operations | Talks to |
|---|---|---|---|
| API handlers, `api/internal/api/handlers.go` | none between requests | create, update, delete, upgrade-chart; list, get, defaults, healthz | Helm client, Kubernetes client |
| Helm client, `api/internal/helm/client.go` | chart cache in `/tmp/helm-charts` | Install, Upgrade, UpgradeChart, Uninstall, Get, List, loadChart, buildValues | Helm SDK; releases are Secrets in the team's namespace |
| Kubernetes client, `api/internal/k8s/client.go` | none | EnsureNamespace, UpsertGitHubAppSecret, DeleteNamespace, reads | API server |
| Server, `api/cmd/server/main.go` | configuration (chart version, tokens) of the process | start, 60 s timeout, shutdown | all of the above |
| Auth, `api/internal/middleware/auth.go`, `api/pkg/config/config.go` | token set, readonly flag | token check per request | handlers |
| Frontend server, `frontend/main.go` | sessions in memory | login, logout, me, proxy | API over HTTP |
| Web client, `frontend/static/js/app.js` | form, dialog and table state | load, edit, save, delete, upgrade all | frontend server |

All lasting state is in the cluster: for a team, the namespace `arc-<team>`, in
it the Secret `arc-<team>-github-app`, and the revisions of the Helm release
`arc-<team>`. Each HTTP request runs in a goroutine of its own and nothing is
locked: two requests for one team interleave at every call to the cluster. A
request can lose its context (client gone, timeout); the kill of the process
leaves whatever the last call had done, and the client without an answer;
Kubernetes deletes a namespace in the background, from the call of `DeleteRunner`
on, be it answered or not. Helm works in a goroutine of its own that a request
waits for: when the request loses its context Helm answers an error and the
goroutine goes on.

### What is hard here

* three stores written one after the other without a transaction, by requests
  that overlap, fail half way, are cancelled or die with the server;
* reads that are old when used: the Secret that is written back, the release
  status Install decides on, the values a chart upgrade redeploys, the chart
  versions of a list;
* a namespace that terminates while the next create runs;
* what a failed, cancelled or killed attempt leaves for the next one, between any
  two records that Helm makes, and what Helm's goroutine stores after the answer;
* one failing release among many in the upgrade loop;
* a chart directory that several first requests fill without a lock, and that
  outlives the process;
* values with three sources of defaults (server, page, release) and two number
  types on their way through the form and back;
* a session that outlives the token it was made with, sessions that do not
  outlive the frontend server, Set-Cookie headers that cross, and tabs that share
  one cookie;
* one page whose asynchronous functions share a form, two names, three dialogs
  and one spinner overlay, and get their answers in any order.

`PROJECT.json` lists each hazard at its line with the properties aimed at it.

### What makes each part correct

* Kubernetes client: a rotation writes the supplied fields and no others, also
  against another rotation; a namespace exists before its Secret.
* Handlers: credentials stand before a release does; a retried create gets over
  a failed one; the answer says what happened; every request ends; a delete
  finishes although its client has gone.
* Helm client: a chart upgrade keeps the values; a release is skipped only if it
  is up to date; an edit changes what the user has touched; a chart is loaded
  whole.
* Auth and frontend server: writes only with a token that is valid then and that
  belongs to the session; a logout is final; browsers do not mix.
* Web page: what is saved, deleted or shown is the runner the dialog names; what
  the table and the bar offer follows the authentication; the overlay comes down.

## 2. Modules

| Module | Content |
|---|---|
| `Cluster` | the stores: namespace, Secret, revisions, Helm's storage rules, the namespace controller (external code, from the way `src/` uses it) |
| `RunnerApi` | the four changing handlers with everything they call, faults, cancellation, crashes, fairness, on top of `Cluster` |
| `RunnerInvariant` | the inductive invariants of `RunnerApi`: `IInv`, and on top of it `ReportInv` and `UndisturbedInv` |
| `CredentialService` | an abstract service: credentials of teams, rotated in one step |
| `RunnerService` | another: the runners of teams, each with one request at work on it at a time |
| `RunnerRefinement` | the mappings under which `RunnerApi` implements both, and `DeployInv`, what the second rests on |
| `RunnerClaims` | statements of the documents, comments and tests that the handlers do not keep |
| `RunnerValues` | the values of one runner: `buildValues`, the merge, `releaseToModel`, the page's form and defaults |
| `ChartCache` | `loadChart` by concurrent requests, with Helm's pull, untar and loader |
| `TokenAuth` | tokens of the environment, the token store, both middlewares, the open routes (operators only) |
| `FrontendSessions` | the frontend server between browsers and the API, composed with `TokenAuth` |
| `WebClient` | all async functions of one page |
| `...Proofs` | theorems and proofs about the module named before; `RunnerReportProofs` and `RunnerUndisturbedProofs` are about `RunnerApi` as well |
| `MC...` | menus, values and symmetry for TLC |

Definitions under a comment "Mutant:" are not part of the models: each is a
plausible bug that stands in for the definition below it, to see that a
property can fail.

### From the code to the model: `RunnerApi`

*State.* `ns[t]`, `secret[t]`, `hist[t]` are the three stores. A stored value is
the identity of the request that wrote it (`"prior"` for what was there before,
`""` for empty): this tells apart whatever "overwritten", "carried forward" and
"rotated" can. A revision has number, status, chart version and configuration;
the configuration is cut in `url` (`githubConfigUrl`, the one key an update may
leave out and the chart cannot do without) and `rest` (`buildValues` writes all
other keys on every call). `Latest(t)` is what `helm get` and `helm list`
return: the highest revision, whatever its status. A request has `pc` (its next
call to the cluster), `arg`, `cur` (the team it is working on), `loc` (what it
read or built), `resp` (the status code), `outcome` (the report of upgrade-chart).
`late` holds Helm's goroutines that outlive the request they served. Two variables only
record history: `disturbed`, the requests that met a fault, a cancelled run of Helm or a
rival, for properties about requests that met none; and `removing`, the deletes that got
so far as to ask for their namespace to go.

*Actions.* One action is one call to the cluster and the code up to the next.

| Handler | Actions in order |
|---|---|
| `CreateRunner` | `Receive` (validation, 422), `NsGet`, `NsCreate`, `SecretGet`, `SecretCreate` or `SecretUpdate`, `InstallGet`, then `InstallRun`, `InstallWait`, or over a failed release `UpgradeGet`, `UpgradeRun`, `UpgradeWait`, `UpgradeRecord`; `Reply` |
| `UpdateRunner` | `Receive`, the Secret actions when a credential field is supplied, `UpgradeGet`, `UpgradeRun`, `UpgradeWait`, `UpgradeRecord`, `Reply` |
| `UpgradeAllRunners` | `List`, then per release `NextRelease`, `ChartGet`, `UpgradeRun`, `UpgradeWait`, `UpgradeRecord` |
| `DeleteRunner` | `UninstallRun`, `UninstallWait`, `NsDelete`, `Reply` |

Helm operations take several actions because Helm stores a pending (or
uninstalling) revision before it works and the final ones after it: rivals see
the first, and a crash leaves what has been stored. An install ends with one
record (`InstallWait`), an upgrade with two: the goroutine marks the original
superseded (`UpgradeWait`), then the caller marks the new revision deployed
(`UpgradeRecord`). Helm only logs a failure of an install's record, which is then
answered 201 over a pending release, and of the first of an upgrade, after which
two revisions are deployed. Where the work itself fails (`RunFails`) the original is
stored again as it was read and the new revision as failed. A request whose
context ends while it waits (`Abandoned`: the client hangs up, or the 60 s of
`main.go:78` are over before the 3 minutes of `helm/client.go:245`) records its
revision as failed and answers an error; the goroutine it leaves in `late` goes on:
that of an install stores the revision as deployed after all, that of an upgrade
marks the original superseded, and nobody is left to mark the new one deployed
(`LateDone`, `LateFailed`). `Late` dies with the server.

`Reply` is the answer as a step of its own, after the last call that changes
something: a kill before it leaves the runner deployed, or the namespace
terminating, and the client without an answer. `ChartUnavailable` is `loadChart`
failing, perhaps in the words "not found". `Code` is the error mapping of the
handlers with `isNotFound`. `Cancel`, `Crash` and `Namespaces` (`NsEmpty`,
`NsGone`) are the world around. A Kubernetes call fails once the request's context
is gone. Helm's reads, uninstall and the namespace deletion ignore the context. A
failing write may have been applied.

`CredentialService` says of the credentials what a client may rely on without
knowing Kubernetes: a request overlays its fields in one step; success is told
only after that step; a delete dooms the credentials before it is told of success,
and they disappear at some time after they were doomed, whether or not it was ever
told. In `RunnerRefinement` a team's `creds` are its Secret, `doomed` is `removing`, a
request is `rotating` until the call that writes the Secret has returned, and `told`
is the class of the status code.

`RunnerService` does the same for the runners, without namespaces, revisions and reads.
A team has one runner or none, `shown` with a status, a chart and a configuration, and
`work` holds the request that is at work on it, one at most. That request shows a
configuration of its own as pending (`Begin`; `Of`: the url may be another request's, the
rest is its own) and ends by showing it deployed (`Succeed`). Only if a call fails or its
client hangs up (`~Spared`) may it end otherwise: fail with the runner pending, failed or
deployed, or succeed with it pending or failed. A chart upgrade does so for each release
of its list, with any configuration that requests for that team supplied (`Configs`), and
books each. A request that is not at work fails and changes nothing (`Refuse`), unless
the call that was to show the new configuration is the one that fails. A kill (`Crash`)
may come in any of these states, also when the work is done and the answer not told
(`stage` is `done`). A create whose client hung up may be deployed after it was told of
failure (`DeployLate`). No runner is lost unless somebody has asked to delete it
(`Doomed`), after which what is shown of it, and how many work on it, is left open. A team's `shown` is its latest revision,
`work` is who waits for Helm on it, `stage` and `told` follow from place and status code,
`report` is `outcome`. That the service speaks of the latest revision and not of the
deployed one is what the code leaves: a cancelled or killed upgrade leaves the original
superseded and nothing deployed, and a failed first record leaves two deployed. What it
leaves open besides is what the code leaves open: a chart upgrade may go back to values
from before an update that overlapped it; a create whose revision a rival delete purged
is told of success.

*Left out and condensed.* Bodies that are not JSON (400 before anything happens),
logging, the contents of responses, the chart's Kubernetes objects. When an install's
client hangs up, Helm's caller and its goroutine record the revision one after the other,
in either order; where the caller is last the model leaves out the moment in between. A purge that fails half way is
all or nothing. With the context of an upgrade gone between its two records, which of
Helm's goroutines the caller hears of and what is stored is left open, in one step.

### `RunnerValues`

`release` is the stored release (`status`, `values`), `defaults` the server's
environment, `page` the defaults the page has loaded, `form` the dialog with its
fields, those the user has `touched`, and what was `read` from the API. A value is
a string, a count or empty; the resource and storage options, which the code
treats alike, are a function over `Options`. `BuildValues` and `Merge` are the
code's, with the zero values Go and JSON give omitted fields; `ReleaseToModel`
takes the type of the counts: the ints of a release that was just deployed, which
it does not read, or the floats of one read back, which it does (`Shown`).
`ClearForm`, `PopulateForm` and `BuildPayload` are the page's. Actions: `Post`,
`Put`, `Delete` by other clients, `Restart` with other defaults, `Load`,
`OpenCreate`, `OpenEdit`, `Type`, `Save`. A request is one step here; its
interleavings are `RunnerApi`'s.

### `ChartCache`

`disk[v][f]` is what a file of a chart version holds (nothing, truncated, whole),
`at[r]` where a request is in `loadChart`: `StartLoad` and `ReadFile` (the loader,
file by file), `EndLoad`, `Pull` with its check that the chart's directory is not
there, `Stat` of the archive, `Mkdir`, `Truncate` and `WriteFile` for each file,
`Expanded`, and the second load. `Fault` lets a pull or a write fail, `Crash` ends
all requests and keeps the disk: `/tmp` is an emptyDir. `upset` records the
versions whose first pull was cut short or overlapped.

### `FrontendSessions`

A call has a place: the frontend server (`frontend`), the store step of a login,
the API, its answer on the way, its script waiting, the page about to render.
`SubmitLogin`, `Logout`, `Fetch`, `Reload` send; `LoginValidate`, `LoginStore`,
`HandleLogout`, `HandleMe`, `HandleProxy` are the handlers; `Serve` is the API behind
`TokenAuth!Admits`; `Deliver` applies Set-Cookie when headers arrive, `RunScript` and
`Render` are the page's continuations, `Lose` a connection that breaks, before the
headers of the answer or after them.
One page of each browser is followed. Other tabs of the browser share its cookie:
`TabSends` is a login or logout in one of them, `TabReceives` the arrival of its answer,
whose Set-Cookie is for both; the page followed hears nothing of it. What other tabs
fetch through the proxy is a `Fetch`, which any client with the cookie may send.
`RestartFrontend` forgets all sessions, `RestartApi` may change tokens and mode;
`upsets` bounds restarts and calls of other tabs.
`typed`, `ended`, `crossed` only record history for the properties. Not modelled: a login
dialog that was opened while the bar showed "Sign In" and is submitted after it shows
"Sign Out" (`app.js:95-104`); the model submits from "Sign In" only.

### `WebClient`

`task[t]` is an async function that waits: which (`op`), for which fetch (`at`), with
the `name` and the form's `values` it was called with, and the answer once it is
there. A function runs from one await to the next in one action: `OpenEdit` to
`EditLoaded`, `SaveRunner` to `Saved` to `Listed`, `ExecuteDelete` to `Removed` to
`Listed`, `SubmitLogin` to `LoggedIn` to `DefaultsLoaded` to `Listed`, and so on.
`Serve` answers: with success, a refusal, or a failure that may have been executed.
`form.title` is the heading of the form, `form.values` whose values its fields hold:
a payload is wrong when they differ. The overlay (`spinner`) covers the page and an
open dialog what is behind it, which is what `OnPage` and `InDialog` say; what is
offered in the table is `table`, in the drawer `detail.actions`; actions by
keyboard behind the overlay, and Bootstrap's animations, are left out. Two fields
only record history: `covered`, that the overlay was never lowered under a function
that had raised it, and `detail.mixed`, that the drawer was opened while another
`openDetail` waited.

## 3. Runs

All safety runs use `Spec`, the liveness run `FairSpec`. `CHECK_DEADLOCK FALSE`:
when all requests of a behaviour are answered the server is rightly idle.

| Run | Instance | Properties |
|---|---|---|
| `lifecycle` | one team, with a runner or without; three requests out of create, rotation of either credential, delete; 1 fault, 1 cancelled request, 1 crash | `TypeOK`, `IInv`, `CredentialsBeforeRelease`, `RotationWritesOnlyItsFields`, `CleanCreateSucceeds`, `CredentialsAreAtomic` |
| `chart_upgrade` | two teams, two chart versions; two requests out of upgrade-chart and, for one team, valid and invalid create, update of the url, delete; 1 fault, 1 cancelled request, 1 crash that may change the configured version | `ReportIsTrue`, `ReportInv`, `DeployInv`, `UndisturbedInv`, `UndisturbedUpgradeKeepsValues`, `RunnersAreRequested` |
| `liveness` | two teams, two requests, 1 fault, 1 cancelled request | `EveryRequestAnswered`, `DeleteReachesNamespace` |
| `values` | one runner, one option, two sets of defaults, four bodies, counts to 2, 1 restart | `TypeOK`, `UntouchedFieldsSurvive`, `CreateIsFresh` |
| `chart_cache` | three requests, two versions, Chart.yaml and one more file; 1 fault, 1 crash | `TypeOK`, `CacheInv`, `SettledStaysSettled`, `CleanLoadIsWhole` |
| `sessions` | two browsers, three calls, two session ids, two tokens, single-key and multi-user mode, an API that asks all for tokens and a readonly one; 1 fault, 1 upset: a restart of either server, or a login or logout in another tab | `TypeOK`, `SessionInv`, `LoginInv`, `EndedStaysEnded`, `PageKnowsItsSession`, `ControlsFollow`, `WritesAreAuthorized` |
| `web_client` | two runners, two functions that wait at once, an API that asks for tokens; 1 failed fetch or lost session | `TypeOK`, `PageInv`, `TableInv`, `EditsStayApart`, `DialogMeansIt`, `ActionsFollowAuth`, `TableIsCurrent`, `DetailMatches`, `PageComesBack` |

What they show:

* `CredentialsBeforeRelease`: a release never stands without its namespace and
  a complete Secret, unless a DELETE of the team got so far as to ask for the
  namespace to go. Whether it was answered does not matter: the server may be killed
  between that call and the 204 (`handlers.go:270-275`), the namespace terminates
  all the same, and the next create goes into it. See also `claim_secret`.
* `RotationWritesOnlyItsFields`: no field is blanked or set back by a rotation
  of another one, because the write carries the version that was read.
* `CredentialsAreAtomic`: the refinement. Read, overlay and conditional write, with
  all that can come between and go wrong, look like one step per request.
* `RunnersAreRequested`: the other refinement. Whatever overlaps, fails, is cancelled,
  goes on late or dies, one request at a time works on a runner that nobody has asked to
  delete, what it shows was asked for by requests for that team, with the chart that is
  configured, and it is never lost; the request at work tells success with its
  configuration deployed, and failure only when a call failed or its client hung up. It
  does not say that a runner is deployed all the time: after a cancelled or killed
  upgrade nothing is.
* `CleanCreateSucceeds`: a create that meets no fault and no rival gets over
  what a failed install left. It does not get over a release left pending by a
  crash, which the property excludes, and which only DELETE clears.
* `UndisturbedUpgradeKeepsValues`: values are carried forward as documented
  when requests do not overlap.
* `ReportIsTrue`: upgrade-chart accounts for every release it listed, and what
  it calls upgraded was deployed with the configured version, unless its client has hung
  up (then Helm may report either way) or the runner is being deleted.
* `EveryRequestAnswered`, `DeleteReachesNamespace`: see the fairness below. The
  second is about deletes in which no call fails.
* `UntouchedFieldsSurvive`, `CreateIsFresh`: old defaults in the page, new ones in
  the server, zero counts and both number types do not leak into an edit that did
  not touch them, nor the values of a failed install into the next create.
* `SettledStaysSettled`, `CleanLoadIsWhole`: once a chart is complete nobody writes to
  it again, and a request that starts when no pull is under way, and meets no fault
  and no remains of a pull that was cut short, loads all of it.
* `SessionInv`, `EndedStaysEnded`, `WritesAreAuthorized`: see section 1; the last also
  says that neither a client's own header nor a token that was valid at login only
  gets a write through.
* `PageKnowsItsSession`, `ControlsFollow`: once nothing is under way in a page, its
  idea of being signed in agrees with the session, from each load of the page on until
  logins and logouts overlap, another tab signs in or out, or the frontend is restarted.
  None of these tells the page, which may then stay signed in with a dead session; its
  writes are refused, and its next load sets it right. Its controls always agree with
  its idea.
* `EditsStayApart`, `DialogMeansIt`: edits and deletes meet the runner the dialog
  names. Both rest on the overlay, which keeps a second edit or delete from starting;
  the end of a login, a logout or the first load lowers it for everyone, and after
  that (`~covered`) two edits can overlap and one runner get the other's values.
* `DetailMatches` holds unless two `openDetail` overlap (`detail.mixed`); then the
  later answer wins whatever the heading says. TLC finds both properties violated without the exceptions.
* `TableIsCurrent`, `ActionsFollowAuth`, `PageComesBack`: after any overlap the table,
  the buttons and the overlay come to rest as they should.

### Bounds and why they are enough

* `Reqs`: three overlapping requests in `lifecycle`, where what one leaves behind meets
  two rivals. `chart_upgrade` has two: with the goroutine that a cancelled one leaves,
  and two teams, three of them are beyond five minutes; the theorems hold for any
  number. Symmetry over requests, credential fields (in `lifecycle`, whose menu treats
  both alike), calls, browsers, session ids, runners and tasks is sound: no definition
  tells them apart. The liveness run uses no symmetry.
* Teams: the handlers of different teams share nothing but the upgrade loop;
  two teams let the loop go on after a failure.
* Credential fields: two stand for three, one that a partial rotation supplies
  and one it leaves out. The proofs hold for any set.
* Charts: the installed version and a newer one. Files: the one the loader insists
  on and another.
* Options, strings, counts: one option stands for seven that the code treats alike;
  two strings and the empty one tell supplied, stored, default and omitted apart;
  0, 1 and 2 are omitted, minimum and maximum.
* Browsers, tokens: two of each, so that one can be mistaken for the other.
* Functions of the page: two that wait at once. Every race of the page is between
  two of them; a third (two edits after the overlay was lowered by a logout) is what
  `~covered` stands for, and the run reaches it with the logout over. The proofs hold
  for any number of functions.
* `MaxFaults`, `MaxCancels`, `MaxCrashes`, `MaxRestarts`, `MaxUpsets`: one each, in any
  place; the liveness run has no crash, with which every request may end at any time.
  Requests run once each, so revisions need no bound of their own. Page and values
  loop for ever in finitely many states.

### Fairness

Weak fairness of each request's `Step`: the Go scheduler runs every goroutine
and every call returns (Helm's waits end after 3 minutes, client-go's calls with
the context or the connection). Weak fairness of the namespace controller is
Kubernetes' own promise, finalizers apart. Clients, cancellation, crashes and the
goroutines Helm leaves behind get none. No property rests on strong fairness. The other modules state no liveness;
what must happen in the page is stated as safety: `PageComesBack` says that there is
always someone left to lower the overlay.

## 4. What the code does not keep

Each of these runs expects a violation, and TLC finds it.

| Run | Claim | What happens |
|---|---|---|
| `claim_secret` | a deployed runner has its Secret (`README.md:25-28`) | a POST soon after a DELETE takes the terminating namespace for an existing one (`k8s/client.go:32-35`) and updates the Secret in it; both go; `helm install` makes the namespace anew and answers 201. The two requests do not even overlap |
| `claim_duplicate` | creating a runner that exists fails (`e2e/runners_test.go:286`) | two POSTs that both see a failed install are both answered 201 |
| `claim_skipped` | runners at the target version are skipped (`handlers.go:93`) | one whose last upgrade failed is skipped too: the failed revision carries the new version |
| `claim_cache_shared` | concurrent upgrades share the same cached chart (`helm/client.go:261-262`) | of two first requests one loads the part of the chart the other has untarred so far, and deploys it |
| `claim_carried` | fields omitted from a PUT are carried forward (`api/README.md:100`, `models.go:65`) | counts become 0, options the server's defaults and the label the team's name: `buildValues` fills them in and the merge lets them win |

Seen while modelling, each expressed by the models but without a run of its own:

* DELETE is answered 204 although the namespace stays, when that call fails
  (`handlers.go:269-275` against `api/README.md:104`); a second DELETE gets 404.
* A chart upgrade undoes a PUT answered between its read and its write
  (`helm/client.go:236` against `:222-223`).
* A POST for a runner that exists replaces its credentials before it is refused
  (`handlers.go:188`).
* A PUT with credentials for a runner that does not exist gets 500 instead of 404.
* A pull that was cut short leaves a directory that can neither be loaded nor be
  untarred into (`helm/client.go:268-300`).
* A readonly API makes every login succeed (`frontend/main.go:144-145`, `:232`).
* `DefaultMinRunners` is shown but never applied (`config.go:28-29`).
* The answers of POST and PUT show runner counts of 0 (`handlers.go:309`).
* A login and a logout that overlap, or a logout in another tab, can leave a page signed
  in with a dead session.
* The buttons of the drawer outlive a logout that was under way when it was opened
  (`app.js:448-458`).
* A chart upgrade that takes longer than 60 s is reported failed, and leaves nothing
  deployed although the new chart is running (`main.go:78`, `helm/client.go:244-249`).
* A POST is answered 201 over a release that stays pending when Helm cannot store its
  final record (`helm/client.go:139-144`); every later POST and PUT is then refused.

## 5. What is proved

All theorems hold for any values of the constants: any sets of teams, requests,
versions, files, browsers, tokens, runners, and any bounds on faults and crashes.

| Module | Theorems |
|---|---|
| `RunnerApiProofs` | `TypeCorrect`, `Invariance` (`[]IInv`), `CredentialsFirst` (`[]CredentialsBeforeRelease`), `Rotation` (`RotationWritesOnlyItsFields`) |
| `RunnerRefinementProofs` | `Refinement`: `Spec => CredentialsAreAtomic`, that is `CredentialService!Spec` under the mapping |
| `RunnerReportProofs` | `ReportInvariance` (`[]ReportInv`), `ReportTrue` (`[]ReportIsTrue`), `DeployInvariance` (`[]DeployInv`), `RunnersFollowRequests`: `Spec => RunnersAreRequested`, that is `RunnerService!Spec` under the mapping |
| `RunnerUndisturbedProofs` | `UndisturbedInvariance` (`[]UndisturbedInv`), `KeepsValues` (`UndisturbedUpgradeKeepsValues`), `CreateSucceeds` (`CleanCreateSucceeds`) |
| `RunnerValuesProofs` | `TypeCorrect`, `EditIsFaithful` (`UntouchedFieldsSurvive`), `FreshCreate` (`CreateIsFresh`) |
| `ChartCacheProofs` | `TypeCorrect`, `CacheInvariance` (`[]CacheInv`), `SettledForGood` (`SettledStaysSettled`), `CleanLoad` (`CleanLoadIsWhole`) |
| `FrontendSessionsProofs` | `TypeCorrect`, `SessionInvariance` (`[]SessionInv`), `LogoutIsFinal` (`[]EndedStaysEnded`), `WritesAuthorized` (`WritesAreAuthorized`), `LoginInvariance` (`[]LoginInv`), `PagesKnow` (`[]PageKnowsItsSession`), `ControlsAtRest` (`[]ControlsFollow`) |
| `WebClientProofs` | `PageInvariance` (`[]PageInv`), `TypeCorrect`, `EditsNeverMix` (`[]EditsStayApart`), `DeleteIsAsConfirmed` (`[]DialogMeansIt`), `DrawerMatches` (`[]DetailMatches`), `OverlayHasCause` (`[]PageComesBack`), `ActionsAreAllowed` (`[]ActionsFollowAuth`), `TableInvariance` (`[]TableInv`), `TableCurrent` (`[]TableIsCurrent`) |

*Assumptions*, each named where its constants are declared and evaluated by TLC:
`ClusterAssumption` (there is a credential field; the empty string is no request
and no team), `ApiAssumption` (the menu consists of requests, all but upgrade-chart
name a team; the bounds are numbers), `ValuesAssumption`, `CacheAssumption`,
`TokenAssumption`, `SessionAssumption` and `PageAssumption` (the menus consist of
what they are menus of, marker values such as `None` are no members of the sets they
mark, bounds are numbers).

*`RunnerApi`.* `TypeOK` alone is not inductive: that a create is never answered
404 needs to know which handler makes a call. `InPlace` supplies that: the kind
of a request fits its place, a request is answered once, a create under way
passed validation. `CredentialsBeforeRelease` is not inductive either: to see
that `InstallRun` stores a release only beside a complete Secret one must know
that the create past its Secret step left one (`Prepared`), that nothing takes
it away (`Standing`: no namespace terminates unless a DELETE got as far as asking for
it, a Secret stands only in an active namespace) and that rotations keep it complete
(`CompleteStays`). What Helm stores again, the original of an upgrade or the record of
a goroutine it left behind, must not take the place of another revision (`Numbers`:
numbers are unique, and what is deployed has one above what it is deployed over). The lemmas `StepSecret`, `StepNamespace`, `StepRelease`, `StepHistory`,
`LateHistory` and `StepIsLocal` state once what any step can do to each store; `StepSafe` combines
them. For `Rotation` the invariant adds that a Secret that is not there holds
nothing (`SecretsOK`), so that a create turns no field from one value to another.

*The refinement of `CredentialService`.* `InitRefines` maps initial states, `NextRefines` maps every step to
a step of `CredentialService` or a stutter, from `IInv` and the fact that all requests
but upgrade-chart keep to the team they name (`Ground`). `StepShape` says what one
call can do to place and answer of its request;
`WriteApplies` that the conditional write of a Secret that was read earlier is the
overlay on the Secret that is there now, because the version has not moved.

*The report.* That a release booked as upgraded has been deployed needs to know that no
rival's final record, and none that Helm's goroutine makes late, replaced the revision in
between. `ReportInv` therefore says that a request that waits for Helm owns a pending
revision nobody else stores under, that whatever else may be stored again concerns a
settled one (`RevisionsApart`), and that what is booked stands in the history and nobody
is about to store it otherwise (`BookedIsDone`), for the teams nobody asked to delete: a
purge takes revisions away, and numbers start again at 1. `StepRewrites` and
`LateIsRewrite` state once what a step can do to a history, `StepApart` and
`StepBooks` follow from them.

*The refinement of `RunnerService`.* It needs to know what a request is about to deploy
long before it does: `DeployInv` says that it is a configuration it may deploy
(`MayDeploy`), that all revisions of a team, the originals that may be stored again and
what goroutines left behind may store have configurations that requests for it supplied,
that a late record of the latest revision changes nothing but the status of a create, and
that a chart upgrade works on a release it has not booked. `ConfigsGrow` shows that what
may be deployed once may be deployed later, `StepConfigs` and `LateConfigs` that a step
keeps to it, also on a team that is being deleted, `OwnStepKeepsPlace` follows the values
from the read through the merge to Helm. `GainsLatest`, `ContinuesLatest`, `EndsLatest`
and `LateLatest` say what becomes of the runner that is shown at the begin, between the
two records, at the end and after it; `StepEnds` lists the ways a step can end, and one
lemma for each maps it to a step of the service or a stutter (`MovesRefine`,
`FailsRefine`, `ContinueRefines`, `EndRefines`, `ListRefines`, `ReplyRefines`,
`LateRefines` and others).

*Undisturbed requests.* `UndisturbedInv` says that a request that met no fault and no
rival is the only one at work on its team, so that the Secret it read, the history it
decided on and the values it merged are still those of the cluster, unless the
namespace of an earlier DELETE goes away under it (`Recent`). `StepKeepsToTeam` and
`RivalsAreElsewhere` show that others leave this alone, `OwnStepKeepsRecent` that its
own steps bring it about. `KeepsValues` needs no more than this and the uniqueness of
the latest revision (`LatestIsOne`); for `CreateSucceeds` the lemma `CreateFailsFor` goes
through every way a create can end in 500.

*`RunnerValues`.* The invariant adds to the types, by which a release has a url and
full options, that an edit form shows what it was filled from wherever the user
has not touched it (`Faithful`). `EditIsFaithful` follows the form from `Shown` through
`PopulateForm`, the untouched fields of `BuildPayload` and
`BuildValues` into the merge; `FreshCreate` shows that `BuildValues` leaves no key for
the merge to take from the old release.

*`ChartCache`.* `CleanLoadIsWhole` is not inductive. `CacheInv` speaks of the
versions that are not `upset`: a directory is whole or being expanded (`DirsWhole`),
until it is settled one request is in `loadChart` at most (`Alone`), which finds no
directory before it makes one (`Missing`) and has written all it has not left to write
(`Filled`), and whoever reads reads a settled chart (`ReadWhole`).

*`FrontendSessions`.* A session belongs to a browser if its token was typed there. That is
inductive only together with the same for every cookie, request and Set-Cookie
under way (`SessionsAreOwn`, `TokensAreOwn`), and with ids that are drawn before they are
used (`SidsAreDrawn`), so that a new session takes over nobody's cookie.
`LoginInv` is what the page relies on: while `checkAuthState` waits nothing else is asked
about the session (`LoadsAlone`), a session id is known to one browser only
(`SidsStayHome`), so that no other browser ends its session, somebody is about to render
or the controls are right (`ControlsLag`), and unless logins and logouts have crossed they
follow one another, each with the answer that fits the session as it is then
(`Settling`, `Expected`). Calls of another tab upset the page they share the cookie with
(`TabsCross`), and no other.

*`WebClient`.* What a function set before its await is as it left it when it goes on
(`WaitsUndisturbed`), because the overlay is up under every function that raised it and
lets only one operation run (`OverlayCovers`), as long as `covered`. `OneDetail` is the
drawer's counterpart without an overlay, `Rendering` says that a change of
`authenticated` is always followed by the function that renders it, `Named` that an
operation has a runner. One lemma per action, one step in it per conjunct. `TableInv`
traces a table that is out of date to its cause: as long as nothing fails, a function is
under way that will load the list (`Reloads`), and a list that was answered before the
runners changed has a function behind it that the overlay covers.

Only model-checked: the liveness properties `EveryRequestAnswered` and
`DeleteReachesNamespace`, which are out of the prover's reach. Every other property of the
passing runs is stated by a theorem. The violations of section 4 are TLC's.

## 6. What is not modelled, and why

* `Healthz`, the pod counts and `secretExists` of list and get: display only.
* `DeleteSecret`, `NamespacedManagedBy`, `TokenNameFromContext`: nothing calls them.
* `restclientgetter.go`: an adapter without state.
* The choice of a kubeconfig, logging, panics recovered by the router.
* Expiry of sessions: there is none; a session ends with a logout or a restart.
* The page's keyboard access behind the overlay, animations, toasts, escaping.
* Charts, Dockerfiles, Taskfile: configuration. `replicaCount: 1`
  (`charts/arc-runner-manager/values.yaml:11`) is why there is one server.

## 7. What could come next

* `RunnerService` with a configuration that is never older than the last update, where
  chart upgrades and updates do not overlap.
* Helm's purge revision by revision.
* Two pages of one browser, each followed.
* The answers' contents: that a GET between two requests shows what was deployed.
* Uninstalls and namespaces in the abstract services: when a team may be created again.
