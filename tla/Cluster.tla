------------------------------ MODULE Cluster ------------------------------
(***************************************************************************)
(* What the management API keeps in the Kubernetes cluster, and nowhere    *)
(* else: for each team the namespace arc-<team>, the Secret with its       *)
(* GitHub App credentials, and the revisions of its Helm release, which    *)
(* Helm stores as Secrets of the same namespace.  Kubernetes and the Helm  *)
(* SDK are not in this repository: they are modelled from the way          *)
(* api/internal/k8s/client.go and api/internal/helm/client.go use them.    *)
(*                                                                         *)
(* A stored value is the identity of the request that wrote it: two values *)
(* differ exactly when different requests wrote them, which is all that    *)
(* "carried forward", "overwritten" and "rotated" can tell apart.          *)
(***************************************************************************)
EXTENDS Naturals

CONSTANTS
    Teams,      \* team names
    Reqs,       \* the HTTP requests of a behaviour
    Charts,     \* chart versions an operator may configure
    Fields      \* the keys of the credentials Secret

None == ""          \* the empty string of an omitted field
Prior == "prior"    \* the writer of what was there before the first request
Writers == Reqs \union {Prior}

ASSUME ClusterAssumption ==
    /\ Fields # {}
    /\ None \notin Writers
    /\ None \notin Teams

VARIABLES
    ns,         \* ns[t]: state of the namespace of team t
    secret,     \* secret[t]: the credentials Secret in it
    hist        \* hist[t]: the stored revisions of the Helm release of t

cluster == <<ns, secret, hist>>

(***************************************************************************)
(* Values.  A Helm configuration is cut into githubConfigUrl, the one key  *)
(* the chart requires and an update may leave out, and the rest, which     *)
(* buildValues fills in on every call.                                     *)
(***************************************************************************)
NsState == {"absent", "active", "terminating"}

SecretState == [exists : BOOLEAN, data : [Fields -> Writers \union {None}]]

Blank == [f \in Fields |-> None]
NoSecret == [exists |-> FALSE, data |-> Blank]

Complete(s) == s.exists /\ \A f \in Fields : s.data[f] # None

Config == [url : Writers \union {None}, rest : Writers \union {None}]
NoConfig == [url |-> None, rest |-> None]

Pending == {"pending-install", "pending-upgrade"}
Status == Pending \union {"deployed", "superseded", "failed", "uninstalling"}

Revision == [rev : Nat, status : Status, chart : Charts, cfg : Config]

(***************************************************************************)
(* Helm's storage.  Latest(t) holds the one revision with the highest      *)
(* number, or nothing when there is no release: it is what helm get and    *)
(* helm list return, whatever its status.                                  *)
(***************************************************************************)
Newest(S) == {v \in S : \A w \in S : w.rev <= v.rev}

Latest(t) == Newest(hist[t])

Revs(t) == {v.rev : v \in hist[t]}

Stored(t, n) == n \in Revs(t)

\* Releases.Create: a revision is stored under its number.
StoreIn(h, v) == {w \in h : w.rev # v.rev} \union {v}

\* Releases.Update of each revision of S: it replaces what is stored under
\* that number, whatever became of it in the meantime, and fails if there is
\* nothing.
Updated(h, S) ==
    {w \in h : \A v \in S : w.rev # v.rev}
    \union {v \in S : \E w \in h : w.rev = v.rev}

As(v, status) == [v EXCEPT !.status = status]

\* What helm upgrade works from when v is the latest revision: the deployed
\* one, else v itself unless it is being uninstalled; and nothing while v is
\* pending.
Base(t, v) ==
    LET deployed == Newest({w \in hist[t] : w.status = "deployed"})
    IN  CASE v.status \in Pending -> {}
          [] v.status = "deployed" -> {v}
          [] v.status \in {"failed", "superseded"} ->
                IF deployed # {} THEN deployed ELSE {v}
          [] v.status = "uninstalling" -> deployed

\* purgeReleases deletes the revisions S in ascending order and stops at the
\* first one that is no longer there.
PurgeFrom(t, S) ==
    {v \in hist[t] :
        ~(v.rev \in S /\ \A n \in S : n <= v.rev => Stored(t, n))}

(***************************************************************************)
(* The namespace controller: a terminating namespace loses its objects,    *)
(* then itself.  Objects cannot be created in it meanwhile, those still    *)
(* there can be read and updated.                                          *)
(***************************************************************************)
NsEmpty(t) ==
    /\ ns[t] = "terminating"
    /\ secret[t].exists \/ hist[t] # {}
    /\ secret' = [secret EXCEPT ![t] = NoSecret]
    /\ hist' = [hist EXCEPT ![t] = {}]
    /\ UNCHANGED ns

NsGone(t) ==
    /\ ns[t] = "terminating"
    /\ ~secret[t].exists /\ hist[t] = {}
    /\ ns' = [ns EXCEPT ![t] = "absent"]
    /\ UNCHANGED <<secret, hist>>

ClusterTypeOK ==
    /\ ns \in [Teams -> NsState]
    /\ secret \in [Teams -> SecretState]
    /\ hist \in [Teams -> SUBSET Revision]

=============================================================================
