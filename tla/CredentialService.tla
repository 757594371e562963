------------------------- MODULE CredentialService -------------------------
(***************************************************************************)
(* What the API promises about the credentials of the teams, told without  *)
(* Kubernetes, Helm, handlers or faults.  A create or an update lays the   *)
(* fields it supplies over those that are there, in one step; it is told   *)
(* of success only after that step, and told of a failure it may or may    *)
(* not have been taken.  A delete dooms the credentials once, before it is *)
(* told of success; they disappear at some time after that.                *)
(***************************************************************************)

CONSTANTS
    Teams, Reqs, Fields,
    Offered,        \* the requests clients may send
    Unset,          \* the value of a field that nobody has written
    NoRequest

VARIABLES
    creds,      \* creds[t]: the credentials of team t, if there are any
    ask,        \* ask[r]: the request
    phase,      \* phase[r]: "new", "rotating", "rotated", "over" or "dead"
    told,       \* told[r]: "nothing", "success" or "failure"
    doomed      \* the deletes that have doomed the credentials of their team

vars == <<creds, ask, phase, told, doomed>>

NoCreds == [exists |-> FALSE, data |-> [f \in Fields |-> Unset]]

Init ==
    /\ \A t \in Teams : creds[t].exists \/ creds[t] = NoCreds
    /\ ask = [r \in Reqs |-> NoRequest]
    /\ phase = [r \in Reqs |-> "new"]
    /\ told = [r \in Reqs |-> "nothing"]
    /\ doomed = {}

\* The requests that have credentials to write.
Rotates(q) == q.kind \in {"create", "update"} /\ q.fields # {}

\* The fields that r supplies get its values; the others stay as they are.
Overlaid(r, old) == [f \in Fields |-> IF f \in ask[r].fields THEN r ELSE old[f]]

Apply(r) ==
    creds' = [creds EXCEPT ![ask[r].team] =
                 [exists |-> TRUE, data |-> Overlaid(r, creds[ask[r].team].data)]]

Move(r, p) == phase' = [phase EXCEPT ![r] = p]

End(r, result) ==
    /\ Move(r, "over")
    /\ told' = [told EXCEPT ![r] = result]

Ask(r) ==
    /\ phase[r] = "new"
    /\ \E q \in Offered :
        /\ ask' = [ask EXCEPT ![r] = q]
        /\ \/ Move(r, IF Rotates(q) THEN "rotating" ELSE "rotated") /\ UNCHANGED told
           \/ End(r, "failure")
    /\ UNCHANGED <<creds, doomed>>

Rotate(r) ==
    /\ phase[r] = "rotating"
    /\ Apply(r)
    /\ Move(r, "rotated")
    /\ UNCHANGED <<ask, told, doomed>>

\* The one way to fail before it is known that the credentials are written.
FailToRotate(r) ==
    /\ phase[r] = "rotating"
    /\ Apply(r) \/ UNCHANGED creds
    /\ End(r, "failure")
    /\ UNCHANGED <<ask, doomed>>

Doom(r) ==
    /\ phase[r] = "rotated" /\ ask[r].kind = "delete"
    /\ doomed' = doomed \union {r}
    /\ UNCHANGED <<creds, ask, phase, told>>

Finish(r) ==
    /\ phase[r] = "rotated"
    /\ \/ End(r, "success") /\ (ask[r].kind = "delete" => r \in doomed)
       \/ End(r, "failure") /\ r \notin doomed
    /\ UNCHANGED <<creds, ask, doomed>>

Vanish(t) ==
    /\ \E r \in doomed : ask[r].team = t
    /\ creds' = [creds EXCEPT ![t] = NoCreds]
    /\ UNCHANGED <<ask, phase, told, doomed>>

\* The server dies with what it was doing.
Crash ==
    /\ phase' = [r \in Reqs |->
                   IF phase[r] \in {"rotating", "rotated"} THEN "dead" ELSE phase[r]]
    /\ UNCHANGED <<creds, ask, told, doomed>>

Next ==
    \/ \E r \in Reqs :
          Ask(r) \/ Rotate(r) \/ FailToRotate(r) \/ Doom(r) \/ Finish(r)
    \/ \E t \in Teams : Vanish(t)
    \/ Crash

Spec == Init /\ [][Next]_vars

=============================================================================
