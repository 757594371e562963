------------------------- MODULE MCFrontendSessions -------------------------
(***************************************************************************)
(* Instances of FrontendSessions for TLC.                                  *)
(***************************************************************************)
EXTENDS FrontendSessions, TLC

MCNames == {"default", "ci", "admin"}
MCTokens == {"old", "new"}

Env(given, map, key, readonly) ==
    [given |-> given, map |-> map, key |-> key, readonly |-> readonly]

NoMap == [n \in {} |-> None]

\* API_TOKENS with API_KEY beside it; rotated, and reads open to all; and an
\* empty API_TOKENS, from which no server starts.
RotatingConfigs ==
    {Env(TRUE, [n \in {"ci"} |-> "old"], "new", FALSE),
     Env(TRUE, [n \in {"ci"} |-> "new"], None, TRUE),
     Env(TRUE, NoMap, "old", FALSE)}

OldHeader == {"old"}

Req(method, path) == [method |-> method, path |-> path]
Write == {Req("POST", "runners")}
AllKeys == {None, "new"}

SessionSymmetry ==
    Permutations(Calls) \union Permutations(Browsers) \union Permutations(Sids)

=============================================================================
