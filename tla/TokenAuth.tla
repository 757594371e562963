----------------------------- MODULE TokenAuth -----------------------------
(***************************************************************************)
(* Who may call the API: the tokens of the environment                     *)
(* (api/pkg/config/config.go), the token store and the two middlewares     *)
(* (api/internal/middleware/auth.go), and the routes they stand before     *)
(* (api/cmd/server/main.go).                                               *)
(***************************************************************************)
EXTENDS Functions

CONSTANTS
    Names,      \* token names, the empty one included if an environment has it
    Tokens      \* token values, none of them empty

None == ""      \* Go's zero string: no name, no token, no header

ASSUME TokenAssumption == None \notin Tokens /\ "default" \in Names

Empty == [n \in {} |-> None]

\* What the environment may hold; given says whether API_TOKENS is set.
Maps == UNION {[D -> Tokens \union {None}] : D \in SUBSET Names}
Environments ==
    [given : BOOLEAN, map : Maps, key : Tokens \union {None}, readonly : BOOLEAN]

\* loadTokens returns an error: API_TOKENS names no token, or an empty one.
LoadFails(env) ==
    env.given /\ (DOMAIN env.map = {} \/ None \in Range(env.map))

\* API_TOKENS goes before API_KEY.
LoadTokens(env) ==
    IF env.given THEN env.map
    ELSE IF env.key # None THEN [n \in {"default"} |-> env.key]
    ELSE Empty

\* Load refuses to start a server that nobody could use.
Starts(env) ==
    ~LoadFails(env) /\ (env.readonly \/ DOMAIN LoadTokens(env) # {})

\* NewTokenStore turns the map round.  Go visits a map in any order: of two
\* names with one value either may be the one that stays.
TokenStores(map) ==
    {store \in [Range(map) -> DOMAIN map] : \A t \in Range(map) : map[store[t]] = t}

\* The servers an environment may start.
Servers(env) ==
    {[readonly |-> env.readonly, store |-> s] :
        s \in IF Starts(env) THEN TokenStores(LoadTokens(env)) ELSE {}}

Validate(server, token) ==
    IF token \in DOMAIN server.store THEN server.store[token] ELSE None

-----------------------------------------------------------------------------

\* A request as the middleware sees it; None is a missing header.
NoHeader == [scheme |-> None, token |-> None]
Bearer(token) == [scheme |-> "Bearer", token |-> token]

\* The name under which a request is logged, or None.
NameOf(server, header) ==
    IF header.scheme = "Bearer" THEN Validate(server, header.token) ELSE None

BearerAuth(server, header) == NameOf(server, header) # None

ReadonlyBearerAuth(server, method, header) ==
    method \in {"GET", "HEAD"} \/ BearerAuth(server, header)

\* Registered before the group that asks for a token.
OpenPaths == {"healthz", "defaults"}

Admits(server, method, path, header) ==
    \/ path \in OpenPaths /\ method = "GET"
    \/ IF server.readonly THEN ReadonlyBearerAuth(server, method, header)
       ELSE BearerAuth(server, header)

=============================================================================
