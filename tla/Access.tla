-------------------------------- MODULE Access --------------------------------
(***************************************************************************)
(* Who a request acts for: the JSON web tokens of Cloudflare Access, the    *)
(* OAuth clients and their tokens, and the middleware in front of every     *)
(* route.  Operators only; Accounts holds the tables that they read.        *)
(*                                                                          *)
(* A JWT is a record of what the code looks at: whether it parses, the      *)
(* e-mail address in its payload, the algorithm and the key of its header,  *)
(* the key that signed it, and whether issuer, audience and times fit.      *)
(***************************************************************************)
EXTENDS FiniteSets

CONSTANTS
    Emails,             \* addresses that Access knows
    SigningKeys,        \* kids of the RS256 keys that Access publishes
    Scopes,             \* OAuth scopes
    RedirectUris,
    NoEmail             \* a payload without an address, or a token that does not parse

ASSUME AccessAssumption == NoEmail \notin Emails

Jwt == [parts : BOOLEAN,                    \* three parts, each of them decodable
        email : Emails \cup {NoEmail},
        alg : {"RS256", "other"},
        kid : SigningKeys \cup {"other"},
        signedWith : SigningKeys \cup {"other"},
        iss : {"absent", "ours", "other"},
        aud : {"absent", "ours", "other"},
        times : {"valid", "expired", "early"}]

\* Access only signs what it issues.
Issued(email, kid) ==
    [parts |-> TRUE, email |-> email, alg |-> "RS256", kid |-> kid, signedWith |-> kid,
     iss |-> "ours", aud |-> "ours", times |-> "valid"]

-----------------------------------------------------------------------------
(* Access. *)

GetPayload(jwt) == IF jwt.parts THEN {jwt.email} ELSE {}

GetJwtEmail(jwt) == GetPayload(jwt) \ {NoEmail}

\* The validator throws unless every conjunct holds.
GenerateValidator(jwt) ==
    /\ jwt.parts
    /\ jwt.alg = "RS256"
    /\ jwt.kid \in SigningKeys
    /\ jwt.iss # "other" /\ jwt.aud # "other"
    /\ jwt.times = "valid"
    /\ jwt.signedWith = jwt.kid

\* get-identity answers for a session that is not over.
GetIdentity(jwt, sessions) == IF jwt \in sessions THEN {jwt.email} ELSE {}

IsUserAuthenticated(jwt, sessions) ==
    GenerateValidator(jwt) /\ GetIdentity(jwt, sessions) # {}

-----------------------------------------------------------------------------
(* OAuth. *)

Client == [redirect : RedirectUris, scopes : SUBSET Scopes]

\* A code, and the token that is the same string: <client id>.<JWT>.
Code(id, jwt) == [client |-> id, jwt |-> jwt]

GetClientById(clients, id) == {c \in DOMAIN clients : c = id}

\* buildRedirect: the redirect URI is the registered one, and the code goes into it.
BuildRedirect(clients, id, redirect) ==
    \E c \in GetClientById(clients, id) : clients[c].redirect = redirect

\* The users with the address; at most one, for the column is unique.
GetUserByEmail(users, email) == {users[e] : e \in DOMAIN users \cap {email}}

\* The page that the redirect of a user who is signed in leads to.
RedirectPage(isFirstLogin) == IF isFirstLogin THEN "/first-login" ELSE "client"

\* /oauth/token: the secret is that of the client, here the client id itself.
TokenGranted(clients, params) ==
    /\ IF params.grant = "authorization_code"
       THEN params.code.client = params.client
       ELSE params.grant = "client_credentials"
    /\ \E c \in GetClientById(clients, params.client) :
          /\ clients[c].redirect = params.redirect
          /\ params.secret = c
          /\ params.scope \subseteq clients[c].scopes

-----------------------------------------------------------------------------
(* The middleware. *)

PublicRoutes ==
    {"/.well-known/*", "/ap/*", "/api/v2/instance", "/api/v1/instance", "/api/v1/instance/peers",
     "/api/v1/apps", "/api/v1/timelines/public", "/api/v1/timelines/tag/:tag",
     "/api/v1/custom_emojis", "/api/v1/trends/statuses", "/api/v1/trends/links",
     "/api/v1/accounts/lookup", "/api/v1/accounts/:id/statuses", "/api/v1/tags/:tag",
     "/nodeinfo/*", "/oauth/*", "/first-login"}

PublicGets ==
    {"/api/v1/statuses/:id", "/api/v1/statuses/:id/context", "/api/v1/statuses/:id/history"}

IsPublic(method, route) == route \in PublicRoutes \/ (method = "GET" /\ route \in PublicGets)

\* Who handles a request with the token: the actor of the token's address.
Authorize(users, sessions, token) ==
    IF GenerateValidator(token.jwt) /\ GetIdentity(token.jwt, sessions) # {}
    THEN {u.actor : u \in UNION {GetUserByEmail(users, e) : e \in GetJwtEmail(token.jwt)}}
    ELSE {}

\* Who a route is served to: without a token, a public one to nobody in particular.
ServedTo(method, route, users, sessions, tokens) ==
    IF tokens = {} THEN (IF IsPublic(method, route) THEN {"nobody"} ELSE {})
    ELSE UNION {Authorize(users, sessions, t) : t \in tokens}
=============================================================================
