------------------------------- MODULE Access -------------------------------
(***************************************************************************)
(* The way of a request through the middleware of internal/httpapi to its  *)
(* handler: a key or a session says who calls, the rate limit whether now, *)
(* the route whether at all.  Keys are made and revoked by phishlens       *)
(* apikey, in a process of its own.                                        *)
(***************************************************************************)
EXTENDS RateLimiter, Login

CONSTANTS
    Keys,          \* API keys, and
    KeyRole,       \* the role each was made with
    Address,       \* where the anonymous call from
    CallerOf,      \* subject -> its "oidc:" caller; a key is its own caller
    Requests,      \* requests at the same time
    Setups         \* configurations: [limited, oidc, anonymous]

ASSUME AccessAssumption ==
    /\ Keys \subseteq Callers /\ Address \in Callers
    /\ \A k \in Keys : KeyRole[k] \in Roles
    /\ Keys \cap (Subjects \cup {"nobody"}) = {}
    /\ \A s \in Subjects : CallerOf[s] \in Callers
    /\ Setups \subseteq [limited : BOOLEAN, oidc : BOOLEAN, anonymous : BOOLEAN]

VARIABLES
    keys,          \* the api_keys table: key -> "none", "active" or "revoked"
    request,       \* request -> how far it is, and as whom
    setup,         \* the configuration of this process
    lost           \* (ghost) <<subject, role, time>> when groups took a role away

vars == <<limiterVars, loginVars, keys, request, setup, lost>>

-----------------------------------------------------------------------------
\* Server.Routes: whom a kind of route takes.
RouteRoles ==
    [open |-> Roles \cup {"anonymous"},
     analyze |-> IF setup.anonymous THEN Roles \cup {"anonymous"} ELSE Roles,
     report |-> Roles,
     review |-> {"analyst", "admin"},
     manage |-> {"admin"}]

Absent == [at |-> "idle", route |-> "open", role |-> "anonymous", caller |-> Address,
           recent |-> TRUE]

\* (ghost) A key's role is its own while it is active; a subject's, while the
\* groups give it and for a session's life after that.
Recent(who, role) ==
    IF who \in Keys THEN keys[who] = "active"
    ELSE \/ who = "nobody" \/ RoleOf(groups[who]) = role
         \/ \E t \in 0..now : now - t < SessionLife /\ <<who, role, t>> \in lost

Init ==
    /\ LimiterInit /\ LoginInit
    /\ keys = [k \in Keys |-> "none"]
    /\ request = [r \in Requests |-> Absent]
    /\ setup \in Setups
    /\ lost = {}
    /\ ~setup.oidc => groups = [p \in Subjects |-> {}]

\* The caller is known and goes on to the limiter.
As(r, route, role, caller, who) ==
    /\ request[r].at = "idle"
    /\ request' = [request EXCEPT ![r] = [at |-> "limit", route |-> route, role |-> role,
                        caller |-> caller, recent |-> Recent(who, role)]]
    /\ UNCHANGED <<limiterVars, loginVars, keys, setup, lost>>

\* Fault: the time of revocation is not looked at.
WithKeyOnceMade(r, route, k) == keys[k] # "none" /\ As(r, route, KeyRole[k], k, k)

\* authenticate: a key that is not an active row is a 401 before the limiter.
WithKey(r, route, k) == keys[k] = "active" /\ As(r, route, KeyRole[k], k, k)

\* Without a key, a session cookie; one that is not valid is no session.
WithSession(r, route, s) ==
    IF Valid(s, now) THEN As(r, route, s.role, CallerOf[s.subject], s.subject)
                     ELSE As(r, route, "anonymous", Address, "nobody")

WithNothing(r, route) == As(r, route, "anonymous", Address, "nobody")

\* 429 without a token, 401 or 403 on a route that is not for the role.
LimitAndRoute(r) ==
    /\ request[r].at = "limit"
    /\ IF setup.limited THEN Allow(request[r].caller) ELSE UNCHANGED limiterVars
    /\ request' = [request EXCEPT ![r] =
         IF /\ setup.limited => Allowed(request[r].caller)
            /\ request[r].role \in RouteRoles[request[r].route]
         THEN [@ EXCEPT !.at = "handler"] ELSE Absent]
    /\ UNCHANGED <<loginVars, keys, setup, lost>>

Handled(r) ==
    /\ request[r].at = "handler"
    /\ request' = [request EXCEPT ![r] = Absent]
    /\ UNCHANGED <<limiterVars, loginVars, keys, setup, lost>>

CreateAPIKey(k) ==
    /\ keys[k] = "none"
    /\ keys' = [keys EXCEPT ![k] = "active"]
    /\ UNCHANGED <<limiterVars, loginVars, request, setup, lost>>

\* Requests under way keep the principal they were given.
RevokeAPIKey(k) ==
    /\ keys[k] = "active"
    /\ keys' = [keys EXCEPT ![k] = "revoked"]
    /\ UNCHANGED <<limiterVars, loginVars, request, setup, lost>>

SignIn ==
    /\ setup.oidc
    /\ \/ \E s \in StateIds : NewState(s, now)
       \/ \E c \in Callbacks, s \in StateIds : TakeState(c, s, now)
       \/ \E c \in Callbacks : LoginFails(c)
       \/ \E c \in Callbacks, p \in Subjects : SignSession(c, p, now)
    /\ UNCHANGED <<limiterVars, keys, request, setup, lost>>

GroupsMove ==
    /\ setup.oidc
    /\ \E p \in Subjects, names \in {{}, {"analysts"}, {"admins"}} :
         MoveGroups(p, names) /\ lost' = lost \cup {<<p, RoleOf(groups[p]), now>>}
    /\ UNCHANGED <<limiterVars, keys, request, setup>>

\* Buckets and login states live in memory.
Restart ==
    /\ states # [s \in {} |-> 0] \/ buckets # NoBuckets
    /\ ForgetStates
    /\ buckets' = NoBuckets
    /\ request' = [r \in Requests |-> Absent]
    /\ UNCHANGED <<now, keys, setup, lost>>

Time ==
    /\ Tick
    /\ UNCHANGED <<loginVars, keys, request, setup, lost>>

Next ==
    \/ \E r \in Requests, route \in DOMAIN RouteRoles :
         \/ \E k \in Keys : WithKey(r, route, k)
         \/ \E s \in sessions : WithSession(r, route, s)
         \/ WithNothing(r, route)
    \/ \E r \in Requests : LimitAndRoute(r) \/ Handled(r)
    \/ \E k \in Keys : CreateAPIKey(k) \/ RevokeAPIKey(k)
    \/ SignIn \/ GroupsMove \/ Restart \/ Time

Spec == Init /\ [][Next]_vars

-----------------------------------------------------------------------------
\* A handler runs with a role its route takes, and one its caller had: the
\* key was active when the request came, or the provider's groups gave the
\* role to the subject less than eight hours before.  Nothing that happens to
\* keys, groups and cookies lets an older role in (auth.go, authenticate and
\* requireRole; oidc.go, verifySession).
RoleIsRecent ==
    \A r \in Requests : request[r].at = "handler" =>
        request[r].role \in RouteRoles[request[r].route] /\ request[r].recent
=============================================================================
