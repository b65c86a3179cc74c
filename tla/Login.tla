-------------------------------- MODULE Login --------------------------------
(***************************************************************************)
(* Signing in with OpenID Connect (internal/httpapi/oidc.go).  A login     *)
(* state is good for one callback within five minutes; a session is a      *)
(* signed cookie that the service does not remember, good for eight hours  *)
(* with the role its subject's groups gave when it was signed.             *)
(***************************************************************************)
EXTENDS Naturals, FiniteSets

CONSTANTS
    Subjects,      \* people the identity provider knows
    StateIds,      \* login states, random and never the same twice
    Callbacks,     \* callback requests at the same time
    StateLife,     \* five minutes
    SessionLife,   \* eight hours
    MaxGroupMoves  \* bound: changes of a subject's groups

ASSUME LoginAssumption == StateLife \in Nat /\ SessionLife \in Nat /\ MaxGroupMoves \in Nat

Roles == {"user", "analyst", "admin"}

VARIABLES
    states,        \* oidcAuth.states: state -> expiry
    issued,        \* states given out so far
    callback,      \* callback -> the request
    sessions,      \* cookies signed so far
    groups,        \* the provider's groups: subject -> set of groups
    groupMoves

loginVars == <<states, issued, callback, sessions, groups, groupMoves>>

-----------------------------------------------------------------------------
\* role: the admin group first, then the analysts'; anybody else is a user.
RoleOf(names) ==
    IF "admins" \in names THEN "admin" ELSE IF "analysts" \in names THEN "analyst" ELSE "user"

Elsewhere == [at |-> "idle", state |-> CHOOSE s \in StateIds : TRUE]

LoginInit ==
    /\ states = [s \in {} |-> 0]
    /\ issued = {}
    /\ callback = [c \in Callbacks |-> Elsewhere]
    /\ sessions = {}
    /\ groups \in [Subjects -> {{}, {"analysts"}, {"admins", "analysts"}}]
    /\ groupMoves = 0

\* newState sweeps the expired ones first.
NewState(s, now) ==
    /\ s \notin issued
    /\ issued' = issued \cup {s}
    /\ states' = [k \in {k \in DOMAIN states : now <= states[k]} \cup {s} |->
                    IF k = s THEN now + StateLife ELSE states[k]]
    /\ UNCHANGED <<callback, sessions, groups, groupMoves>>

Without(f, k) == [d \in DOMAIN f \ {k} |-> f[d]]

\* Fault: the state is looked up and left for the sweep.
TakeStateKeeps(c, s, now) ==
    /\ callback[c].at = "idle"
    /\ s \in DOMAIN states /\ now < states[s]
    /\ callback' = [callback EXCEPT ![c] = [at |-> "exchange", state |-> s]]
    /\ UNCHANGED <<states, issued, sessions, groups, groupMoves>>

\* takeState: gone whether it was in time or not; late or unknown is a 400.
TakeState(c, s, now) ==
    /\ callback[c].at = "idle"
    /\ s \in DOMAIN states
    /\ states' = Without(states, s)
    /\ callback' = IF now < states[s]
                   THEN [callback EXCEPT ![c] = [at |-> "exchange", state |-> s]] ELSE callback
    /\ UNCHANGED <<issued, sessions, groups, groupMoves>>

\* The provider denied, the exchange failed, the token does not verify or
\* carries another nonce: a 401, and the state is spent.
LoginFails(c) ==
    /\ callback[c].at = "exchange"
    /\ callback' = [callback EXCEPT ![c].at = "idle"]
    /\ UNCHANGED <<states, issued, sessions, groups, groupMoves>>

\* The token's claims are the provider's at this moment.
SignSession(c, subject, now) ==
    /\ callback[c].at = "exchange"
    /\ sessions' = sessions \cup {[subject |-> subject, role |-> RoleOf(groups[subject]),
                                   expires |-> now + SessionLife, state |-> callback[c].state]}
    /\ callback' = [callback EXCEPT ![c].at = "idle"]
    /\ UNCHANGED <<states, issued, groups, groupMoves>>

MoveGroups(subject, names) ==
    /\ groupMoves < MaxGroupMoves /\ groupMoves' = groupMoves + 1
    /\ groups' = [groups EXCEPT ![subject] = names]
    /\ UNCHANGED <<states, issued, callback, sessions>>

\* States live in memory; sessions do not.
ForgetStates ==
    /\ states' = [s \in {} |-> 0]
    /\ callback' = [c \in Callbacks |-> Elsewhere]
    /\ UNCHANGED <<issued, sessions, groups, groupMoves>>

\* verifySession: an own signature that has not expired.
Valid(session, now) == session.expires > now

-----------------------------------------------------------------------------
\* However callbacks race, one login gives one session at most, to a browser
\* that came back within the five minutes (oidc.go, takeState).
OneSessionPerLogin ==
    /\ \A s, t \in sessions : s.state = t.state => s = t
    /\ \A c, d \in Callbacks :
         callback[c].at = "exchange" /\ callback[d].at = "exchange" /\ c # d
            => callback[c].state # callback[d].state
    /\ \A c \in Callbacks, s \in sessions :
         callback[c].at = "exchange" => callback[c].state # s.state
=============================================================================
