---------------------------- MODULE Boundary_proofs --------------------------
(***************************************************************************)
(* What comes in and what goes out.  Signing in and the way through the    *)
(* middleware, for any number of logins, callbacks, keys, people, requests *)
(* and restarts, and any lives of states and sessions; verdicts on their   *)
(* way to sinks and hooks, and answers by mail, for any organisations,     *)
(* events, integrations, edits of the hooks, errors and restarts.          *)
(***************************************************************************)
EXTENDS Access, Outbound, FiniteSetTheorems, WellFoundedInduction, NaturalsInduction, TLAPS

LoginTypeOK ==
    /\ now \in Nat
    /\ callback \in [Callbacks -> [at : {"idle", "exchange"},
                                   state : StateIds \cup {Elsewhere.state}]]
    /\ sessions \subseteq [subject : Subjects, role : Roles, expires : Nat,
                           state : StateIds \cup {Elsewhere.state}]
    /\ DOMAIN groups = Subjects

\* A state that was used, by a callback under way or for a session, was given
\* out and is not among those still to be taken.
StatesAreSpent ==
    /\ DOMAIN states \subseteq issued
    /\ \A c \in Callbacks :
         callback[c].at = "exchange" => callback[c].state \in issued \ DOMAIN states
    /\ \A s \in sessions : s.state \in issued \ DOMAIN states

LoginInv == LoginTypeOK /\ StatesAreSpent /\ OneSessionPerLogin

-----------------------------------------------------------------------------
(* Signing in. *)

LEMMA RoleInRoles == \A names : RoleOf(names) \in Roles
  BY DEF RoleOf, Roles

LEMMA LoginStarts == Init => LoginInv
  BY DEF Init, LoginInit, LimiterInit, LoginInv, LoginTypeOK, StatesAreSpent,
         OneSessionPerLogin, Elsewhere

LEMMA TimeIsNat == LoginTypeOK /\ [Next]_vars => now' \in Nat
  <1> SUFFICES ASSUME LoginTypeOK, [Next]_vars PROVE now' \in Nat
    OBVIOUS
  <1>1. CASE UNCHANGED now
    BY <1>1 DEF LoginTypeOK
  <1>2. CASE Tick
    BY <1>2 DEF LoginTypeOK, Tick
  <1> QED
    BY <1>1, <1>2 DEF Next, vars, limiterVars, loginVars, WithKey, WithSession, WithNothing, As,
         LimitAndRoute, Allow, Handled, CreateAPIKey, RevokeAPIKey, SignIn, GroupsMove, Restart,
         Time

LEMMA LoginSteps ==
    ASSUME LoginInv, SignIn, now \in Nat, now' \in Nat
    PROVE  LoginInv'
  <1> USE LoginAssumption DEF LoginInv, LoginTypeOK
  <1>1. ASSUME NEW s \in StateIds, NewState(s, now) PROVE LoginInv'
    <2>1. DOMAIN states' \subseteq DOMAIN states \cup {s} /\ issued' = issued \cup {s}
          /\ s \notin issued /\ UNCHANGED <<callback, sessions, groups>>
      BY <1>1 DEF NewState
    <2>2. StatesAreSpent'
      BY <2>1 DEF StatesAreSpent
    <2> QED BY <2>1, <2>2 DEF OneSessionPerLogin
  <1>2. ASSUME NEW c \in Callbacks, NEW s \in StateIds, TakeState(c, s, now) PROVE LoginInv'
    <2>1. /\ DOMAIN states' = DOMAIN states \ {s} /\ s \in DOMAIN states
          /\ UNCHANGED <<issued, sessions, groups>>
          /\ \/ callback' = callback
             \/ callback' = [callback EXCEPT ![c] = [at |-> "exchange", state |-> s]]
      BY <1>2 DEF TakeState, Without
    <2>2. CASE callback' = callback
      BY <2>1, <2>2 DEF StatesAreSpent, OneSessionPerLogin
    <2>3. CASE callback' = [callback EXCEPT ![c] = [at |-> "exchange", state |-> s]]
      <3>1. LoginTypeOK'
        BY <2>1, <2>3
      <3>2. StatesAreSpent'
        BY <2>1, <2>3 DEF StatesAreSpent
      <3>3. OneSessionPerLogin'
        BY <2>1, <2>3 DEF StatesAreSpent, OneSessionPerLogin
      <3> QED BY <3>1, <3>2, <3>3
    <2> QED BY <2>1, <2>2, <2>3
  <1>3. ASSUME NEW c \in Callbacks, LoginFails(c) PROVE LoginInv'
    <2>1. callback' = [callback EXCEPT ![c].at = "idle"]
          /\ UNCHANGED <<states, issued, sessions, groups>>
      BY <1>3 DEF LoginFails
    <2> QED BY <2>1 DEF StatesAreSpent, OneSessionPerLogin
  <1>4. ASSUME NEW c \in Callbacks, NEW p \in Subjects, SignSession(c, p, now) PROVE LoginInv'
    <2> DEFINE signed == [subject |-> p, role |-> RoleOf(groups[p]),
                          expires |-> now + SessionLife, state |-> callback[c].state]
    <2>1. /\ callback[c].at = "exchange"
          /\ sessions' = sessions \cup {signed}
          /\ callback' = [callback EXCEPT ![c].at = "idle"]
          /\ UNCHANGED <<states, issued, groups>>
      BY <1>4 DEF SignSession
    <2>2. /\ signed \in [subject : Subjects, role : Roles, expires : Nat,
                         state : StateIds \cup {Elsewhere.state}]
          /\ signed.state = callback[c].state
      BY RoleInRoles
    <2> HIDE DEF signed
    <2>3. LoginTypeOK' /\ StatesAreSpent'
      BY <2>1, <2>2 DEF StatesAreSpent
    <2>4. OneSessionPerLogin'
      BY <2>1, <2>2 DEF OneSessionPerLogin
    <2> QED BY <2>3, <2>4
  <1> QED BY <1>1, <1>2, <1>3, <1>4 DEF SignIn

LEMMA LoginStays == LoginInv /\ [Next]_vars => LoginInv'
  <1> SUFFICES ASSUME LoginInv, [Next]_vars PROVE LoginInv'
    OBVIOUS
  <1>0. now \in Nat /\ now' \in Nat
    BY TimeIsNat DEF LoginInv, LoginTypeOK
  <1>1. CASE UNCHANGED <<states, issued, callback, sessions, groups>>
    BY <1>0, <1>1 DEF LoginInv, LoginTypeOK, StatesAreSpent, OneSessionPerLogin
  <1>2. CASE SignIn
    BY <1>0, <1>2, LoginSteps
  <1>3. CASE GroupsMove
    <2>1. DOMAIN groups' = DOMAIN groups /\ UNCHANGED <<states, issued, callback, sessions>>
      BY <1>3 DEF GroupsMove, MoveGroups
    <2> QED BY <1>0, <2>1 DEF LoginInv, LoginTypeOK, StatesAreSpent, OneSessionPerLogin
  <1>4. CASE Restart
    <2>1. /\ DOMAIN states' = {}
          /\ callback' = [c \in Callbacks |-> Elsewhere]
          /\ UNCHANGED <<issued, sessions, groups>>
      BY <1>4 DEF Restart, ForgetStates
    <2> QED BY <1>0, <2>1 DEF LoginInv, LoginTypeOK, StatesAreSpent, OneSessionPerLogin, Elsewhere
  <1> QED
    BY <1>1, <1>2, <1>3, <1>4 DEF Next, vars, loginVars, WithKey, WithSession, WithNothing, As,
         LimitAndRoute, Handled, CreateAPIKey, RevokeAPIKey, Time

\* A login state becomes one session at most, however many callbacks race for
\* it and however often the process restarts (oidc.go, takeState).
THEOREM OneLoginOneSession == Spec => []OneSessionPerLogin
  <1>1. LoginInv => OneSessionPerLogin
    BY DEF LoginInv
  <1> QED BY <1>1, LoginStarts, LoginStays, PTL DEF Spec

-----------------------------------------------------------------------------
\* A session outlives its subject's role by less than a session's life: the
\* groups still give the role, or took it away after the session was signed.
SessionsAreBacked ==
    \A s \in sessions :
        /\ s.expires <= now + SessionLife
        /\ \/ RoleOf(groups[s.subject]) = s.role
           \/ \E t \in 0..now :
                <<s.subject, s.role, t>> \in lost /\ s.expires <= t + SessionLife

\* Everybody who got past authenticate had the role at that moment.
RequestsAreRecent ==
    /\ request \in [Requests -> [at : {"idle", "limit", "handler"},
                                 route : {"open", "analyze", "report", "review", "manage"},
                                 role : Roles \cup {"anonymous"}, caller : Callers,
                                 recent : {TRUE}]]
    /\ \A r \in Requests :
         request[r].at = "handler" => request[r].role \in RouteRoles[request[r].route]

RoleInv == LoginTypeOK /\ SessionsAreBacked /\ RequestsAreRecent

LEMMA AbsentIsTyped ==
    Absent \in [at : {"idle"}, route : {"open"}, role : {"anonymous"}, caller : Callers,
                recent : {TRUE}]
  BY AccessAssumption DEF Absent

LEMMA RolesStart == Init => RoleInv
  <1> SUFFICES ASSUME Init PROVE RoleInv
    OBVIOUS
  <1>1. LoginTypeOK
    BY LoginStarts DEF LoginInv
  <1>2. SessionsAreBacked
    BY DEF Init, LoginInit, SessionsAreBacked
  <1>3. RequestsAreRecent
    BY AbsentIsTyped DEF Init, RequestsAreRecent
  <1> QED BY <1>1, <1>2, <1>3 DEF RoleInv

\* A session that is still valid carries a role its subject had of late.
LEMMA ValidIsRecent ==
    ASSUME LoginTypeOK, SessionsAreBacked, NEW s \in sessions, Valid(s, now)
    PROVE  Recent(s.subject, s.role) = TRUE
  <1>1. s.subject \in Subjects /\ s.expires \in Nat /\ s.expires > now /\ now \in Nat
    BY DEF LoginTypeOK, Valid
  <1>2. s.subject \notin Keys
    BY <1>1, AccessAssumption
  <1>3. CASE RoleOf(groups[s.subject]) = s.role
    BY <1>2, <1>3 DEF Recent
  <1>4. CASE \E t \in 0..now : <<s.subject, s.role, t>> \in lost /\ s.expires <= t + SessionLife
    <2>1. PICK t \in 0..now : <<s.subject, s.role, t>> \in lost /\ s.expires <= t + SessionLife
      BY <1>4
    <2>2. now - t < SessionLife
      BY <1>1, <2>1, LoginAssumption
    <2> QED BY <1>2, <2>1, <2>2 DEF Recent
  <1> QED BY <1>3, <1>4 DEF SessionsAreBacked

\* One request that goes on, or is over, leaves the others as they were.
LEMMA RequestMoves ==
    ASSUME RequestsAreRecent, UNCHANGED setup, NEW r \in Requests,
           NEW q \in [at : {"idle", "limit", "handler"},
                      route : {"open", "analyze", "report", "review", "manage"},
                      role : Roles \cup {"anonymous"}, caller : Callers, recent : {TRUE}],
           request' = [request EXCEPT ![r] = q],
           q.at = "handler" => q.role \in RouteRoles[q.route]
    PROVE  RequestsAreRecent'
  <1>1. RouteRoles' = RouteRoles
    BY DEF RouteRoles
  <1> QED BY <1>1 DEF RequestsAreRecent

LEMMA Authenticated ==
    ASSUME RequestsAreRecent, NEW r \in Requests, NEW route \in DOMAIN RouteRoles,
           NEW role \in Roles \cup {"anonymous"}, NEW caller \in Callers, NEW who,
           As(r, route, role, caller, who), Recent(who, role) = TRUE
    PROVE  RequestsAreRecent'
  <1> DEFINE q == [at |-> "limit", route |-> route, role |-> role, caller |-> caller,
                   recent |-> Recent(who, role)]
  <1>1. q \in [at : {"limit"}, route : {"open", "analyze", "report", "review", "manage"},
               role : Roles \cup {"anonymous"}, caller : Callers, recent : {TRUE}]
    BY DEF RouteRoles
  <1>2. request' = [request EXCEPT ![r] = q] /\ UNCHANGED setup
    BY DEF As
  <1> HIDE DEF q
  <1> QED BY <1>1, <1>2, RequestMoves

LEMMA RequestsStay == LoginInv /\ RoleInv /\ [Next]_vars => RequestsAreRecent'
  <1> SUFFICES ASSUME LoginInv, RoleInv, [Next]_vars PROVE RequestsAreRecent'
    OBVIOUS
  <1> USE AccessAssumption
  <1>0. LoginTypeOK /\ SessionsAreBacked /\ RequestsAreRecent
    BY DEF RoleInv
  <1>1. CASE UNCHANGED <<request, setup>>
    BY <1>0, <1>1 DEF RequestsAreRecent, RouteRoles
  <1>2. ASSUME NEW r \in Requests, NEW route \in DOMAIN RouteRoles, NEW k \in Keys,
               WithKey(r, route, k)
        PROVE  RequestsAreRecent'
    <2>1. Recent(k, KeyRole[k]) = TRUE /\ k \in Callers
      BY <1>2 DEF WithKey, Recent
    <2>2. As(r, route, KeyRole[k], k, k)
      BY <1>2 DEF WithKey
    <2> QED BY <1>0, <2>1, <2>2, Authenticated
  <1>3. ASSUME NEW r \in Requests, NEW route \in DOMAIN RouteRoles, WithNothing(r, route)
        PROVE  RequestsAreRecent'
    BY <1>0, <1>3, Authenticated DEF WithNothing, Recent
  <1>4. ASSUME NEW r \in Requests, NEW route \in DOMAIN RouteRoles, NEW s \in sessions,
               WithSession(r, route, s)
        PROVE  RequestsAreRecent'
    <2>1. CASE Valid(s, now)
      <3>1. /\ s.role \in Roles /\ CallerOf[s.subject] \in Callers
            /\ Recent(s.subject, s.role) = TRUE
        BY <1>0, <2>1, ValidIsRecent DEF LoginTypeOK
      <3>2. As(r, route, s.role, CallerOf[s.subject], s.subject)
        BY <1>4, <2>1 DEF WithSession
      <3> QED BY <1>0, <3>1, <3>2, Authenticated
    <2>2. CASE ~Valid(s, now)
      <3>1. As(r, route, "anonymous", Address, "nobody") /\ Recent("nobody", "anonymous") = TRUE
        BY <1>4, <2>2 DEF WithSession, Recent
      <3> QED BY <1>0, <3>1, Authenticated
    <2> QED BY <2>1, <2>2
  <1>5. ASSUME NEW r \in Requests, LimitAndRoute(r) PROVE RequestsAreRecent'
    <2> DEFINE in == [request[r] EXCEPT !.at = "handler"]
    <2>1. UNCHANGED setup
      BY <1>5 DEF LimitAndRoute
    <2>2. \/ /\ request' = [request EXCEPT ![r] = in]
             /\ request[r].role \in RouteRoles[request[r].route]
          \/ request' = [request EXCEPT ![r] = Absent]
      BY <1>0, <1>5 DEF LimitAndRoute, RequestsAreRecent
    <2>3. /\ in \in [at : {"handler"}, route : {"open", "analyze", "report", "review", "manage"},
                     role : Roles \cup {"anonymous"}, caller : Callers, recent : {TRUE}]
          /\ in.role = request[r].role /\ in.route = request[r].route
      BY <1>0 DEF RequestsAreRecent
    <2> HIDE DEF in
    <2> QED BY <1>0, <2>1, <2>2, <2>3, AbsentIsTyped, RequestMoves
  <1>6. ASSUME NEW r \in Requests, Handled(r) PROVE RequestsAreRecent'
    BY <1>0, <1>6, AbsentIsTyped, RequestMoves DEF Handled
  <1>7. CASE Restart
    <2>1. request' = [r \in Requests |-> Absent] /\ UNCHANGED setup
      BY <1>7 DEF Restart
    <2> QED BY <2>1, AbsentIsTyped DEF RequestsAreRecent
  <1> QED
    BY <1>1, <1>2, <1>3, <1>4, <1>5, <1>6, <1>7
    DEF Next, vars, CreateAPIKey, RevokeAPIKey, SignIn, GroupsMove, Time

LEMMA SessionsStay == LoginInv /\ RoleInv /\ [Next]_vars => SessionsAreBacked'
  <1> SUFFICES ASSUME LoginInv, RoleInv, [Next]_vars PROVE SessionsAreBacked'
    OBVIOUS
  <1>0. LoginTypeOK /\ SessionsAreBacked /\ now' \in Nat /\ now \in Nat
    BY TimeIsNat DEF RoleInv, LoginTypeOK
  <1>1. CASE UNCHANGED <<now, sessions, groups, lost>>
    BY <1>0, <1>1 DEF SessionsAreBacked
  <1>2. CASE now' = now + 1 /\ UNCHANGED <<sessions, groups, lost>>
    <2>1. \A t \in 0..now : t \in 0..now'
      BY <1>0, <1>2
    <2>2. \A s \in sessions : s.expires \in Nat
      BY <1>0 DEF LoginTypeOK
    <2>3. \A s \in sessions : s.expires <= now' + SessionLife
      BY <1>0, <1>2, <2>2, LoginAssumption DEF SessionsAreBacked
    <2> QED BY <1>0, <1>2, <2>1, <2>3 DEF SessionsAreBacked
  <1>3. ASSUME NEW p \in Subjects, NEW names, MoveGroups(p, names),
               lost' = lost \cup {<<p, RoleOf(groups[p]), now>>}, UNCHANGED now
        PROVE  SessionsAreBacked'
    <2>1. UNCHANGED sessions /\ groups' = [groups EXCEPT ![p] = names]
      BY <1>3 DEF MoveGroups
    <2>2. ASSUME NEW s \in sessions
          PROVE  \/ RoleOf(groups'[s.subject]) = s.role
                 \/ \E t \in 0..now :
                      <<s.subject, s.role, t>> \in lost' /\ s.expires <= t + SessionLife
      <3>1. s.expires <= now + SessionLife /\ now \in 0..now
        BY <1>0 DEF SessionsAreBacked
      <3>2. CASE RoleOf(groups[s.subject]) = s.role /\ s.subject = p
        BY <1>3, <3>1, <3>2
      <3>3. CASE RoleOf(groups[s.subject]) = s.role /\ s.subject # p
        BY <2>1, <3>3
      <3>4. CASE RoleOf(groups[s.subject]) # s.role
        BY <1>0, <1>3, <3>4 DEF SessionsAreBacked
      <3> QED BY <3>2, <3>3, <3>4
    <2> QED BY <1>0, <1>3, <2>1, <2>2 DEF SessionsAreBacked
  <1>4. ASSUME NEW c \in Callbacks, NEW p \in Subjects, SignSession(c, p, now),
               UNCHANGED <<now, lost>>
        PROVE  SessionsAreBacked'
    <2> DEFINE signed == [subject |-> p, role |-> RoleOf(groups[p]),
                          expires |-> now + SessionLife, state |-> callback[c].state]
    <2>1. sessions' = sessions \cup {signed} /\ UNCHANGED groups
      BY <1>4 DEF SignSession
    <2>2. signed.subject = p /\ signed.role = RoleOf(groups[p])
          /\ signed.expires = now + SessionLife
      OBVIOUS
    <2> HIDE DEF signed
    <2>3. signed.expires <= now + SessionLife
      BY <1>0, <2>2, LoginAssumption
    <2> QED BY <1>0, <1>4, <2>1, <2>2, <2>3 DEF SessionsAreBacked
  <1>5. CASE SignIn
    <2>1. CASE UNCHANGED <<sessions, groups>>
      BY <1>1, <1>5, <2>1 DEF SignIn, limiterVars
    <2>2. ASSUME NEW c \in Callbacks, NEW p \in Subjects, SignSession(c, p, now)
          PROVE  SessionsAreBacked'
      BY <1>4, <1>5, <2>2 DEF SignIn, limiterVars
    <2> QED BY <1>5, <2>1, <2>2 DEF SignIn, NewState, TakeState, LoginFails
  <1>6. CASE GroupsMove
    BY <1>3, <1>6 DEF GroupsMove, limiterVars
  <1>7. CASE Restart
    BY <1>1, <1>7 DEF Restart, ForgetStates
  <1>8. CASE Time
    BY <1>2, <1>8 DEF Time, Tick, loginVars
  <1>9. ASSUME NEW r \in Requests, LimitAndRoute(r) PROVE SessionsAreBacked'
    BY <1>1, <1>9 DEF LimitAndRoute, Allow, limiterVars, loginVars
  <1> QED
    BY <1>1, <1>5, <1>6, <1>7, <1>8, <1>9
    DEF Next, vars, limiterVars, loginVars, WithKey, WithSession, WithNothing, As, Handled,
        CreateAPIKey, RevokeAPIKey

\* A handler runs with a role its route takes, which its caller had when the
\* request came, or for a session less than a session's life before (auth.go,
\* authenticate and requireRole; oidc.go, verifySession).
THEOREM RolesAreRecent == Spec => []RoleIsRecent
  <1>1. LoginInv /\ RoleInv /\ [Next]_vars => RoleInv'
    BY LoginStays, RequestsStay, SessionsStay DEF LoginInv, RoleInv
  <1>2. RoleInv => RoleIsRecent
    BY DEF RoleInv, RequestsAreRecent, RoleIsRecent
  <1> QED BY <1>1, <1>2, LoginStarts, LoginStays, RolesStart, PTL DEF Spec

-----------------------------------------------------------------------------
(* The rate limit.                                                          *)

BucketsOK ==
    /\ now \in Nat
    /\ DOMAIN buckets \subseteq Callers
    /\ \A c \in DOMAIN buckets : buckets[c].tokens \in 0..Burst /\ buckets[c].at \in 0..now

\* Time fills a bucket, never past its size.
LEMMA FilledIsInRange ==
    ASSUME now \in Nat, NEW b, b.tokens \in 0..Burst, b.at \in 0..now
    PROVE  Filled(b) \in 0..Burst /\ b.tokens <= Filled(b)
  <1>1. now - b.at \in Nat /\ Rps \in Nat /\ Burst \in Nat
    BY LimiterAssumption
  <1>2. ASSUME NEW n \in Nat PROVE Rps * n \in Nat
    BY <1>1, <1>2
  <1>3. Rps * (now - b.at) \in Nat
    BY <1>1, <1>2
  <1> DEFINE gain == Rps * (now - b.at)
  <1>4. gain \in Nat /\ Filled(b) = Lower(Burst, b.tokens + gain)
    BY <1>3 DEF Filled
  <1> HIDE DEF gain
  <1> QED BY <1>1, <1>4 DEF Lower

\* One unit of time is worth Rps tokens.
LEMMA FilledByTime ==
    ASSUME now \in Nat, now' = now + 1, NEW b, b.tokens \in 0..Burst, b.at \in 0..now
    PROVE  Lower(Burst, b.tokens + Rps * (now' - b.at)) = Unforgetting!Least(Burst, Filled(b) + Rps)
  <1>1. now - b.at \in Nat /\ Rps \in Nat /\ Burst \in Nat /\ now' - b.at = (now - b.at) + 1
    BY LimiterAssumption
  <1>2. ASSUME NEW n \in Nat PROVE Rps * n \in Nat /\ Rps * (n + 1) = Rps * n + Rps
    BY <1>1, <1>2
  <1> DEFINE gain == Rps * (now - b.at)
  <1>3. /\ gain \in Nat /\ Rps * (now' - b.at) = gain + Rps
        /\ Filled(b) = Lower(Burst, b.tokens + gain)
    BY <1>1, <1>2 DEF Filled
  <1> HIDE DEF gain
  <1> QED BY <1>1, <1>3 DEF Lower, Unforgetting!Least

\* Only full buckets are dropped.
LEMMA DroppedIsFull ==
    ASSUME BucketsOK
    PROVE  /\ DOMAIN DropIdle(buckets) \subseteq DOMAIN buckets
           /\ \A d \in DOMAIN DropIdle(buckets) : DropIdle(buckets)[d] = buckets[d]
           /\ \A d \in DOMAIN buckets \ DOMAIN DropIdle(buckets) : Filled(buckets[d]) = Burst
  <1>1. /\ DOMAIN DropIdle(buckets) \subseteq DOMAIN buckets
        /\ \A d \in DOMAIN DropIdle(buckets) : DropIdle(buckets)[d] = buckets[d]
        /\ \A d \in DOMAIN buckets \ DOMAIN DropIdle(buckets) : ~(buckets[d].at + Idle >= now)
    BY DEF DropIdle
  <1>2. ASSUME NEW d \in DOMAIN buckets, ~(buckets[d].at + Idle >= now)
        PROVE  Filled(buckets[d]) = Burst
    <2> DEFINE n == now - buckets[d].at
    <2>1. n \in Nat /\ n > Idle /\ Rps \in Nat \ {0} /\ Burst \in Nat /\ Idle \in Nat
      BY <1>2, LimiterAssumption DEF BucketsOK
    <2>2. Filled(buckets[d]) = Lower(Burst, buckets[d].tokens + Rps * n)
      BY DEF Filled
    <2> HIDE DEF n
    <2>3. Rps * n \in Nat /\ Rps * n >= Rps * Idle /\ Rps * Idle \in Nat
      BY <2>1
    <2>4. Rps * n >= Burst
      BY <2>1, <2>3, LimiterAssumption
    <2> DEFINE gain == Rps * n
    <2>5. gain \in Nat /\ gain >= Burst /\ Filled(buckets[d]) = Lower(Burst, buckets[d].tokens + gain)
      BY <2>2, <2>3, <2>4
    <2> HIDE DEF gain
    <2> QED BY <2>1, <2>5 DEF Lower, BucketsOK
  <1> QED BY <1>1, <1>2

LEMMA BucketsStart == Init => BucketsOK /\ Unforgetting!Init
  BY DEF Init, LimiterInit, NoBuckets, BucketsOK, Unforgetting!Init, Tokens

\* What a request finds in its bucket is what the caller is due.
LEMMA GotIsDue ==
    ASSUME BucketsOK, NEW c \in Callers
    PROVE  /\ DOMAIN Got(c) \subseteq Callers /\ c \in DOMAIN Got(c)
           /\ Got(c)[c] = [tokens |-> Tokens[c], at |-> now]
           /\ \A d \in DOMAIN Got(c) \ {c} : d \in DOMAIN buckets /\ Got(c)[d] = buckets[d]
           /\ \A d \in Callers \ DOMAIN Got(c) : Tokens[d] = Burst
           /\ Tokens[c] \in 0..Burst
  <1> DEFINE kept == DropIdle(buckets)
  <1>1. /\ DOMAIN kept \subseteq DOMAIN buckets
        /\ \A d \in DOMAIN kept : kept[d] = buckets[d]
        /\ \A d \in DOMAIN buckets \ DOMAIN kept : Filled(buckets[d]) = Burst
    BY DroppedIsFull
  <1>2. Got(c) = [d \in DOMAIN kept \cup {c} |->
            IF d # c THEN kept[d]
            ELSE [tokens |-> IF c \in DOMAIN kept THEN Filled(kept[c]) ELSE Burst, at |-> now]]
    BY DEF Got
  <1> HIDE DEF kept
  <1>3. \A d \in Callers : Tokens[d] = IF d \in DOMAIN buckets THEN Filled(buckets[d]) ELSE Burst
    BY DEF Tokens
  <1>4. Tokens[c] = IF c \in DOMAIN kept THEN Filled(kept[c]) ELSE Burst
    BY <1>1, <1>3
  <1>5. Tokens[c] \in 0..Burst
    <2>1. CASE c \in DOMAIN buckets
      <3>1. Filled(buckets[c]) \in 0..Burst
        BY <2>1, FilledIsInRange DEF BucketsOK
      <3> QED BY <1>3, <2>1, <3>1
    <2>2. CASE c \notin DOMAIN buckets
      BY <1>3, <2>2, LimiterAssumption
    <2> QED BY <2>1, <2>2
  <1>6. DOMAIN Got(c) = DOMAIN kept \cup {c}
    BY <1>2
  <1>7. Got(c)[c] = [tokens |-> Tokens[c], at |-> now]
    BY <1>2, <1>4
  <1>8. \A d \in DOMAIN Got(c) \ {c} : d \in DOMAIN buckets /\ Got(c)[d] = buckets[d]
    BY <1>1, <1>2, <1>6
  <1>9. \A d \in Callers \ DOMAIN Got(c) : Tokens[d] = Burst
    BY <1>1, <1>3, <1>6
  <1> QED BY <1>1, <1>5, <1>6, <1>7, <1>8, <1>9 DEF BucketsOK

\* A request takes a token of its caller's, or nothing, and nobody else's.
LEMMA AllowTakes ==
    ASSUME BucketsOK, NEW c \in Callers, Allow(c)
    PROVE  BucketsOK' /\ (Unforgetting!Take(c) \/ Tokens' = Tokens)
  <1> DEFINE due == Tokens[c]
             left == IF due > 0 THEN due - 1 ELSE 0
  <1>1. now' = now /\ buckets' = [Got(c) EXCEPT ![c].tokens = IF @ > 0 THEN @ - 1 ELSE 0]
    BY DEF Allow
  <1>2. /\ DOMAIN buckets' \subseteq Callers /\ c \in DOMAIN buckets'
        /\ buckets'[c] = [tokens |-> left, at |-> now]
        /\ \A d \in DOMAIN buckets' \ {c} : d \in DOMAIN buckets /\ buckets'[d] = buckets[d]
        /\ \A d \in Callers \ DOMAIN buckets' : Tokens[d] = Burst
    <2> DEFINE got == Got(c)
    <2>1. /\ DOMAIN got \subseteq Callers /\ c \in DOMAIN got
          /\ got[c] = [tokens |-> due, at |-> now]
          /\ \A d \in DOMAIN got \ {c} : d \in DOMAIN buckets /\ got[d] = buckets[d]
          /\ \A d \in Callers \ DOMAIN got : Tokens[d] = Burst
      BY GotIsDue
    <2>2. buckets' = [got EXCEPT ![c].tokens = IF @ > 0 THEN @ - 1 ELSE 0]
      BY <1>1
    <2> HIDE DEF got, due
    <2> QED BY <2>1, <2>2
  <1>3. /\ due \in 0..Burst /\ left \in 0..Burst /\ Burst \in Nat /\ now \in Nat
        /\ left = IF due > 0 THEN due - 1 ELSE 0
    <2>1. due \in 0..Burst
      BY GotIsDue
    <2> HIDE DEF due
    <2> QED BY <2>1, LimiterAssumption DEF BucketsOK
  <1>4. due = Tokens[c]
    OBVIOUS
  <1> HIDE DEF due, left
  <1>5. BucketsOK'
    <2>1. \A d \in DOMAIN buckets' : buckets'[d].tokens \in 0..Burst /\ buckets'[d].at \in 0..now
      BY <1>2, <1>3 DEF BucketsOK
    <2> QED BY <1>1, <1>2, <1>3, <2>1 DEF BucketsOK
  <1>6. Tokens' = [d \in Callers |->
                     IF d \in DOMAIN buckets' THEN Filled(buckets'[d]) ELSE Burst]
    BY <1>1 DEF Tokens, Filled
  <1>7. Tokens = [d \in Callers |-> IF d \in DOMAIN buckets THEN Filled(buckets[d]) ELSE Burst]
    BY DEF Tokens
  <1>8. Tokens'[c] = left
    <2>1. now - buckets'[c].at = 0 /\ buckets'[c].tokens = left /\ Rps * 0 = 0
      BY <1>2, <1>3, LimiterAssumption
    <2>2. Tokens'[c] = Lower(Burst, left + 0)
      BY <1>2, <1>6, <2>1 DEF Filled
    <2> QED BY <1>3, <2>2 DEF Lower
  <1>9. ASSUME NEW d \in Callers, d # c PROVE Tokens'[d] = Tokens[d]
    <2>1. CASE d \in DOMAIN buckets'
      <3>1. d \in DOMAIN buckets /\ buckets'[d] = buckets[d]
        BY <1>2, <1>9, <2>1
      <3> QED BY <1>1, <1>6, <1>7, <2>1, <3>1
    <2>2. CASE d \notin DOMAIN buckets'
      BY <1>2, <1>6, <2>2
    <2> QED BY <2>1, <2>2
  <1>10. Tokens' = [Tokens EXCEPT ![c] = left]
    BY <1>6, <1>7, <1>8, <1>9
  <1>11. CASE due > 0
    <2>1. Tokens[c] > 0 /\ left = Tokens[c] - 1
      BY <1>3, <1>4, <1>11
    <2> QED BY <1>5, <1>10, <2>1 DEF Unforgetting!Take
  <1>12. CASE ~(due > 0)
    <2>1. left = Tokens[c]
      BY <1>3, <1>4, <1>12
    <2> QED BY <1>5, <1>7, <1>10, <2>1
  <1> QED BY <1>5, <1>11, <1>12

LEMMA TickRefills ==
    ASSUME BucketsOK, Tick
    PROVE  BucketsOK' /\ Unforgetting!Refill
  <1>1. now' = now + 1 /\ buckets' = buckets /\ now \in Nat /\ Rps \in Nat /\ Burst \in Nat
    BY LimiterAssumption DEF Tick, BucketsOK
  <1>2. BucketsOK'
    BY <1>1 DEF BucketsOK
  <1>3. Tokens' = [d \in Callers |-> IF d \in DOMAIN buckets
                    THEN Lower(Burst, buckets[d].tokens + Rps * (now' - buckets[d].at))
                    ELSE Burst]
    BY <1>1 DEF Tokens, Filled
  <1>4. ASSUME NEW d \in Callers PROVE Tokens'[d] = Unforgetting!Least(Burst, Tokens[d] + Rps)
    <2>1. CASE d \in DOMAIN buckets
      <3>1. buckets[d].tokens \in 0..Burst /\ buckets[d].at \in 0..now
        BY <2>1 DEF BucketsOK
      <3>2. Lower(Burst, buckets[d].tokens + Rps * (now' - buckets[d].at))
              = Unforgetting!Least(Burst, Filled(buckets[d]) + Rps)
        BY <1>1, <3>1, FilledByTime
      <3> QED BY <1>3, <2>1, <3>2 DEF Tokens
    <2>2. CASE d \notin DOMAIN buckets
      <3>1. Burst = Unforgetting!Least(Burst, Burst + Rps)
        BY <1>1 DEF Unforgetting!Least
      <3> QED BY <1>3, <2>2, <3>1 DEF Tokens
    <2> QED BY <2>1, <2>2
  <1> QED BY <1>2, <1>3, <1>4 DEF Unforgetting!Refill

LEMMA LimiterSteps ==
    BucketsOK /\ RoleInv /\ [Next]_vars => BucketsOK' /\ [Unforgetting!Next]_Tokens
  <1> SUFFICES ASSUME BucketsOK, RoleInv, [Next]_vars
               PROVE  BucketsOK' /\ [Unforgetting!Next]_Tokens
    OBVIOUS
  <1>1. CASE UNCHANGED limiterVars
    BY <1>1 DEF limiterVars, BucketsOK, Tokens, Filled
  <1>2. ASSUME NEW r \in Requests, LimitAndRoute(r)
        PROVE  BucketsOK' /\ [Unforgetting!Next]_Tokens
    <2>1. request[r].caller \in Callers
      BY DEF RoleInv, RequestsAreRecent
    <2> QED BY <1>1, <1>2, <2>1, AllowTakes DEF LimitAndRoute, Unforgetting!Next
  <1>3. CASE Restart
    <2>1. buckets' = NoBuckets /\ now' = now
      BY <1>3 DEF Restart
    <2>2. DOMAIN buckets' = {}
      BY <2>1 DEF NoBuckets
    <2>3. BucketsOK'
      BY <2>1, <2>2 DEF BucketsOK
    <2>4. Tokens' = [c \in Callers |-> Burst]
      BY <2>2 DEF Tokens
    <2> QED BY <2>3, <2>4 DEF Unforgetting!Next, Unforgetting!Restart
  <1>4. CASE Time
    BY <1>4, TickRefills DEF Time, Unforgetting!Next
  <1> QED
    BY <1>1, <1>2, <1>3, <1>4
    DEF Next, vars, WithKey, WithSession, WithNothing, As, Handled, CreateAPIKey, RevokeAPIKey,
        SignIn, GroupsMove

\* Dropping idle buckets lets nobody in more often than keeping all of them
\* would, for any rate, burst, capacity and idle time that fills a bucket
\* (auth.go, rateLimiter.get).
THEOREM LimiterRefines == Spec => ImplementsTokenBuckets
  <1>1. LoginInv /\ RoleInv /\ [Next]_vars => RoleInv'
    BY LoginStays, RequestsStay, SessionsStay DEF LoginInv, RoleInv
  <1> QED
    BY <1>1, LoginStarts, LoginStays, RolesStart, BucketsStart, LimiterSteps, PTL
    DEF Spec, ImplementsTokenBuckets, Unforgetting!Spec


-----------------------------------------------------------------------------
(* Verdicts on their way out.  A delivery has called the sinks that lie    *)
(* before the next one and nobody else; past the sinks, a hook that stood  *)
(* all the while has been called or is on the list, unless the list was    *)
(* never read.                                                             *)

Rows == [id : Nat, org : Orgs \cup {NoOrg}, name : {"soc", "siem"}, sealed : Int, enabled : BOOLEAN]

Deliveries ==
    [at : {"new", "sinks", "hooks", "over"}, org : Orgs \cup {NoOrg}, verdict : Verdicts,
     next : Nat, queue : SUBSET Rows, cut : BOOLEAN, sealed : SUBSET Rows]

Calls == [sinks : Seq({Order[i] : i \in DOMAIN Order}), hooks : Seq(Rows)]

\* The hooks have ids of their own, of those given out.
HooksAreNumbered ==
    /\ created \in Nat
    /\ hooks \subseteq Rows
    /\ \A h \in hooks : h.id \in 1..created
    /\ \A h, k \in hooks : h.id = k.id => h = k
    /\ \A e \in Events : standing[e] \subseteq 1..created
    /\ \A e \in Events : \A h \in delivery[e].queue : h.id \in 1..created

SinksAreCalled(d, t) ==
    \A s \in DOMAIN config : Times(t.sinks, s) =
        IF (\E i \in Notifiers : i < d.next /\ Order[i] = s) /\ Sends(s, config[s], d.verdict)
        THEN 1 ELSE 0

May(d, h) == d.org \in {NoOrg, h.org}

HooksAreCalled(d, t) ==
    /\ d.at \in {"new", "sinks"} => t.hooks = <<>>
    /\ \A h \in ToSet(t.hooks) : May(d, h) /\ h \notin d.queue /\ Times(t.hooks, h) = 1
    /\ \A h \in d.queue : May(d, h)

\* What the delivery owes to the hooks that are entitled to it.
DeliveryIsRight(d, t, entitled) ==
    /\ SinksAreCalled(d, t)
    /\ HooksAreCalled(d, t)
    /\ d.at = "new" => t.sinks = <<>> /\ d.queue = {}
    /\ d.at = "hooks" \/ (d.at = "over" /\ ~d.cut) => {i \in Notifiers : i >= d.next} = {}
    /\ d.at = "hooks" => \A h \in entitled : h \in d.queue \/ Times(t.hooks, h) = 1
    /\ d.at = "over" /\ ~d.cut =>
         \A h \in entitled : Times(t.hooks, h) = 1 \/ \E k \in d.sealed : May(d, k)

NotifyInv ==
    /\ HooksAreNumbered
    /\ cipher \in Int
    /\ delivery \in [Events -> Deliveries]
    /\ tried \in [Events -> Calls]
    /\ standing \in [Events -> SUBSET Nat]
    /\ \A e \in Events : DeliveryIsRight(delivery[e], tried[e], Entitled(e))

-----------------------------------------------------------------------------
(* Answers by mail. *)

Phases == {"idle", "connect", "greeting", "tls", "auth", "envelope", "data", "quit"}

MailInv ==
    /\ reply \in [at : Phases, asker : {"http", "imap"}]
    /\ replied \in [asked : Nat, accepted : Nat, regretted : Nat, told : Nat, audited : Nat]
    /\ RepliesAreAccounted

LEMMA MinIsIn ==
    ASSUME NEW S \in SUBSET Nat, S # {}
    PROVE  Min(S) \in S /\ \A n \in S : Min(S) <= n
<1> DEFINE Less == {ss \in Nat \X Nat : ss[1] < ss[2]}
<1>1. PICK n \in S : \A m \in S : <<m, n>> \notin Less
  <2>1. IsWellFoundedOn(Less, Nat)
    BY NatLessThanWellFounded DEF OpToRel
  <2> HIDE DEF Less
  <2> QED
    BY <2>1, WFMin, Zenon
<1>2. ASSUME NEW m \in S  PROVE n <= m
  <2>1. m \in Nat /\ n \in Nat
    OBVIOUS
  <2>2. m < n => <<m, n>> \in Less
    BY <2>1
  <2> QED
    BY <1>1, <2>1, <2>2
<1> QED
  BY <1>1, <1>2 DEF Min


-----------------------------------------------------------------------------
(* How often a value is in a list. *)

LEMMA TimesNone ==
    ASSUME NEW q, NEW x, \A i \in DOMAIN q : q[i] # x
    PROVE  Times(q, x) = 0
<1>1. {i \in DOMAIN q : q[i] = x} = {}
  OBVIOUS
<1> QED
  BY <1>1, FS_EmptySet DEF Times

LEMMA TimesAppend ==
    ASSUME NEW S, NEW q \in Seq(S), NEW x \in S, NEW y
    PROVE  /\ Times(q, y) \in Nat
           /\ Times(Append(q, x), y) = IF x = y THEN Times(q, y) + 1 ELSE Times(q, y)
<1>1. PICK n \in Nat : n = Len(q) /\ DOMAIN q = 1..n
  OBVIOUS
<1>2. PICK r : r = Append(q, x)
  OBVIOUS
<1>3. DOMAIN r = 1..(n + 1) /\ r[n + 1] = x /\ \A i \in 1..n : r[i] = q[i]
  BY <1>1, <1>2
<1>4. PICK A : A = {i \in DOMAIN q : q[i] = y}
  OBVIOUS
<1>5. IsFiniteSet(1..n)
  BY <1>1, FS_Interval
<1>6. A \subseteq 1..n
  BY <1>1, <1>4
<1>7. IsFiniteSet(A)
  BY <1>5, <1>6, FS_Subset
<1>8. Cardinality(A) \in Nat
  BY <1>7, FS_CardinalityType
<1>9. {i \in DOMAIN r : r[i] = y} = IF x = y THEN A \cup {n + 1} ELSE A
  BY <1>1, <1>3, <1>4
<1>10. n + 1 \notin A
  BY <1>1, <1>6
<1>11. Cardinality(A \cup {n + 1}) = Cardinality(A) + 1
  BY <1>7, <1>10, FS_AddElement
<1> QED
  BY <1>2, <1>4, <1>8, <1>9, <1>11 DEF Times

LEMMA ToSetAppend ==
    ASSUME NEW S, NEW q \in Seq(S), NEW x \in S
    PROVE  Append(q, x) \in Seq(S) /\ ToSet(Append(q, x)) = ToSet(q) \cup {x}
<1>1. PICK n \in Nat : n = Len(q) /\ DOMAIN q = 1..n
  OBVIOUS
<1>2. PICK r : r = Append(q, x)
  OBVIOUS
<1>3. DOMAIN r = 1..(n + 1) /\ r[n + 1] = x /\ \A i \in 1..n : r[i] = q[i]
  BY <1>1, <1>2
<1>4. ToSet(r) = ToSet(q) \cup {x}
  BY <1>1, <1>3 DEF ToSet
<1> QED
  BY <1>2, <1>4

LEMMA OrderIsDistinct ==
    /\ DOMAIN Order = 1..5
    /\ \A i, j \in 1..5 : Order[i] = Order[j] => i = j
BY DEF Order

\* The first of the rows is one of them.
LEMMA NewestIsIn ==
    ASSUME NEW rows, NEW n \in Nat, rows # {}, \A h \in rows : h.id \in 1..n
    PROVE  Newest(rows) \in rows
<1> DEFINE S == {n - h.id : h \in rows}
<1>1. S \in SUBSET Nat /\ S # {}
  OBVIOUS
<1>2. PICK m \in S : \A k \in S : m <= k
  BY <1>1, MinIsIn
<1>3. PICK h \in rows : m = n - h.id
  BY <1>2
<1>4. ASSUME NEW k \in rows  PROVE k.id <= h.id
  <2>1. m <= n - k.id
    BY <1>2
  <2>2. k.id \in Int /\ h.id \in Int
    OBVIOUS
  <2> QED
    BY <1>3, <2>1, <2>2
<1> QED
  BY <1>4 DEF Newest


-----------------------------------------------------------------------------
(* Each step of a delivery. *)

LEMMA SameConfigSameDebt ==
    ASSUME UNCHANGED config, NEW d, NEW t, NEW S
    PROVE  DeliveryIsRight(d, t, S)' <=> DeliveryIsRight(d, t, S)
BY DEF DeliveryIsRight, SinksAreCalled, HooksAreCalled, Notifiers

LEMMA OneDelivers ==
    ASSUME NotifyInv, NEW e \in Events, NEW d \in Deliveries, NEW t \in Calls,
           d.org = delivery[e].org, d.queue \subseteq delivery[e].queue \cup hooks,
           DeliveryIsRight(d, t, Entitled(e)),
           delivery' = [delivery EXCEPT ![e] = d], tried' = [tried EXCEPT ![e] = t],
           UNCHANGED <<config, cipher, hooks, created, standing>>
    PROVE  NotifyInv'
<1>1. /\ delivery' \in [Events -> Deliveries] /\ tried' \in [Events -> Calls]
      /\ delivery'[e] = d /\ tried'[e] = t
      /\ \A f \in Events \ {e} : delivery'[f] = delivery[f] /\ tried'[f] = tried[f]
  BY DEF NotifyInv
<1>2. ASSUME NEW f \in Events  PROVE DeliveryIsRight(delivery[f], tried[f], Entitled(f))'
  <2>1. delivery'[f].org = delivery[f].org
    BY <1>1
  <2>2. Entitled(f)' = Entitled(f)
    BY <2>1 DEF Entitled
  <2>3. DeliveryIsRight(delivery'[f], tried'[f], Entitled(f))
    BY <1>1 DEF NotifyInv
  <2>4. PICK d1, t1, S1 : d1 = delivery'[f] /\ t1 = tried'[f] /\ S1 = Entitled(f)'
    OBVIOUS
  <2>5. DeliveryIsRight(d1, t1, S1)'
    BY <2>2, <2>3, <2>4, SameConfigSameDebt
  <2> QED
    BY <2>4, <2>5
<1>3. HooksAreNumbered'
  <2>1. HooksAreNumbered
    BY DEF NotifyInv
  <2>2. ASSUME NEW f \in Events, NEW h \in delivery'[f].queue  PROVE h.id \in 1..created
    <3>1. CASE f = e
      BY <1>1, <2>1, <2>2, <3>1 DEF HooksAreNumbered
    <3>2. CASE f # e
      BY <1>1, <2>1, <2>2, <3>2 DEF HooksAreNumbered
    <3> QED
      BY <3>1, <3>2
  <2> QED
    BY <2>1, <2>2 DEF HooksAreNumbered
<1> QED
  BY <1>1, <1>2, <1>3 DEF NotifyInv


LEMMA CallSinkKeeps ==
    ASSUME NotifyInv, NEW e \in Events, CallSink(e)
    PROVE  NotifyInv'
<1>1. PICK d, t : d = delivery[e] /\ t = tried[e]
  OBVIOUS
<1>2. PICK i : i = Min(Ahead(e))
  OBVIOUS
<1>3. PICK x : x = Order[i]
  OBVIOUS
<1>4. d \in Deliveries /\ t \in Calls /\ DeliveryIsRight(d, t, Entitled(e))
  BY <1>1 DEF NotifyInv
<1>5. Ahead(e) \in SUBSET Nat /\ Ahead(e) # {} /\ DOMAIN Order = 1..5
  <2>1. DOMAIN Order = 1..5 /\ Ahead(e) # {}
    BY OrderIsDistinct DEF CallSink
  <2>2. Ahead(e) \subseteq DOMAIN Order
    BY DEF Ahead, Notifiers
  <2> QED
    BY <2>1, <2>2
<1>6. i \in Ahead(e) /\ \A j \in Ahead(e) : i <= j
  BY <1>2, <1>5, MinIsIn
<1>7. i \in 1..5 /\ i \in Notifiers /\ i >= d.next /\ d.next \in Nat /\ d.at = "sinks"
  BY <1>1, <1>4, <1>5, <1>6 DEF Ahead, Notifiers, CallSink, Deliveries
<1>8. \A j \in Notifiers : j < i + 1 <=> j < d.next \/ j = i
  <2>1. \A j \in Notifiers : j \in 1..5
    BY <1>5 DEF Notifiers
  <2> QED
    BY <1>1, <1>6, <1>7, <2>1 DEF Ahead
<1>9. \A j \in Notifiers : Order[j] = x => j = i
  BY <1>3, <1>7, OrderIsDistinct DEF Notifiers
<1> DEFINE says == Sends(x, config[x], d.verdict)
           dd == [d EXCEPT !.next = i + 1]
           tt == IF says THEN [t EXCEPT !.sinks = Append(@, x)] ELSE t
<1>10. delivery' = [delivery EXCEPT ![e] = dd]
  BY <1>1, <1>2 DEF CallSink
<1>11. tried' = [tried EXCEPT ![e] = tt]
  <2>1. CASE says
    BY <1>1, <1>2, <1>3, <2>1 DEF CallSink
  <2>2. CASE ~says
    <3>1. tried' = tried
      BY <1>1, <1>2, <1>3, <2>2 DEF CallSink
    <3> QED
      BY <1>1, <2>2, <3>1 DEF NotifyInv
  <2> QED
    BY <2>1, <2>2
<1>12. t.sinks \in Seq({Order[k] : k \in DOMAIN Order}) /\ x \in {Order[k] : k \in DOMAIN Order}
  BY <1>3, <1>4, <1>5, <1>7 DEF Calls
<1>13. Append(t.sinks, x) \in Seq({Order[k] : k \in DOMAIN Order})
  BY <1>12
<1>14. /\ dd \in Deliveries /\ dd.next = i + 1 /\ dd.at = d.at /\ dd.org = d.org
       /\ dd.verdict = d.verdict /\ dd.queue = d.queue
  BY <1>4, <1>7 DEF Deliveries
<1>15. tt \in Calls /\ tt.hooks = t.hooks
       /\ tt.sinks = IF says THEN Append(t.sinks, x) ELSE t.sinks
  BY <1>4, <1>13 DEF Calls
<1> HIDE DEF dd, tt
<1>16. ASSUME NEW s \in DOMAIN config
       PROVE  Times(tt.sinks, s) =
                IF (\E j \in Notifiers : j < dd.next /\ Order[j] = s)
                     /\ Sends(s, config[s], dd.verdict)
                THEN 1 ELSE 0
  <2>1. Times(t.sinks, s) =
          IF (\E j \in Notifiers : j < d.next /\ Order[j] = s) /\ Sends(s, config[s], d.verdict)
          THEN 1 ELSE 0
    BY <1>4 DEF DeliveryIsRight, SinksAreCalled
  <2>2. CASE s = x
    <3>1. ~\E j \in Notifiers : j < d.next /\ Order[j] = s
      BY <1>7, <1>9, <2>2
    <3>2. Times(t.sinks, s) = 0
      BY <2>1, <3>1
    <3>3. Times(Append(t.sinks, x), s) = 1
      BY <1>12, <2>2, <3>2, TimesAppend
    <3>4. \E j \in Notifiers : j < dd.next /\ Order[j] = s
      BY <1>3, <1>7, <1>8, <1>14, <2>2
    <3> QED
      BY <1>14, <1>15, <2>2, <3>2, <3>3, <3>4
  <2>3. CASE s # x
    <3>1. Times(tt.sinks, s) = Times(t.sinks, s)
      BY <1>12, <1>15, <2>3, TimesAppend
    <3>2. (\E j \in Notifiers : j < dd.next /\ Order[j] = s)
            <=> (\E j \in Notifiers : j < d.next /\ Order[j] = s)
      BY <1>3, <1>8, <1>14, <2>3
    <3> QED
      BY <1>14, <2>1, <3>1, <3>2
  <2> QED
    BY <2>2, <2>3
<1>17. DeliveryIsRight(dd, tt, Entitled(e))
  BY <1>4, <1>7, <1>14, <1>15, <1>16 DEF DeliveryIsRight, SinksAreCalled, HooksAreCalled, May
<1>18. UNCHANGED <<config, cipher, hooks, created, standing>>
  BY DEF CallSink
<1> QED
  BY <1>1, <1>10, <1>11, <1>14, <1>15, <1>17, <1>18, OneDelivers

LEMMA EntitledAreVisible ==
    ASSUME NotifyInv, NEW e \in Events
    PROVE  /\ Entitled(e) \subseteq Visible(delivery[e].org)
           /\ Visible(delivery[e].org) \subseteq Rows /\ Visible(delivery[e].org) \subseteq hooks
           /\ \A h \in Visible(delivery[e].org) : May(delivery[e], h)
<1>1. hooks \subseteq Rows
  BY DEF NotifyInv, HooksAreNumbered
<1> QED
  BY <1>1 DEF Entitled, Visible, May

LEMMA LoadHooksKeeps ==
    ASSUME NotifyInv, NEW e \in Events, LoadHooks(e)
    PROVE  NotifyInv'
<1>1. PICK d, t, rows : d = delivery[e] /\ t = tried[e] /\ rows = Visible(delivery[e].org)
  OBVIOUS
<1>2. PICK shut : shut = {r \in rows : ~Opens(r)}
  OBVIOUS
<1>3. d \in Deliveries /\ t \in Calls /\ DeliveryIsRight(d, t, Entitled(e)) /\ d.at = "sinks"
  BY <1>1 DEF NotifyInv, LoadHooks
<1>4. {i \in Notifiers : i >= d.next} = {}
  BY <1>1 DEF LoadHooks, Ahead
<1>5. Entitled(e) \subseteq rows /\ rows \subseteq Rows /\ rows \subseteq hooks
      /\ \A h \in rows : May(d, h)
  BY <1>1, EntitledAreVisible
<1>6. t.hooks = <<>> /\ ToSet(t.hooks) = {}
  BY <1>3 DEF DeliveryIsRight, HooksAreCalled, ToSet
<1>7. tried' = [tried EXCEPT ![e] = t] /\ UNCHANGED <<config, cipher, hooks, created, standing>>
  BY <1>1 DEF LoadHooks, NotifyInv
<1>8. SinksAreCalled(d, t)
  BY <1>3 DEF DeliveryIsRight
<1>9. CASE delivery' = [delivery EXCEPT ![e].at = "hooks", ![e].queue = rows]
  <2> DEFINE dd == [d EXCEPT !.at = "hooks", !.queue = rows]
  <2>1. delivery' = [delivery EXCEPT ![e] = dd]
    BY <1>1, <1>9 DEF NotifyInv
  <2>2. dd \in Deliveries /\ dd.at = "hooks" /\ dd.queue = rows /\ dd.org = d.org
        /\ dd.next = d.next /\ dd.verdict = d.verdict
    BY <1>3, <1>5 DEF Deliveries
  <2> HIDE DEF dd
  <2>3. SinksAreCalled(dd, t)
    BY <1>8, <2>2 DEF SinksAreCalled
  <2>4. HooksAreCalled(dd, t)
    BY <1>5, <1>6, <2>2 DEF HooksAreCalled, May
  <2>5. DeliveryIsRight(dd, t, Entitled(e))
    BY <1>4, <1>5, <2>2, <2>3, <2>4 DEF DeliveryIsRight
  <2> QED
    BY <1>1, <1>3, <1>5, <1>7, <2>1, <2>2, <2>5, OneDelivers
<1>10. CASE shut # {} /\ delivery' = [delivery EXCEPT ![e].at = "over", ![e].sealed = shut]
  <2> DEFINE dd == [d EXCEPT !.at = "over", !.sealed = shut]
  <2>1. delivery' = [delivery EXCEPT ![e] = dd]
    BY <1>1, <1>10 DEF NotifyInv
  <2>2. shut \subseteq Rows /\ \E k \in shut : May(d, k)
    BY <1>2, <1>5, <1>10
  <2>3. dd \in Deliveries /\ dd.at = "over" /\ dd.sealed = shut /\ dd.queue = d.queue
        /\ dd.org = d.org /\ dd.next = d.next /\ dd.verdict = d.verdict
    BY <1>3, <2>2 DEF Deliveries
  <2> HIDE DEF dd
  <2>4. SinksAreCalled(dd, t)
    BY <1>8, <2>3 DEF SinksAreCalled
  <2>5. HooksAreCalled(dd, t)
    BY <1>3, <1>6, <2>3 DEF HooksAreCalled, DeliveryIsRight, May
  <2>6. \E k \in dd.sealed : May(dd, k)
    BY <2>2, <2>3 DEF May
  <2>7. DeliveryIsRight(dd, t, Entitled(e))
    BY <1>4, <2>3, <2>4, <2>5, <2>6 DEF DeliveryIsRight
  <2> QED
    BY <1>1, <1>3, <1>7, <2>1, <2>3, <2>7, OneDelivers
<1>11. CASE delivery' = [delivery EXCEPT ![e].at = "over", ![e].cut = TRUE]
  <2> DEFINE dd == [d EXCEPT !.at = "over", !.cut = TRUE]
  <2>1. delivery' = [delivery EXCEPT ![e] = dd]
    BY <1>1, <1>11 DEF NotifyInv
  <2>2. dd \in Deliveries /\ dd.at = "over" /\ dd.cut = TRUE /\ dd.queue = d.queue
        /\ dd.org = d.org /\ dd.next = d.next /\ dd.verdict = d.verdict
    BY <1>3 DEF Deliveries
  <2> HIDE DEF dd
  <2>3. SinksAreCalled(dd, t)
    BY <1>8, <2>2 DEF SinksAreCalled
  <2>4. HooksAreCalled(dd, t)
    BY <1>3, <1>6, <2>2 DEF HooksAreCalled, DeliveryIsRight, May
  <2>5. DeliveryIsRight(dd, t, Entitled(e))
    BY <2>2, <2>3, <2>4 DEF DeliveryIsRight
  <2> QED
    BY <1>1, <1>3, <1>7, <2>1, <2>2, <2>5, OneDelivers
<1> QED
  BY <1>1, <1>2, <1>9, <1>10, <1>11 DEF LoadHooks

LEMMA CallHookKeeps ==
    ASSUME NotifyInv, NEW e \in Events, CallHook(e)
    PROVE  NotifyInv'
<1>1. PICK d, t : d = delivery[e] /\ t = tried[e]
  OBVIOUS
<1>2. PICK h : h = Newest(d.queue)
  OBVIOUS
<1>3. /\ d \in Deliveries /\ t \in Calls /\ DeliveryIsRight(d, t, Entitled(e))
      /\ d.at = "hooks" /\ d.queue # {}
  BY <1>1 DEF NotifyInv, CallHook
<1>4. created \in Nat /\ \A k \in d.queue : k.id \in 1..created
  BY <1>1 DEF NotifyInv, HooksAreNumbered
<1>5. h \in d.queue
  BY <1>2, <1>3, <1>4, NewestIsIn
<1>6. h \in Rows /\ May(d, h) /\ t.hooks \in Seq(Rows)
  BY <1>3, <1>5 DEF Deliveries, DeliveryIsRight, HooksAreCalled, Calls
<1>7. ~(h \in ToSet(t.hooks))
  BY <1>3, <1>5 DEF DeliveryIsRight, HooksAreCalled
<1>8. Times(t.hooks, h) = 0
  BY <1>7, TimesNone DEF ToSet
<1> DEFINE dd == [d EXCEPT !.queue = @ \ {h}]
           tt == IF h.enabled THEN [t EXCEPT !.hooks = Append(@, h)] ELSE t
<1>9. delivery' = [delivery EXCEPT ![e] = dd]
  BY <1>1, <1>2 DEF CallHook
<1>10. tried' = [tried EXCEPT ![e] = tt]
  <2>1. CASE h.enabled
    BY <1>1, <1>2, <2>1 DEF CallHook
  <2>2. CASE ~h.enabled
    <3>1. tried' = tried
      BY <1>1, <1>2, <2>2 DEF CallHook
    <3> QED
      BY <1>1, <2>2, <3>1 DEF NotifyInv
  <2> QED
    BY <2>1, <2>2
<1>11. Append(t.hooks, h) \in Seq(Rows) /\ ToSet(Append(t.hooks, h)) = ToSet(t.hooks) \cup {h}
  BY <1>6, ToSetAppend
<1>12. /\ dd \in Deliveries /\ dd.next = d.next /\ dd.at = d.at /\ dd.org = d.org
       /\ dd.verdict = d.verdict /\ dd.queue = d.queue \ {h}
  BY <1>3 DEF Deliveries
<1>13. tt \in Calls /\ tt.sinks = t.sinks
       /\ tt.hooks = IF h.enabled THEN Append(t.hooks, h) ELSE t.hooks
  BY <1>3, <1>11 DEF Calls
<1> HIDE DEF dd, tt
<1>14. \A k : Times(Append(t.hooks, h), k) = IF h = k THEN Times(t.hooks, k) + 1
                                            ELSE Times(t.hooks, k)
  BY <1>6, TimesAppend
<1>15. HooksAreCalled(dd, tt)
  <2>1. \A k \in dd.queue : May(dd, k)
    BY <1>3, <1>12 DEF DeliveryIsRight, HooksAreCalled, May
  <2>2. ASSUME NEW k \in ToSet(tt.hooks)
        PROVE  May(dd, k) /\ k \notin dd.queue /\ Times(tt.hooks, k) = 1
    <3>1. CASE k = h /\ h.enabled
      BY <1>6, <1>8, <1>12, <1>13, <1>14, <3>1 DEF May
    <3>2. CASE k \in ToSet(t.hooks)
      <4>1. May(d, k) /\ k \notin d.queue /\ Times(t.hooks, k) = 1 /\ k # h
        BY <1>3, <1>7, <3>2 DEF DeliveryIsRight, HooksAreCalled
      <4> QED
        BY <1>12, <1>13, <1>14, <4>1 DEF May
    <3> QED
      BY <1>11, <1>13, <2>2, <3>1, <3>2
  <2> QED
    BY <1>3, <1>12, <2>1, <2>2 DEF HooksAreCalled
<1>16. ASSUME NEW k \in Entitled(e)  PROVE k \in dd.queue \/ Times(tt.hooks, k) = 1
  <2>1. k.enabled /\ (k \in d.queue \/ Times(t.hooks, k) = 1)
    BY <1>3 DEF DeliveryIsRight, Entitled
  <2>2. CASE k = h
    BY <1>8, <1>13, <1>14, <2>1, <2>2
  <2>3. CASE k # h
    BY <1>12, <1>13, <1>14, <2>1, <2>3
  <2> QED
    BY <2>2, <2>3
<1>17. DeliveryIsRight(dd, tt, Entitled(e))
  BY <1>3, <1>12, <1>13, <1>15, <1>16 DEF DeliveryIsRight, SinksAreCalled
<1>18. UNCHANGED <<config, cipher, hooks, created, standing>>
  BY DEF CallHook
<1> QED
  BY <1>1, <1>9, <1>10, <1>12, <1>13, <1>17, <1>18, OneDelivers

LEMMA EndDeliveryKeeps ==
    ASSUME NotifyInv, NEW e \in Events, EndDelivery(e)
    PROVE  NotifyInv'
<1>1. PICK d, t : d = delivery[e] /\ t = tried[e]
  OBVIOUS
<1>2. /\ d \in Deliveries /\ t \in Calls /\ DeliveryIsRight(d, t, Entitled(e))
      /\ d.at = "hooks" /\ d.queue = {}
  BY <1>1 DEF NotifyInv, EndDelivery
<1> DEFINE dd == [d EXCEPT !.at = "over"]
<1>3. /\ delivery' = [delivery EXCEPT ![e] = dd] /\ tried' = [tried EXCEPT ![e] = t]
      /\ UNCHANGED <<config, cipher, hooks, created, standing>>
  BY <1>1 DEF EndDelivery, NotifyInv
<1>4. /\ dd \in Deliveries /\ dd.at = "over" /\ dd.next = d.next /\ dd.org = d.org
      /\ dd.verdict = d.verdict /\ dd.queue = d.queue
  BY <1>2 DEF Deliveries
<1> HIDE DEF dd
<1>5. DeliveryIsRight(dd, t, Entitled(e))
  BY <1>2, <1>4 DEF DeliveryIsRight, SinksAreCalled, HooksAreCalled, May
<1> QED
  BY <1>1, <1>2, <1>3, <1>4, <1>5, OneDelivers

LEMMA FewerAreOwed ==
    ASSUME NEW d, NEW t, NEW S, NEW T \in SUBSET S, DeliveryIsRight(d, t, S)
    PROVE  DeliveryIsRight(d, t, T)
BY DEF DeliveryIsRight

\* Nothing is called, and nobody else is owed anything.
LEMMA NobodyIsCalled ==
    ASSUME NotifyInv, UNCHANGED <<config, tried>>, HooksAreNumbered', cipher' \in Int,
           delivery' \in [Events -> Deliveries], standing' \in [Events -> SUBSET Nat],
           \A e \in Events : /\ Entitled(e)' \subseteq Entitled(e)
                             /\ DeliveryIsRight(delivery'[e], tried[e], Entitled(e))
    PROVE  NotifyInv'
<1>1. ASSUME NEW e \in Events  PROVE DeliveryIsRight(delivery[e], tried[e], Entitled(e))'
  <2>1. PICK d, t, S, T : d = delivery'[e] /\ t = tried'[e] /\ S = Entitled(e) /\ T = Entitled(e)'
    OBVIOUS
  <2>2. DeliveryIsRight(d, t, S) /\ T \in SUBSET S
    BY <2>1
  <2>3. DeliveryIsRight(d, t, T)
    BY <2>2, FewerAreOwed
  <2>4. DeliveryIsRight(d, t, T)'
    BY <2>3, SameConfigSameDebt
  <2> QED
    BY <2>1, <2>4
<1>2. tried' \in [Events -> Calls]
  BY DEF NotifyInv
<1> QED
  BY <1>1, <1>2 DEF NotifyInv

LEMMA StartDeliveryKeeps ==
    ASSUME NotifyInv, NEW e \in Events, NEW org \in Orgs \cup {NoOrg}, NEW v \in Verdicts,
           StartDelivery(e, org, v)
    PROVE  NotifyInv'
<1>1. PICK d, t : d = delivery[e] /\ t = tried[e]
  OBVIOUS
<1>2. /\ d \in Deliveries /\ t \in Calls /\ DeliveryIsRight(d, t, Entitled(e)) /\ d.at = "new"
      /\ t.sinks = <<>> /\ t.hooks = <<>> /\ d.queue = {}
  BY <1>1 DEF NotifyInv, StartDelivery, DeliveryIsRight, HooksAreCalled
<1> DEFINE dd == [d EXCEPT !.at = "sinks", !.org = org, !.verdict = v, !.next = 1]
<1>3. /\ delivery' = [delivery EXCEPT ![e] = dd] /\ standing' = [standing EXCEPT ![e] = HookIds]
      /\ UNCHANGED <<config, cipher, hooks, tried, created>>
  BY <1>1 DEF StartDelivery
<1>4. dd \in Deliveries /\ dd.at = "sinks" /\ dd.next = 1 /\ dd.queue = {}
  BY <1>2 DEF Deliveries
<1> HIDE DEF dd
<1>5. HookIds \subseteq 1..created /\ HookIds \in SUBSET Nat
  BY DEF NotifyInv, HooksAreNumbered, HookIds
<1>6. /\ delivery' \in [Events -> Deliveries] /\ standing' \in [Events -> SUBSET Nat]
      /\ delivery'[e] = dd /\ standing'[e] = HookIds
      /\ \A f \in Events \ {e} : delivery'[f] = delivery[f] /\ standing'[f] = standing[f]
  BY <1>3, <1>4, <1>5 DEF NotifyInv
<1>7. HooksAreNumbered'
  <2>1. HooksAreNumbered
    BY DEF NotifyInv
  <2>2. \A f \in Events : standing'[f] \subseteq 1..created
    BY <1>5, <1>6, <2>1 DEF HooksAreNumbered
  <2>3. \A f \in Events : delivery'[f].queue \subseteq delivery[f].queue
    BY <1>1, <1>2, <1>4, <1>6
  <2> QED
    BY <1>3, <2>1, <2>2, <2>3 DEF HooksAreNumbered
<1>8. DOMAIN Order = 1..5 /\ ~\E i \in Notifiers : i < 1
  BY OrderIsDistinct DEF Notifiers
<1>9. \A s : Times(t.sinks, s) = 0
  BY <1>2, TimesNone
<1>10. SinksAreCalled(dd, t)
  BY <1>4, <1>8, <1>9 DEF SinksAreCalled
<1>11. HooksAreCalled(dd, t)
  BY <1>2, <1>4 DEF HooksAreCalled, ToSet
<1>12. \A S : DeliveryIsRight(dd, t, S)
  BY <1>4, <1>10, <1>11 DEF DeliveryIsRight
<1>13. ASSUME NEW f \in Events  PROVE DeliveryIsRight(delivery[f], tried[f], Entitled(f))'
  <2>1. PICK d1, t1, S1 : d1 = delivery'[f] /\ t1 = tried'[f] /\ S1 = Entitled(f)'
    OBVIOUS
  <2>2. CASE f = e
    BY <1>1, <1>3, <1>6, <1>12, <2>1, <2>2, SameConfigSameDebt
  <2>3. CASE f # e
    <3>1. Entitled(f)' = Entitled(f)
      BY <1>3, <1>6, <2>3 DEF Entitled
    <3>2. DeliveryIsRight(d1, t1, S1)
      BY <1>3, <1>6, <2>1, <2>3, <3>1 DEF NotifyInv
    <3>3. DeliveryIsRight(d1, t1, S1)'
      BY <1>3, <3>2, SameConfigSameDebt
    <3> QED
      BY <2>1, <3>3
  <2> QED
    BY <2>2, <2>3
<1>14. cipher' \in Int /\ tried' \in [Events -> Calls]
  BY <1>3 DEF NotifyInv
<1> QED
  BY <1>6, <1>7, <1>13, <1>14 DEF NotifyInv

LEMMA CreateWebhookKeeps ==
    ASSUME NotifyInv, NEW org \in Orgs \cup {NoOrg}, NEW name \in {"soc", "siem"},
           NEW enabled \in BOOLEAN, CreateWebhook(org, name, enabled)
    PROVE  NotifyInv'
<1>1. HooksAreNumbered
  BY DEF NotifyInv
<1>2. PICK h : h = [id |-> created + 1, org |-> org, name |-> name, sealed |-> cipher,
                    enabled |-> enabled]
  OBVIOUS
<1>3. h \in Rows /\ h.id = created + 1
  BY <1>1, <1>2 DEF Rows, NotifyInv, HooksAreNumbered
<1>4. /\ hooks' = hooks \cup {h} /\ created' = created + 1
      /\ UNCHANGED <<config, cipher, delivery, tried, standing>>
  BY <1>2 DEF CreateWebhook
<1>5. HooksAreNumbered'
  <2>1. created \in Nat /\ 1..created \subseteq 1..(created + 1) /\ created + 1 \notin 1..created
    BY <1>1 DEF HooksAreNumbered
  <2>2. \A k \in hooks : k.id # h.id
    BY <1>1, <1>3, <2>1 DEF HooksAreNumbered
  <2>3. \A j, k \in hooks \cup {h} : j.id = k.id => j = k
    BY <1>1, <2>2 DEF HooksAreNumbered
  <2>4. \A k \in hooks \cup {h} : k.id \in 1..(created + 1)
    BY <1>1, <1>3, <2>1 DEF HooksAreNumbered
  <2>5. hooks \cup {h} \subseteq Rows /\ created + 1 \in Nat
    BY <1>1, <1>3 DEF HooksAreNumbered
  <2>6. \A e \in Events : /\ standing[e] \subseteq 1..(created + 1)
                          /\ \A k \in delivery[e].queue : k.id \in 1..(created + 1)
    BY <1>1, <2>1 DEF HooksAreNumbered
  <2> QED
    BY <1>4, <2>3, <2>4, <2>5, <2>6 DEF HooksAreNumbered
<1>6. ASSUME NEW e \in Events  PROVE Entitled(e)' \subseteq Entitled(e)
  <2>1. h.id \notin standing[e]
    BY <1>1, <1>3 DEF HooksAreNumbered
  <2> QED
    BY <1>4, <2>1 DEF Entitled
<1>7. \A e \in Events : DeliveryIsRight(delivery'[e], tried[e], Entitled(e))
  BY <1>4 DEF NotifyInv
<1>8. /\ cipher' \in Int /\ delivery' \in [Events -> Deliveries]
      /\ standing' \in [Events -> SUBSET Nat]
  BY <1>4 DEF NotifyInv
<1> QED
  BY <1>4, <1>5, <1>6, <1>7, <1>8, NobodyIsCalled

LEMMA DeleteWebhookKeeps ==
    ASSUME NotifyInv, NEW org, NEW id, DeleteWebhook(org, id)
    PROVE  NotifyInv'
<1>1. HooksAreNumbered
  BY DEF NotifyInv
<1>2. /\ hooks' \subseteq hooks /\ standing' = [e \in Events |-> standing[e] \ {id}]
      /\ UNCHANGED <<config, cipher, delivery, tried, created>>
  BY DEF DeleteWebhook
<1>3. /\ standing' \in [Events -> SUBSET Nat]
      /\ \A e \in Events : standing'[e] \subseteq standing[e]
  BY <1>2 DEF NotifyInv
<1>4. HooksAreNumbered'
  BY <1>1, <1>2, <1>3 DEF HooksAreNumbered
<1>5. \A e \in Events : Entitled(e)' \subseteq Entitled(e)
  BY <1>2, <1>3 DEF Entitled
<1>6. \A e \in Events : DeliveryIsRight(delivery'[e], tried[e], Entitled(e))
  BY <1>2 DEF NotifyInv
<1>7. cipher' \in Int /\ delivery' \in [Events -> Deliveries]
  BY <1>2 DEF NotifyInv
<1> QED
  BY <1>2, <1>3, <1>4, <1>5, <1>6, <1>7, NobodyIsCalled

LEMMA RestartNotifyKeeps ==
    ASSUME NotifyInv, NEW key \in 0..2, RestartNotify(key)
    PROVE  NotifyInv'
<1>1. HooksAreNumbered
  BY DEF NotifyInv
<1>2. cipher' = key /\ UNCHANGED <<config, hooks, tried, created, standing>>
  BY DEF RestartNotify
<1>3. ASSUME NEW e \in Events
      PROVE  /\ delivery'[e] \in Deliveries /\ delivery'[e].org = delivery[e].org
             /\ delivery'[e].queue \subseteq delivery[e].queue
             /\ DeliveryIsRight(delivery'[e], tried[e], Entitled(e))
  <2>1. PICK d, t : d = delivery[e] /\ t = tried[e]
    OBVIOUS
  <2>2. d \in Deliveries /\ DeliveryIsRight(d, t, Entitled(e))
    BY <2>1 DEF NotifyInv
  <2>3. CASE d.at \in {"sinks", "hooks"}
    <3> DEFINE dd == [d EXCEPT !.at = "over", !.queue = {}, !.cut = TRUE]
    <3>1. delivery'[e] = dd
      BY <2>1, <2>3 DEF RestartNotify
    <3>2. /\ dd \in Deliveries /\ dd.at = "over" /\ dd.queue = {} /\ dd.cut = TRUE
          /\ dd.org = d.org /\ dd.next = d.next /\ dd.verdict = d.verdict
      BY <2>2 DEF Deliveries
    <3> HIDE DEF dd
    <3>3. DeliveryIsRight(dd, t, Entitled(e))
      BY <2>2, <3>2 DEF DeliveryIsRight, SinksAreCalled, HooksAreCalled, May
    <3> QED
      BY <2>1, <3>1, <3>2, <3>3
  <2>4. CASE d.at \notin {"sinks", "hooks"}
    <3>1. delivery'[e] = d
      BY <2>1, <2>4 DEF RestartNotify
    <3> QED
      BY <2>1, <2>2, <3>1
  <2> QED
    BY <2>3, <2>4
<1>4. delivery' \in [Events -> Deliveries]
  <2>1. delivery' = [e \in Events |-> delivery'[e]]
    BY DEF RestartNotify
  <2> QED
    BY <1>3, <2>1
<1>5. HooksAreNumbered'
  BY <1>1, <1>2, <1>3 DEF HooksAreNumbered
<1>6. \A e \in Events : Entitled(e)' \subseteq Entitled(e)
  BY <1>2, <1>3 DEF Entitled
<1>7. cipher' \in Int /\ standing' \in [Events -> SUBSET Nat]
  BY <1>2 DEF NotifyInv
<1> QED
  BY <1>2, <1>3, <1>4, <1>5, <1>6, <1>7, NobodyIsCalled

LEMMA NotifyInitIsRight == NotifyInit => NotifyInv
<1> SUFFICES ASSUME NotifyInit  PROVE NotifyInv
  OBVIOUS
<1>1. Waiting \in Deliveries
  BY DEF Waiting, Deliveries, Verdicts
<1>2. PICK t : t = [sinks |-> <<>>, hooks |-> <<>>]
  OBVIOUS
<1>3. t \in Calls /\ t.sinks = <<>> /\ t.hooks = <<>>
  BY <1>2 DEF Calls
<1>4. /\ \A e \in Events : delivery[e] = Waiting /\ tried[e] = t /\ standing[e] = {}
      /\ delivery \in [Events -> Deliveries] /\ tried \in [Events -> Calls]
      /\ standing \in [Events -> SUBSET Nat]
      /\ hooks = {} /\ created = 0
  BY <1>1, <1>2, <1>3 DEF NotifyInit
<1>5. HooksAreNumbered
  BY <1>4 DEF HooksAreNumbered, Waiting
<1>6. Waiting.at = "new" /\ Waiting.next = 0 /\ Waiting.queue = {}
  BY DEF Waiting
<1>7. DOMAIN Order = 1..5 /\ ~\E i \in Notifiers : i < 0
  BY OrderIsDistinct DEF Notifiers
<1>8. SinksAreCalled(Waiting, t)
  <2>1. \A s : Times(t.sinks, s) = 0
    BY <1>3, TimesNone
  <2> QED
    BY <1>6, <1>7, <2>1 DEF SinksAreCalled
<1>9. HooksAreCalled(Waiting, t)
  BY <1>3, <1>6 DEF HooksAreCalled, ToSet
<1>10. \A S : DeliveryIsRight(Waiting, t, S)
  BY <1>3, <1>6, <1>8, <1>9 DEF DeliveryIsRight
<1>11. \A e \in Events : DeliveryIsRight(delivery[e], tried[e], Entitled(e))
  BY <1>4, <1>10
<1> QED
  BY <1>4, <1>5, <1>11 DEF NotifyInv, NotifyInit

LEMMA DeliverKeeps ==
    ASSUME NotifyInv, Deliver
    PROVE  NotifyInv'
<1>1. ASSUME NEW e \in Events, DeliveryStep(e)  PROVE NotifyInv'
  BY <1>1, CallSinkKeeps, LoadHooksKeeps, CallHookKeeps, EndDeliveryKeeps DEF DeliveryStep
<1>2. ASSUME NotifyNext  PROVE NotifyInv'
  BY <1>1, <1>2, StartDeliveryKeeps, CreateWebhookKeeps, DeleteWebhookKeeps DEF NotifyNext
<1> QED
  BY <1>2, RestartNotifyKeeps DEF Deliver

LEMMA QuietKeepsTheDeliveries ==
    ASSUME NotifyInv, UNCHANGED outVars
    PROVE  NotifyInv'
<1>1. UNCHANGED <<config, cipher, hooks, delivery, tried, created, standing>>
  BY DEF outVars
<1>2. HooksAreNumbered'
  BY <1>1 DEF NotifyInv, HooksAreNumbered
<1>3. \A e \in Events : Entitled(e)' \subseteq Entitled(e)
  BY <1>1 DEF Entitled
<1>4. \A e \in Events : DeliveryIsRight(delivery'[e], tried[e], Entitled(e))
  BY <1>1 DEF NotifyInv
<1>5. /\ cipher' \in Int /\ delivery' \in [Events -> Deliveries]
      /\ standing' \in [Events -> SUBSET Nat]
  BY <1>1 DEF NotifyInv
<1> QED
  BY <1>1, <1>2, <1>3, <1>4, <1>5, NobodyIsCalled

LEMMA RightDeliveriesReachEveryone == NotifyInv => VerdictsReachTheirReceivers
<1> SUFFICES ASSUME NotifyInv  PROVE VerdictsReachTheirReceivers
  OBVIOUS
<1>1. ASSUME NEW e \in Events, delivery[e].at = "over", ~delivery[e].cut, NEW s \in DOMAIN config
      PROVE  Times(tried[e].sinks, s) =
               IF (\E i \in Notifiers : Order[i] = s) /\ Sends(s, config[s], delivery[e].verdict)
               THEN 1 ELSE 0
  <2>1. PICK d : d = delivery[e]
    OBVIOUS
  <2>2. DeliveryIsRight(d, tried[e], Entitled(e)) /\ d \in Deliveries
    BY <2>1 DEF NotifyInv
  <2>3. d.next \in Nat /\ {i \in Notifiers : i >= d.next} = {} /\ SinksAreCalled(d, tried[e])
    BY <1>1, <2>1, <2>2 DEF DeliveryIsRight, Deliveries
  <2>4. Notifiers \subseteq 1..5
    BY OrderIsDistinct DEF Notifiers
  <2>5. \A i \in Notifiers : i < d.next
    BY <2>3, <2>4
  <2> QED
    BY <2>1, <2>3, <2>5 DEF SinksAreCalled
<1>2. ASSUME NEW e \in Events, delivery[e].at = "over", ~delivery[e].cut, NEW h \in Entitled(e)
      PROVE  \/ Times(tried[e].hooks, h) = 1
             \/ \E k \in delivery[e].sealed : delivery[e].org \in {NoOrg, k.org}
  BY <1>2 DEF NotifyInv, DeliveryIsRight, May
<1>3. EveryReceiverIsTried
  BY <1>1, <1>2 DEF EveryReceiverIsTried
<1>4. EventsStayInOrganisation
  BY DEF NotifyInv, DeliveryIsRight, HooksAreCalled, May, EventsStayInOrganisation
<1> QED
  BY <1>3, <1>4 DEF VerdictsReachTheirReceivers

\* A delivery that ran to its end has called every sink that is meant to hear
\* of its verdict once, and every hook that stood enabled for the
\* organisation all the while, unless one of its secrets did not open; no
\* hook of another organisation is called (notify.go, Fanout.Notify).
THEOREM VerdictsReachEveryone == OutboundSpec => []VerdictsReachTheirReceivers
<1>1. OutboundInit => NotifyInv
  BY NotifyInitIsRight DEF OutboundInit
<1>2. NotifyInv /\ [OutboundNext]_outboundVars => NotifyInv'
  BY DeliverKeeps, QuietKeepsTheDeliveries DEF OutboundNext, Reply, outboundVars
<1>3. NotifyInv => VerdictsReachTheirReceivers
  BY RightDeliveriesReachEveryone
<1> QED
  BY <1>1, <1>2, <1>3, PTL DEF OutboundSpec

-----------------------------------------------------------------------------
(* Answers by mail: of those the server took, each was told of, regretted, *)
(* or is about to be.                                                      *)

LEMMA MailStepKeeps ==
    ASSUME MailInv, MailNext \/ RestartMail
    PROVE  MailInv'
<1> DEFINE Counts == [asked : Nat, accepted : Nat, regretted : Nat, told : Nat, audited : Nat]
<1>1. /\ replied \in Counts /\ RepliesAreAccounted
      /\ reply \in [at : Phases, asker : {"http", "imap"}]
  BY DEF MailInv
<1>2. ASSUME NEW asker \in {"http", "imap"}, NEW valid, AskReply(asker, valid)  PROVE MailInv'
  BY <1>1, <1>2 DEF AskReply, NoReply, MailInv, Phases, RepliesAreAccounted
<1>3. ASSUME NEW from, NEW to \in Phases, Goes(from, to), from # "quit", to # "quit",
             UNCHANGED replied
      PROVE  MailInv'
  <2>1. /\ reply' \in [at : Phases, asker : {"http", "imap"}]
        /\ reply'.at # "quit" /\ reply.at # "quit"
    BY <1>1, <1>3 DEF Goes, Phases
  <2> QED
    BY <1>1, <1>3, <2>1 DEF MailInv, Phases, RepliesAreAccounted
<1>4. ASSUME NEW from, from # "quit", Fails(from)  PROVE MailInv'
  BY <1>1, <1>4 DEF Fails, NoReply, MailInv, Phases, RepliesAreAccounted
<1>5. CASE CloseData
  <2>1. /\ reply' \in [at : Phases, asker : {"http", "imap"}]
        /\ reply'.at = "quit" /\ reply.at = "data"
    BY <1>1, <1>5 DEF CloseData, Goes, Phases
  <2>2. /\ replied' \in Counts /\ replied'.accepted = replied.accepted + 1
        /\ replied'.told = replied.told /\ replied'.regretted = replied.regretted
        /\ replied'.audited = replied.audited
    BY <1>1, <1>5 DEF CloseData
  <2> QED
    BY <1>1, <2>1, <2>2 DEF MailInv, RepliesAreAccounted
<1>6. CASE Quit
  <2>1. NoReply \in [at : Phases, asker : {"http", "imap"}] /\ NoReply.at = "idle"
    BY DEF NoReply, Phases
  <2>2. PICK audit \in (IF reply.asker = "http" THEN 0..1 ELSE {0}) :
          replied' = [replied EXCEPT !.told = @ + 1, !.audited = @ + audit]
    BY <1>6, Zenon DEF Quit
  <2>3. audit \in 0..1
    OBVIOUS
  <2>4. replied \in Counts
    BY <1>1
  <2>5. /\ replied'.accepted = replied.accepted /\ replied'.regretted = replied.regretted
        /\ replied'.told = replied.told + 1 /\ replied'.audited = replied.audited + audit
    BY <2>2, <2>3, <2>4
  <2>6. replied' \in Counts
    <3>1. replied.told + 1 \in Nat /\ replied.audited + audit \in Nat
      BY <2>3, <2>4
    <3> QED
      BY <2>2, <2>4, <3>1
  <2> QED
    BY <1>1, <1>6, <2>1, <2>3, <2>5, <2>6 DEF MailInv, RepliesAreAccounted, Quit
<1>7. CASE BreaksAfterwards
  <2>1. NoReply \in [at : Phases, asker : {"http", "imap"}] /\ NoReply.at = "idle"
    BY DEF NoReply, Phases
  <2>2. CASE reply.at = "quit" /\ replied' = [replied EXCEPT !.regretted = @ + 1]
    BY <1>1, <1>7, <2>1, <2>2 DEF BreaksAfterwards, MailInv, RepliesAreAccounted
  <2>3. CASE reply.at = "data"
             /\ replied' = [replied EXCEPT !.accepted = @ + 1, !.regretted = @ + 1]
    <3>1. replied \in Counts
      BY <1>1
    <3>2. replied.accepted + 1 \in Nat /\ replied.regretted + 1 \in Nat
      BY <3>1
    <3>3. replied' \in Counts
      BY <2>3, <3>1, <3>2
    <3>4. /\ replied'.accepted = replied.accepted + 1 /\ replied'.told = replied.told
          /\ replied'.regretted = replied.regretted + 1 /\ replied'.audited = replied.audited
      BY <2>3, <3>1
    <3> QED
      BY <1>1, <1>7, <2>1, <2>3, <3>3, <3>4 DEF BreaksAfterwards, MailInv, RepliesAreAccounted
  <2> QED
    BY <1>7, <2>2, <2>3 DEF BreaksAfterwards
<1>8. CASE RestartMail
  BY <1>1, <1>8 DEF RestartMail, NoReply, MailInv, Phases, RepliesAreAccounted
<1>9. CASE Connect \/ StartTLS \/ Auth \/ Envelope
  BY <1>3, <1>9 DEF Phases, Connect, StartTLS, Auth, Envelope
<1>10. ASSUME NEW offers, Greet(offers)  PROVE MailInv'
  BY <1>3, <1>10 DEF Greet, Phases
<1>11. CASE AuthFails
  BY <1>4, <1>11 DEF AuthFails
<1> QED
  BY <1>2, <1>4, <1>5, <1>6, <1>7, <1>8, <1>9, <1>10, <1>11 DEF MailNext

\* Who is told of an answer, and every line of the audit log, has a message
\* the mail server took; one it took that nobody was told of broke after the
\* last byte (email.go, SendEmailReply; handleReplySubmission).
THEOREM RepliesAreCounted == OutboundSpec => []RepliesAreAccounted
<1>1. OutboundInit => MailInv
  BY DEF OutboundInit, MailInit, NoReply, MailInv, Phases, RepliesAreAccounted
<1>2. MailInv /\ UNCHANGED mailVars => MailInv'
  BY DEF mailVars, MailInv, Phases, RepliesAreAccounted
<1>3. MailInv /\ [OutboundNext]_outboundVars => MailInv'
  BY <1>2, MailStepKeeps DEF OutboundNext, Deliver, Reply, outboundVars
<1>4. MailInv => RepliesAreAccounted
  BY DEF MailInv
<1> QED
  BY <1>1, <1>3, <1>4, PTL DEF OutboundSpec
=============================================================================
