------------------------------ MODULE Accounts ------------------------------
(***************************************************************************)
(* The backend's accounts, sessions and agent tokens: backend/accounts.py, *)
(* the users and tokens tables of backend/db.py, the authorization of      *)
(* backend/routes.py with the access rules of common/routes.py, and the    *)
(* start of backend/app.py.                                                *)
(*                                                                         *)
(* Handlers run on one event loop and, once their body has arrived, await  *)
(* nothing, so they do not interleave; but each database call commits by   *)
(* itself, and the service may stop, or a call may fail, between two.  So  *)
(* a request is two steps or more: its token is resolved, then its route   *)
(* does its work.  The clock is the host's and may step back.              *)
(*                                                                         *)
(* A hash stands for the password it verifies, so a re-hash under new      *)
(* settings (verify_password) changes nothing here; a secret stands for    *)
(* its token.  A request with a wrong password, or one refused before its  *)
(* token is looked up, changes nothing and is left out.                    *)
(***************************************************************************)
EXTENDS Naturals, FiniteSets

CONSTANTS
    UserIds, TokenIds,   \* bound: the ids new_id will make
    Names, Passwords,
    AdminName, AdminPassword,   \* PAPER_BOXING_ADMIN_USERNAME and _PASSWORD
    SessionLength,       \* PAPER_BOXING_SESSION_DAYS
    MaxTime,             \* bound: the last moment of the clock
    MaxFaults,           \* bound: crashes and failed commits
    NoUser, NoToken      \* nobody, no token

ASSUME Parameters ==
    /\ IsFiniteSet(UserIds) /\ IsFiniteSet(TokenIds)
    /\ AdminName \in Names /\ AdminPassword \in Passwords
    /\ SessionLength \in Nat \ {0} /\ MaxTime \in Nat /\ MaxFaults \in Nat
    /\ NoUser \notin UserIds /\ NoToken \notin TokenIds

VARIABLES
    up,       \* the service runs
    now,      \* the clock
    users,    \* the rows of `users`
    tokens,   \* the rows of `tokens`
    route,    \* the route the current request is in, or "none"
    actor,    \* the token it presented
    ended,    \* history: the tokens a client was told are over
    stale,    \* history: the sessions a committed password change is to end
    faults

vars == <<up, now, users, tokens, route, actor, ended, stale, faults>>

(***************************************************************************)
(* The tables.  An id is used once: "unused", then a row, then "gone".     *)
(***************************************************************************)
Times   == 0 .. MaxTime
Expiry  == 0 .. MaxTime + SessionLength

\* common/scopes.py: the tiers, and scope_allows.
Scopes == 0 .. 2
SessionScope == 2
ScopeAllows(held, required) == held >= required

UserRow  == [st : {"unused", "row", "gone"}, name : Names, password : Passwords]
TokenRow == [st : {"unused", "live", "revoked", "gone"}, type : {"session", "agent"},
             scope : Scopes, user : UserIds \cup {NoUser}, expires : Expiry]

UnusedUser  == [st |-> "unused", name |-> AdminName, password |-> AdminPassword]
UnusedToken == [st |-> "unused", type |-> "agent", scope |-> 0, user |-> NoUser, expires |-> 0]

Accounts == {u \in UserIds : users[u].st = "row"}
Live(t)  == tokens[t].st = "live"
OwnedBy(u) == {t \in TokenIds : tokens[t].st \in {"live", "revoked"} /\ tokens[t].user = u}
Sessions(u) == {t \in OwnedBy(u) : tokens[t].type = "session"}

\* The rows once the tokens ts have the status st.
Marked(ts, st) ==
    [t \in TokenIds |-> [tokens[t] EXCEPT !.st = IF t \in ts THEN st ELSE @]]

\* revoke_token, revoke_other_sessions: only what is not revoked yet.
Revoked(ts) == Marked({t \in ts : Live(t)}, "revoked")

(***************************************************************************)
(* common/routes.py: who may call a route.  "site0" .. "site2" are the     *)
(* routes on sites and files by the scope they need; their work is         *)
(* SiteStore's.                                                            *)
(***************************************************************************)
SessionRoutes == {"logout", "list", "create_token", "revoke_token", "create_user",
                  "change_password", "delete_user"}
SiteRoutes == {"site0", "site1", "site2"}
Routes == SessionRoutes \cup SiteRoutes \cup {"token_self"}
ScopeOf(r) == CASE r = "site0" -> 0 [] r = "site1" -> 1 [] OTHER -> 2

\* Mutant: the session routes ask for the highest scope only.
AccessAllows_ByScope(r, token) ==
    r = "token_self" \/ ScopeAllows(token.scope, ScopeOf(r))

AccessAllows(r, token) ==
    \/ r = "token_self"
    \/ r \in SessionRoutes /\ token.type = "session"
    \/ r \in SiteRoutes /\ ScopeAllows(token.scope, ScopeOf(r))

Init ==
    /\ up = FALSE
    /\ now = 0
    /\ users = [u \in UserIds |-> UnusedUser]
    /\ tokens = [t \in TokenIds |-> UnusedToken]
    /\ route = "none" /\ actor = NoToken
    /\ ended = {} /\ stale = {}
    /\ faults = 0

Answered == route' = "none" /\ actor' = NoToken

(***************************************************************************)
(* POST /auth/login, and the token of every other request                  *)
(***************************************************************************)

\* The name and the password are right; a session is issued.
Login(u, t) ==
    /\ up /\ route = "none"
    /\ u \in Accounts /\ tokens[t].st = "unused"
    /\ tokens' = [tokens EXCEPT ![t] = [st |-> "live", type |-> "session", scope |-> SessionScope,
                                        user |-> u, expires |-> now + SessionLength]]
    /\ UNCHANGED <<up, now, users, route, actor, ended, stale, faults>>

Expired(t) == tokens[t].type = "session" /\ tokens[t].expires <= now

\* resolve_bearer: unknown or revoked, 401.
PresentDead(t) ==
    /\ up /\ route = "none"
    /\ tokens[t].st \in {"revoked", "gone"}
    /\ ended' = ended \cup {t}
    /\ UNCHANGED <<up, now, users, tokens, route, actor, stale, faults>>

\* Mutant: an expired session is refused and left as it is.
PresentExpired_Left(t) ==
    /\ up /\ route = "none" /\ Live(t) /\ Expired(t)
    /\ ended' = ended \cup {t}
    /\ UNCHANGED <<up, now, users, tokens, route, actor, stale, faults>>

\* resolve_bearer: expired, 401, and ended for good.
PresentExpired(t) ==
    /\ up /\ route = "none" /\ Live(t) /\ Expired(t)
    /\ tokens' = Revoked({t})
    /\ ended' = ended \cup {t}
    /\ UNCHANGED <<up, now, users, route, actor, stale, faults>>

\* touch_token: a session's expiry slides.
Touched(t) ==
    [tokens EXCEPT ![t].expires = IF tokens[t].type = "session" THEN now + SessionLength ELSE @]

\* requires: the token is good for the route, which goes on with it.
Present(t, r) ==
    /\ up /\ route = "none" /\ Live(t) /\ ~Expired(t)
    /\ AccessAllows(r, tokens[t])
    /\ tokens' = Touched(t)
    /\ route' = r /\ actor' = t
    /\ UNCHANGED <<up, now, users, ended, stale, faults>>

\* requires: 403, after the use was recorded.
PresentForbidden(t, r) ==
    /\ up /\ route = "none" /\ Live(t) /\ ~Expired(t)
    /\ ~AccessAllows(r, tokens[t])
    /\ tokens' = Touched(t)
    /\ UNCHANGED <<up, now, users, route, actor, ended, stale, faults>>

(***************************************************************************)
(* The routes' work                                                        *)
(***************************************************************************)

\* Reads, the sites' routes, and every answer of an error: nothing here changes.
NoChange ==
    /\ route \in Routes \ {"logout"}
    /\ Answered
    /\ UNCHANGED <<up, now, users, tokens, ended, stale, faults>>

Logout ==
    /\ route = "logout"
    /\ tokens' = Revoked({actor})
    /\ ended' = ended \cup {actor}
    /\ Answered
    /\ UNCHANGED <<up, now, users, stale, faults>>

CreateToken(t, scope) ==
    /\ route = "create_token" /\ tokens[t].st = "unused"
    /\ tokens' = [tokens EXCEPT ![t] = [st |-> "live", type |-> "agent", scope |-> scope,
                                        user |-> tokens[actor].user, expires |-> 0]]
    /\ Answered
    /\ UNCHANGED <<up, now, users, ended, stale, faults>>

\* revoke_agent_token: any user's, but no session.
RevokeToken(t) ==
    /\ route = "revoke_token" /\ Live(t) /\ tokens[t].type = "agent"
    /\ tokens' = Revoked({t})
    /\ ended' = ended \cup {t}
    /\ Answered
    /\ UNCHANGED <<up, now, users, stale, faults>>

NameTaken(name) == \E u \in Accounts : users[u].name = name

NewUser(u, name, password) ==
    /\ users[u].st = "unused"
    /\ users' = [users EXCEPT ![u] = [st |-> "row", name |-> name, password |-> password]]

CreateUser(u, name, password) ==
    /\ route = "create_user" /\ ~NameTaken(name)
    /\ NewUser(u, name, password)
    /\ Answered
    /\ UNCHANGED <<up, now, tokens, ended, stale, faults>>

\* The sessions a password change signs out: the user's, but the caller's.
Others == {t \in Sessions(tokens[actor].user) : t # actor}

\* The current password was right: set_password_hash commits the new one.
ChangePasswordSet(password) ==
    /\ route = "change_password"
    /\ users' = [users EXCEPT ![tokens[actor].user].password = password]
    /\ route' = "sign_out_others"
    /\ stale' = stale \cup {t \in Others : Live(t)}
    /\ UNCHANGED <<up, now, tokens, actor, ended, faults>>

\* Mutant: every token of the user is revoked but the caller's.
SignOutOthers_AllTypes ==
    /\ route = "sign_out_others"
    /\ tokens' = Revoked(OwnedBy(tokens[actor].user) \ {actor})
    /\ ended' = ended \cup Others
    /\ Answered
    /\ UNCHANGED <<up, now, users, stale, faults>>

\* Mutant: the sessions near their end are left to expire.
SignOutOthers_Unexpired ==
    /\ route = "sign_out_others"
    /\ tokens' = Revoked({t \in Others : ~Expired(t)})
    /\ Answered
    /\ UNCHANGED <<up, now, users, ended, stale, faults>>

\* revoke_other_sessions commits, and the request is answered.
SignOutOthers ==
    /\ route = "sign_out_others"
    /\ tokens' = Revoked(Others)
    /\ ended' = ended \cup Others
    /\ Answered
    /\ UNCHANGED <<up, now, users, stale, faults>>

\* Mutant: the last account may go too.
DeleteUser_Last(u) ==
    /\ route = "delete_user" /\ u \in Accounts
    /\ users' = [users EXCEPT ![u].st = "gone"]
    /\ tokens' = Marked(OwnedBy(u), "gone")
    /\ ended' = ended \cup OwnedBy(u)
    /\ Answered
    /\ UNCHANGED <<up, now, stale, faults>>

\* Mutant: the tokens stay when their account goes.
DeleteUser_KeepsTokens(u) ==
    /\ route = "delete_user" /\ u \in Accounts /\ Cardinality(Accounts) > 1
    /\ users' = [users EXCEPT ![u].st = "gone"]
    /\ Answered
    /\ UNCHANGED <<up, now, tokens, ended, stale, faults>>

\* The row goes, and by the foreign key its tokens; never the last account.
DeleteUser(u) ==
    /\ route = "delete_user" /\ u \in Accounts /\ Cardinality(Accounts) > 1
    /\ users' = [users EXCEPT ![u].st = "gone"]
    /\ tokens' = Marked(OwnedBy(u), "gone")
    /\ ended' = ended \cup OwnedBy(u)
    /\ Answered
    /\ UNCHANGED <<up, now, stale, faults>>

(***************************************************************************)
(* Faults, the clock and the start                                         *)
(***************************************************************************)
Fault == faults < MaxFaults /\ faults' = faults + 1

\* The route's next commit fails: 500, and what was committed stays.
CommitFails ==
    /\ route # "none" /\ Fault
    /\ Answered
    /\ UNCHANGED <<up, now, users, tokens, ended, stale>>

Crash ==
    /\ up /\ Fault
    /\ up' = FALSE
    /\ Answered
    /\ UNCHANGED <<now, users, tokens, ended, stale>>

\* The host's clock moves on, or is set back.
ClockMoves ==
    /\ now' \in Times \ {now}
    /\ UNCHANGED <<up, users, tokens, route, actor, ended, stale, faults>>

\* bootstrap: the first account, only when there is none and the variables are set.
Bootstrap ==
    \/ UNCHANGED users
    \/ Accounts = {} /\ \E u \in UserIds : NewUser(u, AdminName, AdminPassword)

\* purge_dead_sessions: the sessions revoked or expired at this moment.
DeadSessions ==
    {t \in TokenIds : /\ tokens[t].st \in {"live", "revoked"} /\ tokens[t].type = "session"
                      /\ tokens[t].st = "revoked" \/ tokens[t].expires <= now}

\* lifespan.
Start ==
    /\ ~up
    /\ up' = TRUE
    /\ Bootstrap
    /\ tokens' = Marked(DeadSessions, "gone")
    /\ UNCHANGED <<now, route, actor, ended, stale, faults>>

Next ==
    \/ \E u \in UserIds, t \in TokenIds : Login(u, t)
    \/ \E t \in TokenIds : PresentDead(t) \/ PresentExpired(t) \/ RevokeToken(t)
    \/ \E t \in TokenIds, r \in Routes : Present(t, r) \/ PresentForbidden(t, r)
    \/ \E t \in TokenIds, scope \in Scopes : CreateToken(t, scope)
    \/ \E u \in UserIds, name \in Names, password \in Passwords : CreateUser(u, name, password)
    \/ \E password \in Passwords : ChangePasswordSet(password)
    \/ \E u \in UserIds : DeleteUser(u)
    \/ NoChange \/ Logout \/ SignOutOthers
    \/ CommitFails \/ Crash \/ ClockMoves \/ Start

Spec == Init /\ [][Next]_vars

(***************************************************************************)
(* Properties                                                              *)
(***************************************************************************)

\* The shape of the tables, the current request and the clock.
TypeOK ==
    /\ up \in BOOLEAN
    /\ now \in Times
    /\ users \in [UserIds -> UserRow]
    /\ tokens \in [TokenIds -> TokenRow]
    /\ route \in Routes \cup {"none", "sign_out_others"}
    /\ actor \in TokenIds \cup {NoToken}
    /\ ended \subseteq TokenIds /\ stale \subseteq TokenIds
    /\ faults \in 0 .. MaxFaults

\* A token a client was told is over (refused, signed out, revoked, or its
\* account removed) is never good again, though the clock steps back, the
\* service restarts or dead sessions are purged (resolve_bearer: "Expiry is final").
EndedStaysEnded == \A t \in ended : ~Live(t)

\* Every token belongs to an account, so no removed account's token lives on,
\* and no two accounts share a name.
OwnersExist ==
    /\ \A t \in TokenIds : tokens[t].st \in {"live", "revoked"} => tokens[t].user \in Accounts
    /\ \A u, v \in Accounts : users[u].name = users[v].name => u = v

\* Once there is an account there always is one: somebody can sign in.
AccountsNeverEmpty == [][Accounts # {} => Accounts' # {}]_vars

\* Who has an account, a password or an agent token is changed only on behalf
\* of a session that is live, and a password only its owner's; the first
\* account of an empty database is the one exception (requires, bootstrap).
BySession == actor # NoToken /\ Live(actor) /\ tokens[actor].type = "session"

Agents == {t \in TokenIds : Live(t) /\ tokens[t].type = "agent"}

ManagementNeedsSession ==
    [][/\ Accounts' # Accounts => BySession \/ Accounts = {}
       /\ Agents' # Agents => BySession
       /\ \A u \in Accounts : users'[u].password # users[u].password
             => BySession /\ tokens[actor].user = u]_vars

\* A token ends for a cause: its own sign-out, its expiry, a revocation that
\* names it, another session's password change, or the removal of its account.
\* So an agent token never expires, and a password change leaves it and the
\* calling session alone.
TokensEndForCause ==
    [][\A t \in TokenIds : Live(t) /\ tokens'[t].st # "live" =>
          \/ tokens[t].user \notin Accounts'
          \/ tokens[t].type = "agent" /\ route = "revoke_token"
          \/ /\ tokens[t].type = "session"
             /\ \/ Expired(t)
                \/ route = "logout" /\ actor = t
                \/ route = "sign_out_others" /\ actor # t /\ tokens[actor].user = tokens[t].user]_vars

\* A password change signs out the user's other sessions (change_password):
\* once the new password is in force and the request is over, none is live.
PasswordChangeSignsOut == route = "none" => \A t \in stale : ~Live(t)

\* As long as no request was cut short, a password change that is over has
\* signed out the user's other sessions, whichever requests raced with it
\* (accounts.change_password and db.py's sign-out of the others).
SignsOutUnlessFault == faults = 0 => PasswordChangeSignsOut
=============================================================================
