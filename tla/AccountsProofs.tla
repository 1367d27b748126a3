--------------------------- MODULE AccountsProofs ---------------------------
(***************************************************************************)
(* Proofs about Accounts for any number of users and tokens, any session   *)
(* length and any clock.                                                   *)
(***************************************************************************)
EXTENDS Accounts, FiniteSetTheorems, TLAPS

\* The current request acts with a token that is live: nothing ends it
\* between its check and the route's work.
ActorLive == route # "none" => up /\ actor \in TokenIds /\ Live(actor)

\* What clients were told is over is revoked or removed, so its id cannot be
\* issued again either.
EndedDead == \A t \in ended : tokens[t].st \in {"revoked", "gone"}

Inv == TypeOK /\ ActorLive /\ EndedDead /\ OwnersExist

\* The rows the actions write have their types.
LEMMA Rows ==
    /\ UnusedUser \in UserRow /\ UnusedToken \in TokenRow
    /\ \A n \in Names, p \in Passwords : [st |-> "row", name |-> n, password |-> p] \in UserRow
    /\ \A u \in UserIds, n \in Times :
          [st |-> "live", type |-> "session", scope |-> SessionScope,
           user |-> u, expires |-> n + SessionLength] \in TokenRow
    /\ \A u \in UserIds, s \in Scopes :
          [st |-> "live", type |-> "agent", scope |-> s, user |-> u, expires |-> 0] \in TokenRow
<1>1. UnusedUser \in UserRow /\ UnusedToken \in TokenRow
  BY Parameters DEF UnusedUser, UserRow, UnusedToken, TokenRow, Scopes, Expiry
<1>2. \A n \in Names, p \in Passwords : [st |-> "row", name |-> n, password |-> p] \in UserRow
  BY DEF UserRow
<1>3. \A n \in Times : n + SessionLength \in Expiry
  BY Parameters DEF Times, Expiry
<1>4. \A u \in UserIds, n \in Times :
          [st |-> "live", type |-> "session", scope |-> SessionScope,
           user |-> u, expires |-> n + SessionLength] \in TokenRow
  BY <1>3 DEF TokenRow, Scopes, SessionScope
<1>5. \A u \in UserIds, s \in Scopes :
          [st |-> "live", type |-> "agent", scope |-> s, user |-> u, expires |-> 0] \in TokenRow
  BY Parameters DEF TokenRow, Scopes, Expiry
<1> QED BY <1>1, <1>2, <1>4, <1>5

\* Marking changes the status of the tokens marked and nothing else.
LEMMA Marks ==
    ASSUME tokens \in [TokenIds -> TokenRow], NEW ts, NEW st \in {"revoked", "gone"}
    PROVE  /\ Marked(ts, st) \in [TokenIds -> TokenRow]
           /\ \A t \in TokenIds :
                 /\ Marked(ts, st)[t].st = IF t \in ts THEN st ELSE tokens[t].st
                 /\ Marked(ts, st)[t].user = tokens[t].user
                 /\ Marked(ts, st)[t].type = tokens[t].type
<1>1. \A t \in TokenIds : [tokens[t] EXCEPT !.st = IF t \in ts THEN st ELSE @] \in TokenRow
  BY DEF TokenRow
<1> QED BY <1>1 DEF Marked, TokenRow

LEMMA InitInv == Init => Inv
<1> SUFFICES ASSUME Init PROVE Inv
  OBVIOUS
<1>1. TypeOK
  <2>1. up \in BOOLEAN
    BY DEF Init
  <2>2. now \in Times /\ faults \in 0 .. MaxFaults
    BY Parameters DEF Init, Times
  <2>3. users \in [UserIds -> UserRow] /\ tokens \in [TokenIds -> TokenRow]
    BY Rows DEF Init
  <2>4. /\ route \in Routes \cup {"none", "sign_out_others"} /\ actor \in TokenIds \cup {NoToken}
        /\ ended \subseteq TokenIds /\ stale \subseteq TokenIds
    BY DEF Init
  <2> QED BY <2>1, <2>2, <2>3, <2>4 DEF TypeOK
<1>2. ActorLive /\ EndedDead
  BY DEF Init, ActorLive, EndedDead
<1>3. OwnersExist
  BY DEF Init, OwnersExist, Accounts, UnusedToken, UnusedUser
<1> QED BY <1>1, <1>2, <1>3 DEF Inv

\* A step that leaves the tables alone.
LEMMA TablesKept ==
    ASSUME Inv, UNCHANGED <<users, tokens>>, UNCHANGED <<ended, stale>>,
           up' \in BOOLEAN, now' \in Times, faults' \in 0 .. MaxFaults,
           UNCHANGED <<up, route, actor>> \/ Answered
    PROVE  Inv'
<1>1. route' \in Routes \cup {"none", "sign_out_others"} /\ actor' \in TokenIds \cup {NoToken}
  BY DEF Inv, TypeOK, Answered
<1>2. TypeOK'
  BY <1>1 DEF Inv, TypeOK
<1>3. ActorLive' /\ EndedDead'
  BY DEF Inv, ActorLive, EndedDead, Live, Answered
<1>4. OwnersExist'
  BY DEF Inv, OwnersExist, Accounts
<1> QED BY <1>2, <1>3, <1>4 DEF Inv

\* A step that ends the tokens ts, with or without telling, and no account.
LEMMA TokensEnd ==
    ASSUME Inv, NEW ts, NEW st \in {"revoked", "gone"}, tokens' = Marked(ts, st),
           \A t \in ts : tokens[t].st \in {"live", "revoked"},
           NEW told, ended' = ended \cup told, told \subseteq TokenIds,
           \A t \in told : t \in ts \/ tokens[t].st \in {"revoked", "gone"},
           UNCHANGED <<now, users, stale, faults>>, up' \in BOOLEAN,
           \/ Answered
           \/ route = "none" /\ UNCHANGED <<route, actor>>
    PROVE  Inv'
<1>1. tokens \in [TokenIds -> TokenRow]
  BY DEF Inv, TypeOK
<1>2. /\ tokens' \in [TokenIds -> TokenRow]
      /\ \A t \in TokenIds : /\ tokens'[t].st = IF t \in ts THEN st ELSE tokens[t].st
                            /\ tokens'[t].user = tokens[t].user
  BY <1>1, Marks
<1>3. TypeOK'
  BY <1>2 DEF Inv, TypeOK, Answered
<1>4. ActorLive'
  BY DEF ActorLive, Answered
<1>5. EndedDead'
  BY <1>2 DEF EndedDead, Inv, TypeOK
<1>6. OwnersExist'
  BY <1>2 DEF Inv, OwnersExist, Accounts
<1> QED BY <1>3, <1>4, <1>5, <1>6 DEF Inv

\* A step that issues a token to an account.
LEMMA TokenIssued ==
    ASSUME Inv, NEW t \in TokenIds, NEW new \in TokenRow, tokens[t].st = "unused",
           new.st = "live", new.user \in Accounts, tokens' = [tokens EXCEPT ![t] = new],
           UNCHANGED <<up, now, users, ended, stale, faults>>,
           \/ Answered
           \/ route = "none" /\ UNCHANGED <<route, actor>>
    PROVE  Inv'
<1>1. TypeOK'
  BY DEF Inv, TypeOK, Answered
<1>2. ActorLive'
  BY DEF ActorLive, Answered
<1>3. EndedDead'
  BY DEF Inv, TypeOK, EndedDead
<1>4. OwnersExist'
  BY DEF Inv, TypeOK, OwnersExist, Accounts
<1> QED BY <1>1, <1>2, <1>3, <1>4 DEF Inv

\* The use of a live token moves its expiry and nothing else.
LEMMA TokenUsed ==
    ASSUME Inv, NEW t \in TokenIds, up, Live(t), tokens' = Touched(t),
           UNCHANGED <<up, now, users, ended, stale, faults>>,
           \/ \E r \in Routes : route' = r /\ actor' = t
           \/ route = "none" /\ UNCHANGED <<route, actor>>
    PROVE  Inv'
<1>1. /\ tokens' \in [TokenIds -> TokenRow]
      /\ \A s \in TokenIds : tokens'[s].st = tokens[s].st /\ tokens'[s].user = tokens[s].user
  <2>1. now + SessionLength \in Expiry
    BY Parameters DEF Inv, TypeOK, Times, Expiry
  <2>2. tokens[t] \in TokenRow
    BY DEF Inv, TypeOK
  <2> DEFINE new == [tokens[t] EXCEPT !.expires =
                         IF tokens[t].type = "session" THEN now + SessionLength ELSE @]
  <2>3. new \in TokenRow /\ new.st = tokens[t].st /\ new.user = tokens[t].user
    BY <2>1, <2>2 DEF TokenRow
  <2>4. tokens' = [tokens EXCEPT ![t] = new]
    BY DEF Touched
  <2> HIDE DEF new
  <2> QED BY <2>3, <2>4 DEF Inv, TypeOK
<1>2. TypeOK'
  BY <1>1 DEF Inv, TypeOK
<1>3. ActorLive'
  BY <1>1 DEF ActorLive, Live, Inv, TypeOK
<1>4. EndedDead'
  BY <1>1 DEF Inv, TypeOK, EndedDead
<1>5. OwnersExist'
  BY <1>1 DEF Inv, OwnersExist, Accounts
<1> QED BY <1>2, <1>3, <1>4, <1>5 DEF Inv

\* An account is made under a name that is free.
LEMMA AccountMade ==
    ASSUME Inv, NEW u \in UserIds, NEW name \in Names, NEW password \in Passwords,
           NewUser(u, name, password), ~NameTaken(name),
           UNCHANGED <<now, tokens, ended, stale, faults>>, up' \in BOOLEAN,
           Answered
    PROVE  Inv'
<1>1. /\ users' \in [UserIds -> UserRow] /\ users[u].st = "unused"
      /\ users'[u].st = "row" /\ users'[u].name = name
      /\ \A v \in UserIds : v # u => users'[v] = users[v]
  BY Rows DEF NewUser, Inv, TypeOK
<1>2. TypeOK'
  BY <1>1 DEF Inv, TypeOK, Answered
<1>3. ActorLive' /\ EndedDead'
  BY DEF Inv, ActorLive, EndedDead, Answered
<1>4. Accounts' = Accounts \cup {u} /\ u \notin Accounts
  BY <1>1 DEF Accounts
<1>5. \A v, w \in Accounts' : users'[v].name = users'[w].name => v = w
  BY <1>1, <1>4 DEF Inv, OwnersExist, NameTaken, Accounts
<1>6. OwnersExist'
  BY <1>4, <1>5 DEF Inv, OwnersExist
<1> QED BY <1>2, <1>3, <1>6 DEF Inv

\* Every step keeps the invariant.
LEMMA NextInv == Inv /\ [Next]_vars => Inv'
<1> SUFFICES ASSUME Inv, [Next]_vars PROVE Inv'
  OBVIOUS
<1>1. CASE UNCHANGED vars
  BY <1>1, TablesKept DEF vars, Inv, TypeOK
<1>2. ASSUME NEW u \in UserIds, NEW t \in TokenIds, Login(u, t) PROVE Inv'
  <2> DEFINE new == [st |-> "live", type |-> "session", scope |-> SessionScope,
                     user |-> u, expires |-> now + SessionLength]
  <2>1. new \in TokenRow /\ new.st = "live" /\ new.user = u
    BY Rows DEF Inv, TypeOK
  <2>2. tokens' = [tokens EXCEPT ![t] = new]
    BY <1>2 DEF Login
  <2> HIDE DEF new
  <2> QED BY <1>2, <2>1, <2>2, TokenIssued DEF Login
<1>3. ASSUME NEW t \in TokenIds, PresentDead(t) PROVE Inv'
  <2>1. TypeOK'
    BY <1>3 DEF PresentDead, Inv, TypeOK
  <2>2. ActorLive' /\ EndedDead' /\ OwnersExist'
    BY <1>3 DEF PresentDead, Inv, ActorLive, EndedDead, OwnersExist, Accounts, Live
  <2> QED BY <2>1, <2>2 DEF Inv
<1>4. ASSUME NEW t \in TokenIds, PresentExpired(t) PROVE Inv'
  <2>1. {s \in {t} : Live(s)} = {t}
    BY <1>4 DEF PresentExpired
  <2>2. tokens' = Marked({t}, "revoked") /\ tokens[t].st = "live"
    BY <1>4, <2>1 DEF PresentExpired, Revoked, Live
  <2>3. up' \in BOOLEAN
    BY <1>4 DEF PresentExpired, Inv, TypeOK
  <2>4. {t} \subseteq TokenIds /\ ended' = ended \cup {t}
    BY <1>4 DEF PresentExpired
  <2>5. \A s \in {t} : s \in {t} /\ tokens[s].st \in {"live", "revoked"}
    BY <2>2
  <2> QED BY <1>4, <2>2, <2>3, <2>4, <2>5, TokensEnd DEF PresentExpired
<1>5. ASSUME NEW t \in TokenIds, RevokeToken(t) PROVE Inv'
  <2>1. {s \in {t} : Live(s)} = {t}
    BY <1>5 DEF RevokeToken
  <2>2. tokens' = Marked({t}, "revoked") /\ tokens[t].st = "live"
    BY <1>5, <2>1 DEF RevokeToken, Revoked, Live
  <2>3. up' \in BOOLEAN
    BY <1>5 DEF RevokeToken, Inv, TypeOK
  <2>4. {t} \subseteq TokenIds /\ ended' = ended \cup {t}
    BY <1>5 DEF RevokeToken
  <2>5. \A s \in {t} : s \in {t} /\ tokens[s].st \in {"live", "revoked"}
    BY <2>2
  <2> QED BY <1>5, <2>2, <2>3, <2>4, <2>5, TokensEnd DEF RevokeToken
<1>6. ASSUME NEW t \in TokenIds, NEW r \in Routes, Present(t, r) PROVE Inv'
  BY <1>6, TokenUsed DEF Present
<1>7. ASSUME NEW t \in TokenIds, NEW r \in Routes, PresentForbidden(t, r) PROVE Inv'
  BY <1>7, TokenUsed DEF PresentForbidden
<1>8. ASSUME NEW t \in TokenIds, NEW scope \in Scopes, CreateToken(t, scope) PROVE Inv'
  <2>1. actor \in TokenIds /\ tokens[actor].user \in Accounts
    BY <1>8 DEF CreateToken, Inv, ActorLive, Live, OwnersExist
  <2> DEFINE new == [st |-> "live", type |-> "agent", scope |-> scope,
                     user |-> tokens[actor].user, expires |-> 0]
  <2>2. new \in TokenRow /\ new.st = "live" /\ new.user \in Accounts
    BY <2>1, Rows DEF Accounts
  <2>3. tokens' = [tokens EXCEPT ![t] = new]
    BY <1>8 DEF CreateToken
  <2> HIDE DEF new
  <2> QED BY <1>8, <2>2, <2>3, TokenIssued DEF CreateToken
<1>9. ASSUME NEW u \in UserIds, NEW name \in Names, NEW password \in Passwords,
             CreateUser(u, name, password) PROVE Inv'
  <2>1. up' \in BOOLEAN
    BY <1>9 DEF CreateUser, Inv, TypeOK
  <2> QED BY <1>9, <2>1, AccountMade DEF CreateUser
<1>10. ASSUME NEW password \in Passwords, ChangePasswordSet(password) PROVE Inv'
  <2>1. actor \in TokenIds /\ tokens[actor].user \in UserIds
    BY <1>10 DEF ChangePasswordSet, Inv, ActorLive, Live, OwnersExist, Accounts
  <2>2. /\ users' \in [UserIds -> UserRow]
        /\ \A u \in UserIds : users'[u].st = users[u].st /\ users'[u].name = users[u].name
    BY <1>10, <2>1 DEF ChangePasswordSet, Inv, TypeOK, UserRow
  <2>3. stale' \subseteq TokenIds
    BY <1>10 DEF ChangePasswordSet, Others, Sessions, OwnedBy, Inv, TypeOK
  <2>4. TypeOK'
    BY <1>10, <2>2, <2>3 DEF ChangePasswordSet, Inv, TypeOK
  <2>5. ActorLive' /\ EndedDead'
    BY <1>10 DEF ChangePasswordSet, Inv, ActorLive, EndedDead, Live
  <2>6. OwnersExist'
    BY <1>10, <2>2 DEF ChangePasswordSet, Inv, OwnersExist, Accounts
  <2> QED BY <2>4, <2>5, <2>6 DEF Inv
<1>11. ASSUME NEW u \in UserIds, DeleteUser(u) PROVE Inv'
  <2>1. tokens \in [TokenIds -> TokenRow]
    BY DEF Inv, TypeOK
  <2>2. /\ tokens' \in [TokenIds -> TokenRow]
        /\ \A t \in TokenIds :
              /\ tokens'[t].st = IF t \in OwnedBy(u) THEN "gone" ELSE tokens[t].st
              /\ tokens'[t].user = tokens[t].user
    BY <1>11, <2>1, Marks DEF DeleteUser
  <2>3. /\ users' \in [UserIds -> UserRow]
        /\ Accounts' = Accounts \ {u}
        /\ \A v \in UserIds : users'[v].name = users[v].name
    BY <1>11 DEF DeleteUser, Inv, TypeOK, UserRow, Accounts
  <2>4. OwnedBy(u) \subseteq TokenIds
    BY DEF OwnedBy
  <2>5. TypeOK'
    BY <1>11, <2>2, <2>3, <2>4 DEF DeleteUser, Inv, TypeOK, Answered
  <2>6. ActorLive' /\ EndedDead'
    BY <1>11, <2>2, <2>4 DEF DeleteUser, Inv, TypeOK, ActorLive, EndedDead, Answered
  <2>7. OwnersExist'
    BY <2>2, <2>3 DEF Inv, OwnersExist, OwnedBy, Accounts
  <2> QED BY <2>5, <2>6, <2>7 DEF Inv
<1>12. CASE NoChange
  BY <1>12, TablesKept DEF NoChange, Inv, TypeOK
<1>13. CASE Logout
  <2>1. actor \in TokenIds /\ Live(actor)
    BY <1>13 DEF Logout, Inv, ActorLive
  <2>2. {s \in {actor} : Live(s)} = {actor}
    BY <2>1
  <2>3. tokens' = Marked({actor}, "revoked") /\ tokens[actor].st = "live"
    BY <1>13, <2>1, <2>2 DEF Logout, Revoked, Live
  <2>4. up' \in BOOLEAN
    BY <1>13 DEF Logout, Inv, TypeOK
  <2>5. {actor} \subseteq TokenIds /\ ended' = ended \cup {actor}
    BY <1>13, <2>1 DEF Logout
  <2>6. \A s \in {actor} : s \in {actor} /\ tokens[s].st \in {"live", "revoked"}
    BY <2>3
  <2> QED BY <1>13, <2>3, <2>4, <2>5, <2>6, TokensEnd DEF Logout
<1>14. CASE SignOutOthers
  <2> DEFINE ts == {t \in Others : Live(t)}
  <2>1. tokens' = Marked(ts, "revoked")
    BY <1>14 DEF SignOutOthers, Revoked
  <2>2. Others \subseteq TokenIds /\ \A t \in Others : tokens[t].st \in {"live", "revoked"}
    BY DEF Others, Sessions, OwnedBy
  <2>3. \A t \in Others : t \in ts \/ tokens[t].st \in {"revoked", "gone"}
    BY <2>2 DEF Live
  <2>4. \A t \in ts : tokens[t].st \in {"live", "revoked"}
    BY <2>2
  <2>5. up' \in BOOLEAN
    BY <1>14 DEF SignOutOthers, Inv, TypeOK
  <2> HIDE DEF ts
  <2> QED BY <1>14, <2>1, <2>2, <2>3, <2>4, <2>5, TokensEnd DEF SignOutOthers
<1>15. CASE CommitFails
  BY <1>15, TablesKept, Parameters DEF CommitFails, Fault, Inv, TypeOK
<1>16. CASE Crash
  <2>1. up' \in BOOLEAN
    BY <1>16 DEF Crash
  <2> QED BY <1>16, <2>1, TablesKept, Parameters DEF Crash, Fault, Inv, TypeOK
<1>17. CASE ClockMoves
  BY <1>17, TablesKept DEF ClockMoves, Inv, TypeOK
<1>18. CASE Start
  <2>1. /\ tokens' \in [TokenIds -> TokenRow]
        /\ \A t \in TokenIds :
              /\ tokens'[t].st = IF t \in DeadSessions THEN "gone" ELSE tokens[t].st
              /\ tokens'[t].user = tokens[t].user
    BY <1>18, Marks DEF Start, Inv, TypeOK
  <2>2. DeadSessions \subseteq TokenIds /\ \A t \in DeadSessions : tokens[t].st \in {"live", "revoked"}
    BY DEF DeadSessions
  <2>3. EndedDead'
    BY <1>18, <2>1 DEF Start, Inv, TypeOK, EndedDead
  <2>4. up' \in BOOLEAN
    BY <1>18 DEF Start
  <2>5. /\ users' \in [UserIds -> UserRow] /\ Accounts \subseteq Accounts'
        /\ \A v, w \in Accounts' : users'[v].name = users'[w].name => v = w
    <3>1. CASE UNCHANGED users
      BY <3>1 DEF Inv, TypeOK, OwnersExist, Accounts
    <3>2. ASSUME NEW u \in UserIds, Accounts = {}, NewUser(u, AdminName, AdminPassword)
          PROVE  /\ users' \in [UserIds -> UserRow] /\ Accounts \subseteq Accounts'
                 /\ \A v, w \in Accounts' : users'[v].name = users'[w].name => v = w
      <4>1. users' \in [UserIds -> UserRow] /\ \A v \in UserIds : v # u => users'[v] = users[v]
        BY <3>2, Rows, Parameters DEF NewUser, Inv, TypeOK
      <4>2. Accounts' \subseteq {u}
        BY <3>2, <4>1 DEF Accounts
      <4> QED BY <3>2, <4>1, <4>2
    <3> QED BY <1>18, <3>1, <3>2 DEF Start, Bootstrap
  <2>6. OwnersExist'
    BY <2>1, <2>2, <2>5 DEF Inv, OwnersExist
  <2>7. TypeOK'
    BY <1>18, <2>1, <2>4, <2>5 DEF Start, Inv, TypeOK
  <2>8. ActorLive'
    BY <1>18 DEF Start, Inv, ActorLive
  <2> QED BY <2>3, <2>6, <2>7, <2>8 DEF Inv
<1> QED
  BY <1>1, <1>2, <1>3, <1>4, <1>5, <1>6, <1>7, <1>8, <1>9, <1>10, <1>11, <1>12, <1>13, <1>14,
     <1>15, <1>16, <1>17, <1>18 DEF Next

LEMMA Invariant == Spec => []Inv
BY InitInv, NextInv, PTL DEF Spec

\* A token a client was told is over is never good again, for any number of
\* tokens and whatever the clock does: resolve_bearer revokes what it refuses
\* as expired, and nothing makes a revoked or removed row live.
THEOREM EndedTokens == Spec => []EndedStaysEnded
<1>1. Inv => EndedStaysEnded
  BY DEF Inv, EndedDead, EndedStaysEnded, Live
<1> QED BY <1>1, Invariant, PTL

\* Every token has its account and names are unique, whatever accounts are
\* removed, however the service stops.
THEOREM Owners == Spec => []OwnersExist
<1>1. Inv => OwnersExist
  BY DEF Inv
<1> QED BY <1>1, Invariant, PTL

\* A step never takes the last account: delete_user, the only one that removes
\* one, counts them first and nothing runs between the count and the removal.
THEOREM NeverEmpty == Spec => AccountsNeverEmpty
<1>1. Inv /\ [Next]_vars => [Accounts # {} => Accounts' # {}]_vars
  <2> SUFFICES ASSUME Inv, Next, Accounts # {} PROVE Accounts' # {}
    OBVIOUS
  <2>1. PICK v \in UserIds : users[v].st = "row"
    BY DEF Accounts
  <2>2. CASE UNCHANGED users
    BY <2>1, <2>2 DEF Accounts
  <2>3. ASSUME NEW u \in UserIds, NEW name, NEW password, NewUser(u, name, password)
        PROVE  Accounts' # {}
    BY <2>1, <2>3 DEF NewUser, Accounts, Inv, TypeOK
  <2>4. ASSUME NEW password \in Passwords, ChangePasswordSet(password) PROVE Accounts' # {}
    <3>1. users'[v].st = "row"
      BY <2>1, <2>4 DEF ChangePasswordSet, Inv, TypeOK, UserRow
    <3> QED BY <3>1 DEF Accounts
  <2>5. ASSUME NEW u \in UserIds, DeleteUser(u) PROVE Accounts' # {}
    <3>1. Accounts' = Accounts \ {u} /\ u \in Accounts /\ Cardinality(Accounts) > 1
      BY <2>5 DEF DeleteUser, Accounts, Inv, TypeOK, UserRow
    <3>2. IsFiniteSet(Accounts)
      BY Parameters, FS_Subset DEF Accounts
    <3>3. Cardinality(Accounts \ {u}) = Cardinality(Accounts) - 1 /\ Cardinality(Accounts) \in Nat
      BY <3>1, <3>2, FS_RemoveElement, FS_CardinalityType
    <3>4. Cardinality(Accounts \ {u}) # 0
      BY <3>1, <3>3
    <3>5. Accounts \ {u} # {}
      BY <3>4, FS_EmptySet
    <3> QED BY <3>1, <3>5
  <2> QED
    BY <2>2, <2>3, <2>4, <2>5
    DEF Next, Login, PresentDead, PresentExpired, RevokeToken, Present, PresentForbidden, CreateToken,
        CreateUser, NoChange, Logout, SignOutOthers, CommitFails, Crash, ClockMoves, Start, Bootstrap
<1> QED BY <1>1, Invariant, PTL DEF Spec, AccountsNeverEmpty
(***************************************************************************)
(* How a step may change the tokens.                                       *)
(***************************************************************************)

\* The management routes are in the hands of a session (requires).
ActorMayAct == route \in SessionRoutes \cup {"sign_out_others"} => tokens[actor].type = "session"

\* Before a fault, a session a password change is to end is live only until the sign-out that
\* the same request goes on to, and is among those it ends.
StaleEnd ==
    /\ \A t \in stale : tokens[t].st # "unused"
    /\ faults = 0 => \A t \in stale : Live(t) => route = "sign_out_others" /\ t \in Others

\* A row keeps its owner and its type, and is not made live or unused again.
RowsGoOn ==
    \A t \in TokenIds : tokens[t].st # "unused" =>
       /\ tokens'[t].st # "unused" /\ (tokens'[t].st = "live" => Live(t))
       /\ tokens'[t].type = tokens[t].type /\ tokens'[t].user = tokens[t].user

\* The causes for which the token t may end.
Cause(t) ==
    \/ tokens[t].user \notin Accounts'
    \/ tokens[t].type = "agent" /\ route = "revoke_token"
    \/ /\ tokens[t].type = "session"
       /\ \/ Expired(t)
          \/ route = "logout" /\ actor = t
          \/ route = "sign_out_others" /\ actor # t /\ tokens[actor].user = tokens[t].user

EndsForCause == \A t \in TokenIds : Live(t) /\ tokens'[t].st # "live" => Cause(t)

\* The steps that mark tokens, each for the cause of its own.
LEMMA MarkStep ==
    ASSUME Inv, NEW ts, NEW st \in {"revoked", "gone"}, tokens' = Marked(ts, st),
           \A t \in ts : tokens[t].st \in {"live", "revoked"},
           \A t \in ts : Live(t) => Cause(t)
    PROVE  RowsGoOn /\ EndsForCause
<1>1. tokens \in [TokenIds -> TokenRow]
  BY DEF Inv, TypeOK
<1>2. \A t \in TokenIds : /\ tokens'[t].st = IF t \in ts THEN st ELSE tokens[t].st
                         /\ tokens'[t].user = tokens[t].user
                         /\ tokens'[t].type = tokens[t].type
  BY <1>1, Marks
<1>3. RowsGoOn
  BY <1>2 DEF RowsGoOn, Live
<1>4. EndsForCause
  BY <1>2 DEF EndsForCause, Live
<1> QED BY <1>3, <1>4

\* The steps that write the row of one token without ending it.
LEMMA WriteStep ==
    ASSUME Inv, NEW t \in TokenIds, NEW new, tokens' = [tokens EXCEPT ![t] = new],
           \/ tokens[t].st = "unused"
           \/ new.st = tokens[t].st /\ new.type = tokens[t].type /\ new.user = tokens[t].user
    PROVE  RowsGoOn /\ EndsForCause
BY DEF Inv, TypeOK, RowsGoOn, EndsForCause, Live

\* Every step lets the rows go on and ends a token only for a cause.
LEMMA TokenSteps ==
    ASSUME Inv, ActorMayAct, [Next]_vars
    PROVE  RowsGoOn /\ EndsForCause
<1>1. CASE tokens' = tokens
  BY <1>1 DEF RowsGoOn, EndsForCause, Live
<1>2. ASSUME NEW u \in UserIds, NEW t \in TokenIds, Login(u, t) PROVE RowsGoOn /\ EndsForCause
  BY <1>2, WriteStep DEF Login
<1>3. ASSUME NEW t \in TokenIds, PresentExpired(t) PROVE RowsGoOn /\ EndsForCause
  <2>1. {s \in {t} : Live(s)} = {t} /\ \A s \in {t} : tokens[s].st \in {"live", "revoked"}
    BY <1>3 DEF PresentExpired, Live
  <2>2. tokens' = Marked({t}, "revoked")
    BY <1>3, <2>1 DEF PresentExpired, Revoked
  <2>3. \A s \in {t} : Live(s) => Cause(s)
    BY <1>3 DEF PresentExpired, Cause, Expired
  <2> QED BY <2>1, <2>2, <2>3, MarkStep
<1>4. ASSUME NEW t \in TokenIds, RevokeToken(t) PROVE RowsGoOn /\ EndsForCause
  <2>1. {s \in {t} : Live(s)} = {t} /\ \A s \in {t} : tokens[s].st \in {"live", "revoked"}
    BY <1>4 DEF RevokeToken, Live
  <2>2. tokens' = Marked({t}, "revoked")
    BY <1>4, <2>1 DEF RevokeToken, Revoked
  <2>3. \A s \in {t} : Live(s) => Cause(s)
    BY <1>4 DEF RevokeToken, Cause
  <2> QED BY <2>1, <2>2, <2>3, MarkStep
<1>5. ASSUME NEW t \in TokenIds, tokens' = Touched(t) PROVE RowsGoOn /\ EndsForCause
  <2> DEFINE new == [tokens[t] EXCEPT !.expires =
                         IF tokens[t].type = "session" THEN now + SessionLength ELSE @]
  <2>1. tokens[t] \in TokenRow
    BY DEF Inv, TypeOK
  <2>2. new.st = tokens[t].st /\ new.type = tokens[t].type /\ new.user = tokens[t].user
    BY <2>1 DEF TokenRow
  <2>3. tokens' = [tokens EXCEPT ![t] = new]
    BY <1>5 DEF Touched
  <2> HIDE DEF new
  <2> QED BY <2>2, <2>3, WriteStep
<1>6. ASSUME NEW t \in TokenIds, NEW scope \in Scopes, CreateToken(t, scope) PROVE RowsGoOn /\ EndsForCause
  BY <1>6, WriteStep DEF CreateToken
<1>7. ASSUME NEW u \in UserIds, DeleteUser(u) PROVE RowsGoOn /\ EndsForCause
  <2>1. users'[u].st = "gone"
    BY <1>7 DEF DeleteUser, Inv, TypeOK, UserRow
  <2>2. u \notin Accounts'
    BY <2>1 DEF Accounts
  <2>3. \A t \in OwnedBy(u) : tokens[t].st \in {"live", "revoked"} /\ Cause(t)
    BY <2>2 DEF OwnedBy, Cause
  <2>4. tokens' = Marked(OwnedBy(u), "gone")
    BY <1>7 DEF DeleteUser
  <2> QED BY <2>3, <2>4, MarkStep
<1>8. CASE Logout
  <2>1. actor \in TokenIds /\ Live(actor) /\ tokens[actor].type \in {"session", "agent"}
    BY <1>8 DEF Logout, Inv, ActorLive, TypeOK, TokenRow
  <2>2. {s \in {actor} : Live(s)} = {actor} /\ \A s \in {actor} : tokens[s].st \in {"live", "revoked"}
    BY <2>1 DEF Live
  <2>3. tokens' = Marked({actor}, "revoked")
    BY <1>8, <2>2 DEF Logout, Revoked
  <2>4. tokens[actor].type = "session"
    BY <1>8 DEF Logout, ActorMayAct, SessionRoutes
  <2>5. \A s \in {actor} : Live(s) => Cause(s)
    BY <1>8, <2>4 DEF Logout, Cause
  <2> QED BY <2>2, <2>3, <2>5, MarkStep
<1>9. CASE SignOutOthers
  <2> DEFINE ts == {t \in Others : Live(t)}
  <2>1. tokens' = Marked(ts, "revoked")
    BY <1>9 DEF SignOutOthers, Revoked
  <2>2. \A t \in ts : tokens[t].st \in {"live", "revoked"}
    BY DEF Live
  <2>3. \A t \in ts : Live(t) => Cause(t)
    BY <1>9 DEF SignOutOthers, Others, Sessions, OwnedBy, Cause
  <2> HIDE DEF ts
  <2> QED BY <2>1, <2>2, <2>3, MarkStep
<1>10. CASE Start
  <2>1. \A t \in DeadSessions : tokens[t].st \in {"live", "revoked"} /\ (Live(t) => Cause(t))
    BY DEF DeadSessions, Cause, Live, Expired
  <2>2. tokens' = Marked(DeadSessions, "gone")
    BY <1>10 DEF Start
  <2> QED BY <2>1, <2>2, MarkStep
<1> QED
  BY <1>1, <1>2, <1>3, <1>4, <1>5, <1>6, <1>7, <1>8, <1>9, <1>10
  DEF Next, vars, PresentDead, Present, PresentForbidden, CreateUser, ChangePasswordSet, NoChange,
      CommitFails, Crash, ClockMoves


\* Only a session gets into a management route, and it stays the session it was.
LEMMA ActorSteps ==
    ASSUME Inv, ActorMayAct, [Next]_vars
    PROVE  ActorMayAct'
<1>1. RowsGoOn
  BY TokenSteps
<1>2. CASE UNCHANGED <<route, actor>>
  <2>1. SUFFICES ASSUME route \in SessionRoutes \cup {"sign_out_others"} PROVE tokens'[actor].type = "session"
    BY <1>2 DEF ActorMayAct
  <2>2. actor \in TokenIds /\ Live(actor)
    BY <2>1 DEF Inv, ActorLive, SessionRoutes
  <2> QED BY <1>1, <2>1, <2>2 DEF RowsGoOn, ActorMayAct, Live
<1>3. CASE Answered
  BY <1>3 DEF Answered, ActorMayAct, SessionRoutes
<1>4. ASSUME NEW t \in TokenIds, NEW r \in Routes, Present(t, r) PROVE ActorMayAct'
  <2>1. r \in SessionRoutes => tokens[t].type = "session"
    BY <1>4 DEF Present, AccessAllows, SessionRoutes, SiteRoutes
  <2>2. tokens'[t].type = tokens[t].type
    BY <1>1, <1>4 DEF RowsGoOn, Present, Live
  <2> QED BY <1>4, <2>1, <2>2 DEF Present, ActorMayAct, Routes, SiteRoutes
<1>5. ASSUME NEW password \in Passwords, ChangePasswordSet(password) PROVE ActorMayAct'
  BY <1>5 DEF ChangePasswordSet, ActorMayAct, SessionRoutes
<1> QED
  BY <1>2, <1>3, <1>4, <1>5
  DEF Next, vars, Login, PresentDead, PresentExpired, RevokeToken, PresentForbidden, CreateToken,
      CreateUser, DeleteUser, NoChange, Logout, SignOutOthers, CommitFails, Crash, ClockMoves, Start

\* No step leaves a session behind that a password change is to end.
LEMMA StaleSteps ==
    ASSUME Inv, ActorMayAct, StaleEnd, [Next]_vars
    PROVE  StaleEnd'
<1>0. RowsGoOn /\ stale \subseteq TokenIds /\ faults \in Nat
  BY TokenSteps, Parameters DEF Inv, TypeOK
<1>1. ASSUME stale' = stale, faults' = faults, route # "sign_out_others" PROVE StaleEnd'
  BY <1>0, <1>1 DEF StaleEnd, RowsGoOn, Live
<1>2. ASSUME stale' = stale, Fault PROVE StaleEnd'
  BY <1>0, <1>2 DEF StaleEnd, RowsGoOn, Fault
<1>3. ASSUME UNCHANGED <<tokens, route, actor, stale, faults>> PROVE StaleEnd'
  BY <1>3 DEF StaleEnd, Live, Others, Sessions, OwnedBy
<1>4. ASSUME NEW password \in Passwords, ChangePasswordSet(password) PROVE StaleEnd'
  <2>1. /\ route = "change_password" /\ route' = "sign_out_others"
        /\ stale' = stale \cup {t \in Others : Live(t)}
        /\ UNCHANGED <<tokens, actor, faults>>
    BY <1>4 DEF ChangePasswordSet
  <2>2. Others' = Others
    BY <2>1 DEF Others, Sessions, OwnedBy
  <2>3. \A t \in stale' : tokens'[t].st # "unused"
    BY <2>1 DEF StaleEnd, Live
  <2>4. ASSUME faults' = 0, NEW t \in stale', Live(t)' PROVE t \in Others
    BY <2>1, <2>4 DEF StaleEnd, Live
  <2> QED BY <2>1, <2>2, <2>3, <2>4 DEF StaleEnd
<1>5. CASE SignOutOthers
  <2>1. tokens' = Marked({t \in Others : Live(t)}, "revoked") /\ stale' = stale /\ faults' = faults
    BY <1>5 DEF SignOutOthers, Revoked
  <2>2. \A t \in Others : t \in TokenIds
    BY DEF Others, Sessions, OwnedBy
  <2> DEFINE ts == {t \in Others : Live(t)}
  <2> HIDE DEF ts
  <2>3. \A t \in TokenIds : tokens'[t].st = IF t \in ts THEN "revoked" ELSE tokens[t].st
    BY <2>1, Marks DEF ts, Inv, TypeOK
  <2>4. \A t \in ts : t \in TokenIds
    BY <2>2 DEF ts
  <2>5. ASSUME faults = 0, NEW t \in stale, Live(t)' PROVE FALSE
    <3>1. t \in TokenIds /\ Live(t)
      BY <1>0, <2>5 DEF RowsGoOn, StaleEnd, Live
    <3>2. t \in ts
      BY <2>5, <3>1 DEF StaleEnd, ts
    <3> QED BY <2>3, <2>5, <3>1, <3>2 DEF Live
  <2> QED BY <1>0, <2>1, <2>5 DEF StaleEnd, RowsGoOn
<1>6. CASE Start
  <2>1. route # "sign_out_others"
    BY <1>6 DEF Start, Inv, ActorLive
  <2> QED BY <1>1, <1>6, <2>1 DEF Start
<1> QED
  BY <1>1, <1>2, <1>3, <1>4, <1>5, <1>6
  DEF Next, vars, Login, PresentDead, PresentExpired, RevokeToken, Present, PresentForbidden, CreateToken,
      CreateUser, DeleteUser, NoChange, Routes, SessionRoutes, SiteRoutes, Logout, CommitFails, Crash, ClockMoves

Inv2 == Inv /\ ActorMayAct /\ StaleEnd

LEMMA Invariant2 == Spec => []Inv2
<1>1. Init => Inv2
  <2>1. Init => ActorMayAct /\ StaleEnd
    BY DEF Init, ActorMayAct, StaleEnd, SessionRoutes
  <2> QED BY <2>1, InitInv DEF Inv2
<1>2. Inv2 /\ [Next]_vars => Inv2'
  BY NextInv, ActorSteps, StaleSteps DEF Inv2
<1> QED BY <1>1, <1>2, PTL DEF Spec

\* While no request was cut short, a password change that is over left none of the user's
\* other sessions live: nothing is issued or resolved between its two commits.
THEOREM PasswordChanges == Spec => []SignsOutUnlessFault
<1>1. Inv2 => SignsOutUnlessFault
  BY DEF Inv2, StaleEnd, SignsOutUnlessFault, PasswordChangeSignsOut
<1> QED BY <1>1, Invariant2, PTL

\* A token ends only by its own sign-out, its expiry, a revocation of an agent token, another
\* session's password change or the removal of its account, for any number of tokens.
THEOREM EndCauses == Spec => TokensEndForCause
<1>1. Inv2 /\ [Next]_vars =>
         [\A t \in TokenIds : Live(t) /\ tokens'[t].st # "live" =>
          \/ tokens[t].user \notin Accounts'
          \/ tokens[t].type = "agent" /\ route = "revoke_token"
          \/ /\ tokens[t].type = "session"
             /\ \/ Expired(t)
                \/ route = "logout" /\ actor = t
                \/ route = "sign_out_others" /\ actor # t /\ tokens[actor].user = tokens[t].user]_vars
  BY TokenSteps DEF Inv2, EndsForCause, Cause
<1> QED BY <1>1, Invariant2, PTL DEF Spec, TokensEndForCause

\* What a step must be to change the accounts, the agent tokens or a password.
LEMMA Management ==
    ASSUME Inv, ActorMayAct, Next
    PROVE  /\ Accounts' # Accounts => BySession \/ Accounts = {}
           /\ Agents' # Agents => BySession
           /\ \A u \in Accounts : users'[u].password # users[u].password
                 => BySession /\ tokens[actor].user = u
<1> DEFINE Goal == /\ Accounts' # Accounts => BySession \/ Accounts = {}
                   /\ Agents' # Agents => BySession
                   /\ \A u \in Accounts : users'[u].password # users[u].password
                         => BySession /\ tokens[actor].user = u
<1>0. RowsGoOn /\ EndsForCause /\ tokens \in [TokenIds -> TokenRow] /\ users \in [UserIds -> UserRow]
  BY TokenSteps DEF Inv, TypeOK
<1>1. ASSUME route \in SessionRoutes PROVE BySession
  BY <1>1, Parameters DEF Inv, ActorLive, ActorMayAct, BySession, SessionRoutes
<1>2. ASSUME users' = users, \A t \in TokenIds : tokens'[t].st # tokens[t].st => tokens'[t].type = "session"
      PROVE  Goal
  <2>1. \A t \in TokenIds : t \in Agents' <=> t \in Agents
    BY <1>0, <1>2 DEF Agents, Live, RowsGoOn
  <2>2. Agents' = Agents /\ Accounts' = Accounts
    BY <1>2, <2>1 DEF Agents, Accounts
  <2> QED BY <1>2, <2>2
<1>3. ASSUME route \in SessionRoutes, UNCHANGED users PROVE Goal
  BY <1>1, <1>3 DEF Accounts
<1>4. ASSUME NEW ts, NEW st \in {"revoked", "gone"}, tokens' = Marked(ts, st), users' = users,
             \A t \in ts : tokens[t].type = "session"
      PROVE  Goal
  <2>1. \A t \in TokenIds : tokens'[t].st # tokens[t].st => tokens'[t].type = "session"
    BY <1>0, <1>4, Marks
  <2> QED BY <1>2, <1>4, <2>1
<1>5. ASSUME NEW u \in UserIds, NEW t \in TokenIds, Login(u, t) PROVE Goal
  <2>1. \A s \in TokenIds : tokens'[s].st # tokens[s].st => tokens'[s].type = "session"
    BY <1>0, <1>5 DEF Login
  <2> QED BY <1>2, <1>5, <2>1 DEF Login
<1>6. ASSUME NEW t \in TokenIds, PresentExpired(t) PROVE Goal
  <2>1. tokens' = Marked({s \in {t} : Live(s)}, "revoked") /\ users' = users
    BY <1>6 DEF PresentExpired, Revoked
  <2>2. \A s \in {s \in {t} : Live(s)} : tokens[s].type = "session"
    BY <1>6 DEF PresentExpired, Expired
  <2> QED BY <1>4, <2>1, <2>2
<1>7. ASSUME NEW t \in TokenIds, tokens' = Touched(t), users' = users PROVE Goal
  <2>1. \A s \in TokenIds : tokens'[s].st = tokens[s].st
    BY <1>0, <1>7 DEF Touched, TokenRow
  <2> QED BY <1>2, <1>7, <2>1
<1>8. ASSUME tokens' = tokens, users' = users PROVE Goal
  BY <1>2, <1>8
<1>9. ASSUME NEW u \in UserIds, NEW name, NEW password, NewUser(u, name, password) PROVE
             \A v \in Accounts : users'[v].password = users[v].password
  BY <1>0, <1>9 DEF NewUser, Accounts
<1>10. ASSUME NEW u \in UserIds, NEW name \in Names, NEW password \in Passwords,
              CreateUser(u, name, password) PROVE Goal
  BY <1>1, <1>9, <1>10 DEF CreateUser, SessionRoutes
<1>11. ASSUME NEW password \in Passwords, ChangePasswordSet(password) PROVE Goal
  <2>1. BySession /\ tokens' = tokens
    BY <1>1, <1>11 DEF ChangePasswordSet, SessionRoutes
  <2>2. \A u \in UserIds : users'[u].password # users[u].password => tokens[actor].user = u
    BY <1>0, <1>11 DEF ChangePasswordSet, UserRow
  <2> QED BY <2>1, <2>2 DEF Accounts
<1>12. ASSUME NEW u \in UserIds, DeleteUser(u) PROVE Goal
  <2>1. BySession
    BY <1>1, <1>12 DEF DeleteUser, SessionRoutes
  <2>2. \A v \in UserIds : users'[v].password = users[v].password
    BY <1>0, <1>12 DEF DeleteUser, UserRow
  <2> QED BY <2>1, <2>2 DEF Accounts
<1>13. ASSUME Logout PROVE Goal
  <2>1. BySession /\ users' = users
    BY <1>1, <1>13 DEF Logout, SessionRoutes
  <2> QED BY <2>1 DEF Accounts
<1>14. ASSUME SignOutOthers PROVE Goal
  <2>1. tokens' = Marked({t \in Others : Live(t)}, "revoked") /\ users' = users
    BY <1>14 DEF SignOutOthers, Revoked
  <2>2. \A t \in {t \in Others : Live(t)} : tokens[t].type = "session"
    BY DEF Others, Sessions
  <2> QED BY <1>4, <2>1, <2>2
<1>15. ASSUME Start PROVE Goal
  <2>1. tokens' = Marked(DeadSessions, "gone")
    BY <1>15 DEF Start
  <2>2. \A t \in DeadSessions : tokens[t].type = "session"
    BY DEF DeadSessions
  <2>3. CASE UNCHANGED users
    BY <1>4, <2>1, <2>2, <2>3
  <2>4. CASE Accounts = {} /\ \E u \in UserIds : NewUser(u, AdminName, AdminPassword)
    <3>1. \A t \in TokenIds : tokens'[t].st # tokens[t].st => tokens'[t].type = "session"
      BY <1>0, <2>1, <2>2, Marks
    <3>2. \A t \in TokenIds : t \in Agents' <=> t \in Agents
      BY <1>0, <3>1 DEF Agents, Live, RowsGoOn
    <3>3. Agents' = Agents
      BY <3>2 DEF Agents
    <3> QED BY <2>4, <3>3
  <2> QED BY <1>15, <2>3, <2>4 DEF Start, Bootstrap
<1> HIDE DEF Goal
<1>16. Goal
  BY <1>3, <1>5, <1>6, <1>7, <1>8, <1>10, <1>11, <1>12, <1>13, <1>14, <1>15
  DEF Next, PresentDead, RevokeToken, Present, PresentForbidden, CreateToken, NoChange, CommitFails,
      Crash, ClockMoves, SessionRoutes
<1> QED BY <1>16 DEF Goal

\* Accounts, agent tokens and passwords change only on behalf of a live session, and a
\* password only its owner's, whichever requests, faults and restarts surround the change.
THEOREM Managed == Spec => ManagementNeedsSession
<1>1. Inv2 /\ [Next]_vars =>
         [/\ Accounts' # Accounts => BySession \/ Accounts = {}
          /\ Agents' # Agents => BySession
          /\ \A u \in Accounts : users'[u].password # users[u].password
                => BySession /\ tokens[actor].user = u]_vars
  BY Management DEF Inv2
<1> QED BY <1>1, Invariant2, PTL DEF Spec, ManagementNeedsSession
=============================================================================
