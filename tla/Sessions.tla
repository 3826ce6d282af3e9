------------------------------- MODULE Sessions --------------------------------
(***************************************************************************)
(* Refresh sessions: opened by a login, exchanged once for the next one,   *)
(* and revoked by a logout, a deactivation of the user or a new password,  *)
(* which other requests carry out at the same time.                        *)
(*                                                                         *)
(* A login and a refresh read the user, and the session, before they       *)
(* write; a refresh then consumes the session in a conditional update.     *)
(***************************************************************************)
EXTENDS Users

vars == <<inflight, identityVars>>

CreateRequest ==
  [op : {"create"}, locks : {{}}, id : Users, password : Passwords]
  \cup [op : {"client_portal"}, locks : {{}}, id : Users, password : Passwords, client : Clients]
  \cup [op : {"driver_portal"}, locks : {{}}, id : Users, password : Passwords,
        driver : Drivers, seen : Users \cup {None}]

AccessRequest ==
  [op : {"link"}, locks : {{}}, id : Users, driver : Drivers \cup {None}, seen : Users \cup {None}]
  \cup [op : {"new_role"}, locks : {{}}, id : Roles, new : SUBSET Permissions]
  \cup (UNION {[op : {"permissions"}, locks : {{RoleLock(role)}}, id : {role},
                seen : SUBSET Permissions, new : SUBSET Permissions] : role \in Roles})

AccountRequest ==
  UNION {[op : {"status"}, locks : {{StatusLock(u)}}, id : {u}, seen : UserStatus, target : UserStatus]
         \cup [op : {"password"}, locks : {{PasswordLock(u)}}, id : {u}, target : Passwords]
         \cup [op : {"revoke"}, locks : {{StatusLock(u), UserLock(u)}, {PasswordLock(u), UserLock(u)}}, id : {u},
               change : {"status", "password"}, target : UserStatus \cup Passwords,
               listed : SUBSET Sessions, over : SUBSET Requests] : u \in Users}

SessionRequest ==
  [op : {"login", "recorded"}, locks : {{}}, user : Users, password : Passwords]
  \cup [op : {"refresh"}, locks : {{}}, token : Sessions]
  \cup (UNION {[op : {"consumed"}, locks : {{SessionLock(t)}}, token : {t}] : t \in Sessions})

\* Rows and the memory of requests have their types.
TypeOK ==
  /\ inflight \in [Requests -> {Waiting, Answered} \cup CreateRequest \cup AccessRequest
                                  \cup AccountRequest \cup SessionRequest]
  /\ users \in [Users -> UserRow \cup {NoUser}]
  /\ roles \in [Roles -> (SUBSET Permissions) \cup {NoRole}]
  /\ grants \subseteq Users \X Roles \X ({"ORGANIZATION"} \cup Clients)
  /\ links \in [Drivers -> Users \cup {None}]
  /\ sessions \in Seq(SessionRow)
  /\ roleLog \in [Roles -> Seq(RoleChange)]
  /\ overlapping \in [Users -> SUBSET Requests]

Opened(u, from, password, by) ==
  [user |-> u, revoked |-> FALSE, expired |-> FALSE, password |-> password, from |-> from, by |-> by]

\* One open session for each account.
Init ==
  /\ TransactionsInit
  /\ UsersInit
  /\ \E order \in [1..Cardinality(DOMAIN Accounts) -> DOMAIN Accounts] :
       /\ \A m, n \in DOMAIN order : m # n => order[m] # order[n]
       /\ sessions = [n \in DOMAIN order |-> Opened(order[n], 0, Accounts[order[n]].password, {})]

-------------------------------------------------------------------------------
(* login, refresh, logout.                                                     *)

ReadUser(r) ==
  \E u \in Users :
    /\ users[u].status = "ACTIVE"
    /\ Begin(r, [op |-> "login", locks |-> {}, user |-> u, password |-> users[u].password])
    /\ UNCHANGED identityVars

\* lastLoginAt, which waits for another update of the user.
RecordLogin(r) ==
  LET i == inflight[r] IN
  /\ i.op = "login"
  /\ Available(UserLock(i.user), r)
  /\ Remember(r, [op |-> "recorded", locks |-> {}, user |-> i.user, password |-> i.password])
  /\ UNCHANGED identityVars

IssueTokens(r) ==
  LET i == inflight[r] IN
  /\ i.op = "recorded"
  /\ sessions' = Append(sessions, Opened(i.user, 0, i.password, {r}))
  /\ End(r)
  /\ UNCHANGED <<users, roles, grants, links, roleLog, overlapping>>

Usable(t) == ~sessions[t].revoked /\ users[sessions[t].user].status = "ACTIVE"

ReadSession(r) ==
  \E t \in Sessions :
    /\ Usable(t) /\ ~sessions[t].expired
    /\ Begin(r, [op |-> "refresh", locks |-> {}, token |-> t])
    /\ UNCHANGED identityVars

OfActiveUser(t) == users[sessions[t].user].status = "ACTIVE"  \* mutant

\* The update's condition.  Its time is the one the session was read at.
Consumable(t) == Usable(t)

Consume(r) ==
  LET i == inflight[r] IN
  /\ i.op = "refresh"
  /\ Available(SessionLock(i.token), r)
  /\ IF Consumable(i.token)
     THEN Remember(r, [op |-> "consumed", locks |-> {SessionLock(i.token)}, token |-> i.token])
     ELSE End(r)
  /\ UNCHANGED identityVars

CommitRefresh(r) ==
  LET i == inflight[r] IN
  /\ i.op = "consumed"
  /\ sessions' = Append([sessions EXCEPT ![i.token].revoked = TRUE],
                        Opened(sessions[i.token].user, i.token, sessions[i.token].password,
                               sessions[i.token].by \cup {r}))
  /\ End(r)
  /\ UNCHANGED <<users, roles, grants, links, roleLog, overlapping>>

Logout(r) ==
  \E t \in Sessions :
    /\ Available(SessionLock(t), r)
    /\ inflight[r] = Waiting /\ End(r)
    /\ sessions' = [sessions EXCEPT ![t].revoked = TRUE]
    /\ UNCHANGED <<users, roles, grants, links, roleLog, overlapping>>

\* REFRESH_TOKEN_TTL_DAYS have passed.
Expire ==
  \E t \in Sessions :
    /\ ~sessions[t].expired
    /\ sessions' = [sessions EXCEPT ![t].expired = TRUE]
    /\ UNCHANGED <<inflight, users, roles, grants, links, roleLog, overlapping>>

Start(r) == UsersStart(r) \/ ReadUser(r) \/ ReadSession(r) \/ Logout(r)

GoOn(r) ==
  \/ UsersGoOn(r)
  \/ RecordLogin(r) \/ IssueTokens(r) \/ Consume(r) \/ CommitRefresh(r)
  \/ Rollback(r) /\ UNCHANGED identityVars

Next ==
  \/ \E r \in Requests :
       \/ inflight[r] = Waiting /\ Start(r)
       \/ GoOn(r)
  \/ Expire
  \/ Quiet /\ UNCHANGED vars

Spec == Init /\ [][Next]_vars

-------------------------------------------------------------------------------
(* Properties.                                                                 *)

\* A deactivation and a new password end every session, but for those that
\* requests already under way create, and what these are exchanged for: an open
\* session of an inactive user, or of an old password, goes back to one.
SessionsEnded ==
  \A t \in Sessions :
    LET u == sessions[t].user IN
    /\ ~sessions[t].revoked
    /\ users[u].status = "INACTIVE" \/ sessions[t].password # users[u].password
    => sessions[t].by \cap overlapping[u] # {}

\* A session is exchanged once: the next one appears in the step that revokes
\* it, and what is revoked stays so.
ExchangedOnce ==
  [][/\ \A t \in Sessions : sessions[t].revoked => sessions'[t].revoked
     /\ \A n \in DOMAIN sessions' \ Sessions :
          LET t == sessions'[n].from IN
          t # 0 => /\ ~sessions[t].revoked /\ sessions'[t].revoked
                   /\ sessions'[n].user = sessions[t].user]_sessions

===============================================================================
