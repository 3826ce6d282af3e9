--------------------------------- MODULE Users ---------------------------------
(***************************************************************************)
(* The users of an organization, their roles, the permissions of the       *)
(* roles, and the drivers' accounts: who may call what, and how an         *)
(* administrator changes it while sessions are being made and exchanged.   *)
(*                                                                         *)
(* A user stands for its email, a role for its code; one permission stands *)
(* for the codes that are only required together.  Master data are active. *)
(***************************************************************************)
EXTENDS Transactions, Naturals, Sequences, FiniteSets

CONSTANTS
  Users, Passwords, Roles, Drivers, Clients,
  None,              \* null, or nobody
  PermissionSets,    \* the sets of permissions an administrator may choose
  Accounts,          \* the users there are at the start, all with an open session
  RolesAtStart,      \* the permissions of the roles there are at the start
  GrantsAtStart      \* their assignments

Permissions == {"user", "role", "client_portal", "driver_portal"}

ClientPortal == "CLIENT_PORTAL_USER"
DriverPortal == "DRIVER_PORTAL_USER"

ASSUME PermissionSetsAssumption == PermissionSets \subseteq SUBSET Permissions
ASSUME RolesAssumption ==
  /\ {ClientPortal, DriverPortal} \subseteq Roles
  /\ \A role \in DOMAIN RolesAtStart : RolesAtStart[role] \subseteq Permissions
  /\ GrantsAtStart \subseteq Users \X Roles \X ({"ORGANIZATION"} \cup Clients)
ASSUME NoneAssumption == None \notin Users
ASSUME AccountsAssumption ==
  /\ IsFiniteSet(DOMAIN Accounts) /\ DOMAIN Accounts \subseteq Users
  /\ Accounts \in [DOMAIN Accounts -> [status : {"ACTIVE"}, password : Passwords]]

VARIABLES
  users, roles, grants,
  links,             \* for each driver, driver.userId
  sessions,          \* the refresh sessions, in the order they were created
  roleLog,           \* for each role, the audited sets of permissions
  overlapping        \* history: the requests not over, for each user, when a
                     \* deactivation or a new password last ended the sessions

identityVars == <<users, roles, grants, links, sessions, roleLog, overlapping>>

UserStatus == {"ACTIVE", "INACTIVE"}

UserRow == [status : UserStatus, password : Passwords]
NoUser == [status |-> "ABSENT"]
NoRole == {"ABSENT"}

\* History: the password that was given at the login, the session it was
\* exchanged for, and the requests that made it and those it comes from.
SessionRow ==
  [user : Users, revoked : BOOLEAN, expired : BOOLEAN,
   password : Passwords, from : Nat, by : SUBSET Requests]

RoleChange == [old : SUBSET Permissions, new : SUBSET Permissions]

StatusLock(u) == <<"USER_STATUS", u>>
PasswordLock(u) == <<"USER_PASSWORD", u>>
RoleLock(role) == <<"ROLE_PERMISSIONS", role>>
\* The rows an update locks.
UserLock(u) == <<"USER", u>>
SessionLock(t) == <<"SESSION", t>>

Sessions == DOMAIN sessions

\* AccessTokenGuard: whoever has had a session may still have an access token.
SignedIn(actor) ==
  (\E t \in Sessions : sessions[t].user = actor) /\ users[actor].status = "ACTIVE"

\* PermissionsGuard: only grants of the whole organization count.
Granted(actor, permission) ==
  \E role \in Roles :
    <<actor, role, "ORGANIZATION">> \in grants /\ permission \in roles[role]

Caller(actor, permission) == SignedIn(actor) /\ Granted(actor, permission)

UsersInit ==
  /\ users = [u \in Users |-> IF u \in DOMAIN Accounts THEN Accounts[u] ELSE NoUser]
  /\ roles = [role \in Roles |->
       IF role \in DOMAIN RolesAtStart THEN RolesAtStart[role] ELSE NoRole]
  /\ grants = GrantsAtStart
  /\ links = [d \in Drivers |-> None]
  /\ roleLog = [role \in Roles |-> <<>>]
  /\ overlapping = [u \in Users |-> {}]

-------------------------------------------------------------------------------
(* create, createClientPortalUser, createDriverPortalUser.                     *)

Free(u) == users[u] = NoUser

CreateUser(r) ==
  \E actor \in Users : \E u \in Users, password \in Passwords :
    /\ Caller(actor, "user")
    /\ Free(u)
    /\ Begin(r, [op |-> "create", locks |-> {}, id |-> u, password |-> password])
    /\ UNCHANGED identityVars

CreateClientPortalUser(r) ==
  \E actor \in Users : \E u \in Users, password \in Passwords, client \in Clients :
    /\ Caller(actor, "user")
    /\ Free(u)
    /\ Begin(r, [op |-> "client_portal", locks |-> {}, id |-> u, password |-> password,
                 client |-> client])
    /\ UNCHANGED identityVars

AnyDriver(d, u) == TRUE  \* mutant

LinkFree(d, u) == links[d] \in {None, u}

CreateDriverPortalUser(r) ==
  \E actor \in Users : \E u \in Users, password \in Passwords, d \in Drivers :
    /\ Caller(actor, "user")
    /\ LinkFree(d, u)
    /\ Free(u)
    /\ Begin(r, [op |-> "driver_portal", locks |-> {}, id |-> u, password |-> password,
                 driver |-> d, seen |-> links[d]])
    /\ UNCHANGED identityVars

\* The email is unique: an insert that comes too late fails, and rolls back.
CommitCreate(r) ==
  LET i == inflight[r] IN
  /\ i.op = "create"
  /\ Free(i.id)
  /\ users' = [users EXCEPT ![i.id] = [status |-> "ACTIVE", password |-> i.password]]
  /\ End(r)
  /\ UNCHANGED <<roles, grants, links, sessions, roleLog, overlapping>>

\* The portal's role is created, or given back its permissions, on the way.
Provisioned(role, permission) ==
  [roles EXCEPT ![role] = (IF @ = NoRole THEN {} ELSE @) \cup {permission}]

CommitClientPortalUser(r) ==
  LET i == inflight[r] IN
  /\ i.op = "client_portal"
  /\ Free(i.id)
  /\ users' = [users EXCEPT ![i.id] = [status |-> "ACTIVE", password |-> i.password]]
  /\ roles' = Provisioned(ClientPortal, "client_portal")
  /\ grants' = grants \cup {<<i.id, ClientPortal, i.client>>}
  /\ End(r)
  /\ UNCHANGED <<links, sessions, roleLog, overlapping>>

\* The driver is updated by id: whoever it was linked to since loses it.
CommitDriverPortalUser(r) ==
  LET i == inflight[r] IN
  /\ i.op = "driver_portal"
  /\ Free(i.id)
  /\ users' = [users EXCEPT ![i.id] = [status |-> "ACTIVE", password |-> i.password]]
  /\ roles' = Provisioned(DriverPortal, "driver_portal")
  /\ grants' = grants \cup {<<i.id, DriverPortal, "ORGANIZATION">>}
  /\ links' = [links EXCEPT ![i.driver] = i.id]
  /\ End(r)
  /\ UNCHANGED <<sessions, roleLog, overlapping>>

-------------------------------------------------------------------------------
(* linkDriver, assignOrganizationRole.                                         *)

\* The driver by its id or its national id; None unlinks.
ReadLink(r) ==
  \E actor \in Users : \E u \in Users, d \in Drivers \cup {None} :
    /\ Caller(actor, "user")
    /\ ~Free(u)
    /\ d # None => LinkFree(d, u)
    /\ Begin(r, [op |-> "link", locks |-> {}, id |-> u, driver |-> d,
                 seen |-> IF d = None THEN None ELSE links[d]])
    /\ UNCHANGED identityVars

CommitLink(r) ==
  LET i == inflight[r] IN
  /\ i.op = "link"
  /\ links' = [d \in Drivers |-> CASE d = i.driver -> i.id
                                    [] d # i.driver /\ links[d] = i.id -> None
                                    [] OTHER -> links[d]]
  /\ End(r)
  /\ UNCHANGED <<users, roles, grants, sessions, roleLog, overlapping>>

\* Under its lock the assignment is made unless it is there: one step.
AssignOrganizationRole(r) ==
  \E actor \in Users : \E u \in Users, role \in Roles :
    /\ Caller(actor, "user")
    /\ ~Free(u)
    /\ roles[role] # NoRole
    /\ inflight[r] = Waiting /\ End(r)
    /\ grants' = grants \cup {<<u, role, "ORGANIZATION">>}
    /\ UNCHANGED <<users, roles, links, sessions, roleLog, overlapping>>

-------------------------------------------------------------------------------
(* RolesService.                                                               *)

CreateRole(r) ==
  \E actor \in Users : \E role \in Roles, permissions \in PermissionSets :
    /\ Caller(actor, "role")
    /\ roles[role] = NoRole
    /\ Begin(r, [op |-> "new_role", locks |-> {}, id |-> role, new |-> permissions])
    /\ UNCHANGED identityVars

CommitRole(r) ==
  LET i == inflight[r] IN
  /\ i.op = "new_role"
  /\ roles[i.id] = NoRole
  /\ roles' = [roles EXCEPT ![i.id] = i.new]
  /\ roleLog' = [roleLog EXCEPT ![i.id] = Append(@, [old |-> {}, new |-> i.new])]
  /\ End(r)
  /\ UNCHANGED <<users, grants, links, sessions, overlapping>>

ReadPermissions(r) ==
  \E actor \in Users : \E role \in Roles, permissions \in PermissionSets :
    /\ Caller(actor, "role")
    /\ roles[role] # NoRole
    /\ Available(RoleLock(role), r)
    /\ Begin(r, [op |-> "permissions", locks |-> {RoleLock(role)}, id |-> role,
                 seen |-> roles[role], new |-> permissions])
    /\ UNCHANGED identityVars

\* What there is is deleted and the new set inserted.
SetPermissions(r) ==
  LET i == inflight[r] IN
  /\ i.op = "permissions"
  /\ roles' = [roles EXCEPT ![i.id] = i.new]
  /\ roleLog' = [roleLog EXCEPT ![i.id] = Append(@, [old |-> i.seen, new |-> i.new])]
  /\ End(r)
  /\ UNCHANGED <<users, grants, links, sessions, overlapping>>

-------------------------------------------------------------------------------
(* updateStatus, changePassword.                                               *)

NoSessions(u) == {}  \* mutant

OpenSessions(u) == {t \in Sessions : sessions[t].user = u /\ ~sessions[t].revoked}

Over == {q \in Requests : inflight[q] = Answered}

ReadStatus(r) ==
  \E actor \in Users : \E u \in Users, status \in UserStatus :
    /\ Caller(actor, "user")
    /\ ~(u = actor /\ status = "INACTIVE")
    /\ ~Free(u)
    /\ Available(StatusLock(u), r)
    /\ users[u].status # status
    /\ Begin(r, [op |-> "status", locks |-> {StatusLock(u)}, id |-> u,
                 seen |-> users[u].status, target |-> status])
    /\ UNCHANGED identityVars

ReadPassword(r) ==
  \E actor \in Users : \E new \in Passwords :
    /\ SignedIn(actor)
    /\ Available(PasswordLock(actor), r)
    /\ new # users[actor].password
    /\ Begin(r, [op |-> "password", locks |-> {PasswordLock(actor)}, id |-> actor,
                 target |-> new])
    /\ UNCHANGED identityVars

Activate(r) ==
  LET i == inflight[r] IN
  /\ i.op = "status" /\ i.target = "ACTIVE"
  /\ Available(UserLock(i.id), r)
  /\ users' = [users EXCEPT ![i.id].status = "ACTIVE"]
  /\ End(r)
  /\ UNCHANGED <<roles, grants, links, sessions, roleLog, overlapping>>

\* The user is updated, and the statement that revokes its sessions sees those
\* that are committed now: not the ones that requests under way still create.
ListSessions(r) ==
  LET i == inflight[r] IN
  /\ \/ i.op = "status" /\ i.target = "INACTIVE" /\ users[i.id].status = i.seen
     \/ i.op = "password"
  /\ Available(UserLock(i.id), r)
  /\ Remember(r, [op |-> "revoke", locks |-> i.locks \cup {UserLock(i.id)}, id |-> i.id, change |-> i.op,
                  target |-> i.target, listed |-> OpenSessions(i.id), over |-> Over])
  /\ UNCHANGED identityVars

\* It waits for the rows another transaction has locked, and commits.
CommitRevocation(r) ==
  LET i == inflight[r] IN
  /\ i.op = "revoke"
  /\ \A t \in i.listed : Available(SessionLock(t), r)
  /\ users' = [users EXCEPT ![i.id] =
       IF i.change = "status" THEN [status |-> i.target, password |-> @.password]
       ELSE [status |-> @.status, password |-> i.target]]
  /\ sessions' = [t \in Sessions |->
       IF t \in i.listed THEN [sessions[t] EXCEPT !.revoked = TRUE] ELSE sessions[t]]
  /\ overlapping' =
       [overlapping EXCEPT ![i.id] = {q \in Requests \ (i.over \cup {r}) : inflight[q] # Waiting}]
  /\ End(r)
  /\ UNCHANGED <<roles, grants, links, roleLog>>

UsersStart(r) ==
  \/ CreateUser(r) \/ CreateClientPortalUser(r) \/ CreateDriverPortalUser(r)
  \/ ReadLink(r) \/ AssignOrganizationRole(r) \/ CreateRole(r) \/ ReadPermissions(r)
  \/ ReadStatus(r) \/ ReadPassword(r)

UsersGoOn(r) ==
  \/ CommitCreate(r) \/ CommitClientPortalUser(r) \/ CommitDriverPortalUser(r)
  \/ CommitLink(r) \/ CommitRole(r) \/ SetPermissions(r)
  \/ Activate(r) \/ ListSessions(r) \/ CommitRevocation(r)

-------------------------------------------------------------------------------
(* Properties.                                                                 *)

\* What creating portal users adds to a role without an audit record.
Portal(role) ==
  CASE role = ClientPortal -> {"client_portal"}
    [] role = DriverPortal -> {"driver_portal"}
    [] OTHER -> {}

\* The audited changes of a role chain to its permissions, but for what the
\* portals' provisioning added: no administrator overwrites another's change
\* that the record does not show.
AccessAudited ==
  \A role \in Roles :
    LET log == roleLog[role] IN
    /\ \A n \in DOMAIN log :
         n > 1 => log[n].old \ Portal(role) = log[n - 1].new \ Portal(role)
    /\ log # <<>> => roles[role] \ Portal(role) = log[Len(log)].new \ Portal(role)

\* A driver's account passes from one user to another only through a request
\* that read the driver before it was linked.
LinkTakenByOverlapOnly ==
  [][\A d \in Drivers : None \notin {links[d], links'[d]} /\ links'[d] # links[d] =>
       \E r \in Requests :
         /\ inflight[r].op \in {"link", "driver_portal"}
         /\ inflight[r].driver = d
         /\ inflight[r].seen \in {None, inflight[r].id}]_identityVars

===============================================================================
