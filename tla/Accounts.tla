------------------------------ MODULE Accounts ------------------------------
(***************************************************************************)
(* User accounts and the admin API: internal/store/users.go and the        *)
(* handlers of internal/adminapi.                                          *)
(*                                                                         *)
(* The users, setup_keys and nodes tables survive a restart, the login     *)
(* sessions do not.  HTTP handlers run concurrently and hold no lock over  *)
(* their database calls.  Updating and deleting an account reads, counts   *)
(* and writes in separate statements, so those handlers are split at each  *)
(* one; req holds where each is.  The other handlers make one statement    *)
(* that matters and are one action.  Passwords are left out: Login is by   *)
(* somebody who knows it.                                                  *)
(***************************************************************************)
EXTENDS Integers, FiniteSets

CONSTANTS
    Usernames,   \* names an account may have
    Admin,       \* the name "admin"
    Tokens,      \* session cookies
    Handlers,    \* update and delete requests in progress at one time
    SetupKeys,
    Devices,
    MaxUser      \* bound on the ids AUTOINCREMENT hands out

ASSUME AccountsAssumption == Admin \in Usernames /\ MaxUser \in Nat

VARIABLES
    server,    \* "up", or "down" before EnsureAdminPassword has returned
    users,     \* users table: id -> row
    nextUser,  \* its AUTOINCREMENT counter
    signup,    \* the signup_enabled setting
    sessions,  \* API.sessions: token -> the account as it was at login
    keys,      \* setup_keys: key -> owner and revoked
    devices,   \* nodes: device -> owner_user_id
    req        \* handleUpdateUser and handleDeleteUser calls in progress

vars == <<server, users, nextUser, signup, sessions, keys, devices, req>>

UserIds == 1 .. MaxUser
Roles == {"admin", "member"}
Keep == "keep"          \* a field the update request leaves out
Idle == [pc |-> "idle"]
Updates == {u \in [op : {"update"}, role : Roles \cup {Keep}, disabled : {"yes", "no", Keep}] :
               u.role # Keep \/ u.disabled # Keep}
Ops == Updates \cup {[op |-> "delete"]}

With(f, x, v) == [y \in DOMAIN f \cup {x} |-> IF y = x THEN v ELSE f[y]]
Without(f, x) == [y \in DOMAIN f \ {x} |-> f[y]]

EnabledAdmins == {id \in DOMAIN users : users[id].role = "admin" /\ ~ users[id].disabled}
Taken(name) == \E id \in DOMAIN users : users[id].name = name

Init ==
    /\ server = "down"
    /\ users = <<>>
    /\ nextUser = 1
    /\ signup = FALSE
    /\ sessions = <<>>
    /\ keys = <<>>
    /\ devices = <<>>
    /\ req = [h \in Handlers |-> Idle]

\* A slip: without AUTOINCREMENT, SQLite gives out the last row's id again.
CreateUser_ReusesIds(name, role) ==
    /\ ~ Taken(name)
    /\ \E id \in UserIds :
         /\ id \notin DOMAIN users
         /\ \A j \in UserIds : j >= id => j \notin DOMAIN users
         /\ id = 1 \/ id - 1 \in DOMAIN users
         /\ users' = With(users, id, [name |-> name, role |-> role, disabled |-> FALSE])
         /\ nextUser' = IF id < nextUser THEN nextUser ELSE id + 1

\* CreateUser: refused when the UNIQUE name is taken.
CreateUser(name, role) ==
    /\ ~ Taken(name)
    /\ nextUser \in UserIds
    /\ users' = With(users, nextUser, [name |-> name, role |-> role, disabled |-> FALSE])
    /\ nextUser' = nextUser + 1

-----------------------------------------------------------------------------
(* Starting and stopping the server.                                       *)

\* EnsureAdminPassword with -admin-password: create "admin", or reset its
\* password, which is all that happens to an existing account.
StartExplicit ==
    /\ server = "down"
    /\ \/ CreateUser(Admin, "admin")
       \/ Taken(Admin) /\ UNCHANGED <<users, nextUser>>
    /\ server' = "up"
    /\ UNCHANGED <<signup, sessions, keys, devices, req>>

\* EnsureAdminPassword without it: keep an enabled admin, else create
\* "admin" from the legacy hash or a generated password; if that name is
\* taken the insert fails and the server does not start.
Start ==
    /\ server = "down"
    /\ \/ EnabledAdmins # {} /\ UNCHANGED <<users, nextUser>>
       \/ EnabledAdmins = {} /\ CreateUser(Admin, "admin")
    /\ server' = "up"
    /\ UNCHANGED <<signup, sessions, keys, devices, req>>

\* The process ends: sessions and half-done requests are gone.
Stop ==
    /\ server = "up"
    /\ server' = "down"
    /\ sessions' = <<>>
    /\ req' = [h \in Handlers |-> Idle]
    /\ UNCHANGED <<users, nextUser, signup, keys, devices>>

-----------------------------------------------------------------------------
(* Sessions.                                                               *)

startSession(t, id, role) ==
    /\ t \notin DOMAIN sessions
    /\ sessions' = With(sessions, t, [user |-> id, role |-> role])

\* CheckPassword refuses a disabled account.
Login(id, t) ==
    /\ server = "up"
    /\ id \in DOMAIN users
    /\ ~ users[id].disabled
    /\ startSession(t, id, users[id].role)
    /\ UNCHANGED <<server, users, nextUser, signup, keys, devices, req>>

Signup(name, t) ==
    /\ server = "up"
    /\ signup
    /\ CreateUser(name, "member")
    /\ startSession(t, nextUser, "member")
    /\ UNCHANGED <<server, signup, keys, devices, req>>

\* handleLogout, or the twelve hours of a session are over.
EndSession(t) ==
    /\ t \in DOMAIN sessions
    /\ sessions' = Without(sessions, t)
    /\ UNCHANGED <<server, users, nextUser, signup, keys, devices, req>>

\* The auth and admin wrappers look at the session, not at the account.
auth(t) == server = "up" /\ t \in DOMAIN sessions
admin(t) == auth(t) /\ sessions[t].role = "admin"

\* Who may see and manage something an account owns.
mayManage(t, owner) == auth(t) /\ (sessions[t].role = "admin" \/ sessions[t].user = owner)

-----------------------------------------------------------------------------
(* Accounts.                                                               *)

handleCreateUser(t, name, role) ==
    /\ admin(t)
    /\ CreateUser(name, role)
    /\ UNCHANGED <<server, signup, sessions, keys, devices, req>>

handleSignupToggle(t, enabled) ==
    /\ admin(t)
    /\ signup' = enabled
    /\ UNCHANGED <<server, users, nextUser, sessions, keys, devices, req>>

\* An update or delete request for account id passes the admin check.
Request(h, t, id, op) ==
    /\ admin(t)
    /\ req[h] = Idle
    /\ req' = [req EXCEPT ![h] = [pc |-> "read", id |-> id, op |-> op]]
    /\ UNCHANGED <<server, users, nextUser, signup, sessions, keys, devices>>

\* Whether the request would take an admin away.
demoting(op) == op.op = "delete" \/ op.role = "member" \/ op.disabled = "yes"

\* The first write of a request.
FirstWrite(op) == IF op.op = "delete" THEN "delete" ELSE IF op.role = Keep THEN "disabled" ELSE "role"

\* UserByID.
ReadTarget(h) ==
    /\ req[h].pc = "read"
    /\ LET q == req[h] IN
       req' = [req EXCEPT ![h] =
          IF q.id \notin DOMAIN users THEN Idle
          ELSE [q EXCEPT !.pc = IF users[q.id].role = "admin" /\ demoting(q.op)
                                THEN "count" ELSE FirstWrite(q.op)]]
    /\ UNCHANGED <<server, users, nextUser, signup, sessions, keys, devices>>

\* A slip: the guard counts every admin account, disabled ones included.
CountAdmins_All(h) ==
    /\ req[h].pc = "count"
    /\ LET q == req[h] IN
       req' = [req EXCEPT ![h] =
          IF Cardinality({id \in DOMAIN users : users[id].role = "admin"}) <= 1 THEN Idle
          ELSE [q EXCEPT !.pc = FirstWrite(q.op)]]
    /\ UNCHANGED <<server, users, nextUser, signup, sessions, keys, devices>>

\* AdminCount: the last enabled admin stays.
CountAdmins(h) ==
    /\ req[h].pc = "count"
    /\ LET q == req[h] IN
       req' = [req EXCEPT ![h] = IF \A i, j \in EnabledAdmins : i = j THEN Idle
                                 ELSE [q EXCEPT !.pc = FirstWrite(q.op)]]
    /\ UNCHANGED <<server, users, nextUser, signup, sessions, keys, devices>>

\* The writes fail with ErrNotFound when the row is gone by now.
SetUserRole(h) ==
    /\ req[h].pc = "role"
    /\ LET q == req[h] IN
       IF q.id \in DOMAIN users
       THEN /\ users' = [users EXCEPT ![q.id].role = q.op.role]
            /\ req' = [req EXCEPT ![h] = IF q.op.disabled = Keep THEN Idle
                                         ELSE [q EXCEPT !.pc = "disabled"]]
       ELSE req' = [req EXCEPT ![h] = Idle] /\ UNCHANGED users
    /\ UNCHANGED <<server, nextUser, signup, sessions, keys, devices>>

SetUserDisabled(h) ==
    /\ req[h].pc = "disabled"
    /\ LET q == req[h] IN
       users' = IF q.id \in DOMAIN users
                THEN [users EXCEPT ![q.id].disabled = (q.op.disabled = "yes")] ELSE users
    /\ req' = [req EXCEPT ![h] = Idle]
    /\ UNCHANGED <<server, nextUser, signup, sessions, keys, devices>>

\* The account's devices, keys and sessions stay.
DeleteUser(h) ==
    /\ req[h].pc = "delete"
    /\ users' = Without(users, req[h].id)
    /\ req' = [req EXCEPT ![h] = Idle]
    /\ UNCHANGED <<server, nextUser, signup, sessions, keys, devices>>

-----------------------------------------------------------------------------
(* What accounts own.                                                      *)

handleCreateSetupKey(t, k) ==
    /\ auth(t)
    /\ k \notin DOMAIN keys
    /\ keys' = With(keys, k, [owner |-> sessions[t].user, revoked |-> FALSE])
    /\ UNCHANGED <<server, users, nextUser, signup, sessions, devices, req>>

handleRevokeSetupKey(t, k) ==
    /\ k \in DOMAIN keys
    /\ mayManage(t, keys[k].owner)
    /\ keys' = [keys EXCEPT ![k].revoked = TRUE]
    /\ UNCHANGED <<server, users, nextUser, signup, sessions, devices, req>>

\* Register: the device belongs to the account its setup key belongs to.
Enrol(k, d) ==
    /\ server = "up"
    /\ k \in DOMAIN keys
    /\ ~ keys[k].revoked
    /\ d \notin DOMAIN devices
    /\ devices' = With(devices, d, keys[k].owner)
    /\ UNCHANGED <<server, users, nextUser, signup, sessions, keys, req>>

handleDeleteDevice(t, d) ==
    /\ d \in DOMAIN devices
    /\ mayManage(t, devices[d])
    /\ devices' = Without(devices, d)
    /\ UNCHANGED <<server, users, nextUser, signup, sessions, keys, req>>

-----------------------------------------------------------------------------
Next ==
    \/ Start \/ StartExplicit \/ Stop
    \/ \E id \in UserIds, t \in Tokens : Login(id, t)
    \/ \E name \in Usernames, t \in Tokens : Signup(name, t)
    \/ \E t \in Tokens : EndSession(t)
    \/ \E t \in Tokens, name \in Usernames, role \in Roles : handleCreateUser(t, name, role)
    \/ \E t \in Tokens, b \in BOOLEAN : handleSignupToggle(t, b)
    \/ \E h \in Handlers, t \in Tokens, id \in UserIds, op \in Ops : Request(h, t, id, op)
    \/ \E h \in Handlers : \/ ReadTarget(h) \/ CountAdmins(h)
                           \/ SetUserRole(h) \/ SetUserDisabled(h) \/ DeleteUser(h)
    \/ \E t \in Tokens, k \in SetupKeys : handleCreateSetupKey(t, k) \/ handleRevokeSetupKey(t, k)
    \/ \E k \in SetupKeys, d \in Devices : Enrol(k, d)
    \/ \E t \in Tokens, d \in Devices : handleDeleteDevice(t, d)

Spec == Init /\ [][Next]_vars

-----------------------------------------------------------------------------
(* Every variable keeps its type: every account's id is below the next one *)
(* and a request in progress is between two of its statements.             *)
TypeOK ==
    /\ server \in {"up", "down"}
    /\ nextUser \in 1 .. MaxUser + 1
    /\ DOMAIN users \subseteq 1 .. nextUser - 1
    /\ users \in [DOMAIN users -> [name : Usernames, role : Roles, disabled : BOOLEAN]]
    /\ signup \in BOOLEAN
    /\ DOMAIN sessions \subseteq Tokens
    /\ sessions \in [DOMAIN sessions -> [user : UserIds, role : Roles]]
    /\ DOMAIN keys \subseteq SetupKeys
    /\ keys \in [DOMAIN keys -> [owner : UserIds, revoked : BOOLEAN]]
    /\ DOMAIN devices \subseteq Devices /\ devices \in [DOMAIN devices -> UserIds]
    /\ req \in [Handlers -> {Idle} \cup
          [pc : {"read", "count", "role", "disabled", "delete"}, id : UserIds, op : Ops]]

(* handleUpdateUser, "Never let the last enabled admin lock everyone out": *)
(* while the server runs there is an account that can log in and           *)
(* administer, whatever mixture of demotions, disablements, deletions,     *)
(* signups and restarts came before.                                       *)
AlwaysAnAdmin == server = "up" => EnabledAdmins # {}

(* A device or setup key whose account was deleted stays without an owner: *)
(* no account created later inherits it through a recycled id.             *)
OrphansStayOrphaned ==
    [][/\ \A d \in DOMAIN devices \cap DOMAIN devices' :
             devices[d] \notin DOMAIN users => devices'[d] \notin DOMAIN users'
       /\ \A k \in DOMAIN keys :
             keys[k].owner \notin DOMAIN users => keys'[k].owner \notin DOMAIN users']_vars

(* EnsureAdminPassword "guarantees a usable admin ACCOUNT exists": each    *)
(* start that succeeds leaves an enabled admin.                            *)
StartGuaranteesAdmin ==
    [][server = "down" /\ server' = "up" => EnabledAdmins' # {}]_vars

(* DeleteUser: what a deleted account owned is "treated as admin-visible   *)
(* only".                                                                  *)
DanglingAdminOnly ==
    \A t \in DOMAIN sessions, d \in DOMAIN devices :
        devices[d] \notin DOMAIN users /\ mayManage(t, devices[d]) => sessions[t].role = "admin"
=============================================================================
