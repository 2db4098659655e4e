---------------------------- MODULE AdminProofs ----------------------------
(***************************************************************************)
(* What the admin API keeps is right, whatever its size.                   *)
(*                                                                         *)
(* Accounts: the last-admin guard is right when update and delete requests *)
(* do not overlap, for any number of accounts, names and sessions; types   *)
(* are kept and what deleted accounts owned stays without an owner however *)
(* many of them overlap.                                                   *)
(*                                                                         *)
(* Access rules: for any devices, any ports and rule lists of any length,  *)
(* the compiled filter gives the verdict of the rules, the dry-run tester  *)
(* predicts it, and deleting a device changes it for no other.             *)
(***************************************************************************)
EXTENDS Accounts, AclFilter, TLAPS

Row == [name : Usernames, role : Roles, disabled : BOOLEAN]
Pending == [pc : {"read", "count", "role", "disabled", "delete"}, id : UserIds, op : Ops]

(* The part of the types the argument needs.                               *)
UserTypes ==
    /\ nextUser \in 1 .. MaxUser + 1
    /\ DOMAIN users \subseteq 1 .. nextUser - 1
    /\ users \in [DOMAIN users -> Row]
    /\ req \in [Handlers -> {Idle} \cup Pending]

(* A request that got past the guard and takes an admin away leaves        *)
(* another enabled admin.                                                  *)
Covered(q, admins) ==
    /\ q.pc = "role" => q.op.op = "update" /\ q.op.role \in Roles
    /\ q.pc = "disabled" => q.op.op = "update" /\ q.op.disabled # Keep
    /\ q.pc = "delete" => q.op.op = "delete"
    /\ q.pc \in {"role", "disabled", "delete"} /\ demoting(q.op) =>
          \E a \in admins : a # q.id

AdminInv ==
    /\ UserTypes
    /\ server = "up" => EnabledAdmins # {}
    /\ DOMAIN users # {} => EnabledAdmins # {}
    /\ \A h \in Handlers : req[h] # Idle => server = "up" /\ Covered(req[h], EnabledAdmins)

-----------------------------------------------------------------------------
LEMMA IdleNotPending == Idle \notin Pending
  BY Zenon DEF Idle, Pending

(* Creating an account takes no admin away.                                *)
LEMMA CreateKeepsAdmins ==
    ASSUME UserTypes, NEW name \in Usernames, NEW role \in Roles, CreateUser(name, role)
    PROVE  /\ nextUser' \in 1 .. MaxUser + 1
           /\ DOMAIN users' \subseteq 1 .. nextUser' - 1
           /\ users' \in [DOMAIN users' -> Row]
           /\ EnabledAdmins \subseteq EnabledAdmins'
           /\ role = "admin" => EnabledAdmins' # {}
<1> DEFINE row == [name |-> name, role |-> role, disabled |-> FALSE]
<1>1. row \in Row /\ row.role = role /\ row.disabled = FALSE
  BY Zenon DEF Row
<1> HIDE DEF row
<1>2. users' = With(users, nextUser, row) /\ nextUser' = nextUser + 1 /\ nextUser \in UserIds
  BY Zenon DEF CreateUser, row
<1>3. nextUser \notin DOMAIN users
  BY DEF UserTypes
<1>4. /\ DOMAIN users' = DOMAIN users \cup {nextUser}
      /\ users'[nextUser] = row
      /\ \A i \in DOMAIN users : users'[i] = users[i]
  BY <1>2, <1>3, Zenon DEF With
<1>5. users' \in [DOMAIN users' -> Row]
  BY <1>1, <1>2, <1>3, Zenon DEF With, UserTypes
<1>6. nextUser' \in 1 .. MaxUser + 1 /\ DOMAIN users' \subseteq 1 .. nextUser' - 1
  BY <1>2, <1>4, AccountsAssumption DEF UserIds, UserTypes
<1>7. EnabledAdmins \subseteq EnabledAdmins'
  BY <1>4, Zenon DEF EnabledAdmins
<1>8. role = "admin" => nextUser \in EnabledAdmins'
  BY <1>1, <1>4, Zenon DEF EnabledAdmins
<1> QED
  BY <1>5, <1>6, <1>7, <1>8, Zenon

(* More admins and the same requests keep the invariant.                   *)
LEMMA MoreAdmins ==
    ASSUME AdminInv, EnabledAdmins \subseteq EnabledAdmins', UNCHANGED <<server, req>>,
           UserTypes', DOMAIN users' # {} => EnabledAdmins' # {}
    PROVE  AdminInv'
<1>1. ASSUME NEW h \in Handlers, req[h] # Idle PROVE Covered(req'[h], EnabledAdmins')
  BY <1>1, Zenon DEF AdminInv, Covered
<1> QED
  BY <1>1, Zenon DEF AdminInv

LEMMA StartStep ==
    ASSUME AdminInv, Start \/ StartExplicit
    PROVE  AdminInv'
<1>1. /\ server = "down" /\ server' = "up" /\ req' = req
      /\ \/ CreateUser(Admin, "admin")
         \/ UNCHANGED <<users, nextUser>> /\ DOMAIN users # {}
  BY Zenon DEF Start, StartExplicit, EnabledAdmins, Taken
<1>2. \A h \in Handlers : req[h] = Idle
  BY <1>1, Zenon DEF AdminInv
<1>3. UserTypes' /\ EnabledAdmins' # {}
  <2>1. CASE CreateUser(Admin, "admin")
    BY <2>1, <1>1, CreateKeepsAdmins, AccountsAssumption, Zenon DEF AdminInv, UserTypes, Roles
  <2>2. CASE UNCHANGED <<users, nextUser>> /\ DOMAIN users # {}
    BY <2>2, <1>1, Zenon DEF AdminInv, UserTypes, EnabledAdmins
  <2> QED
    BY <1>1, <2>1, <2>2, Zenon
<1> QED
  BY <1>1, <1>2, <1>3, Zenon DEF AdminInv

LEMMA StopStep == ASSUME AdminInv, Stop PROVE AdminInv'
<1>1. UserTypes' /\ EnabledAdmins' = EnabledAdmins /\ users' = users
  BY Zenon DEF Stop, AdminInv, UserTypes, EnabledAdmins
<1>2. \A h \in Handlers : req'[h] = Idle
  BY Zenon DEF Stop
<1>3. server' = "down"
  BY Zenon DEF Stop
<1> QED
  BY <1>1, <1>2, <1>3, Zenon DEF AdminInv

(* A new account, by signup or by an admin.                                *)
LEMMA CreateStep ==
    ASSUME AdminInv, NEW name \in Usernames, NEW role \in Roles, CreateUser(name, role),
           server = "up", UNCHANGED <<server, req>>
    PROVE  AdminInv'
<1>1. UserTypes
  BY Zenon DEF AdminInv
<1>2. UserTypes' /\ EnabledAdmins \subseteq EnabledAdmins'
  BY <1>1, CreateKeepsAdmins, Zenon DEF UserTypes
<1>3. EnabledAdmins' # {}
  BY <1>2, Zenon DEF AdminInv
<1> QED
  BY <1>2, <1>3, MoreAdmins, Zenon

(* Steps that change neither accounts nor requests.                        *)
LEMMA QuietStep ==
    ASSUME AdminInv, UNCHANGED <<server, users, nextUser, req>>
    PROVE  AdminInv'
<1>1. UserTypes' /\ EnabledAdmins' = EnabledAdmins
  BY Zenon DEF AdminInv, UserTypes, EnabledAdmins
<1> QED
  BY <1>1, MoreAdmins, Zenon DEF AdminInv

-----------------------------------------------------------------------------
(* The steps of an update or delete request.                               *)

OneHandler == \A g, h \in Handlers : g = h

LEMMA OpTypes ==
    /\ \A op \in Ops : op.op = "update" \/ op.op = "delete"
    /\ \A op \in Ops : op.op = "update" =>
          /\ op.role \in Roles \cup {Keep}
          /\ op.disabled \in {"yes", "no", Keep}
          /\ op.role # Keep \/ op.disabled # Keep
  BY DEF Ops, Updates

(* What the one request in progress has to show after its step.            *)
LEMMA RequestStep ==
    ASSUME OneHandler, AdminInv, NEW h \in Handlers, NEW q,
           server = "up", server' = server, req' = [req EXCEPT ![h] = q],
           nextUser' = nextUser, DOMAIN users' \subseteq DOMAIN users,
           users' \in [DOMAIN users' -> Row], EnabledAdmins' # {},
           q = Idle \/ (q \in Pending /\ Covered(q, EnabledAdmins'))
    PROVE  AdminInv'
<1>1. UserTypes' /\ req'[h] = q
  BY Zenon DEF AdminInv, UserTypes
<1>2. \A g \in Handlers : g = h
  BY Zenon DEF OneHandler
<1>3. ASSUME NEW g \in Handlers, req'[g] # Idle PROVE server' = "up" /\ Covered(req'[g], EnabledAdmins')
  BY <1>1, <1>2, <1>3, IdleNotPending, Zenon
<1> QED
  BY <1>1, <1>3, Zenon DEF AdminInv

LEMMA ReadStep == ASSUME OneHandler, AdminInv, NEW h \in Handlers, ReadTarget(h) PROVE AdminInv'
<1> DEFINE r == req[h]
           next == IF users[r.id].role = "admin" /\ demoting(r.op) THEN "count" ELSE FirstWrite(r.op)
           q == IF r.id \notin DOMAIN users THEN Idle ELSE [r EXCEPT !.pc = next]
<1>1. r \in Pending /\ r.pc = "read" /\ server = "up"
  BY DEF ReadTarget, AdminInv, UserTypes, Idle
<1>2. r.op \in Ops /\ r.id \in UserIds
  BY <1>1, Zenon DEF Pending
<1>3. req' = [req EXCEPT ![h] = q] /\ UNCHANGED <<server, users, nextUser>>
  BY Zenon DEF ReadTarget
<1>4. EnabledAdmins' = EnabledAdmins /\ EnabledAdmins # {}
  BY <1>1, <1>3, Zenon DEF EnabledAdmins, AdminInv
<1>5. FirstWrite(r.op) \in {"role", "disabled", "delete"}
  BY Zenon DEF FirstWrite
<1>6. ASSUME r.id \in DOMAIN users
      PROVE  q \in Pending /\ q.pc = next /\ q.id = r.id /\ q.op = r.op
  BY <1>1, <1>5, <1>6, Zenon DEF Pending
<1>7. ASSUME r.id \in DOMAIN users
      PROVE  Covered(q, EnabledAdmins')
  <2>1. CASE next = "count"
    BY <1>6, <1>7, <2>1, Zenon DEF Covered
  <2>2. CASE next # "count"
    <3>1. q.pc = FirstWrite(r.op) /\ q.op = r.op /\ q.id = r.id
      BY <1>6, <1>7, <2>2, Zenon
    <3>2. demoting(r.op) => r.id \notin EnabledAdmins
      BY <2>2, Zenon DEF EnabledAdmins
    <3>3. /\ q.pc = "role" => r.op.op = "update" /\ r.op.role \in Roles
          /\ q.pc = "disabled" => r.op.op = "update" /\ r.op.disabled # Keep
          /\ q.pc = "delete" => r.op.op = "delete"
      BY <1>2, <3>1, OpTypes DEF FirstWrite, Keep
    <3>4. demoting(r.op) => \E a \in EnabledAdmins' : a # r.id
      BY <1>4, <3>2, Zenon
    <3> HIDE DEF q, r
    <3> QED
      BY <3>1, <3>3, <3>4, Zenon DEF Covered
  <2> QED
    BY <2>1, <2>2, Zenon
<1> HIDE DEF q, r
<1>8. q = Idle \/ (q \in Pending /\ Covered(q, EnabledAdmins'))
  BY <1>6, <1>7, Zenon DEF q
<1>9. DOMAIN users' \subseteq DOMAIN users /\ users' \in [DOMAIN users' -> Row]
  BY <1>3, Zenon DEF AdminInv, UserTypes
<1> QED
  BY <1>1, <1>3, <1>4, <1>8, <1>9, RequestStep, Zenon

LEMMA CountStep == ASSUME OneHandler, AdminInv, NEW h \in Handlers, CountAdmins(h) PROVE AdminInv'
<1> DEFINE r == req[h]
           one == \A i, j \in EnabledAdmins : i = j
           q == IF one THEN Idle ELSE [r EXCEPT !.pc = FirstWrite(r.op)]
<1>1. r \in Pending /\ r.pc = "count" /\ server = "up"
  BY DEF CountAdmins, AdminInv, UserTypes, Idle
<1>2. r.op \in Ops
  BY <1>1, Zenon DEF Pending
<1>3. req' = [req EXCEPT ![h] = q] /\ UNCHANGED <<server, users, nextUser>>
  BY Zenon DEF CountAdmins
<1>4. EnabledAdmins' = EnabledAdmins /\ EnabledAdmins # {}
  BY <1>1, <1>3, Zenon DEF EnabledAdmins, AdminInv
<1>5. ASSUME ~ one
      PROVE  q \in Pending /\ q.pc = FirstWrite(r.op) /\ q.id = r.id /\ q.op = r.op
  BY <1>1, <1>5, Zenon DEF Pending, FirstWrite
<1>6. ASSUME ~ one PROVE Covered(q, EnabledAdmins')
  <2>1. \E a \in EnabledAdmins' : a # r.id
    BY <1>4, <1>6, Zenon
  <2>2. /\ q.pc = "role" => r.op.op = "update" /\ r.op.role \in Roles
        /\ q.pc = "disabled" => r.op.op = "update" /\ r.op.disabled # Keep
        /\ q.pc = "delete" => r.op.op = "delete"
    BY <1>2, <1>5, <1>6, OpTypes DEF FirstWrite, Keep
  <2>3. q.id = r.id /\ q.op = r.op
    BY <1>5, <1>6, Zenon
  <2> HIDE DEF q, r
  <2> QED
    BY <2>1, <2>2, <2>3, Zenon DEF Covered
<1> HIDE DEF q, r
<1>7. q = Idle \/ (q \in Pending /\ Covered(q, EnabledAdmins'))
  BY <1>5, <1>6, Zenon DEF q
<1>8. DOMAIN users' \subseteq DOMAIN users /\ users' \in [DOMAIN users' -> Row]
  BY <1>3, Zenon DEF AdminInv, UserTypes
<1> QED
  BY <1>1, <1>3, <1>4, <1>7, <1>8, RequestStep, Zenon

LEMMA RequestArrives ==
    ASSUME OneHandler, AdminInv, NEW h \in Handlers, NEW t \in Tokens,
           NEW id \in UserIds, NEW op \in Ops, Request(h, t, id, op)
    PROVE  AdminInv'
<1> DEFINE q == [pc |-> "read", id |-> id, op |-> op]
<1>1. /\ server = "up" /\ req' = [req EXCEPT ![h] = q]
      /\ UNCHANGED <<server, users, nextUser>>
  BY Zenon DEF Request, admin, auth
<1>2. q \in Pending /\ q.pc = "read"
  BY Zenon DEF Pending
<1> HIDE DEF q
<1>3. Covered(q, EnabledAdmins')
  BY <1>2, Zenon DEF Covered
<1>4. EnabledAdmins' # {} /\ DOMAIN users' \subseteq DOMAIN users /\ users' \in [DOMAIN users' -> Row]
  BY <1>1, Zenon DEF AdminInv, UserTypes, EnabledAdmins
<1> QED
  BY <1>1, <1>2, <1>3, <1>4, RequestStep, Zenon

LEMMA RoleStep == ASSUME OneHandler, AdminInv, NEW h \in Handlers, SetUserRole(h) PROVE AdminInv'
<1> DEFINE r == req[h]
           q == IF r.op.disabled = Keep THEN Idle ELSE [r EXCEPT !.pc = "disabled"]
<1>1. r \in Pending /\ r.pc = "role" /\ server = "up" /\ Covered(r, EnabledAdmins)
  BY DEF SetUserRole, AdminInv, UserTypes, Idle
<1>2. r.op \in Ops /\ r.id \in UserIds /\ r.op.op = "update" /\ r.op.role \in Roles
  BY <1>1, Zenon DEF Pending, Covered
<1>3. demoting(r.op) => \E a \in EnabledAdmins : a # r.id
  BY <1>1, Zenon DEF Covered
<1>4. UNCHANGED <<server, nextUser>> /\ UserTypes /\ EnabledAdmins # {}
  BY <1>1, Zenon DEF SetUserRole, AdminInv
<1>5. CASE r.id \in DOMAIN users
  <2>1. users' = [users EXCEPT ![r.id].role = r.op.role] /\ req' = [req EXCEPT ![h] = q]
    BY <1>5, Zenon DEF SetUserRole
  <2>2. users[r.id] \in Row
    BY <1>4, <1>5, Zenon DEF UserTypes
  <2> DEFINE row == [users[r.id] EXCEPT !.role = r.op.role]
  <2>3. row \in Row /\ row.role = r.op.role /\ row.disabled = users[r.id].disabled
    BY <2>2, <1>2, Zenon DEF Row
  <2>4. users' = [users EXCEPT ![r.id] = row]
    BY <2>1, Zenon
  <2> HIDE DEF row
  <2>5. DOMAIN users' = DOMAIN users /\ users' \in [DOMAIN users' -> Row]
    BY <2>3, <2>4, <1>4, Zenon DEF UserTypes
  <2>6. \A a \in EnabledAdmins : a # r.id => a \in EnabledAdmins'
    BY <2>4, <2>5, Zenon DEF EnabledAdmins
  <2>7. demoting(r.op) => \E a \in EnabledAdmins' : a # r.id
    BY <1>3, <2>6, Zenon
  <2>8. EnabledAdmins' # {}
    <3>1. CASE demoting(r.op)
      BY <3>1, <2>7, Zenon
    <3>2. CASE ~ demoting(r.op)
      <4>1. r.op.role = "admin"
        BY <3>2, <1>2, Zenon DEF demoting, Roles
      <4>2. r.id \in EnabledAdmins => r.id \in EnabledAdmins'
        BY <4>1, <2>3, <2>4, <2>5, <1>5, Zenon DEF EnabledAdmins
      <4> QED
        BY <4>2, <2>6, <1>4, Zenon
    <3> QED
      BY <3>1, <3>2, Zenon
  <2>9. q = Idle \/ (q \in Pending /\ Covered(q, EnabledAdmins'))
    <3>1. CASE r.op.disabled = Keep
      BY <3>1, Zenon
    <3>2. CASE r.op.disabled # Keep
      <4>1. q \in Pending /\ q.pc = "disabled" /\ q.id = r.id /\ q.op = r.op
        BY <3>2, <1>1, Zenon DEF Pending
      <4> HIDE DEF q, r
      <4> QED
        BY <4>1, <3>2, <2>7, <1>2, Zenon DEF Covered
    <3> QED
      BY <3>1, <3>2, Zenon
  <2> HIDE DEF q, r
  <2> QED
    BY <1>1, <1>4, <2>1, <2>5, <2>8, <2>9, RequestStep, Zenon
<1>6. CASE r.id \notin DOMAIN users
  <2>1. users' = users /\ req' = [req EXCEPT ![h] = Idle]
    BY <1>6, Zenon DEF SetUserRole
  <2>2. EnabledAdmins' # {} /\ DOMAIN users' \subseteq DOMAIN users /\ users' \in [DOMAIN users' -> Row]
    BY <2>1, <1>4, Zenon DEF EnabledAdmins, UserTypes
  <2> QED
    BY <1>1, <1>4, <2>1, <2>2, RequestStep, Zenon
<1> QED
  BY <1>5, <1>6, Zenon

LEMMA DisabledStep == ASSUME OneHandler, AdminInv, NEW h \in Handlers, SetUserDisabled(h) PROVE AdminInv'
<1> DEFINE r == req[h]
<1>1. r \in Pending /\ r.pc = "disabled" /\ server = "up" /\ Covered(r, EnabledAdmins)
  BY DEF SetUserDisabled, AdminInv, UserTypes, Idle
<1>2. r.op \in Ops /\ r.op.op = "update" /\ r.op.disabled # Keep
  BY <1>1, Zenon DEF Pending, Covered
<1>3. demoting(r.op) => \E a \in EnabledAdmins : a # r.id
  BY <1>1, Zenon DEF Covered
<1>4. UNCHANGED <<server, nextUser>> /\ UserTypes /\ EnabledAdmins # {}
  BY <1>1, Zenon DEF SetUserDisabled, AdminInv
<1>5. req' = [req EXCEPT ![h] = Idle]
  BY Zenon DEF SetUserDisabled
<1>6. /\ DOMAIN users' \subseteq DOMAIN users /\ users' \in [DOMAIN users' -> Row]
      /\ EnabledAdmins' # {}
  <2>1. CASE r.id \in DOMAIN users
    <3> DEFINE row == [users[r.id] EXCEPT !.disabled = (r.op.disabled = "yes")]
    <3>1. users' = [users EXCEPT ![r.id] = row]
      BY <2>1, Zenon DEF SetUserDisabled
    <3>2. users[r.id] \in Row
      BY <1>4, <2>1, Zenon DEF UserTypes
    <3>3. row \in Row /\ row.role = users[r.id].role /\ row.disabled = (r.op.disabled = "yes")
      BY <3>2, Zenon DEF Row
    <3> HIDE DEF row
    <3>4. DOMAIN users' = DOMAIN users /\ users' \in [DOMAIN users' -> Row]
      BY <3>1, <3>3, <1>4, Zenon DEF UserTypes
    <3>5. \A a \in EnabledAdmins : a # r.id => a \in EnabledAdmins'
      BY <3>1, <3>4, Zenon DEF EnabledAdmins
    <3>6. r.op.disabled = "yes" => demoting(r.op)
      BY Zenon DEF demoting
    <3>7. r.op.disabled # "yes" => (r.id \in EnabledAdmins => r.id \in EnabledAdmins')
      BY <3>1, <3>3, <3>4, <2>1, Zenon DEF EnabledAdmins
    <3> QED
      BY <3>4, <3>5, <3>6, <3>7, <1>3, <1>4, Zenon
  <2>2. CASE r.id \notin DOMAIN users
    <3>1. users' = users
      BY <2>2, Zenon DEF SetUserDisabled
    <3> QED
      BY <3>1, <1>4, Zenon DEF EnabledAdmins, UserTypes
  <2> QED
    BY <2>1, <2>2, Zenon
<1> QED
  BY <1>1, <1>4, <1>5, <1>6, RequestStep, Zenon

LEMMA DeleteStep == ASSUME OneHandler, AdminInv, NEW h \in Handlers, DeleteUser(h) PROVE AdminInv'
<1> DEFINE r == req[h]
<1>1. r.pc = "delete" /\ server = "up" /\ Covered(r, EnabledAdmins)
  BY DEF DeleteUser, AdminInv, UserTypes, Idle
<1>2. \E a \in EnabledAdmins : a # r.id
  BY <1>1, Zenon DEF Covered, demoting
<1>3. /\ UNCHANGED <<server, nextUser>> /\ UserTypes
      /\ req' = [req EXCEPT ![h] = Idle] /\ users' = Without(users, r.id)
  BY Zenon DEF DeleteUser, AdminInv
<1>4. DOMAIN users' = DOMAIN users \ {r.id} /\ \A i \in DOMAIN users' : users'[i] = users[i]
  BY <1>3, Zenon DEF Without
<1>5. users' \in [DOMAIN users' -> Row]
  BY <1>3, <1>4, Zenon DEF Without, UserTypes
<1>6. EnabledAdmins' # {}
  BY <1>2, <1>4, Zenon DEF EnabledAdmins
<1>7. DOMAIN users' \subseteq DOMAIN users
  BY <1>4, Zenon
<1> QED
  BY <1>1, <1>3, <1>5, <1>6, <1>7, RequestStep, Zenon

-----------------------------------------------------------------------------
LEMMA InitAdmin == Init => AdminInv
  BY AccountsAssumption DEF Init, AdminInv, UserTypes, EnabledAdmins

LEMMA NextAdmin == OneHandler /\ AdminInv /\ [Next]_vars => AdminInv'
<1> SUFFICES ASSUME OneHandler, AdminInv, [Next]_vars PROVE AdminInv'
  BY Zenon
<1>1. CASE Start \/ StartExplicit
  BY <1>1, StartStep, Zenon
<1>2. CASE Stop
  BY <1>2, StopStep, Zenon
<1>3. ASSUME NEW id \in UserIds, NEW t \in Tokens, Login(id, t) PROVE AdminInv'
  BY <1>3, QuietStep, Zenon DEF Login
<1>4. ASSUME NEW name \in Usernames, NEW t \in Tokens, Signup(name, t) PROVE AdminInv'
  BY <1>4, CreateStep, Zenon DEF Signup, Roles
<1>5. ASSUME NEW t \in Tokens, EndSession(t) PROVE AdminInv'
  BY <1>5, QuietStep, Zenon DEF EndSession
<1>6. ASSUME NEW t \in Tokens, NEW name \in Usernames, NEW role \in Roles,
             handleCreateUser(t, name, role)
      PROVE  AdminInv'
  BY <1>6, CreateStep, Zenon DEF handleCreateUser, admin, auth
<1>7. ASSUME NEW t \in Tokens, NEW b \in BOOLEAN, handleSignupToggle(t, b) PROVE AdminInv'
  BY <1>7, QuietStep, Zenon DEF handleSignupToggle
<1>8. ASSUME NEW h \in Handlers, NEW t \in Tokens, NEW id \in UserIds, NEW op \in Ops,
             Request(h, t, id, op)
      PROVE  AdminInv'
  BY <1>8, RequestArrives, Zenon
<1>9. ASSUME NEW h \in Handlers,
             \/ ReadTarget(h) \/ CountAdmins(h)
             \/ SetUserRole(h) \/ SetUserDisabled(h) \/ DeleteUser(h)
      PROVE  AdminInv'
  BY <1>9, ReadStep, CountStep, RoleStep, DisabledStep, DeleteStep, Zenon
<1>10. ASSUME NEW t \in Tokens, NEW k \in SetupKeys,
              handleCreateSetupKey(t, k) \/ handleRevokeSetupKey(t, k)
       PROVE  AdminInv'
  BY <1>10, QuietStep, Zenon DEF handleCreateSetupKey, handleRevokeSetupKey
<1>11. ASSUME NEW k \in SetupKeys, NEW d \in Devices, Enrol(k, d) PROVE AdminInv'
  BY <1>11, QuietStep, Zenon DEF Enrol
<1>12. ASSUME NEW t \in Tokens, NEW d \in Devices, handleDeleteDevice(t, d) PROVE AdminInv'
  BY <1>12, QuietStep, Zenon DEF handleDeleteDevice
<1>13. CASE UNCHANGED vars
  BY <1>13, QuietStep, Zenon DEF vars
<1> QED
  BY <1>1, <1>2, <1>3, <1>4, <1>5, <1>6, <1>7, <1>8, <1>9, <1>10, <1>11, <1>12, <1>13,
     Zenon DEF Next

(* If update and delete requests never overlap, the guard of               *)
(* handleUpdateUser and handleDeleteUser keeps an enabled admin at all     *)
(* times.                                                                  *)
THEOREM SerialGuard == OneHandler /\ Spec => []AlwaysAnAdmin
<1>1. AdminInv => AlwaysAnAdmin
  BY Zenon DEF AdminInv, AlwaysAnAdmin
<1>2. SUFFICES ASSUME OneHandler PROVE Spec => []AlwaysAnAdmin
  BY Zenon
<1>3. AdminInv /\ [Next]_vars => AdminInv'
  BY <1>2, NextAdmin, Zenon
<1> QED
  BY <1>1, <1>3, InitAdmin, PTL DEF Spec
-----------------------------------------------------------------------------
(* Types and owners, with any number of overlapping requests.              *)

Session == [user : UserIds, role : Roles]
Key == [owner : UserIds, revoked : BOOLEAN]

OwnTypes ==
    /\ server \in {"up", "down"} /\ signup \in BOOLEAN
    /\ DOMAIN sessions \subseteq Tokens /\ sessions \in [DOMAIN sessions -> Session]
    /\ DOMAIN keys \subseteq SetupKeys /\ keys \in [DOMAIN keys -> Key]
    /\ DOMAIN devices \subseteq Devices /\ devices \in [DOMAIN devices -> UserIds]

\* A request that is about to write a role has one to write.
Writes(q) == q.pc = "role" => q.op.role \in Roles

\* Sessions, keys and devices name accounts that were created at some time.
OwnersIssued ==
    /\ \A t \in DOMAIN sessions : sessions[t].user < nextUser
    /\ \A k \in DOMAIN keys : keys[k].owner < nextUser
    /\ \A d \in DOMAIN devices : devices[d] < nextUser

UserInv == UserTypes /\ \A h \in Handlers : Writes(req[h])
OwnInv == OwnTypes /\ OwnersIssued

\* What a step may do to the accounts there are, and to owners.
NewIdsOnly == nextUser' \in {nextUser, nextUser + 1} /\ DOMAIN users' \subseteq DOMAIN users \cup {nextUser}
OwnersKept ==
    /\ \A d \in DOMAIN devices \cap DOMAIN devices' : devices'[d] = devices[d]
    /\ \A k \in DOMAIN keys : k \in DOMAIN keys' /\ keys'[k].owner = keys[k].owner

LEMMA TypeParts == TypeOK <=> UserTypes /\ OwnTypes
  BY Zenon DEF TypeOK, UserTypes, OwnTypes, Row, Pending, Session, Key

(* A step of one request, which may change or delete its target's row.     *)
LEMMA OneRequest ==
    ASSUME UserInv, NEW h \in Handlers, NEW q \in {Idle} \cup Pending, Writes(q),
           req' = [req EXCEPT ![h] = q], nextUser' = nextUser,
           DOMAIN users' \subseteq DOMAIN users, users' \in [DOMAIN users' -> Row]
    PROVE  UserInv' /\ NewIdsOnly
<1>1. req' \in [Handlers -> {Idle} \cup Pending] /\ req'[h] = q
      /\ \A g \in Handlers : g # h => req'[g] = req[g]
  BY Zenon DEF UserInv, UserTypes
<1>2. \A g \in Handlers : Writes(req'[g])
  BY <1>1, Zenon DEF UserInv
<1>3. UserTypes'
  BY <1>1, Zenon DEF UserInv, UserTypes
<1> QED
  BY <1>2, <1>3, Zenon DEF UserInv, NewIdsOnly

LEMMA FirstWriteOK ==
    ASSUME NEW r \in Pending
    PROVE  LET q == [r EXCEPT !.pc = FirstWrite(r.op)] IN q \in Pending /\ Writes(q)
<1>1. r.op \in Ops /\ FirstWrite(r.op) \in {"role", "disabled", "delete"}
  BY DEF Pending, FirstWrite
<1>2. FirstWrite(r.op) = "role" => r.op.role \in Roles
  BY <1>1, OpTypes DEF FirstWrite, Keep
<1> QED
  BY <1>1, <1>2 DEF Pending, Writes

LEMMA RequestSteps ==
    ASSUME UserInv, NEW h \in Handlers,
           \/ \E t \in Tokens, id \in UserIds, op \in Ops : Request(h, t, id, op)
           \/ ReadTarget(h) \/ CountAdmins(h)
           \/ SetUserRole(h) \/ SetUserDisabled(h) \/ DeleteUser(h)
    PROVE  UserInv' /\ NewIdsOnly
<1> DEFINE r == req[h]
<1>1. r \in {Idle} \cup Pending /\ Writes(r) /\ (r.pc # "idle" => r \in Pending)
  BY DEF UserInv, UserTypes, Idle
<1>2. UserTypes /\ users \in [DOMAIN users -> Row]
  BY Zenon DEF UserInv, UserTypes
<1>3. Idle \in {Idle} \cup Pending /\ Writes(Idle)
  BY DEF Writes, Idle
<1>4. ASSUME NEW t \in Tokens, NEW id \in UserIds, NEW op \in Ops, Request(h, t, id, op)
      PROVE  UserInv' /\ NewIdsOnly
  <2> DEFINE q == [pc |-> "read", id |-> id, op |-> op]
  <2>1. q \in {Idle} \cup Pending /\ Writes(q)
    BY DEF Pending, Writes
  <2>2. req' = [req EXCEPT ![h] = q] /\ users' = users /\ nextUser' = nextUser
    BY <1>4, Zenon DEF Request
  <2> HIDE DEF q
  <2> QED
    BY <1>2, <2>1, <2>2, OneRequest, Zenon
<1>5. CASE ReadTarget(h)
  <2> DEFINE next == IF users[r.id].role = "admin" /\ demoting(r.op) THEN "count" ELSE FirstWrite(r.op)
             q == IF r.id \notin DOMAIN users THEN Idle ELSE [r EXCEPT !.pc = next]
  <2>1. req' = [req EXCEPT ![h] = q] /\ users' = users /\ nextUser' = nextUser /\ r.pc = "read"
    BY <1>5, Zenon DEF ReadTarget
  <2>2. r \in Pending
    BY <1>1, <2>1
  <2>3. [r EXCEPT !.pc = "count"] \in Pending /\ Writes([r EXCEPT !.pc = "count"])
    BY <2>2 DEF Pending, Writes
  <2>4. q \in {Idle} \cup Pending /\ Writes(q)
    BY <1>3, <2>2, <2>3, FirstWriteOK, Zenon
  <2> HIDE DEF q
  <2> QED
    BY <1>2, <2>1, <2>4, OneRequest, Zenon
<1>6. CASE CountAdmins(h)
  <2> DEFINE q == IF \A i, j \in EnabledAdmins : i = j THEN Idle ELSE [r EXCEPT !.pc = FirstWrite(r.op)]
  <2>1. req' = [req EXCEPT ![h] = q] /\ users' = users /\ nextUser' = nextUser /\ r.pc = "count"
    BY <1>6, Zenon DEF CountAdmins
  <2>2. r \in Pending
    BY <1>1, <2>1
  <2>3. q \in {Idle} \cup Pending /\ Writes(q)
    BY <1>3, <2>2, FirstWriteOK, Zenon
  <2> HIDE DEF q
  <2> QED
    BY <1>2, <2>1, <2>3, OneRequest, Zenon
<1>7. CASE SetUserRole(h)
  <2>1. r.pc = "role" /\ nextUser' = nextUser
    BY <1>7, Zenon DEF SetUserRole
  <2>2. r \in Pending /\ r.op.role \in Roles
    BY <1>1, <2>1 DEF Writes
  <2>3. [r EXCEPT !.pc = "disabled"] \in Pending /\ Writes([r EXCEPT !.pc = "disabled"])
    BY <2>2 DEF Pending, Writes
  <2>4. PICK q \in {Idle} \cup Pending : Writes(q) /\ req' = [req EXCEPT ![h] = q]
    BY <1>3, <1>7, <2>3, Zenon DEF SetUserRole
  <2>5. DOMAIN users' \subseteq DOMAIN users /\ users' \in [DOMAIN users' -> Row]
    <3>1. CASE r.id \notin DOMAIN users
      BY <1>2, <1>7, <3>1, Zenon DEF SetUserRole
    <3>2. CASE r.id \in DOMAIN users
      <4> DEFINE row == [users[r.id] EXCEPT !.role = r.op.role]
      <4>1. users' = [users EXCEPT ![r.id] = row]
        BY <1>7, <3>2, Zenon DEF SetUserRole
      <4>2. users[r.id] \in Row
        BY <1>2, <3>2, Zenon
      <4>3. row \in Row
        BY <2>2, <4>2 DEF Row
      <4> HIDE DEF row
      <4> QED
        BY <1>2, <4>1, <4>3, Zenon
    <3> QED
      BY <3>1, <3>2, Zenon
  <2> QED
    BY <2>1, <2>4, <2>5, OneRequest, Zenon
<1>8. CASE SetUserDisabled(h)
  <2>1. req' = [req EXCEPT ![h] = Idle] /\ nextUser' = nextUser
    BY <1>8, Zenon DEF SetUserDisabled
  <2>2. DOMAIN users' \subseteq DOMAIN users /\ users' \in [DOMAIN users' -> Row]
    <3>1. CASE r.id \notin DOMAIN users
      BY <1>2, <1>8, <3>1, Zenon DEF SetUserDisabled
    <3>2. CASE r.id \in DOMAIN users
      <4> DEFINE row == [users[r.id] EXCEPT !.disabled = (r.op.disabled = "yes")]
      <4>1. users' = [users EXCEPT ![r.id] = row]
        BY <1>8, <3>2, Zenon DEF SetUserDisabled
      <4>2. users[r.id] \in Row
        BY <1>2, <3>2, Zenon
      <4>3. row \in Row
        BY <4>2, Zenon DEF Row
      <4> HIDE DEF row
      <4> QED
        BY <1>2, <4>1, <4>3, Zenon
    <3> QED
      BY <3>1, <3>2, Zenon
  <2> QED
    BY <1>3, <2>1, <2>2, OneRequest, Zenon
<1>9. CASE DeleteUser(h)
  <2>1. req' = [req EXCEPT ![h] = Idle] /\ nextUser' = nextUser /\ users' = Without(users, r.id)
    BY <1>9, Zenon DEF DeleteUser
  <2>2. DOMAIN users' \subseteq DOMAIN users /\ users' \in [DOMAIN users' -> Row]
    BY <1>2, <2>1 DEF Without
  <2> QED
    BY <1>3, <2>1, <2>2, OneRequest, Zenon
<1> QED
  BY <1>4, <1>5, <1>6, <1>7, <1>8, <1>9, Zenon

LEMMA UserSteps ==
    ASSUME UserInv, [Next]_vars
    PROVE  UserInv' /\ NewIdsOnly
<1>1. UserTypes /\ nextUser \in Int
  BY AccountsAssumption DEF UserInv, UserTypes
<1>2. ASSUME NEW name \in Usernames, NEW role \in Roles, CreateUser(name, role), req' = req
      PROVE  UserInv' /\ NewIdsOnly
  <2>1. UserTypes'
    BY <1>1, <1>2, CreateKeepsAdmins, Zenon DEF UserTypes
  <2>2. NewIdsOnly
    BY <1>2 DEF CreateUser, With, NewIdsOnly
  <2> QED
    BY <1>2, <2>1, <2>2, Zenon DEF UserInv
<1>3. ASSUME UNCHANGED <<users, nextUser, req>> PROVE UserInv' /\ NewIdsOnly
  BY <1>3, Zenon DEF UserInv, UserTypes, NewIdsOnly
<1>4. CASE Start \/ StartExplicit
  <2>1. Admin \in Usernames /\ "admin" \in Roles
    BY AccountsAssumption, Zenon DEF Roles
  <2> QED
    BY <1>2, <1>3, <1>4, <2>1, Zenon DEF Start, StartExplicit
<1>5. CASE Stop
  <2>1. /\ req' = [h \in Handlers |-> Idle] /\ users' = users /\ nextUser' = nextUser
    BY <1>5, Zenon DEF Stop
  <2>2. Writes(Idle)
    BY DEF Writes, Idle
  <2>3. req' \in [Handlers -> {Idle} \cup Pending] /\ \A h \in Handlers : Writes(req'[h])
    BY <2>1, <2>2, Zenon
  <2> QED
    BY <1>1, <2>1, <2>3, Zenon DEF UserInv, UserTypes, NewIdsOnly
<1>6. ASSUME NEW name \in Usernames, NEW t \in Tokens, Signup(name, t) PROVE UserInv' /\ NewIdsOnly
  BY <1>2, <1>6, Zenon DEF Signup, Roles
<1>7. ASSUME NEW t \in Tokens, NEW name \in Usernames, NEW role \in Roles,
             handleCreateUser(t, name, role)
      PROVE  UserInv' /\ NewIdsOnly
  BY <1>2, <1>7, Zenon DEF handleCreateUser
<1>8. \/ Start \/ StartExplicit \/ Stop \/ UNCHANGED <<users, nextUser, req>>
      \/ \E name \in Usernames, t \in Tokens : Signup(name, t)
      \/ \E t \in Tokens, name \in Usernames, role \in Roles : handleCreateUser(t, name, role)
      \/ \E h \in Handlers :
            \/ \E t \in Tokens, id \in UserIds, op \in Ops : Request(h, t, id, op)
            \/ ReadTarget(h) \/ CountAdmins(h)
            \/ SetUserRole(h) \/ SetUserDisabled(h) \/ DeleteUser(h)
  BY Zenon DEF Next, vars, Login, EndSession, handleSignupToggle, handleCreateSetupKey,
     handleRevokeSetupKey, Enrol, handleDeleteDevice
<1> QED
  BY <1>3, <1>4, <1>5, <1>6, <1>7, <1>8, RequestSteps, Zenon

LEMMA OwnSteps ==
    ASSUME UserInv, OwnInv, [Next]_vars
    PROVE  OwnInv' /\ OwnersKept
<1>1. OwnTypes /\ OwnersIssued /\ UserTypes
  BY Zenon DEF OwnInv, UserInv
<1>0. /\ sessions \in [DOMAIN sessions -> Session] /\ keys \in [DOMAIN keys -> Key]
      /\ devices \in [DOMAIN devices -> UserIds]
  BY <1>1, Zenon DEF OwnTypes
<1>2. NewIdsOnly /\ nextUser \in Int /\ nextUser' \in Int
  BY UserSteps, AccountsAssumption DEF NewIdsOnly, UserInv, UserTypes
<1>3. \A i \in UserIds : i < nextUser => i < nextUser'
  BY <1>2, AccountsAssumption DEF NewIdsOnly, UserIds
<1>4. /\ \A t \in DOMAIN sessions : sessions[t] \in Session /\ sessions[t].user \in UserIds
      /\ \A k \in DOMAIN keys : keys[k] \in Key /\ keys[k].owner \in UserIds
      /\ \A d \in DOMAIN devices : devices[d] \in UserIds
  BY <1>1, Zenon DEF OwnTypes, Session, Key
<1>5. /\ \A t \in DOMAIN sessions : sessions[t].user < nextUser'
      /\ \A k \in DOMAIN keys : keys[k].owner < nextUser'
      /\ \A d \in DOMAIN devices : devices[d] < nextUser'
  BY <1>1, <1>3, <1>4, Zenon DEF OwnersIssued
<1>6. server' \in {"up", "down"} /\ signup' \in BOOLEAN
  BY <1>1 DEF OwnTypes, Next, vars, Start, StartExplicit, Stop, Login, Signup, EndSession,
     handleCreateUser, handleSignupToggle, Request, ReadTarget, CountAdmins, SetUserRole,
     SetUserDisabled, DeleteUser, handleCreateSetupKey, handleRevokeSetupKey, Enrol, handleDeleteDevice
<1>7. ASSUME UNCHANGED <<keys, devices>>, DOMAIN sessions' \subseteq Tokens,
             sessions' \in [DOMAIN sessions' -> Session],
             \A t \in DOMAIN sessions' : sessions'[t].user < nextUser'
      PROVE  OwnInv' /\ OwnersKept
  BY <1>1, <1>5, <1>6, <1>7, Zenon DEF OwnInv, OwnTypes, OwnersIssued, OwnersKept
<1>8. ASSUME NEW t \in Tokens, NEW u \in UserIds, u < nextUser', NEW role \in Roles,
             startSession(t, u, role), UNCHANGED <<keys, devices>>
      PROVE  OwnInv' /\ OwnersKept
  <2> DEFINE row == [user |-> u, role |-> role]
  <2>1. row \in Session /\ row.user = u
    BY DEF Session
  <2>2. sessions' = With(sessions, t, row)
    BY <1>8, Zenon DEF startSession
  <2> HIDE DEF row
  <2>3. /\ DOMAIN sessions' = DOMAIN sessions \cup {t} /\ sessions' \in [DOMAIN sessions' -> Session]
        /\ sessions'[t] = row /\ \A y \in DOMAIN sessions : y # t => sessions'[y] = sessions[y]
    BY <1>0, <2>1, <2>2 DEF With
  <2>4. \A y \in DOMAIN sessions' : sessions'[y].user < nextUser'
    BY <1>5, <1>8, <2>1, <2>3, Zenon
  <2>5. DOMAIN sessions' \subseteq Tokens
    BY <1>1, <2>3, Zenon DEF OwnTypes
  <2> QED
    BY <1>7, <1>8, <2>3, <2>4, <2>5, Zenon
<1>9. ASSUME NEW id \in UserIds, NEW t \in Tokens, Login(id, t) PROVE OwnInv' /\ OwnersKept
  <2>1. id < nextUser' /\ users[id].role \in Roles
    BY <1>1, <1>9 DEF Login, UserTypes, Row
  <2> QED
    BY <1>8, <1>9, <2>1, Zenon DEF Login
<1>10. ASSUME NEW name \in Usernames, NEW t \in Tokens, Signup(name, t) PROVE OwnInv' /\ OwnersKept
  <2>1. nextUser \in UserIds /\ nextUser < nextUser' /\ "member" \in Roles
    BY <1>2, <1>10 DEF Signup, CreateUser, Roles
  <2> QED
    BY <1>8, <1>10, <2>1, Zenon DEF Signup
<1>11. ASSUME NEW t \in Tokens, EndSession(t) PROVE OwnInv' /\ OwnersKept
  <2>1. sessions' = Without(sessions, t) /\ UNCHANGED <<keys, devices>>
    BY <1>11, Zenon DEF EndSession
  <2>2. /\ DOMAIN sessions' \subseteq DOMAIN sessions /\ sessions' \in [DOMAIN sessions' -> Session]
        /\ \A y \in DOMAIN sessions' : sessions'[y] = sessions[y]
    BY <1>0, <2>1 DEF Without
  <2>3. DOMAIN sessions' \subseteq Tokens /\ \A y \in DOMAIN sessions' : sessions'[y].user < nextUser'
    BY <1>1, <1>5, <2>2, Zenon DEF OwnTypes
  <2> QED
    BY <1>7, <2>1, <2>2, <2>3, Zenon
<1>12. CASE Stop
  <2>1. sessions' = <<>> /\ UNCHANGED <<keys, devices>>
    BY <1>12, Zenon DEF Stop
  <2>2. DOMAIN sessions' = {} /\ sessions' \in [DOMAIN sessions' -> Session]
    BY <2>1
  <2> QED
    BY <1>7, <2>1, <2>2, Zenon
<1>13. ASSUME NEW t \in Tokens, NEW k \in SetupKeys, handleCreateSetupKey(t, k)
       PROVE  OwnInv' /\ OwnersKept
  <2> DEFINE row == [owner |-> sessions[t].user, revoked |-> FALSE]
  <2>1. t \in DOMAIN sessions /\ k \notin DOMAIN keys /\ keys' = With(keys, k, row)
        /\ UNCHANGED <<sessions, devices>>
    BY <1>13, Zenon DEF handleCreateSetupKey, auth
  <2>2. row \in Key /\ row.owner = sessions[t].user
    BY <1>4, <2>1 DEF Key
  <2> HIDE DEF row
  <2>3. /\ DOMAIN keys' = DOMAIN keys \cup {k} /\ keys' \in [DOMAIN keys' -> Key]
        /\ keys'[k] = row /\ \A y \in DOMAIN keys : y # k => keys'[y] = keys[y]
    BY <1>0, <2>1, <2>2 DEF With
  <2>4. \A y \in DOMAIN keys' : keys'[y].owner < nextUser'
    BY <1>5, <2>1, <2>2, <2>3, Zenon
  <2>5. DOMAIN keys' \subseteq SetupKeys /\ OwnersKept
    BY <1>1, <2>1, <2>3, Zenon DEF OwnTypes, OwnersKept
  <2> QED
    BY <1>1, <1>5, <1>6, <2>1, <2>3, <2>4, <2>5, Zenon DEF OwnInv, OwnTypes, OwnersIssued
<1>14. ASSUME NEW t \in Tokens, NEW k \in SetupKeys, handleRevokeSetupKey(t, k)
       PROVE  OwnInv' /\ OwnersKept
  <2> DEFINE row == [keys[k] EXCEPT !.revoked = TRUE]
  <2>1. k \in DOMAIN keys /\ keys' = [keys EXCEPT ![k] = row] /\ UNCHANGED <<sessions, devices>>
    BY <1>14, Zenon DEF handleRevokeSetupKey
  <2>2. row \in Key /\ row.owner = keys[k].owner
    BY <1>4, <2>1 DEF Key
  <2> HIDE DEF row
  <2>3. /\ DOMAIN keys' = DOMAIN keys /\ keys' \in [DOMAIN keys' -> Key]
        /\ \A y \in DOMAIN keys : keys'[y].owner = keys[y].owner
    BY <1>1, <2>1, <2>2, Zenon DEF OwnTypes
  <2>4. \A y \in DOMAIN keys' : keys'[y].owner < nextUser'
    BY <1>5, <2>3, Zenon
  <2>5. DOMAIN keys' \subseteq SetupKeys /\ OwnersKept
    BY <1>1, <2>1, <2>3, Zenon DEF OwnTypes, OwnersKept
  <2> QED
    BY <1>1, <1>5, <1>6, <2>1, <2>3, <2>4, <2>5, Zenon DEF OwnInv, OwnTypes, OwnersIssued
<1>15. ASSUME NEW k \in SetupKeys, NEW d \in Devices, Enrol(k, d) PROVE OwnInv' /\ OwnersKept
  <2>1. /\ k \in DOMAIN keys /\ d \notin DOMAIN devices /\ devices' = With(devices, d, keys[k].owner)
        /\ UNCHANGED <<sessions, keys>>
    BY <1>15, Zenon DEF Enrol
  <2>2. /\ DOMAIN devices' = DOMAIN devices \cup {d} /\ devices' \in [DOMAIN devices' -> UserIds]
        /\ devices'[d] = keys[k].owner /\ \A y \in DOMAIN devices : y # d => devices'[y] = devices[y]
    BY <1>0, <1>4, <2>1 DEF With
  <2>3. \A y \in DOMAIN devices' : devices'[y] < nextUser'
    BY <1>5, <2>1, <2>2, Zenon
  <2>4. DOMAIN devices' \subseteq Devices /\ OwnersKept
    BY <1>1, <2>1, <2>2, Zenon DEF OwnTypes, OwnersKept
  <2> QED
    BY <1>1, <1>5, <1>6, <2>1, <2>2, <2>3, <2>4, Zenon DEF OwnInv, OwnTypes, OwnersIssued
<1>16. ASSUME NEW t \in Tokens, NEW d \in Devices, handleDeleteDevice(t, d) PROVE OwnInv' /\ OwnersKept
  <2>1. devices' = Without(devices, d) /\ UNCHANGED <<sessions, keys>>
    BY <1>16, Zenon DEF handleDeleteDevice
  <2>2. /\ DOMAIN devices' \subseteq DOMAIN devices /\ devices' \in [DOMAIN devices' -> UserIds]
        /\ \A y \in DOMAIN devices' : devices'[y] = devices[y]
    BY <1>0, <2>1 DEF Without
  <2>3. \A y \in DOMAIN devices' : devices'[y] < nextUser'
    BY <1>5, <2>2, Zenon
  <2>4. DOMAIN devices' \subseteq Devices /\ OwnersKept
    BY <1>1, <2>1, <2>2, Zenon DEF OwnTypes, OwnersKept
  <2> QED
    BY <1>1, <1>5, <1>6, <2>1, <2>2, <2>3, <2>4, Zenon DEF OwnInv, OwnTypes, OwnersIssued
<1>17. ASSUME UNCHANGED <<sessions, keys, devices>> PROVE OwnInv' /\ OwnersKept
  BY <1>1, <1>5, <1>7, <1>17, Zenon DEF OwnTypes
<1>18. \/ UNCHANGED <<sessions, keys, devices>> \/ Stop
       \/ \E id \in UserIds, t \in Tokens : Login(id, t)
       \/ \E name \in Usernames, t \in Tokens : Signup(name, t)
       \/ \E t \in Tokens : EndSession(t)
       \/ \E t \in Tokens, k \in SetupKeys : handleCreateSetupKey(t, k) \/ handleRevokeSetupKey(t, k)
       \/ \E k \in SetupKeys, d \in Devices : Enrol(k, d)
       \/ \E t \in Tokens, d \in Devices : handleDeleteDevice(t, d)
  BY Zenon DEF Next, vars, Start, StartExplicit, handleCreateUser, handleSignupToggle, Request,
     ReadTarget, CountAdmins, SetUserRole, SetUserDisabled, DeleteUser
<1> QED
  BY <1>9, <1>10, <1>11, <1>12, <1>13, <1>14, <1>15, <1>16, <1>17, <1>18, Zenon

LEMMA AccountInvariant == Spec => [](UserInv /\ OwnInv)
<1>1. Init => UserInv /\ OwnInv
  <2> SUFFICES ASSUME Init PROVE UserInv /\ OwnInv
    BY Zenon
  <2>1. UserTypes
    BY InitAdmin, Zenon DEF AdminInv
  <2>2. \A h \in Handlers : Writes(req[h])
    BY DEF Init, Writes, Idle
  <2>3. <<>> = [x \in {} |-> {}] /\ DOMAIN <<>> = {}
    OBVIOUS
  <2>4. OwnInv
    BY <2>3, Zenon DEF Init, OwnInv, OwnTypes, OwnersIssued
  <2> QED
    BY <2>1, <2>2, <2>4, Zenon DEF UserInv
<1>2. UserInv /\ OwnInv /\ [Next]_vars => UserInv' /\ OwnInv'
  BY UserSteps, OwnSteps, Zenon
<1> QED
  BY <1>1, <1>2, PTL DEF Spec

(* Every variable keeps its type however many requests overlap: ids only   *)
(* grow, and a request in progress is between two of its statements.       *)
THEOREM TypeCorrect == Spec => []TypeOK
<1>1. UserInv /\ OwnInv => TypeOK
  BY TypeParts, Zenon DEF UserInv, OwnInv
<1> QED
  BY <1>1, AccountInvariant, PTL

(* What a deleted account owned is never inherited by a later one, however *)
(* many requests overlap: ids are not given out twice, and owners are      *)
(* always ids that were given out before.                                  *)
THEOREM OrphansAreKept == Spec => OrphansStayOrphaned
<1> DEFINE A ==
      /\ \A d \in DOMAIN devices \cap DOMAIN devices' :
             devices[d] \notin DOMAIN users => devices'[d] \notin DOMAIN users'
      /\ \A k \in DOMAIN keys :
             keys[k].owner \notin DOMAIN users => keys'[k].owner \notin DOMAIN users'
<1>1. UserInv /\ OwnInv /\ [Next]_vars => [A]_vars
  <2> SUFFICES ASSUME UserInv, OwnInv, [Next]_vars PROVE A
    BY Zenon
  <2>1. NewIdsOnly /\ OwnersKept
    BY UserSteps, OwnSteps, Zenon
  <2>2. \A d \in DOMAIN devices : devices[d] # nextUser
    BY AccountsAssumption DEF OwnInv, OwnTypes, OwnersIssued, UserIds, UserInv, UserTypes
  <2>3. \A k \in DOMAIN keys : keys[k].owner # nextUser
    BY AccountsAssumption DEF OwnInv, OwnTypes, OwnersIssued, UserIds, UserInv, UserTypes, Key
  <2> QED
    BY <2>1, <2>2, <2>3, Zenon DEF NewIdsOnly, OwnersKept
<1> QED
  BY <1>1, AccountInvariant, PTL DEF Spec, OrphansStayOrphaned
-----------------------------------------------------------------------------
(* Access rules.                                                           *)

\* The filter rule of r.
Compiled(r, nds) ==
    [allow |-> r.action = "allow", srcs |-> srcCIDRs(r, nds), protocol |-> r.protocol, ports |-> r.ports]

\* The positions of the rules that match at dst once compiled.
Fires(rs, nds, dst, src, proto, port) ==
    {i \in DOMAIN rs : compiles(rs[i], nds, dst) /\ matches(Compiled(rs[i], nds), src, proto, port)}

\* The first of them allows.
FirstAllows(rs, fires) == \E i \in fires : rs[i].action = "allow" /\ \A j \in fires : i <= j

\* The rules that apply to traffic from device id to device dst.
Applies(r, dst, id, proto, port) ==
    /\ idListMatches(r.dst, dst)
    /\ idListMatches(r.src, id)
    /\ r.protocol \in {"", proto} \/ (r.protocol = "icmp" /\ proto \in {"icmp4", "icmp6"})
    /\ r.ports # {} => \E spec \in r.ports : port \in spec[1] .. spec[2]

RuleLists == UNION {[1 .. n -> ACLRule] : n \in 0 .. MaxRules}

FilterInv == nodes \subseteq Ids /\ rules \in RuleLists

(* What compiling keeps of a rule's sources: both addresses of each that   *)
(* still exists.                                                           *)
LEMMA Sources ==
    ASSUME NEW r, NEW nds
    PROVE  /\ \A id : \A v \in {4, 6} : <<v, id>> \in srcCIDRs(r, nds) <=> id \in r.src \cap nds
           /\ srcCIDRs(r, nds) = {} <=> r.src \cap nds = {}
           /\ \A src \in srcCIDRs(r, nds) : \E id \in r.src \cap nds : src \in addrsOf(id)
<1>1. \A src : src \in srcCIDRs(r, nds) <=> \E id \in r.src \cap nds : src = <<4, id>> \/ src = <<6, id>>
  BY DEF srcCIDRs, addrsOf
<1>2. \A v, w, id, d : <<v, id>> = <<w, d>> => id = d
  OBVIOUS
<1>3. \A id : \A v \in {4, 6} : <<v, id>> \in srcCIDRs(r, nds) <=> id \in r.src \cap nds
  <2> SUFFICES ASSUME NEW id, NEW v \in {4, 6} PROVE <<v, id>> \in srcCIDRs(r, nds) <=> id \in r.src \cap nds
    BY Zenon
  <2>1. v = 4 \/ v = 6
    BY Zenon
  <2>2. <<v, id>> \in srcCIDRs(r, nds) <=> \E d \in r.src \cap nds : <<v, id>> = <<4, d>> \/ <<v, id>> = <<6, d>>
    BY <1>1, Zenon
  <2> QED
    BY <1>2, <2>1, <2>2, Zenon
<1>4. srcCIDRs(r, nds) = {} <=> r.src \cap nds = {}
  BY <1>1, Zenon
<1> QED
  BY <1>1, <1>3, <1>4, Zenon DEF addrsOf

LEMMA RuleShape ==
    ASSUME NEW r \in ACLRule
    PROVE  /\ r.src \subseteq Ids /\ r.ports \subseteq Specs
           /\ r.protocol \in {"", "tcp", "udp", "icmp"}
           /\ r.ports # {} => r.protocol \in {"tcp", "udp"}
           /\ \A spec \in r.ports : spec[1] \in Nat /\ spec[2] \in Nat
<1>1. /\ r.src \subseteq Ids /\ r.ports \subseteq Specs
      /\ r.protocol \in {"", "tcp", "udp", "icmp"}
  BY DEF ACLRule, RawRules
<1>2. r.ports # {} => r.protocol \in {"tcp", "udp"}
  BY Zenon DEF ACLRule, SetACL
<1>3. \A spec \in r.ports : spec[1] \in Nat /\ spec[2] \in Nat
  BY <1>1, FilterAssumption
<1> QED
  BY <1>1, <1>2, <1>3, Zenon

(* The filter decides by the first rule that fires.                        *)
LEMMA AllowsIs ==
    ASSUME NEW rs \in RuleLists, NEW nds, NEW dst, NEW src, NEW proto, NEW port
    PROVE  /\ CompileFilterForNode(rs, nds, dst).enabled <=> rs # <<>>
           /\ allows(CompileFilterForNode(rs, nds, dst), src, proto, port)
                <=> FirstAllows(rs, Fires(rs, nds, dst, src, proto, port))
<1> DEFINE f == CompileFilterForNode(rs, nds, dst)
           kept == {j \in DOMAIN rs : compiles(rs[j], nds, dst)}
           F == Fires(rs, nds, dst, src, proto, port)
<1>1. /\ f.enabled <=> rs # <<>>
      /\ f.rules = [i \in kept |-> Compiled(rs[i], nds)]
  BY DEF CompileFilterForNode, Compiled
<1>2. DOMAIN f.rules = kept /\ \A i \in kept : f.rules[i] = Compiled(rs[i], nds)
  BY <1>1, Zenon
<1>3. \A i \in kept : Compiled(rs[i], nds).allow <=> rs[i].action = "allow"
  BY DEF Compiled
<1>4. \A i : i \in F <=> i \in kept /\ matches(f.rules[i], src, proto, port)
  BY <1>2, Zenon DEF Fires
<1>5. \A i, j \in kept : ~ (j < i) <=> i <= j
  <2>1. \A i \in DOMAIN rs : i \in Int
    BY DEF RuleLists
  <2> QED
    BY <2>1
<1>6. F \subseteq kept
  BY <1>4, Zenon
<1> HIDE DEF f, kept, F
<1>7. allows(f, src, proto, port) <=> \E i \in F : rs[i].action = "allow" /\ \A j \in F : i <= j
  BY <1>2, <1>3, <1>4, <1>5, <1>6, Zenon DEF allows
<1> QED
  BY <1>1, <1>7, Zenon DEF FirstAllows, f, F

(* For a packet of a device that exists, a rule fires when it applies.     *)
LEMMA FiresIsApplies ==
    ASSUME NEW r \in ACLRule, NEW nds, NEW dst, NEW id \in nds, NEW v \in {4, 6},
           NEW proto \in Protos, NEW port \in Nat
    PROVE  compiles(r, nds, dst) /\ matches(Compiled(r, nds), <<v, id>>, proto, port)
             <=> Applies(r, dst, id, proto, port)
<1> DEFINE fr == Compiled(r, nds)
           inPorts == \E spec \in r.ports : spec[1] <= port /\ port <= spec[2]
<1>1. fr.srcs = srcCIDRs(r, nds) /\ fr.protocol = r.protocol /\ fr.ports = r.ports
  BY DEF Compiled
<1> HIDE DEF fr
<1>2. (r.src # {} => srcCIDRs(r, nds) # {}) /\ matchesSrc(fr, <<v, id>>) <=> idListMatches(r.src, id)
  <2>1. <<v, id>> \in srcCIDRs(r, nds) <=> id \in r.src
    BY Sources, Zenon
  <2>2. r.src = {} => srcCIDRs(r, nds) = {}
    BY Sources, Zenon
  <2>3. id \in r.src => r.src # {} /\ srcCIDRs(r, nds) # {}
    BY <2>1, Zenon
  <2>4. matchesSrc(fr, <<v, id>>) <=> srcCIDRs(r, nds) = {} \/ <<v, id>> \in srcCIDRs(r, nds)
    BY <1>1, Zenon DEF matchesSrc
  <2> QED
    BY <2>1, <2>2, <2>3, <2>4, Zenon DEF idListMatches
<1>3. matchesProto(fr, proto)
        <=> r.protocol \in {"", proto} \/ (r.protocol = "icmp" /\ proto \in {"icmp4", "icmp6"})
  BY <1>1, Zenon DEF matchesProto
<1>4. inPorts <=> \E spec \in r.ports : port \in spec[1] .. spec[2]
  <2>1. \A spec \in r.ports : spec[1] \in Nat /\ spec[2] \in Nat
    BY RuleShape, Zenon
  <2>2. \A spec \in r.ports : spec[1] <= port /\ port <= spec[2] <=> port \in spec[1] .. spec[2]
    BY <2>1
  <2> QED
    BY <2>2, Zenon
<1>5. matchesProto(fr, proto) /\ r.ports # {} => proto \in {"tcp", "udp"}
  BY <1>1, RuleShape DEF matchesProto
<1>6. matchesPort(fr, proto, port) <=> r.ports = {} \/ (proto \in {"tcp", "udp"} /\ inPorts)
  BY <1>1, Zenon DEF matchesPort
<1>7. compiles(r, nds, dst) <=> idListMatches(r.dst, dst) /\ (r.src # {} => srcCIDRs(r, nds) # {})
  BY Zenon DEF compiles
<1> HIDE DEF inPorts
<1> QED
  BY <1>2, <1>3, <1>4, <1>5, <1>6, <1>7, Zenon DEF matches, Applies, fr

LEMMA FilterInit == ACLInit => FilterInv
  BY Zenon DEF ACLInit, FilterInv, RuleLists

LEMMA FilterNext == FilterInv /\ [ACLNext]_aclVars => FilterInv'
  BY Zenon DEF ACLNext, DeleteNode, aclVars, FilterInv

LEMMA RulesAre ==
    ASSUME NEW rs \in RuleLists, NEW i \in DOMAIN rs
    PROVE  rs[i] \in ACLRule
  BY DEF RuleLists


(* The verdict on a packet is that of the first rule that fires, once the  *)
(* packet parses.                                                          *)
LEMMA PacketIs ==
    ASSUME FilterInv, NEW nds, NEW dst, NEW pkt
    PROVE  AllowsPacket(CompileFilterForNode(rules, nds, dst), pkt)
             <=> rules = <<>> \/ (parses(pkt) /\ FirstAllows(rules, Fires(rules, nds, dst, pkt.src, pkt.proto, dstPort(pkt))))
  BY AllowsIs, Zenon DEF AllowsPacket, FilterInv

LEMMA FilterIsRules ==
    ASSUME FilterInv
    PROVE  FilterMeansRules
<1> SUFFICES ASSUME NEW dst \in nodes, NEW id \in nodes,
                    NEW pkt \in Packets(addrsOf(id), {"whole", "l4", "l3"}, {FALSE})
             PROVE  AllowsPacket(CompileFilterForNode(rules, nodes, dst), pkt) =
                      CASE pkt.cut = "l3" \/ (pkt.cut = "l4" /\ hasPorts(pkt)) -> rules = <<>>
                        [] OTHER -> Verdict(dst, id, pkt.proto, dstPort(pkt))
  BY Zenon DEF FilterMeansRules
<1> DEFINE port == dstPort(pkt)
           fires == Fires(rules, nodes, dst, pkt.src, pkt.proto, port)
           hits == {i \in DOMAIN rules : Applies(rules[i], dst, id, pkt.proto, port)}
           short == pkt.cut = "l3" \/ (pkt.cut = "l4" /\ hasPorts(pkt))
<1>1. pkt.src \in addrsOf(id) /\ pkt.proto \in Protos /\ pkt.port \in Ports
  BY DEF Packets
<1>2. PICK v \in {4, 6} : pkt.src = <<v, id>>
  BY <1>1, Zenon DEF addrsOf
<1>3. port \in Nat
  BY <1>1, FilterAssumption, Zenon DEF dstPort
<1>4. parses(pkt) <=> ~ short
  BY Zenon DEF parses
<1>5. \A i \in DOMAIN rules : rules[i] \in ACLRule
  BY RulesAre, Zenon DEF FilterInv
<1> HIDE DEF port
<1>6. fires = hits
  <2>1. \A i \in DOMAIN rules :
           compiles(rules[i], nodes, dst) /\ matches(Compiled(rules[i], nodes), <<v, id>>, pkt.proto, port)
             <=> Applies(rules[i], dst, id, pkt.proto, port)
    BY <1>1, <1>3, <1>5, FiresIsApplies, Zenon
  <2> QED
    BY <1>2, <2>1, Zenon DEF Fires
<1>7. Verdict(dst, id, pkt.proto, port) = (rules = <<>> \/ FirstAllows(rules, hits))
  BY Zenon DEF Verdict, FirstAllows, Applies
<1>8. AllowsPacket(CompileFilterForNode(rules, nodes, dst), pkt)
        <=> rules = <<>> \/ (~ short /\ FirstAllows(rules, hits))
  BY <1>4, <1>6, PacketIs, Zenon DEF port
<1>9. AllowsPacket(CompileFilterForNode(rules, nodes, dst), pkt) \in BOOLEAN
  BY Zenon DEF AllowsPacket
<1>10. CASE short
  BY <1>8, <1>9, <1>10
<1>11. CASE ~ short
  BY <1>7, <1>8, <1>9, <1>11 DEF port
<1> QED
  BY <1>10, <1>11, Zenon

LEMMA TesterIsFilter ==
    ASSUME FilterInv
    PROVE  DryRunAgrees
<1> SUFFICES ASSUME NEW dst \in nodes, NEW id \in nodes, NEW name \in {"tcp", "udp", "icmp"},
                    NEW port \in Ports, NEW v \in {4, 6}
             PROVE  LET proto == IF name # "icmp" THEN name ELSE IF v = 6 THEN "icmp6" ELSE "icmp4"
                        pkt == [src |-> <<v, id>>, proto |-> proto, cut |-> "whole", later |-> FALSE,
                                port |-> IF name = "icmp" THEN 0 ELSE port]
                        f == CompileFilterForNode(rules, nodes, dst)
                    IN  AllowsPacket(f, pkt) = Check(f, <<4, id>>, name, port)
  BY Zenon DEF DryRunAgrees
<1> DEFINE proto == IF name # "icmp" THEN name ELSE IF v = 6 THEN "icmp6" ELSE "icmp4"
           asked == IF name # "icmp" THEN name ELSE "icmp4"
           to == IF name = "icmp" THEN 0 ELSE port
           pkt == [src |-> <<v, id>>, proto |-> proto, cut |-> "whole", later |-> FALSE, port |-> to]
           f == CompileFilterForNode(rules, nodes, dst)
           sent == Fires(rules, nodes, dst, <<v, id>>, proto, to)
           tried == Fires(rules, nodes, dst, <<4, id>>, asked, port)
<1>1. /\ pkt.src = <<v, id>> /\ pkt.proto = proto /\ pkt.cut = "whole" /\ pkt.later = FALSE
      /\ pkt.port = to
  OBVIOUS
<1>2. proto \in Protos /\ asked \in Protos /\ to \in Nat /\ port \in Nat
  BY FilterAssumption DEF Protos
<1>3. proto \in {"tcp", "udp"} <=> name # "icmp"
  OBVIOUS
<1>4. \/ proto = asked /\ to = port
      \/ proto \in {"icmp4", "icmp6"} /\ asked \in {"icmp4", "icmp6"} /\ name = "icmp"
  OBVIOUS
<1>5. Check(f, <<4, id>>, name, port) <=> ~ f.enabled \/ allows(f, <<4, id>>, asked, port)
  <2>1. <<4, id>>[1] # 6
    OBVIOUS
  <2> QED
    BY <2>1, Zenon DEF Check
<1> HIDE DEF pkt, proto, asked
<1>6. parses(pkt) /\ dstPort(pkt) = to
  BY <1>1, <1>3 DEF parses, dstPort, hasPorts
<1> HIDE DEF to
<1>7. ASSUME NEW i \in DOMAIN rules
      PROVE  Applies(rules[i], dst, id, proto, to) <=> Applies(rules[i], dst, id, asked, port)
  <2>1. rules[i] \in ACLRule
    BY RulesAre, Zenon DEF FilterInv
  <2>2. CASE proto = asked /\ to = port
    BY <2>2, Zenon
  <2>3. CASE proto \in {"icmp4", "icmp6"} /\ asked \in {"icmp4", "icmp6"}
    <3>1. \A p \in {"icmp4", "icmp6"} :
            rules[i].protocol \in {"", p} \/ (rules[i].protocol = "icmp" /\ p \in {"icmp4", "icmp6"})
               <=> rules[i].protocol \in {"", "icmp"}
      BY <2>1, RuleShape
    <3>2. rules[i].protocol \in {"", "icmp"} => rules[i].ports = {}
      BY <2>1, RuleShape
    <3> QED
      BY <2>3, <3>1, <3>2, Zenon DEF Applies
  <2> QED
    BY <1>4, <2>2, <2>3, Zenon
<1>8. sent = tried
  <2>1. \A i \in DOMAIN rules : rules[i] \in ACLRule
    BY RulesAre, Zenon DEF FilterInv
  <2>2. sent = {i \in DOMAIN rules : Applies(rules[i], dst, id, proto, to)}
    BY <1>2, <2>1, FiresIsApplies, Zenon DEF Fires
  <2>3. tried = {i \in DOMAIN rules : Applies(rules[i], dst, id, asked, port)}
    BY <1>2, <2>1, FiresIsApplies, Zenon DEF Fires
  <2> QED
    BY <1>7, <2>2, <2>3, Zenon
<1>9. AllowsPacket(f, pkt) <=> rules = <<>> \/ FirstAllows(rules, sent)
  BY <1>1, <1>6, PacketIs, Zenon
<1>10. Check(f, <<4, id>>, name, port) <=> rules = <<>> \/ FirstAllows(rules, tried)
  BY <1>5, AllowsIs, Zenon DEF FilterInv
<1>11. AllowsPacket(f, pkt) \in BOOLEAN /\ Check(f, <<4, id>>, name, port) \in BOOLEAN
  BY Zenon DEF AllowsPacket, Check
<1> QED
  BY <1>8, <1>9, <1>10, <1>11, Zenon DEF pkt, proto, to

(* A rule that no longer compiles, because its sources are gone, fired for *)
(* none of the addresses that are left; one that still compiles fires for  *)
(* the same of them.                                                       *)
LEMMA FiresSame ==
    ASSUME NEW r \in ACLRule, NEW nds \in SUBSET Ids, NEW left \in SUBSET nds, NEW dst,
           NEW src \in AddrsOf(left), NEW proto, NEW port
    PROVE  compiles(r, nds, dst) /\ matches(Compiled(r, nds), src, proto, port)
             <=> compiles(r, left, dst) /\ matches(Compiled(r, left), src, proto, port)
<1>1. \A s \in SUBSET nds : /\ Compiled(r, s).srcs = srcCIDRs(r, s) /\ Compiled(r, s).protocol = r.protocol
                           /\ Compiled(r, s).ports = r.ports
  BY DEF Compiled
<1>2. src \in srcCIDRs(r, nds) <=> src \in srcCIDRs(r, left)
  <2>1. CASE src = Outside
    <3>1. \A s \in SUBSET nds : Outside \notin srcCIDRs(r, s)
      <4>1. \A s \in SUBSET nds : Outside \in srcCIDRs(r, s) <=> 0 \in r.src \cap s
        BY Sources, Zenon DEF Outside
      <4> QED
        BY <4>1, FilterAssumption, Zenon
    <3> QED
      BY <2>1, <3>1, Zenon
  <2>2. ASSUME NEW id \in left, NEW v \in {4, 6}, src = <<v, id>>
        PROVE  src \in srcCIDRs(r, nds) <=> src \in srcCIDRs(r, left)
    BY <2>2, Sources, Zenon
  <2>3. src = Outside \/ \E id \in left : src = <<4, id>> \/ src = <<6, id>>
    BY DEF AddrsOf, addrsOf
  <2> QED
    BY <2>1, <2>2, <2>3, Zenon
<1>3. r.src = {} => srcCIDRs(r, nds) = {} /\ srcCIDRs(r, left) = {}
  BY Sources, Zenon
<1>4. ASSUME NEW s \in {nds, left}
      PROVE  (r.src # {} => srcCIDRs(r, s) # {}) /\ matchesSrc(Compiled(r, s), src)
               <=> r.src = {} \/ src \in srcCIDRs(r, s)
  <2>1. matchesSrc(Compiled(r, s), src) <=> srcCIDRs(r, s) = {} \/ src \in srcCIDRs(r, s)
    BY <1>1, Zenon DEF matchesSrc
  <2>2. r.src = {} => srcCIDRs(r, s) = {}
    BY <1>3, Zenon
  <2> QED
    BY <2>1, <2>2, Zenon
<1>5. ASSUME NEW s \in {nds, left}
      PROVE  compiles(r, s, dst) /\ matches(Compiled(r, s), src, proto, port)
               <=> /\ idListMatches(r.dst, dst) /\ (r.src = {} \/ src \in srcCIDRs(r, s))
                   /\ matchesProto(Compiled(r, s), proto) /\ matchesPort(Compiled(r, s), proto, port)
  BY <1>4, Zenon DEF compiles, matches
<1>6. /\ matchesProto(Compiled(r, nds), proto) <=> matchesProto(Compiled(r, left), proto)
      /\ matchesPort(Compiled(r, nds), proto, port) <=> matchesPort(Compiled(r, left), proto, port)
  BY <1>1, Zenon DEF matchesProto, matchesPort
<1> QED
  BY <1>2, <1>5, <1>6, Zenon

LEMMA DeletionStep ==
    ASSUME FilterInv, [ACLNext]_aclVars, NEW dst,
           NEW pkt \in Packets(AddrsOf(nodes'), {"whole"}, {FALSE})
    PROVE  AllowsPacket(CompileFilterForNode(rules, nodes, dst), pkt)
             = AllowsPacket(CompileFilterForNode(rules, nodes', dst), pkt)
<1>1. nodes' \in SUBSET nodes /\ nodes \in SUBSET Ids
  BY Zenon DEF ACLNext, DeleteNode, aclVars, FilterInv
<1>2. pkt.src \in AddrsOf(nodes')
  BY DEF Packets
<1>3. \A i \in DOMAIN rules : rules[i] \in ACLRule
  BY RulesAre, Zenon DEF FilterInv
<1>4. Fires(rules, nodes, dst, pkt.src, pkt.proto, dstPort(pkt))
        = Fires(rules, nodes', dst, pkt.src, pkt.proto, dstPort(pkt))
  BY <1>1, <1>2, <1>3, FiresSame, Zenon DEF Fires
<1>5. \A f : AllowsPacket(f, pkt) \in BOOLEAN
  BY Zenon DEF AllowsPacket
<1> QED
  BY <1>4, <1>5, PacketIs, Zenon

-----------------------------------------------------------------------------
LEMMA FilterHolds == ACLSpec => []FilterInv
  BY FilterInit, FilterNext, PTL DEF ACLSpec

(* The filter a device gets, rules about addresses with the gaps that      *)
(* deleted devices leave, decides every packet of a device as the saved    *)
(* rules about devices do: first match wins, no match means deny.          *)
THEOREM FilterIsPolicy == ACLSpec => []FilterMeansRules
  BY FilterIsRules, FilterHolds, PTL

(* The dry-run tester of the admin API, which asks about the IPv4 address, *)
(* predicts what the filter does with the packets of both addresses.       *)
THEOREM TesterIsRight == ACLSpec => []DryRunAgrees
  BY TesterIsFilter, FilterHolds, PTL

(* Deleting a device, and compiling again without it, changes no verdict   *)
(* between the devices that stay or on traffic from behind a subnet route. *)
THEOREM DeletionStays == ACLSpec => DeletionIsLocal
<1>1. FilterInv /\ [ACLNext]_aclVars =>
        [\A dst \in nodes' :
           LET before == CompileFilterForNode(rules, nodes, dst)
               after == CompileFilterForNode(rules, nodes', dst) IN
           \A pkt \in Packets(AddrsOf(nodes'), {"whole"}, {FALSE}) :
             AllowsPacket(before, pkt) = AllowsPacket(after, pkt)]_aclVars
  BY DeletionStep, Zenon
<1> QED
  BY <1>1, FilterHolds, PTL DEF ACLSpec, DeletionIsLocal

=============================================================================
