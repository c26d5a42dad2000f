-------------------------------- MODULE Accounts --------------------------------
(***************************************************************************)
(* Users and realms: the migrations a boot runs, one statement after the   *)
(* other and none of them in a transaction, and the handlers that owners   *)
(* call, of which several may be between two statements at once.           *)
(***************************************************************************)
EXTENDS Naturals, FiniteSets

CONSTANTS
  Users, Realms,
  Old,      \* the servers of the installation that is migrated
  New,      \* the servers that are created after it
  Callers   \* the deletes that may be at work at once

Servers == Old \cup New
Roles   == {"owner", "admin", "viewer"}
NoRealm == "no realm"
Gone    == "gone"

ASSUME AccountsAssumption ==
  /\ Users # {} /\ Old \cap New = {}
  /\ {NoRealm, Gone} \cap Realms = {} /\ \A u \in Users : u \notin Roles

VARIABLES
  phase,        \* what the boot does next, or "up"
  roles,        \* the users table: a role, or "none" for no such user
  realms,       \* the realms table
  realmOf,      \* servers.realm_id
  realmAdmins,  \* the realm_admins table
  session,      \* the users with a token that says owner, as they were at the login
  reading,      \* the admins that the migration's open cursor has still to visit
  delete,       \* the deletes at work
  undisturbed   \* history: the first boot has not been cut short, nor another begun

tables   == <<roles, realms, realmOf, realmAdmins>>
accounts == <<phase, tables, session, reading, delete, undisturbed>>

Boots  == {"down", "realms", "assign", "promote", "remaining", "cursor", "users", "booted"}
Delete == [at : {"none"}] \cup [at : {"user", "role"}, user : Users, owners : SUBSET Users]
          \cup [at : {"admins", "row"}, realm : Realms]

AccountsTypeOK ==
  /\ phase \in Boots \cup {"up"}
  /\ roles \in [Users -> Roles \cup {"none"}]
  /\ session \subseteq Users
  /\ realms \subseteq Realms
  /\ realmOf \in [Servers -> Realms \cup {NoRealm, Gone}]
  /\ realmAdmins \subseteq Realms \X Users
  /\ reading \subseteq Users
  /\ delete \in [Callers -> Delete]
  /\ undisturbed \in BOOLEAN

Having(role) == {u \in Users : roles[u] = role}
Owners == Having("owner")

-----------------------------------------------------------------------------
(* The boot: MigrateToRealms, NewMiddleware (main.go)                       *)

BootStep(from, to) == phase = from /\ phase' = to

Boot == BootStep("down", "realms") /\ UNCHANGED <<tables, session, reading, delete, undisturbed>>

\* With any realm there is nothing to migrate.
CreateDefault ==
  /\ phase = "realms"
  /\ IF realms # {}
     THEN phase' = "users" /\ UNCHANGED realms
     ELSE phase' = "assign" /\ \E r \in Realms : realms' = {r}
  /\ UNCHANGED <<roles, realmOf, realmAdmins, session, reading, delete, undisturbed>>

\* Mutated form: a server without a realm stays without one.
AssignNone ==
  /\ BootStep("assign", "promote")
  /\ UNCHANGED <<tables, session, reading, delete, undisturbed>>

AssignServers ==
  /\ BootStep("assign", "promote")
  /\ \E r \in realms :
       realmOf' = [s \in Servers |-> IF realmOf[s] = NoRealm THEN r ELSE realmOf[s]]
  /\ UNCHANGED <<roles, realms, realmAdmins, session, reading, delete, undisturbed>>

\* Which admin is the oldest is left open.
PromoteAdmin ==
  /\ BootStep("promote", "remaining")
  /\ IF Having("admin") = {} THEN UNCHANGED roles
     ELSE \E u \in Having("admin") : roles' = [roles EXCEPT ![u] = "owner"]
  /\ UNCHANGED <<realms, realmOf, realmAdmins, session, reading, delete, undisturbed>>

OpenCursor ==
  /\ BootStep("remaining", "cursor")
  /\ reading' = Having("admin")
  /\ UNCHANGED <<tables, session, delete, undisturbed>>

\* The insert goes through a second connection while the cursor it is called from
\* is open.  SQLite may not let it commit, and the error is not looked at.
InsertAdmin ==
  /\ phase = "cursor"
  /\ \E u \in reading, r \in realms :
       /\ reading' = reading \ {u}
       /\ realmAdmins' \in {realmAdmins, realmAdmins \cup {<<r, u>>}}
  /\ UNCHANGED <<phase, roles, realms, realmOf, session, delete, undisturbed>>

CloseCursor ==
  /\ reading = {} /\ BootStep("cursor", "users")
  /\ UNCHANGED <<tables, session, reading, delete, undisturbed>>

\* Mutated form: an installation without users is left without any.
MigrateNoPassword ==
  /\ BootStep("users", "booted")
  /\ UNCHANGED <<tables, session, reading, delete, undisturbed>>

\* migrateFromSinglePassword: the first user is an owner, with the password that
\* the configuration insists on.
MigrateFromSinglePassword ==
  /\ BootStep("users", "booted")
  /\ IF \E u \in Users : roles[u] # "none" THEN UNCHANGED roles
     ELSE \E u \in Users : roles' = [roles EXCEPT ![u] = "owner"]
  /\ UNCHANGED <<realms, realmOf, realmAdmins, session, reading, delete, undisturbed>>

Serve == BootStep("booted", "up") /\ UNCHANGED <<tables, session, reading, delete, undisturbed>>

\* RealmRunner ends, in the middle of a boot or of handlers; tokens stay valid.
Halt ==
  /\ phase # "down" /\ phase' = "down"
  /\ reading' = {} /\ delete' = [c \in Callers |-> [at |-> "none"]]
  /\ undisturbed' = FALSE
  /\ UNCHANGED <<tables, session>>

-----------------------------------------------------------------------------
(* The handlers.  RequireRole goes by the role in the caller's token.       *)

Login(u) ==
  /\ phase = "up" /\ u \in Owners /\ session' = session \cup {u}
  /\ UNCHANGED <<phase, tables, reading, delete, undisturbed>>

Expire(u) ==
  /\ u \in session /\ session' = session \ {u}
  /\ UNCHANGED <<phase, tables, reading, delete, undisturbed>>

OwnerCalls == phase = "up" /\ session # {}

CreateUser(u, role) ==
  /\ OwnerCalls /\ roles[u] = "none" /\ roles' = [roles EXCEPT ![u] = role]
  /\ UNCHANGED <<phase, realms, realmOf, realmAdmins, session, reading, delete, undisturbed>>

\* Any role may be set, of any user, the last owner included.
UpdateUser(u, role) ==
  /\ OwnerCalls /\ roles[u] # "none" /\ roles' = [roles EXCEPT ![u] = role]
  /\ UNCHANGED <<phase, realms, realmOf, realmAdmins, session, reading, delete, undisturbed>>

CreateRealm(r) ==
  /\ OwnerCalls /\ realms' = realms \cup {r}
  /\ UNCHANGED <<phase, roles, realmOf, realmAdmins, session, reading, delete, undisturbed>>

\* The realm need not exist any more, nor the user.
AddRealmAdmin(r, u) ==
  /\ OwnerCalls /\ realmAdmins' = realmAdmins \cup {<<r, u>>}
  /\ UNCHANGED <<phase, roles, realms, realmOf, session, reading, delete, undisturbed>>

RemoveRealmAdmin(r, u) ==
  /\ OwnerCalls /\ realmAdmins' = realmAdmins \ {<<r, u>>}
  /\ UNCHANGED <<phase, roles, realms, realmOf, session, reading, delete, undisturbed>>

\* A server is created without a realm; wiped out, its row goes.
CreateServer(s) ==
  /\ phase = "up" /\ realmOf[s] = Gone /\ s \in New
  /\ realmOf' = [realmOf EXCEPT ![s] = NoRealm]
  /\ UNCHANGED <<phase, roles, realms, realmAdmins, session, reading, delete, undisturbed>>

WipeoutServer(s) ==
  /\ phase = "up" /\ realmOf' = [realmOf EXCEPT ![s] = Gone]
  /\ UNCHANGED <<phase, roles, realms, realmAdmins, session, reading, delete, undisturbed>>

-----------------------------------------------------------------------------
(* The deletes, a statement at a time                                      *)

Deleting(c, at) == phase = "up" /\ delete[c].at = at
Goes(c, d)      == delete' = [delete EXCEPT ![c] = d]
Done(c)         == Goes(c, [at |-> "none"])
Rest            == UNCHANGED <<phase, session, reading, undisturbed>>

DeleteUserCount(c, u) ==
  /\ OwnerCalls /\ Deleting(c, "none")
  /\ Goes(c, [at |-> "user", user |-> u, owners |-> Owners])
  /\ Rest /\ UNCHANGED tables

DeleteUserRole(c) ==
  /\ Deleting(c, "user")
  /\ IF roles[delete[c].user] = "owner" /\ Cardinality(delete[c].owners) <= 1
     THEN Done(c) ELSE Goes(c, [delete[c] EXCEPT !.at = "role"])
  /\ Rest /\ UNCHANGED tables

\* The rows that name the user elsewhere stay.
DeleteUserRow(c) ==
  /\ Deleting(c, "role") /\ Done(c)
  /\ roles' = [roles EXCEPT ![delete[c].user] = "none"]
  /\ Rest /\ UNCHANGED <<realms, realmOf, realmAdmins>>

\* Mutated form: a realm with servers is deleted.
DeleteRealmUnchecked(c, r) ==
  /\ OwnerCalls /\ Deleting(c, "none")
  /\ Goes(c, [at |-> "admins", realm |-> r])
  /\ Rest /\ UNCHANGED tables

\* A realm with servers is refused.
DeleteRealm(c, r) ==
  /\ OwnerCalls /\ Deleting(c, "none")
  /\ \A s \in Servers : realmOf[s] # r
  /\ Goes(c, [at |-> "admins", realm |-> r])
  /\ Rest /\ UNCHANGED tables

DeleteRealmAdmins(c) ==
  /\ Deleting(c, "admins") /\ Goes(c, [delete[c] EXCEPT !.at = "row"])
  /\ realmAdmins' = {ra \in realmAdmins : ra[1] # delete[c].realm}
  /\ Rest /\ UNCHANGED <<roles, realms, realmOf>>

DeleteRealmRow(c) ==
  /\ Deleting(c, "row") /\ Done(c)
  /\ realms' = realms \ {delete[c].realm}
  /\ Rest /\ UNCHANGED <<roles, realmOf, realmAdmins>>

-----------------------------------------------------------------------------

\* An installation from before the realms: no users at all, or admins and viewers.
AccountsInit ==
  /\ phase = "down" /\ realms = {} /\ realmAdmins = {} /\ reading = {}
  /\ roles \in [Users -> {"admin", "viewer", "none"}]
  /\ (\E u \in Users : roles[u] # "none") => Having("admin") # {}
  /\ undisturbed = TRUE
  /\ realmOf = [s \in Servers |-> IF s \in Old THEN NoRealm ELSE Gone]
  /\ session = {}
  /\ delete = [c \in Callers |-> [at |-> "none"]]

BootNext ==
  \/ Boot \/ CreateDefault \/ AssignServers \/ PromoteAdmin \/ OpenCursor \/ InsertAdmin
  \/ CloseCursor \/ MigrateFromSinglePassword \/ Serve \/ Halt

UserNext(u) ==
  \/ Login(u) \/ Expire(u)
  \/ \E role \in Roles : CreateUser(u, role) \/ UpdateUser(u, role)
  \/ \E r \in Realms : AddRealmAdmin(r, u) \/ RemoveRealmAdmin(r, u)

DeleteNext(c) ==
  \/ \E u \in Users : DeleteUserCount(c, u)
  \/ \E r \in Realms : DeleteRealm(c, r)
  \/ DeleteUserRole(c) \/ DeleteUserRow(c) \/ DeleteRealmAdmins(c) \/ DeleteRealmRow(c)

AccountsNext ==
  \/ BootNext
  \/ \E u \in Users : UserNext(u)
  \/ \E r \in Realms : CreateRealm(r)
  \/ \E s \in Servers : CreateServer(s) \/ WipeoutServer(s)
  \/ \E c \in Callers : DeleteNext(c)

AccountsSpec == AccountsInit /\ [][AccountsNext]_accounts

-----------------------------------------------------------------------------

\* A server's realm exists: none is deleted under a server, however deletes,
\* wipeouts and reboots that migrate again come together (realms.go: DeleteRealm).
RealmsExist == \A s \in Servers : realmOf[s] \in realms \cup {NoRealm, Gone}

\* A first boot that nothing cuts short leaves someone who can manage users and
\* realms, whatever users there were, and every server in a realm (main.go,
\* realms.go: MigrateToRealms, middleware.go: migrateFromSinglePassword).
Migrated ==
  phase = "booted" /\ undisturbed =>
    /\ Owners # {}
    /\ \A s \in Old : realmOf[s] \in realms
=============================================================================
