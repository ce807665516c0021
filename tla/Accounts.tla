------------------------------- MODULE Accounts -------------------------------
(***************************************************************************)
(* Who may sign in and who administers the instance: the handlers of       *)
(* web/app.py for the first account, for signing in with a password or     *)
(* through the identity provider, and for changing roles and deactivating  *)
(* accounts; and what lifespan does to the accounts when a process starts. *)
(*                                                                         *)
(* A handler awaits the database between reading an account, counting the  *)
(* other administrators and committing, so the handlers of several         *)
(* requests interleave there.  A commit writes a column only if its value  *)
(* differs from the one the request had loaded.                            *)
(***************************************************************************)
EXTENDS FiniteSets

CONSTANTS Names,            \* usernames
          Roles,            \* UserRole
          Requests,         \* bound: requests being handled at a time
          Configurations    \* admin_username of each deployment there may be, or NoName

ASSUME RolesAssumption == "admin" \in Roles /\ "none" \notin Roles

NoName    == "nobody"
NoAccount == [role |-> "none", active |-> FALSE, local |-> FALSE]

ASSUME NamesAssumption ==
    /\ NoName \notin Names
    /\ Configurations \subseteq Names \cup {NoName}

VARIABLES
    users,         \* the table
    up,            \* a process is running
    configured,    \* its admin_username
    hasUsers,      \* its app.state.has_users
    request,       \* of each request: how far its handler is and what it has read
    signedIn,      \* whose browser holds a session cookie; it outlasts the process
    refused        \* who was told in the last step that the account is deactivated

accounts == <<users, up, configured, hasUsers, request, signedIn, refused>>

Account == [role : Roles, active : BOOLEAN, local : BOOLEAN]

Changes == {"role", "active", "setup", "provider"}
Idle == [at |-> "idle", what |-> "setup", name |-> NoName, role |-> "admin", active |-> TRUE,
         row |-> NoAccount, seen |-> {}]

Existing(table) == {n \in Names : table[n] # NoAccount}
IsAdmin(table, n) == table[n].role = "admin" /\ table[n].active
Admins == {n \in Names : IsAdmin(users, n)}

(* Every variable stays in its type, and only a running process handles requests. *)
AccountsTypeOK ==
    /\ users \in [Names -> Account \cup {NoAccount}]
    /\ up \in BOOLEAN /\ hasUsers \in BOOLEAN
    /\ configured \in Names \cup {NoName}
    /\ request \in [Requests ->
           [at : {"idle", "admitted", "loaded", "checked", "created"}, what : Changes,
            name : Names \cup {NoName}, role : Roles, active : BOOLEAN,
            row : Account \cup {NoAccount}, seen : SUBSET Names]]
    /\ signedIn \subseteq Names /\ signedIn \subseteq Existing(users)
    /\ refused \in Names \cup {NoName}
    /\ ~up => \A q \in Requests : request[q] = Idle

AccountsInit ==
    /\ users = [n \in Names |-> NoAccount]
    /\ up = FALSE
    /\ configured = NoName
    /\ hasUsers = FALSE
    /\ request = [q \in Requests |-> Idle]
    /\ signedIn = {}
    /\ refused = NoName

-----------------------------------------------------------------------------
(* lifespan *)

ConfiguredAccount == [role |-> "admin", active |-> TRUE, local |-> TRUE]

ReconcileKeepingSource(table, c) ==
    IF c = NoName THEN table
    ELSE [table EXCEPT ![c] =
             IF @ = NoAccount THEN ConfiguredAccount
             ELSE [@ EXCEPT !.role = "admin", !.active = TRUE]]

ReconcileAdmin(table, c) ==
    IF c = NoName THEN table ELSE [table EXCEPT ![c] = ConfiguredAccount]

LookBeforeReconciling(c) ==
    /\ ~up /\ up' = TRUE
    /\ configured' = c
    /\ users' = ReconcileAdmin(users, c)
    /\ hasUsers' = (Existing(users) # {})
    /\ refused' = NoName
    /\ UNCHANGED <<request, signedIn>>

Start(c) ==
    /\ ~up /\ up' = TRUE
    /\ configured' = c
    /\ users' = ReconcileAdmin(users, c)
    /\ hasUsers' = (Existing(users') # {})
    /\ refused' = NoName
    /\ UNCHANGED <<request, signedIn>>

(* However the process ends, what its handlers had not committed is gone. *)
End ==
    /\ up /\ up' = FALSE
    /\ configured' = NoName
    /\ hasUsers' = FALSE
    /\ request' = [q \in Requests |-> Idle]
    /\ refused' = NoName
    /\ UNCHANGED <<users, signedIn>>

-----------------------------------------------------------------------------
(* The guard of every request, and how a handler goes on from there *)

process == <<up, configured>>

(* _dispatch: before the first account every path leads to /setup, afterwards none does. *)
Open(q) == up /\ request[q] = Idle

Becomes(q, r) == request' = [request EXCEPT ![q] = r]

(* setup_submit *)
AskSetup(q, n) ==
    /\ Open(q) /\ ~hasUsers
    /\ Becomes(q, [Idle EXCEPT !.at = "checked", !.name = n])
    /\ refused' = NoName
    /\ UNCHANGED <<users, process, hasUsers, signedIn>>

(* The name is unique: the second of two to commit it fails. *)
CommitSetup(q) == LET r == request[q] IN
    /\ r.at = "checked" /\ r.what = "setup"
    /\ \/ /\ users[r.name] # NoAccount
          /\ Becomes(q, Idle)
          /\ UNCHANGED users
       \/ /\ users[r.name] = NoAccount
          /\ Becomes(q, [r EXCEPT !.at = "created"])
          /\ users' = [users EXCEPT ![r.name] = ConfiguredAccount]
    /\ refused' = NoName
    /\ UNCHANGED <<process, hasUsers, signedIn>>

EndSetup(q) ==
    /\ request[q].at = "created"
    /\ hasUsers' = TRUE
    /\ signedIn' = signedIn \cup {request[q].name}
    /\ Becomes(q, Idle)
    /\ refused' = NoName
    /\ UNCHANGED <<users, process>>

-----------------------------------------------------------------------------
(* Signing in *)

(* login_submit: only a local account has a password. *)
Login(n) ==
    /\ up /\ hasUsers
    /\ users[n].local /\ users[n].active
    /\ signedIn' = signedIn \cup {n}
    /\ refused' = NoName
    /\ UNCHANGED <<users, process, hasUsers, request>>

(* logout, or the cookie's max age. *)
Logout(n) ==
    /\ n \in signedIn
    /\ signedIn' = signedIn \ {n}
    /\ refused' = NoName
    /\ UNCHANGED <<users, process, hasUsers, request>>

(* oidc_callback: the provider's claims name an account and give it a role. *)
AskProvider(q, n, role) ==
    /\ Open(q) /\ hasUsers
    /\ Becomes(q, [Idle EXCEPT !.at = "checked", !.what = "provider", !.name = n,
                               !.role = role, !.row = users[n]])
    /\ refused' = NoName
    /\ UNCHANGED <<users, process, hasUsers, signedIn>>

(* The default of the column active is applied at the commit, and the handler asks before: *)
(* a new account is refused and stored.                                                    *)
FirstVisit(q) == LET r == request[q] IN
    /\ r.at = "checked" /\ r.what = "provider" /\ r.row = NoAccount
    /\ \/ /\ users[r.name] # NoAccount
          /\ refused' = NoName
          /\ UNCHANGED users
       \/ /\ users[r.name] = NoAccount
          /\ users' = [users EXCEPT ![r.name] =
                          [role |-> r.role, active |-> TRUE, local |-> FALSE]]
          /\ refused' = r.name
    /\ Becomes(q, Idle)
    /\ UNCHANGED <<process, hasUsers, signedIn>>

Visit(q) == LET r == request[q] IN
    /\ r.at = "checked" /\ r.what = "provider" /\ r.row # NoAccount
    /\ users' = IF ~r.row.local /\ r.row.role # r.role
                THEN [users EXCEPT ![r.name].role = r.role] ELSE users
    /\ \/ r.row.active /\ signedIn' = signedIn \cup {r.name} /\ refused' = NoName
       \/ ~r.row.active /\ refused' = r.name /\ UNCHANGED signedIn
    /\ Becomes(q, Idle)
    /\ UNCHANGED <<process, hasUsers>>

-----------------------------------------------------------------------------
(* users_role and users_active *)

(* Both are under /users, which only an administrator may reach. *)
AskRole(q, by, n, role) ==
    /\ Open(q) /\ hasUsers /\ by \in signedIn \cap Admins
    /\ Becomes(q, [Idle EXCEPT !.at = "admitted", !.what = "role", !.name = n, !.role = role])
    /\ refused' = NoName
    /\ UNCHANGED <<users, process, hasUsers, signedIn>>

AskActive(q, by, n, wanted) ==
    /\ Open(q) /\ hasUsers /\ by \in signedIn \cap Admins
    /\ Becomes(q, [Idle EXCEPT !.at = "admitted", !.what = "active", !.name = n,
                               !.active = wanted])
    /\ refused' = NoName
    /\ UNCHANGED <<users, process, hasUsers, signedIn>>

(* _would_orphan_admins, as far as it goes without asking the database. *)
MayOrphan(r, row) ==
    /\ row.role = "admin"
    /\ IF r.what = "role" THEN r.role # "admin" ELSE ~r.active

LoadAnyway(q) == LET r == request[q]  row == users[request[q].name] IN
    /\ r.at = "admitted"
    /\ Becomes(q, [r EXCEPT !.row = row,
                            !.at = IF MayOrphan(r, row) THEN "loaded" ELSE "checked"])
    /\ refused' = NoName
    /\ UNCHANGED <<users, process, hasUsers, signedIn>>

Load(q) == LET r == request[q]  row == users[request[q].name] IN
    /\ r.at = "admitted"
    /\ Becomes(q, IF row = NoAccount THEN Idle
                  ELSE [r EXCEPT !.row = row,
                                 !.at = IF MayOrphan(r, row) THEN "loaded" ELSE "checked"])
    /\ refused' = NoName
    /\ UNCHANGED <<users, process, hasUsers, signedIn>>

OthersEvenInactive(n) == {o \in Names \ {n} : users[o].role = "admin"}

OtherAdmins(n) == {o \in Names \ {n} : IsAdmin(users, o)}

(* The rest of _would_orphan_admins.  The list it counts is not kept. *)
Check(q) == LET r == request[q] IN
    /\ r.at = "loaded"
    /\ Becomes(q, IF OtherAdmins(r.name) = {} THEN Idle
                  ELSE [r EXCEPT !.at = "checked", !.seen = Admins])
    /\ refused' = NoName
    /\ UNCHANGED <<users, process, hasUsers, signedIn>>

Commit(q) == LET r == request[q] IN
    /\ r.at = "checked" /\ r.what \in {"role", "active"}
    /\ users' = CASE r.what = "role" /\ r.role # r.row.role ->
                        [users EXCEPT ![r.name].role = r.role]
                  [] r.what = "active" /\ r.active # r.row.active ->
                        [users EXCEPT ![r.name].active = r.active]
                  [] OTHER -> users
    /\ Becomes(q, Idle)
    /\ refused' = NoName
    /\ UNCHANGED <<process, hasUsers, signedIn>>

AccountsNext ==
    \/ \E c \in Configurations : Start(c)
    \/ End
    \/ \E q \in Requests, n \in Names :
          \/ AskSetup(q, n)
          \/ \E role \in Roles : AskProvider(q, n, role)
          \/ \E by \in Names, role \in Roles : AskRole(q, by, n, role)
          \/ \E by \in Names, wanted \in BOOLEAN : AskActive(q, by, n, wanted)
    \/ \E q \in Requests :
          CommitSetup(q) \/ EndSetup(q) \/ FirstVisit(q) \/ Visit(q) \/ Load(q) \/ Check(q) \/ Commit(q)
    \/ \E n \in Names : Login(n) \/ Logout(n)

AccountsSpec == AccountsInit /\ [][AccountsNext]_accounts

-----------------------------------------------------------------------------
(* Properties *)

(* The instance loses its last administrator only by a sign-in the provider demotes, or by *)
(* a request whose reading of the table was overtaken: the account it changes is no longer *)
(* the one it loaded, or the administrators it counted besides it are gone                 *)
(* (_would_orphan_admins is asked, and the change committed after other awaits).           *)
AdminKeptUnlessOvertaken ==
    [][Admins # {} /\ Admins' = {} =>
          \E q \in Requests : LET r == request[q] IN
             /\ r.at = "checked" /\ request'[q] = Idle
             /\ \/ r.what = "provider"
                \/ r.row # users[r.name]
                \/ r.seen \ {r.name} # {}]_accounts

(* A running process knows whether there are accounts, so that /setup is open exactly      *)
(* until there is one: at most the request that is creating the first has yet to say so.   *)
FirstRunEndsOnce ==
    up => /\ hasUsers => Existing(users) # {}
          /\ Existing(users) # {} => hasUsers \/ \E q \in Requests : request[q].at = "created"

(* While a process runs with an administrator configured, that account is changed only by  *)
(* an administrator's request and never by a sign-in through the provider, even if it was  *)
(* the provider's account before (_reconcile_admin makes it local).                        *)
ConfiguredAdminOutlastsProvider ==
    [][up /\ configured # NoName /\ users'[configured] # users[configured] =>
          \E q \in Requests :
             /\ request[q].what \in {"role", "active"} /\ request[q].name = configured
             /\ request'[q] = Idle]_accounts

(* Who is told "That account is deactivated." (oidc_callback) has an account that is.      *)
SignInRefusedOnlyWhenInactive == refused # NoName => ~users[refused].active
=============================================================================
