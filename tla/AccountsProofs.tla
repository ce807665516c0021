---------------------------- MODULE AccountsProofs ----------------------------
(***************************************************************************)
(* Proofs about Accounts, for any names, roles, requests and deployments.  *)
(***************************************************************************)
EXTENDS Accounts, TLAPS

USE RolesAssumption, NamesAssumption

Row == Account \cup {NoAccount}

RequestType ==
    [at : {"idle", "admitted", "loaded", "checked", "created"}, what : Changes,
     name : Names \cup {NoName}, role : Roles, active : BOOLEAN,
     row : Row, seen : SUBSET Names]

LEMMA RowTypes ==
    /\ NoAccount \notin Account
    /\ Idle \in RequestType
    /\ ConfiguredAccount \in Account
    BY DEF NoAccount, Account, Idle, RequestType, Row, Changes, ConfiguredAccount

(* What a request in hand has read is still so in the respect that it relies on: accounts *)
(* are never removed, and what /setup leads to stays open.                                *)
Sound(r, table, has) ==
    /\ r.at # "idle" => r.name \in Names
    /\ r.row # NoAccount => r.name \in Names /\ table[r.name] # NoAccount
    /\ r.at = "created" => table[r.name] # NoAccount
    /\ r.what # "setup" => has
    /\ r.at \in {"loaded", "checked"} /\ r.what \in {"role", "active"} => r.row # NoAccount

RequestInv == \A q \in Requests : Sound(request[q], users, hasUsers)

AccountsInv == AccountsTypeOK /\ RequestInv

LEMMA SoundIdle == \A table, has : Sound(Idle, table, has)
    BY DEF Sound, Idle

(* A step of one request, seen from the invariant.                                        *)
LEMMA OneRequestSteps ==
    ASSUME AccountsInv, up, up' = up, configured' = configured,
           NEW q \in Requests, NEW r \in RequestType, Becomes(q, r),
           users' \in [Names -> Row],
           \A n \in Names : users[n] # NoAccount => users'[n] # NoAccount,
           hasUsers' \in BOOLEAN, hasUsers => hasUsers',
           Sound(r, users', hasUsers'),
           signedIn' \subseteq Names, \A n \in signedIn' : users'[n] # NoAccount,
           refused' \in Names \cup {NoName}
    PROVE  AccountsInv'
<1>1. request' \in [Requests -> RequestType]
    BY DEF Becomes, AccountsInv, AccountsTypeOK, RequestType, Row
<1>2. ASSUME NEW s \in Requests PROVE Sound(request'[s], users', hasUsers')
  <2>1. CASE s = q
      BY <2>1 DEF Becomes, AccountsInv, AccountsTypeOK
  <2>2. CASE s # q
      BY <2>2 DEF Becomes, Sound, AccountsInv, AccountsTypeOK, RequestInv
  <2> QED
      BY <2>1, <2>2
<1> QED
    BY <1>1, <1>2 DEF AccountsInv, AccountsTypeOK, RequestInv, Existing, RequestType, Row

(* What of a request is known before it steps.                                            *)
LEMMA RequestInHand ==
    ASSUME AccountsInv, NEW q \in Requests, request[q].at # "idle"
    PROVE  /\ up /\ request[q] \in RequestType /\ request[q].name \in Names
           /\ request[q] # Idle
           /\ users[request[q].name] \in Row
           /\ Sound(request[q], users, hasUsers)
    BY DEF AccountsInv, AccountsTypeOK, RequestInv, RequestType, Row, Sound, Idle

(* No step removes an account from the table.                                             *)
LEMMA AccountsStay ==
    ASSUME AccountsInv, [AccountsNext]_accounts
    PROVE  /\ users' \in [Names -> Row]
           /\ \A n \in Names : users[n] # NoAccount => users'[n] # NoAccount
<1> USE RowTypes
<1> DEFINE Stay == /\ users' \in [Names -> Row]
                   /\ \A n \in Names : users[n] # NoAccount => users'[n] # NoAccount
<1>t. users \in [Names -> Row]
    BY DEF AccountsInv, AccountsTypeOK, Row
<1>1. ASSUME NEW c \in Configurations, Start(c) PROVE Stay
    BY <1>1, <1>t DEF Start, ReconcileAdmin, Row
<1>2. ASSUME NEW q \in Requests, CommitSetup(q) PROVE Stay
    BY <1>2, <1>t, RequestInHand DEF CommitSetup, Row
<1>3. ASSUME NEW q \in Requests, FirstVisit(q) PROVE Stay
  <2>1. request[q] \in RequestType /\ request[q].name \in Names
      BY <1>3, RequestInHand DEF FirstVisit
  <2>2. [role |-> request[q].role, active |-> TRUE, local |-> FALSE] \in Account
      BY <2>1 DEF RequestType, Account
  <2> QED
      BY <1>3, <1>t, <2>1, <2>2 DEF FirstVisit, Row
<1>4. ASSUME NEW q \in Requests, Visit(q) PROVE Stay
  <2>1. /\ request[q] \in RequestType /\ request[q].name \in Names
        /\ users[request[q].name] # NoAccount
      BY <1>4, RequestInHand DEF Visit, Sound
  <2>2. users[request[q].name] \in Account /\ request[q].role \in Roles
      BY <1>t, <2>1 DEF RequestType, Row
  <2>3. [users[request[q].name] EXCEPT !.role = request[q].role] \in Account
      BY <2>2 DEF Account
  <2> QED
      BY <1>4, <1>t, <2>1, <2>3 DEF Visit, Row
<1>5. ASSUME NEW q \in Requests, Commit(q) PROVE Stay
  <2>1. request[q] \in RequestType /\ request[q].name \in Names
      BY <1>5, RequestInHand DEF Commit
  <2>2. /\ request[q].role \in Roles /\ request[q].active \in BOOLEAN
        /\ users[request[q].name] \in Account
      BY <1>5, <1>t, <2>1, RequestInHand DEF RequestType, Commit, Sound, Row
  <2>3. /\ [users[request[q].name] EXCEPT !.role = request[q].role] \in Account
        /\ [users[request[q].name] EXCEPT !.active = request[q].active] \in Account
      BY <2>2 DEF Account
  <2> QED
      BY <1>5, <1>t, <2>1, <2>2, <2>3 DEF Commit, Row
<1>6. CASE UNCHANGED users
    BY <1>6, <1>t
<1> QED
    BY <1>1, <1>2, <1>3, <1>4, <1>5, <1>6
       DEF AccountsNext, accounts, End, AskSetup, EndSetup, AskProvider, AskRole, AskActive,
           Load, Check, Login, Logout

LEMMA AccountsInvInductive == AccountsInv /\ [AccountsNext]_accounts => AccountsInv'
<1> SUFFICES ASSUME AccountsInv, [AccountsNext]_accounts PROVE AccountsInv'
    OBVIOUS
<1> USE RowTypes, SoundIdle
<1>t. /\ users \in [Names -> Row] /\ hasUsers \in BOOLEAN /\ signedIn \subseteq Names
      /\ \A n \in signedIn : users[n] # NoAccount
      /\ NoName \in Names \cup {NoName}
    BY DEF AccountsInv, AccountsTypeOK, Existing, Row
<1>u. users' \in [Names -> Row] /\ \A n \in Names : users[n] # NoAccount => users'[n] # NoAccount
    BY AccountsStay
<1>1. ASSUME NEW c \in Configurations, Start(c) PROVE AccountsInv'
  <2>1. \A q \in Requests : request[q] = Idle
      BY <1>1 DEF Start, AccountsInv, AccountsTypeOK
  <2> QED
      BY <1>1, <1>t, <1>u, <2>1
         DEF Start, AccountsInv, AccountsTypeOK, RequestInv, Existing, Row
<1>2. CASE End
    BY <1>2 DEF End, AccountsInv, AccountsTypeOK, RequestInv, RequestType, Row
<1>3. ASSUME NEW q \in Requests, NEW n \in Names, AskSetup(q, n) PROVE AccountsInv'
  <2> DEFINE r == [Idle EXCEPT !.at = "checked", !.name = n]
  <2>1. r \in RequestType /\ Sound(r, users, hasUsers)
      BY DEF Idle, RequestType, Row, Changes, Sound
  <2> HIDE DEF r
  <2>2. Becomes(q, r)
      BY <1>3 DEF AskSetup, r
  <2> QED
      BY <1>3, <1>t, <2>1, <2>2, OneRequestSteps DEF AskSetup, Open, process
<1>4. ASSUME NEW q \in Requests, CommitSetup(q) PROVE AccountsInv'
  <2> DEFINE r == request[q]
  <2>1. up /\ r \in RequestType /\ r.name \in Names /\ Sound(r, users, hasUsers) /\ r.what = "setup"
      BY <1>4, RequestInHand DEF CommitSetup
  <2>2. CASE Becomes(q, Idle) /\ users' = users
      BY <1>4, <1>t, <2>1, <2>2, OneRequestSteps DEF CommitSetup, process
  <2>3. CASE /\ Becomes(q, [r EXCEPT !.at = "created"])
             /\ users' = [users EXCEPT ![r.name] = ConfiguredAccount]
    <3> DEFINE s == [r EXCEPT !.at = "created"]
    <3>1. s \in RequestType /\ Sound(s, users', hasUsers)
        BY <1>t, <2>1, <2>3 DEF Sound, RequestType, Row
    <3>2. Becomes(q, s)
        BY <2>3
    <3> HIDE DEF s
    <3> QED
        BY <1>4, <1>t, <1>u, <2>1, <3>1, <3>2, OneRequestSteps DEF CommitSetup, process
  <2> QED
      BY <1>4, <2>2, <2>3 DEF CommitSetup
<1>5. ASSUME NEW q \in Requests, EndSetup(q) PROVE AccountsInv'
  <2>1. up /\ request[q].name \in Names /\ users[request[q].name] # NoAccount
      BY <1>5, RequestInHand DEF EndSetup, Sound
  <2> QED
      BY <1>5, <1>t, <2>1, OneRequestSteps DEF EndSetup, process
<1>6. ASSUME NEW q \in Requests, NEW n \in Names, NEW role \in Roles, AskProvider(q, n, role)
      PROVE AccountsInv'
  <2> DEFINE r == [Idle EXCEPT !.at = "checked", !.what = "provider", !.name = n,
                               !.role = role, !.row = users[n]]
  <2>1. r \in RequestType /\ Sound(r, users, hasUsers)
      BY <1>6, <1>t DEF AskProvider, Idle, RequestType, Row, Changes, Sound
  <2> HIDE DEF r
  <2>2. Becomes(q, r)
      BY <1>6 DEF AskProvider, r
  <2> QED
      BY <1>6, <1>t, <2>1, <2>2, OneRequestSteps DEF AskProvider, Open, process
<1>7. ASSUME NEW q \in Requests, FirstVisit(q) PROVE AccountsInv'
  <2>1. up /\ request[q].name \in Names
      BY <1>7, RequestInHand DEF FirstVisit
  <2> QED
      BY <1>7, <1>t, <1>u, <2>1, OneRequestSteps DEF FirstVisit, process
<1>8. ASSUME NEW q \in Requests, Visit(q) PROVE AccountsInv'
  <2>1. up /\ request[q].name \in Names /\ users[request[q].name] # NoAccount
      BY <1>8, RequestInHand DEF Visit, Sound
  <2>2. /\ refused' \in Names \cup {NoName} /\ Becomes(q, Idle) /\ UNCHANGED <<process, hasUsers>>
        /\ signedIn' \subseteq signedIn \cup {request[q].name}
      BY <1>8, <2>1 DEF Visit
  <2> QED
      BY <1>t, <1>u, <2>1, <2>2, OneRequestSteps DEF process
<1>9. ASSUME NEW q \in Requests, NEW by \in Names, NEW n \in Names, NEW role \in Roles,
             AskRole(q, by, n, role)
      PROVE AccountsInv'
  <2> DEFINE r == [Idle EXCEPT !.at = "admitted", !.what = "role", !.name = n, !.role = role]
  <2>1. r \in RequestType /\ Sound(r, users, hasUsers)
      BY <1>9 DEF AskRole, Idle, RequestType, Row, Changes, Sound
  <2> HIDE DEF r
  <2>2. Becomes(q, r)
      BY <1>9 DEF AskRole, r
  <2> QED
      BY <1>9, <1>t, <2>1, <2>2, OneRequestSteps DEF AskRole, Open, process
<1>10. ASSUME NEW q \in Requests, NEW by \in Names, NEW n \in Names, NEW wanted \in BOOLEAN,
              AskActive(q, by, n, wanted)
       PROVE AccountsInv'
  <2> DEFINE r == [Idle EXCEPT !.at = "admitted", !.what = "active", !.name = n, !.active = wanted]
  <2>1. r \in RequestType /\ Sound(r, users, hasUsers)
      BY <1>10 DEF AskActive, Idle, RequestType, Row, Changes, Sound
  <2> HIDE DEF r
  <2>2. Becomes(q, r)
      BY <1>10 DEF AskActive, r
  <2> QED
      BY <1>10, <1>t, <2>1, <2>2, OneRequestSteps DEF AskActive, Open, process
<1>11. ASSUME NEW q \in Requests, Load(q) PROVE AccountsInv'
  <2>1. /\ up /\ request[q] \in RequestType /\ request[q].name \in Names
        /\ users[request[q].name] \in Row /\ Sound(request[q], users, hasUsers)
      BY <1>11, RequestInHand DEF Load
  <2>2. ASSUME users[request[q].name] # NoAccount, NEW at \in {"loaded", "checked"},
               Becomes(q, [request[q] EXCEPT !.row = users[request[q].name], !.at = at])
        PROVE  AccountsInv'
    <3> DEFINE r == [request[q] EXCEPT !.row = users[request[q].name], !.at = at]
    <3>1. r \in RequestType /\ Sound(r, users, hasUsers)
        BY <2>1, <2>2 DEF RequestType, Sound
    <3> HIDE DEF r
    <3>2. Becomes(q, r)
        BY <2>2 DEF r
    <3> QED
        BY <1>11, <1>t, <2>1, <3>1, <3>2, OneRequestSteps DEF Load, process
  <2>3. CASE Becomes(q, Idle)
      BY <1>11, <1>t, <2>1, <2>3, OneRequestSteps DEF Load, process
  <2> QED
      BY <1>11, <2>2, <2>3 DEF Load
<1>12. ASSUME NEW q \in Requests, Check(q) PROVE AccountsInv'
  <2>1. up /\ request[q] \in RequestType /\ Sound(request[q], users, hasUsers)
      BY <1>12, RequestInHand DEF Check
  <2> DEFINE r == IF OtherAdmins(request[q].name) = {} THEN Idle
                  ELSE [request[q] EXCEPT !.at = "checked", !.seen = Admins]
  <2>2. r \in RequestType /\ Sound(r, users, hasUsers)
      BY <1>12, <2>1 DEF RequestType, Sound, Admins, Check
  <2>3. Becomes(q, r)
      BY <1>12 DEF Check
  <2> HIDE DEF r
  <2> QED
      BY <1>12, <1>t, <2>1, <2>2, <2>3, OneRequestSteps DEF Check, process
<1>13. ASSUME NEW q \in Requests, Commit(q) PROVE AccountsInv'
  <2>1. up
      BY <1>13, RequestInHand DEF Commit
  <2> QED
      BY <1>13, <1>t, <1>u, <2>1, OneRequestSteps DEF Commit, process
<1>14. ASSUME NEW n \in Names, Login(n) \/ Logout(n) PROVE AccountsInv'
    BY <1>14 DEF Login, Logout, NoAccount, process, AccountsInv, AccountsTypeOK, RequestInv, Existing
<1>15. CASE UNCHANGED accounts
    BY <1>15 DEF accounts, AccountsInv, AccountsTypeOK, RequestInv
<1> QED
    BY <1>1, <1>2, <1>3, <1>4, <1>5, <1>6, <1>7, <1>8, <1>9, <1>10, <1>11, <1>12, <1>13, <1>14,
       <1>15 DEF AccountsNext

LEMMA AccountsInvInvariant == AccountsSpec => []AccountsInv
<1>1. AccountsInit => AccountsInv
  <2> SUFFICES ASSUME AccountsInit PROVE AccountsInv
      OBVIOUS
  <2>1. AccountsTypeOK
      BY RowTypes DEF AccountsInit, AccountsTypeOK, RequestType, Row
  <2>2. RequestInv
      BY SoundIdle DEF AccountsInit, RequestInv
  <2> QED
      BY <2>1, <2>2 DEF AccountsInv
<1> QED
    BY <1>1, AccountsInvInductive, PTL DEF AccountsSpec

(* Every variable stays in its type, and only a running process handles requests.         *)
THEOREM AccountsTypeCorrect == AccountsSpec => []AccountsTypeOK
    BY AccountsInvInvariant, PTL DEF AccountsInv

-----------------------------------------------------------------------------
(* The first account.  Accounts appear only through a request of /setup, which says so    *)
(* when it ends, or through the provider, to whom the way opens only after that.          *)
LEMMA FirstRunInductive ==
    AccountsInv /\ FirstRunEndsOnce /\ [AccountsNext]_accounts => FirstRunEndsOnce'
<1> SUFFICES ASSUME AccountsInv, FirstRunEndsOnce, [AccountsNext]_accounts PROVE FirstRunEndsOnce'
    OBVIOUS
<1> USE DEF FirstRunEndsOnce, Existing
<1>t. hasUsers \in BOOLEAN /\ request \in [Requests -> RequestType]
    BY DEF AccountsInv, AccountsTypeOK, Row, RequestType
<1>u. \A n \in Names : users[n] # NoAccount => users'[n] # NoAccount
    BY AccountsStay
<1>i. Idle.at = "idle"
    BY DEF Idle
<1>1. ASSUME NEW c \in Configurations, Start(c) PROVE FirstRunEndsOnce'
    BY <1>1 DEF Start
<1>2. CASE End
    BY <1>2 DEF End
<1>3. ASSUME NEW q \in Requests, request[q].at # "created", NEW r, Becomes(q, r),
             UNCHANGED <<up, hasUsers, users>>
      PROVE FirstRunEndsOnce'
    BY <1>3, <1>t DEF Becomes
<1>4. ASSUME NEW q \in Requests, CommitSetup(q) PROVE FirstRunEndsOnce'
  <2>1. CASE UNCHANGED users /\ Becomes(q, Idle)
      BY <1>3, <1>4, <2>1 DEF CommitSetup, process
  <2>2. CASE Becomes(q, [request[q] EXCEPT !.at = "created"])
    <3>1. request'[q].at = "created" /\ up' = up /\ hasUsers' = hasUsers
        BY <1>4, <1>t, <2>2 DEF Becomes, CommitSetup, process, RequestType
    <3> QED
        BY <1>u, <3>1
  <2> QED
      BY <1>4, <2>1, <2>2 DEF CommitSetup
<1>5. ASSUME NEW q \in Requests, EndSetup(q) PROVE FirstRunEndsOnce'
  <2>1. users[request[q].name] # NoAccount /\ request[q].name \in Names
      BY <1>5, RequestInHand DEF EndSetup, Sound
  <2> QED
      BY <1>5, <2>1 DEF EndSetup
<1>6. ASSUME NEW q \in Requests, request[q].at # "created", hasUsers, up,
             UNCHANGED <<up, hasUsers>>
      PROVE FirstRunEndsOnce'
    BY <1>6, <1>u
<1>7. ASSUME NEW q \in Requests, FirstVisit(q) \/ Visit(q) \/ Commit(q) PROVE FirstRunEndsOnce'
    BY <1>6, <1>7, RequestInHand DEF FirstVisit, Visit, Commit, Sound, process
<1>8. ASSUME NEW q \in Requests, NEW n \in Names,
             \/ AskSetup(q, n) \/ \E role \in Roles : AskProvider(q, n, role)
             \/ \E by \in Names, role \in Roles : AskRole(q, by, n, role)
             \/ \E by \in Names, wanted \in BOOLEAN : AskActive(q, by, n, wanted)
      PROVE FirstRunEndsOnce'
  <2>1. request[q].at # "created"
      BY <1>8, <1>i DEF AskSetup, AskProvider, AskRole, AskActive, Open
  <2> QED
      BY <1>3, <1>8, <2>1 DEF AskSetup, AskProvider, AskRole, AskActive, process
<1>9. ASSUME NEW q \in Requests, Load(q) \/ Check(q) PROVE FirstRunEndsOnce'
    BY <1>3, <1>9 DEF Load, Check, process
<1>10. CASE UNCHANGED <<users, up, hasUsers, request>>
    BY <1>10
<1> QED
    BY <1>1, <1>2, <1>4, <1>5, <1>7, <1>8, <1>9, <1>10
       DEF AccountsNext, accounts, Login, Logout, process

(* A running process knows whether there are accounts, whatever requests of /setup,       *)
(* sign-ins and restarts there are.                                                       *)
THEOREM FirstRunCorrect == AccountsSpec => []FirstRunEndsOnce
<1>1. AccountsInit => FirstRunEndsOnce
    BY DEF AccountsInit, FirstRunEndsOnce
<1> QED
    BY <1>1, FirstRunInductive, AccountsInvInvariant, PTL DEF AccountsSpec

-----------------------------------------------------------------------------
(* The last administrator.  A request that may take one away has seen another.            *)
Careful(r) ==
    r.at = "checked" /\ r.what \in {"role", "active"} /\ MayOrphan(r, r.row) =>
        r.seen \ {r.name} # {}

CarefulInv == \A q \in Requests : Careful(request[q])

LEMMA CarefulSteps ==
    ASSUME AccountsInv, CarefulInv, NEW q \in Requests, NEW r, Becomes(q, r), Careful(r)
    PROVE  CarefulInv'
<1> SUFFICES ASSUME NEW s \in Requests PROVE Careful(request'[s])
    BY DEF CarefulInv, Careful, MayOrphan
<1>1. request'[s] = IF s = q THEN r ELSE request[s]
    BY DEF Becomes, AccountsInv, AccountsTypeOK
<1> QED
    BY <1>1 DEF CarefulInv

LEMMA CarefulInductive == AccountsInv /\ CarefulInv /\ [AccountsNext]_accounts => CarefulInv'
<1> SUFFICES ASSUME AccountsInv, CarefulInv, [AccountsNext]_accounts PROVE CarefulInv'
    OBVIOUS
<1>i. Careful(Idle)
    BY DEF Careful, Idle
<1>t. request \in [Requests -> RequestType]
    BY DEF AccountsInv, AccountsTypeOK, Row, RequestType
<1>1. CASE UNCHANGED request
    BY <1>1 DEF CarefulInv, Careful, MayOrphan
<1>2. CASE End
    BY <1>2, <1>i DEF End, CarefulInv, Careful, MayOrphan
<1>3. ASSUME NEW q \in Requests, Becomes(q, Idle) PROVE CarefulInv'
    BY <1>3, <1>i, CarefulSteps
<1>4. ASSUME NEW q \in Requests, NEW n \in Names, AskSetup(q, n) PROVE CarefulInv'
  <2>1. Careful([Idle EXCEPT !.at = "checked", !.name = n])
      BY DEF Careful, Idle
  <2> QED
      BY <1>4, <2>1, CarefulSteps DEF AskSetup
<1>5. ASSUME NEW q \in Requests, CommitSetup(q) PROVE CarefulInv'
  <2>1. Careful([request[q] EXCEPT !.at = "created"])
      BY <1>t DEF Careful, RequestType
  <2> QED
      BY <1>3, <1>5, <2>1, CarefulSteps DEF CommitSetup
<1>6. ASSUME NEW q \in Requests, NEW n \in Names, NEW role \in Roles, AskProvider(q, n, role)
      PROVE CarefulInv'
  <2>1. Careful([Idle EXCEPT !.at = "checked", !.what = "provider", !.name = n,
                             !.role = role, !.row = users[n]])
      BY DEF Careful, Idle
  <2> QED
      BY <1>6, <2>1, CarefulSteps DEF AskProvider
<1>7. ASSUME NEW q \in Requests, NEW by \in Names, NEW n \in Names, NEW role \in Roles,
             AskRole(q, by, n, role)
      PROVE CarefulInv'
  <2>1. Careful([Idle EXCEPT !.at = "admitted", !.what = "role", !.name = n, !.role = role])
      BY DEF Careful, Idle
  <2> QED
      BY <1>7, <2>1, CarefulSteps DEF AskRole
<1>8. ASSUME NEW q \in Requests, NEW by \in Names, NEW n \in Names, NEW wanted \in BOOLEAN,
             AskActive(q, by, n, wanted)
      PROVE CarefulInv'
  <2>1. Careful([Idle EXCEPT !.at = "admitted", !.what = "active", !.name = n, !.active = wanted])
      BY DEF Careful, Idle
  <2> QED
      BY <1>8, <2>1, CarefulSteps DEF AskActive
<1>9. ASSUME NEW q \in Requests, Load(q) PROVE CarefulInv'
  <2> DEFINE row == users[request[q].name]
             r == [request[q] EXCEPT !.row = row,
                      !.at = IF MayOrphan(request[q], row) THEN "loaded" ELSE "checked"]
  <2>1. Careful(r)
    <3>1. r.row = row /\ r.what = request[q].what /\ r.role = request[q].role
          /\ r.active = request[q].active
          /\ (MayOrphan(request[q], row) => r.at = "loaded")
        BY <1>t DEF RequestType
    <3> QED
        BY <3>1 DEF Careful, MayOrphan
  <2> QED
      BY <1>3, <1>9, <2>1, CarefulSteps DEF Load
<1>10. ASSUME NEW q \in Requests, Check(q) PROVE CarefulInv'
  <2>1. CASE OtherAdmins(request[q].name) = {}
      BY <1>3, <1>10, <2>1 DEF Check
  <2>2. CASE OtherAdmins(request[q].name) # {}
    <3> DEFINE r == [request[q] EXCEPT !.at = "checked", !.seen = Admins]
    <3>1. r.seen = Admins /\ r.name = request[q].name
        BY <1>t DEF RequestType
    <3>2. Admins \ {request[q].name} # {}
        BY <2>2 DEF OtherAdmins, Admins
    <3>3. Careful(r)
        BY <3>1, <3>2 DEF Careful
    <3> QED
        BY <1>10, <2>2, <3>3, CarefulSteps DEF Check
  <2> QED
      BY <2>1, <2>2
<1> QED
    BY <1>1, <1>2, <1>3, <1>4, <1>5, <1>6, <1>7, <1>8, <1>9, <1>10
       DEF AccountsNext, accounts, Start, EndSetup, FirstVisit, Visit, Commit, Login, Logout

(* What a commit does to a table that is still as its request read it.                    *)
LEMMA CommitKeepsAdmins ==
    ASSUME AccountsInv, NEW q \in Requests, Commit(q),
           request[q].row = users[request[q].name],
           ~MayOrphan(request[q], request[q].row),
           Admins # {}
    PROVE  Admins' # {}
<1> DEFINE r == request[q]
<1>1. users \in [Names -> Row] /\ r \in RequestType /\ r.name \in Names
    BY RequestInHand DEF AccountsInv, AccountsTypeOK, Row, Commit
<1>2. users[r.name] \in Account
    BY <1>1, RequestInHand, RowTypes DEF Row, Commit, Sound
<1>3. ASSUME NEW n \in Names, n # r.name PROVE users'[n] = users[n]
    BY <1>1, <1>3 DEF Commit
<1>4. IsAdmin(users, r.name) => IsAdmin(users', r.name)
  <2>1. CASE r.what = "role"
      BY <1>1, <1>2, <2>1 DEF Commit, MayOrphan, IsAdmin, Account
  <2>2. CASE r.what = "active"
      BY <1>1, <1>2, <2>2 DEF Commit, MayOrphan, IsAdmin, Account
  <2> QED
      BY <2>1, <2>2 DEF Commit
<1>5. ASSUME NEW n \in Names, IsAdmin(users, n) PROVE IsAdmin(users', n)
    BY <1>3, <1>4, <1>5 DEF IsAdmin
<1> QED
    BY <1>5 DEF Admins

(* Nobody takes the last administrator away but the provider or a request whose reading   *)
(* was overtaken, however many accounts and requests there are.                           *)
THEOREM AdminKeptCorrect == AccountsSpec => AdminKeptUnlessOvertaken
<1> DEFINE Kept == Admins # {} /\ Admins' = {} =>
          \E q \in Requests : LET r == request[q] IN
             /\ r.at = "checked" /\ request'[q] = Idle
             /\ \/ r.what = "provider"
                \/ r.row # users[r.name]
                \/ r.seen \ {r.name} # {}
<1>1. AccountsInv /\ CarefulInv /\ [AccountsNext]_accounts => [Kept]_accounts
  <2> SUFFICES ASSUME AccountsInv, CarefulInv, [AccountsNext]_accounts,
                      Admins # {}, Admins' = {}
               PROVE  Kept
      OBVIOUS
  <2>t. users \in [Names -> Row] /\ request \in [Requests -> RequestType]
      BY DEF AccountsInv, AccountsTypeOK, Row, RequestType
  <2>1. ASSUME NEW q \in Requests, Commit(q) PROVE Kept
    <3>1. request[q].at = "checked" /\ request[q].what \in {"role", "active"} /\ request'[q] = Idle
        BY <2>1, <2>t DEF Commit, Becomes
    <3>2. \/ request[q].row # users[request[q].name]
          \/ MayOrphan(request[q], request[q].row)
        BY <2>1, CommitKeepsAdmins
    <3>3. request[q].row = users[request[q].name] => request[q].seen \ {request[q].name} # {}
        BY <3>1, <3>2 DEF CarefulInv, Careful
    <3> QED
        BY <3>1, <3>3
  <2>2. ASSUME NEW q \in Requests, FirstVisit(q) \/ Visit(q) PROVE Kept
      BY <2>2, <2>t DEF FirstVisit, Visit, Becomes
  <2>3. ASSUME NEW c \in Configurations, Start(c) PROVE FALSE
    <3>1. \A n \in Names : IsAdmin(users, n) => IsAdmin(users', n)
        BY <2>3, <2>t DEF Start, ReconcileAdmin, ConfiguredAccount, IsAdmin
    <3> QED
        BY <3>1 DEF Admins
  <2>4. ASSUME NEW q \in Requests, CommitSetup(q) PROVE FALSE
    <3>1. \A n \in Names : IsAdmin(users, n) => IsAdmin(users', n)
        BY <2>4, <2>t DEF CommitSetup, ConfiguredAccount, IsAdmin
    <3> QED
        BY <3>1 DEF Admins
  <2>5. CASE UNCHANGED users
      BY <2>5 DEF Admins, IsAdmin
  <2> QED
      BY <2>1, <2>2, <2>3, <2>4, <2>5
         DEF AccountsNext, accounts, End, AskSetup, EndSetup, AskProvider, AskRole, AskActive,
             Load, Check, Login, Logout
<1>2. AccountsInit => CarefulInv
    BY DEF AccountsInit, CarefulInv, Careful, Idle
<1> QED
    BY <1>1, <1>2, CarefulInductive, AccountsInvInvariant, PTL
       DEF AccountsSpec, AdminKeptUnlessOvertaken

-----------------------------------------------------------------------------
(* The configured administrator.  It is a local account for as long as the process runs,  *)
(* and so it was when a sign-in under its name loaded it.                                 *)
ConfiguredInv ==
    up /\ configured # NoName =>
        /\ configured \in Names /\ users[configured].local
        /\ \A q \in Requests :
              request[q].what = "provider" /\ request[q].name = configured =>
                  request[q].row.local

LEMMA LocalIsAnAccount == \A row : row.local => row # NoAccount
    BY DEF NoAccount

(* A step that takes up no provider's sign-in and leaves the configured account's source. *)
LEMMA ConfiguredSteps ==
    ASSUME AccountsInv, ConfiguredInv, UNCHANGED process, up,
           configured # NoName => users'[configured].local = users[configured].local,
           NEW q \in Requests, NEW r, Becomes(q, r),
           r.what = "provider" /\ r.name = configured => r.row.local
    PROVE  ConfiguredInv'
<1>1. \A s \in Requests : request'[s] = IF s = q THEN r ELSE request[s]
    BY DEF Becomes, AccountsInv, AccountsTypeOK
<1> QED
    BY <1>1 DEF ConfiguredInv, process

LEMMA ConfiguredInductive ==
    AccountsInv /\ ConfiguredInv /\ [AccountsNext]_accounts
    => /\ ConfiguredInv'
       /\ up /\ configured # NoName /\ users'[configured] # users[configured] =>
              \E q \in Requests :
                 /\ request[q].what \in {"role", "active"} /\ request[q].name = configured
                 /\ request'[q] = Idle
<1> DEFINE Only == up /\ configured # NoName /\ users'[configured] # users[configured] =>
              \E q \in Requests :
                 /\ request[q].what \in {"role", "active"} /\ request[q].name = configured
                 /\ request'[q] = Idle
<1> SUFFICES ASSUME AccountsInv, ConfiguredInv, [AccountsNext]_accounts
             PROVE  ConfiguredInv' /\ Only
    OBVIOUS
<1>t. users \in [Names -> Row] /\ request \in [Requests -> RequestType]
      /\ \A q \in Requests : ~up => request[q] = Idle
    BY DEF AccountsInv, AccountsTypeOK, Row, RequestType
<1>i. Idle.what = "setup" /\ Idle.name = NoName
    BY DEF Idle
<1>1. ASSUME NEW c \in Configurations, Start(c) PROVE ConfiguredInv' /\ Only
  <2>1. \A q \in Requests : request'[q].what = "setup"
      BY <1>1, <1>t, <1>i DEF Start
  <2>2. c # NoName => c \in Names /\ users'[c].local
      BY <1>1, <1>t DEF Start, ReconcileAdmin, ConfiguredAccount
  <2> QED
      BY <1>1, <2>1, <2>2 DEF Start, ConfiguredInv
<1>2. CASE End
    BY <1>2 DEF End, ConfiguredInv
<1>3. ASSUME NEW q \in Requests, NEW n \in Names,
             \/ AskSetup(q, n)
             \/ \E by \in Names, role \in Roles : AskRole(q, by, n, role)
             \/ \E by \in Names, wanted \in BOOLEAN : AskActive(q, by, n, wanted)
      PROVE ConfiguredInv' /\ Only
  <2>1. up /\ UNCHANGED <<users, process>>
      BY <1>3 DEF AskSetup, AskRole, AskActive, Open
  <2>2. ASSUME NEW r, r.what # "provider", Becomes(q, r) PROVE ConfiguredInv' /\ Only
      BY <2>1, <2>2, ConfiguredSteps
  <2>3. CASE AskSetup(q, n)
    <3>1. [Idle EXCEPT !.at = "checked", !.name = n].what # "provider"
        BY DEF Idle
    <3> QED
        BY <2>2, <2>3, <3>1 DEF AskSetup
  <2>4. ASSUME NEW by \in Names, NEW role \in Roles, AskRole(q, by, n, role)
        PROVE  ConfiguredInv' /\ Only
    <3>1. [Idle EXCEPT !.at = "admitted", !.what = "role", !.name = n, !.role = role].what
              # "provider"
        BY DEF Idle
    <3> QED
        BY <2>2, <2>4, <3>1 DEF AskRole
  <2>5. ASSUME NEW by \in Names, NEW wanted \in BOOLEAN, AskActive(q, by, n, wanted)
        PROVE  ConfiguredInv' /\ Only
    <3>1. [Idle EXCEPT !.at = "admitted", !.what = "active", !.name = n, !.active = wanted].what
              # "provider"
        BY DEF Idle
    <3> QED
        BY <2>2, <2>5, <3>1 DEF AskActive
  <2> QED
      BY <1>3, <2>3, <2>4, <2>5
<1>4. ASSUME NEW q \in Requests, NEW n \in Names, NEW role \in Roles, AskProvider(q, n, role)
      PROVE ConfiguredInv' /\ Only
  <2> DEFINE r == [Idle EXCEPT !.at = "checked", !.what = "provider", !.name = n,
                               !.role = role, !.row = users[n]]
  <2>1. up /\ UNCHANGED <<users, process>> /\ Becomes(q, r)
      BY <1>4 DEF AskProvider, Open
  <2>2. r.name = n /\ r.row = users[n]
      BY DEF Idle
  <2>3. configured = n => users[n].local
      BY <2>1 DEF ConfiguredInv
  <2> HIDE DEF r
  <2> QED
      BY <2>1, <2>2, <2>3, ConfiguredSteps
<1>5. ASSUME NEW q \in Requests, NEW r, Becomes(q, r), up, UNCHANGED <<users, process>>,
             /\ r.what = request[q].what /\ r.name = request[q].name
             /\ r.what = "provider" => r.row = request[q].row
      PROVE ConfiguredInv' /\ Only
    BY <1>5, ConfiguredSteps DEF ConfiguredInv, process
<1>6. ASSUME NEW q \in Requests, Becomes(q, Idle), up, UNCHANGED process,
             configured # NoName => users'[configured].local = users[configured].local
      PROVE ConfiguredInv'
    BY <1>6, <1>i, ConfiguredSteps
<1>7. ASSUME NEW q \in Requests, CommitSetup(q) PROVE ConfiguredInv' /\ Only
  <2>1. up /\ UNCHANGED process /\ request[q].what = "setup" /\ request[q].name \in Names
      BY <1>7, RequestInHand DEF CommitSetup
  <2>2. configured # NoName => users'[configured] = users[configured]
      BY <1>7, <1>t, <2>1, LocalIsAnAccount DEF CommitSetup, ConfiguredInv
  <2>3. CASE Becomes(q, Idle)
      BY <1>6, <2>1, <2>2, <2>3
  <2>4. CASE Becomes(q, [request[q] EXCEPT !.at = "created"])
    <3>1. [request[q] EXCEPT !.at = "created"].what = "setup"
        BY <1>t, <2>1 DEF RequestType
    <3> QED
        BY <2>1, <2>2, <2>4, <3>1, ConfiguredSteps
  <2> QED
      BY <1>7, <2>3, <2>4 DEF CommitSetup
<1>8. ASSUME NEW q \in Requests, EndSetup(q) \/ (Becomes(q, Idle) /\ (Load(q) \/ Check(q)))
      PROVE ConfiguredInv' /\ Only
    BY <1>6, <1>8, RequestInHand DEF EndSetup, Load, Check, process
<1>9. ASSUME NEW q \in Requests, ~Becomes(q, Idle), Load(q) \/ Check(q)
      PROVE ConfiguredInv' /\ Only
  <2>1. up /\ UNCHANGED <<users, process>>
      BY <1>9, RequestInHand DEF Load, Check, process
  <2>2. CASE Load(q)
    <3> DEFINE row == users[request[q].name]
               r == [request[q] EXCEPT !.row = row,
                        !.at = IF MayOrphan(request[q], row) THEN "loaded" ELSE "checked"]
    <3>1. Becomes(q, r)
        BY <1>9, <2>2 DEF Load
    <3>2. r.row = row /\ r.name = request[q].name
        BY <1>t DEF RequestType
    <3>3. r.name = configured => r.row.local
        BY <2>1, <3>2, RequestInHand, <2>2 DEF ConfiguredInv, Load
    <3> QED
        BY <2>1, <3>1, <3>3, ConfiguredSteps
  <2>3. CASE Check(q)
      BY <1>5, <1>9, <1>t, <2>1, <2>3 DEF Check, RequestType
  <2> QED
      BY <1>9, <2>2, <2>3
<1>10. ASSUME NEW q \in Requests, FirstVisit(q) PROVE ConfiguredInv' /\ Only
  <2>1. /\ up /\ UNCHANGED process /\ request[q].what = "provider" /\ request[q].row = NoAccount
        /\ Becomes(q, Idle)
      BY <1>10, RequestInHand DEF FirstVisit
  <2>2. configured # NoName => configured \in Names /\ request[q].name # configured
      BY <2>1, LocalIsAnAccount DEF ConfiguredInv
  <2>3. configured # NoName => users'[configured] = users[configured]
      BY <1>10, <1>t, <2>2 DEF FirstVisit
  <2> QED
      BY <1>6, <2>1, <2>3
<1>11. ASSUME NEW q \in Requests, Visit(q) PROVE ConfiguredInv' /\ Only
  <2>1. up /\ UNCHANGED process /\ request[q].what = "provider" /\ Becomes(q, Idle)
      BY <1>11, RequestInHand DEF Visit
  <2>2. configured # NoName => /\ configured \in Names
                               /\ request[q].name = configured => request[q].row.local
      BY <2>1 DEF ConfiguredInv
  <2>3. configured # NoName => users'[configured] = users[configured]
      BY <1>11, <1>t, <2>2 DEF Visit
  <2> QED
      BY <1>6, <2>1, <2>3
<1>12. ASSUME NEW q \in Requests, Commit(q) PROVE ConfiguredInv' /\ Only
  <2>1. /\ up /\ UNCHANGED process /\ request[q].what \in {"role", "active"}
        /\ Becomes(q, Idle) /\ request'[q] = Idle
        /\ request[q].name \in Names /\ users[request[q].name] \in Account
      BY <1>12, <1>t, RequestInHand, RowTypes DEF Commit, Becomes, Sound, Row
  <2>2. request[q].name # configured =>
            users'[configured] = users[configured] \/ configured = NoName
      BY <1>12, <1>t, <2>1 DEF Commit, ConfiguredInv
  <2>3. users'[request[q].name].local = users[request[q].name].local
      BY <1>12, <1>t, <2>1 DEF Commit, Account
  <2>4. configured # NoName => users'[configured].local = users[configured].local
      BY <2>2, <2>3
  <2> QED
      BY <1>6, <2>1, <2>2, <2>4
<1>13. CASE UNCHANGED <<users, up, configured, request>>
    BY <1>13 DEF ConfiguredInv
<1> QED
    BY <1>1, <1>2, <1>3, <1>4, <1>7, <1>8, <1>9, <1>10, <1>11, <1>12, <1>13
       DEF AccountsNext, accounts, Login, Logout, process

(* The account a deployment configures is changed by no sign-in through the provider,     *)
(* whoever's it was before.                                                               *)
THEOREM ConfiguredAdminCorrect == AccountsSpec => ConfiguredAdminOutlastsProvider
<1> DEFINE Only == up /\ configured # NoName /\ users'[configured] # users[configured] =>
              \E q \in Requests :
                 /\ request[q].what \in {"role", "active"} /\ request[q].name = configured
                 /\ request'[q] = Idle
<1>1. AccountsInit => ConfiguredInv
    BY DEF AccountsInit, ConfiguredInv
<1>2. AccountsInv /\ ConfiguredInv /\ [AccountsNext]_accounts => ConfiguredInv' /\ [Only]_accounts
    BY ConfiguredInductive
<1> QED
    BY <1>1, <1>2, AccountsInvInvariant, PTL
       DEF AccountsSpec, ConfiguredAdminOutlastsProvider
=============================================================================
