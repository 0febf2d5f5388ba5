------------------------------ MODULE Accounts ------------------------------
(***************************************************************************)
(* The administrators of the web interface: the users table                 *)
(* (internal/store/users.go), sign-in and sessions (cmd/server/ui.go) and   *)
(* the account handlers (cmd/server/users.go).  A request makes several     *)
(* reads and writes outside any transaction; other requests come between    *)
(* them.  A password is the number of changes its row has seen, and a       *)
(* browser that sends one knows it.                                         *)
(***************************************************************************)
EXTENDS Naturals, FiniteSets

CONSTANTS
  UserNames,   \* names an account may have
  SeedName,    \* the name of the bootstrap account
  Browsers,    \* where requests come from
  MaxBirths,   \* bound on accounts ever created
  MaxChanges   \* bound on the password changes of one account

VARIABLES
  users,   \* users rows by id; born numbers the rows in the order of their creation
  births,  \* history: rows created so far
  asking,  \* per browser: its request in progress
  cookie   \* per browser: its session cookie, younger than the TTL

accountVars == <<users, births, asking, cookie>>

NoRequest == [at |-> "none", id |-> 0, name |-> SeedName, born |-> 0, pw |-> 0]

NoCookie == [id |-> 0, epoch |-> 0, born |-> 0, pw |-> 0, late |-> FALSE]

UserIds == 1..MaxBirths
UserNamed(n) == {i \in DOMAIN users : users[i].name = n}

(* The largest id plus one, as for every table. *)
FreshUserId(i) ==
  /\ \A j \in DOMAIN users : j < i
  /\ i = 1 \/ i - 1 \in DOMAIN users

InsertUser(n) ==
  /\ births < MaxBirths
  /\ births' = births + 1
  /\ \E i \in UserIds :
       /\ FreshUserId(i)
       /\ users' = [j \in DOMAIN users \cup {i} |->
                      IF j = i THEN [name |-> n, pw |-> 0, session_epoch |-> 0, born |-> births + 1]
                      ELSE users[j]]

(* The server starts: the first account is made from the admin token. *)
EnsureSeedUser ==
  /\ users = <<>>
  /\ InsertUser(SeedName)
  /\ UNCHANGED <<asking, cookie>>

CreateLocalUser(n) ==
  /\ users # <<>>
  /\ UserNamed(n) = {}
  /\ InsertUser(n)
  /\ UNCHANGED <<asking, cookie>>

(* One transaction: counted and deleted. *)
DeleteUser(i) ==
  /\ Cardinality(DOMAIN users) > 1
  /\ users' = [j \in DOMAIN users \ {i} |-> users[j]]
  /\ UNCHANGED <<births, asking, cookie>>

-----------------------------------------------------------------------------
(* Sign-in *)

(* The row as the holder of its password knows it. *)
Known(i) == [NoRequest EXCEPT !.id = i, !.name = users[i].name, !.born = users[i].born,
                              !.pw = users[i].pw]

(* Authenticate, first part: the hash is read and verified. *)
handleUILogin(b, i) ==
  /\ asking[b].at = "none"
  /\ asking' = [asking EXCEPT ![b] = [Known(i) EXCEPT !.at = "issue"]]
  /\ UNCHANGED <<users, births, cookie>>

(* The cookie names the row's id and the epoch of this moment.  late: the   *)
(* row has changed since its password was shown or set.                     *)
signUISession(q) ==
  [id |-> q.id, epoch |-> users[q.id].session_epoch, born |-> users[q.id].born, pw |-> q.pw,
   late |-> q.pw # users[q.id].pw \/ q.born # users[q.id].born]

(* userByID, and the cookie.  A row that is gone ends the request. *)
issueCookie(b) ==
  /\ asking[b].at = "issue"
  /\ cookie' = IF asking[b].id \in DOMAIN users
               THEN [cookie EXCEPT ![b] = signUISession(asking[b])] ELSE cookie
  /\ asking' = [asking EXCEPT ![b] = NoRequest]
  /\ UNCHANGED <<users, births>>

(* The row still exists and is of the cookie's epoch. *)
sessionUser(c) == c.id \in DOMAIN users /\ users[c.id].session_epoch = c.epoch

(* The TTL passes, or the browser signs out. *)
handleLogout(b) ==
  /\ asking[b].at = "none"
  /\ cookie' = [cookie EXCEPT ![b] = NoCookie]
  /\ UNCHANGED <<users, births, asking>>

-----------------------------------------------------------------------------
(* A change of password *)

handleChangePassword(b) ==
  /\ asking[b].at = "none" /\ sessionUser(cookie[b])
  /\ asking' = [asking EXCEPT ![b] = [Known(cookie[b].id) EXCEPT !.at = "authenticate"]]
  /\ UNCHANGED <<users, births, cookie>>

(* The current password is asked for, under the name the session had. *)
Authenticate(b) ==
  /\ asking[b].at = "authenticate"
  /\ asking' = [asking EXCEPT ![b] =
       IF UserNamed(asking[b].name) # {} THEN [@ EXCEPT !.at = "set"] ELSE NoRequest]
  /\ UNCHANGED <<users, births, cookie>>

(* Mutant: the epoch stays. *)
SetPasswordOnly(b) ==
  LET i == asking[b].id IN
  /\ asking[b].at = "set"
  /\ IF i \in DOMAIN users
       THEN /\ users[i].pw < MaxChanges
            /\ users' = [users EXCEPT ![i].pw = @ + 1]
            /\ asking' = [asking EXCEPT ![b] = [@ EXCEPT !.at = "issue", !.pw = users[i].pw + 1,
                                                         !.born = users[i].born]]
       ELSE asking' = [asking EXCEPT ![b] = NoRequest] /\ UNCHANGED users
  /\ UNCHANGED <<births, cookie>>

(* By id: the password and the epoch in one UPDATE; then a fresh cookie.    *)
SetPassword(b) ==
  LET i == asking[b].id IN
  /\ asking[b].at = "set"
  /\ IF i \in DOMAIN users
       THEN /\ users[i].pw < MaxChanges
            /\ users' = [users EXCEPT ![i].pw = @ + 1, ![i].session_epoch = @ + 1]
            /\ asking' = [asking EXCEPT ![b] = [@ EXCEPT !.at = "issue", !.pw = users[i].pw + 1,
                                                         !.born = users[i].born]]
       ELSE asking' = [asking EXCEPT ![b] = NoRequest] /\ UNCHANGED users
  /\ UNCHANGED <<births, cookie>>

AccountsInit ==
  /\ users = <<>>
  /\ births = 0
  /\ asking = [b \in Browsers |-> NoRequest]
  /\ cookie = [b \in Browsers |-> NoCookie]

AccountsNext ==
  \/ EnsureSeedUser
  \/ \E n \in UserNames : CreateLocalUser(n)
  \/ \E i \in DOMAIN users : DeleteUser(i)
  \/ \E b \in Browsers, i \in DOMAIN users : handleUILogin(b, i)
  \/ \E b \in Browsers : issueCookie(b) \/ Authenticate(b) \/ SetPassword(b)
  \/ \E b \in Browsers : handleChangePassword(b) \/ handleLogout(b)

AccountsSpec == AccountsInit /\ [][AccountsNext]_accountVars

-----------------------------------------------------------------------------
(* Properties *)

(* "A password change ... revokes outstanding cookies" (sessionUser): a     *)
(* session that is accepted for an account was opened with the password the *)
(* account has now, however the changes and sign-ins of several browsers    *)
(* interleave; except when the change fell between a sign-in's check and    *)
(* its cookie, and as long as the account is the one the cookie was made    *)
(* for.                                                                     *)
SessionsCurrent ==
  \A b \in Browsers :
    LET c == cookie[b]
    IN  sessionUser(c) /\ ~c.late /\ c.born = users[c.id].born => c.pw = users[c.id].pw

=============================================================================
