------------------------------ MODULE Accounts ------------------------------
(***************************************************************************)
(* Accounts of api-students: registration, login, rotation of refresh      *)
(* tokens, logout, and the user and role administration, as concurrent     *)
(* requests.  No handler opens a transaction: one action is one SQL        *)
(* statement, and other requests run between any two of them.              *)
(***************************************************************************)
EXTENDS Integers, FiniteSets

CONSTANTS
    Requests,       \* the HTTP requests of a behaviour, each served once
    SeedUsers,      \* users, each with a refresh token, that are there at the start
    Names,          \* usernames
    SeedRow,        \* the rows of the seeded users
    Inputs,         \* what the requests of a behaviour may ask
    Expiring,       \* refresh tokens that may expire meanwhile
    None            \* no row, no claims, nobody

Roles == {"admin", "staff", "user"}
Row == [name : Names, active : BOOLEAN, role : Roles]

\* SERIAL never issues an id twice: the row a request inserts is named after it.
Ids == SeedUsers \cup Requests
Claims == [user : Ids, role : Roles]
Token == [user : Ids, revokedBy : Requests \cup {None}]
Found == [id : Ids, row : Row]

Input ==
    [op : {"register", "create"}, name : Names]
    \cup [op : {"login"}, name : Names, password : BOOLEAN]
    \cup [op : {"refresh", "logout"}, token : Ids]
    \cup [op : {"me"}]
    \cup [op : {"get", "delete"}, user : Ids]
    \cup [op : {"replace"}, user : Ids, name : Names, active : BOOLEAN]
    \cup [op : {"patch"}, user : Ids, name : Names \cup {None}, active : BOOLEAN \cup {None}]
    \cup [op : {"role"}, user : Ids, role : Roles]

ASSUME IdsApart == SeedUsers \cap Requests = {}
ASSUME NoneIsFresh ==
    None \notin Ids \cup Names \cup BOOLEAN \cup Row \cup Claims \cup Token \cup Found
ASSUME SeedValid == SeedRow \in [SeedUsers -> Row]
ASSUME InputsValid == Inputs \subseteq Input /\ Expiring \subseteq Ids

VARIABLES
    users,      \* table users, or None
    tokens,     \* table refresh_tokens: owner and the request that revoked it
    expired,    \* tokens whose expires_at has passed
    access,     \* access tokens in the hands of clients
    req,        \* the request's route, path and body
    claims,     \* claims of the access token the request came with
    pc,         \* next statement of the request
    seen,       \* user row the handler has read
    answer      \* answer to the client

tables == <<users, tokens, expired>>
vars == <<tables, access, req, claims, pc, seen, answer>>

-----------------------------------------------------------------------------
(* The SQL statements of the handlers, each with the one that follows it.   *)

RegisterScript == [Arrive |-> "Insert"]
LoginScript == [Arrive |-> "FindByUsername", FindByUsername |-> "StoreToken"]
RefreshScript == [Arrive |-> "FindActive", FindActive |-> "FindOwner",
    FindOwner |-> "Revoke", Revoke |-> "StoreToken"]
LogoutScript == [Arrive |-> "FindActive", FindActive |-> "Revoke"]
MeScript == [Arrive |-> "FindUser"]
GetScript == [Arrive |-> "FindUser"]
CreateScript == [Arrive |-> "Insert"]
ReplaceScript == [Arrive |-> "Update"]
PatchScript == [Arrive |-> "FindUser", FindUser |-> "Update"]
AssignRoleScript == [Arrive |-> "UpdateRole"]
DeleteScript == [Arrive |-> "Delete"]

Script(op) ==
    CASE op = "register" -> RegisterScript [] op = "login" -> LoginScript
      [] op = "refresh" -> RefreshScript [] op = "logout" -> LogoutScript
      [] op = "me" -> MeScript [] op = "get" -> GetScript [] op = "create" -> CreateScript
      [] op = "replace" -> ReplaceScript [] op = "patch" -> PatchScript
      [] op = "role" -> AssignRoleScript [] op = "delete" -> DeleteScript

Op(r) == req[r].op
At(r, statement) == pc[r] = statement

Answer(r, outcome) ==
    /\ pc' = [pc EXCEPT ![r] = "Done"]
    /\ answer' = [answer EXCEPT ![r] = outcome]

Refuse(r, outcome) ==
    Answer(r, outcome) /\ UNCHANGED <<tables, access, req, claims, seen>>

\* A statement that was executed and its reply, which may get lost on the way.
Reply(r) == \E outcome \in {"ok", "error"} : Answer(r, outcome)

Proceed(r) == pc' = [pc EXCEPT ![r] = Script(Op(r))[pc[r]]] /\ UNCHANGED answer

\* ON DELETE CASCADE: the row of a token is there as long as that of its user.
Stored(t) == tokens[t] # None /\ users[tokens[t].user] # None
Active(t) == Stored(t) /\ tokens[t].revokedBy = None /\ t \notin expired

\* A client can present a refresh token that was in an answer.
Known(t) == t \in SeedUsers \/ answer[t] = "ok"

Taken(name, u) == \E v \in Ids \ {u} : users[v] # None /\ users[v].name = name
Admins == {u \in Ids : users[u] # None /\ users[u].role = "admin"}

Init ==
    /\ users = [u \in Ids |-> IF u \in SeedUsers THEN SeedRow[u] ELSE None]
    /\ tokens = [t \in Ids |-> IF t \in SeedUsers THEN [user |-> t, revokedBy |-> None] ELSE None]
    /\ expired = {}
    /\ access = {[user |-> u, role |-> SeedRow[u].role] : u \in SeedUsers}
    /\ req \in [Requests -> Inputs]
    /\ claims = [r \in Requests |-> None]
    /\ pc = [r \in Requests |-> "Arrive"]
    /\ seen = [r \in Requests |-> None]
    /\ answer = [r \in Requests |-> "none"]

-----------------------------------------------------------------------------
(* Middleware: who may ask what is decided from the claims alone.           *)

Can(role, permission) ==
    \/ role = "admin"
    \/ role = "staff" /\ permission \in {"user:list", "user:read:any"}

CanAccessUser(c, target, permission) == c.user = target \/ Can(c.role, permission)

\* Mutant: nobody is kept from deleting or demoting himself.
AdmittedWithoutSelfCheck(c, in) ==
    \/ in.op = "me" \/ c.role = "admin"
    \/ in.op \in {"get", "replace", "patch"} /\ CanAccessUser(c, in.user, "user:read:any")

Admitted(c, in) ==
    CASE in.op = "me" -> TRUE
      [] in.op = "create" -> Can(c.role, "user:update:any")
      [] in.op = "get" -> CanAccessUser(c, in.user, "user:read:any")
      [] in.op \in {"replace", "patch"} -> CanAccessUser(c, in.user, "user:update:any")
      [] in.op = "delete" -> Can(c.role, "user:delete") /\ c.user # in.user
      [] in.op = "role" -> Can(c.role, "role:assign") /\ c.user # in.user

Public == {"register", "login", "refresh", "logout"}

Enter(r, c) ==
    /\ claims' = [claims EXCEPT ![r] = c]
    /\ Proceed(r)
    /\ UNCHANGED <<tables, access, req, seen>>

\* An access token is not looked up anywhere: whatever has become of the user,
\* its claims hold until it expires.
Arrive(r) ==
    /\ At(r, "Arrive")
    /\ \/ Op(r) \in Public /\ Enter(r, None)
       \/ /\ Op(r) \notin Public
          /\ \/ Refuse(r, "unauthorized")
             \/ \E c \in access : IF Admitted(c, req[r]) THEN Enter(r, c)
                                                         ELSE Refuse(r, "forbidden")

-----------------------------------------------------------------------------
(* Sessions.                                                                *)

FindByUsername(r) ==
    /\ At(r, "FindByUsername")
    /\ \/ /\ req[r].password
          /\ \E u \in Ids :
                /\ users[u] # None /\ users[u].name = req[r].name
                /\ seen' = [seen EXCEPT ![r] = [id |-> u, row |-> users[u]]]
          /\ Proceed(r)
          /\ UNCHANGED <<tables, access, req, claims>>
       \/ /\ ~req[r].password \/ ~Taken(req[r].name, None)
          /\ Refuse(r, "unauthorized")

FindActive(r) ==
    /\ At(r, "FindActive")
    /\ IF Known(req[r].token) /\ Active(req[r].token)
       THEN /\ Proceed(r)
            /\ UNCHANGED <<tables, access, req, claims, seen>>
       ELSE Refuse(r, "unauthorized")

\* Mutant: the token is revoked before its owner is looked up.
FindOwnerLate(r) ==
    /\ At(r, "FindOwner")
    /\ LET t == req[r].token
           u == tokens[t].user
       IN  \/ /\ tokens' = [tokens EXCEPT ![t].revokedBy = r]
              /\ Answer(r, "unauthorized")
              /\ UNCHANGED <<users, expired, access, req, claims, seen>>
           \/ /\ users[u] # None
              /\ seen' = [seen EXCEPT ![r] = [id |-> u, row |-> users[u]]]
              /\ Proceed(r)
              /\ UNCHANGED <<tables, access, req, claims>>

\* Any error of the lookup, a failed statement too, is answered with 401.
FindOwner(r) ==
    LET u == tokens[req[r].token].user
    IN  /\ At(r, "FindOwner")
        /\ \/ /\ users[u] # None
              /\ seen' = [seen EXCEPT ![r] = [id |-> u, row |-> users[u]]]
              /\ Proceed(r)
              /\ UNCHANGED <<tables, access, req, claims>>
           \/ Refuse(r, "unauthorized")

\* Mutant: the UPDATE has no revoked_at IS NULL.
RevokeAgain(r) ==
    /\ At(r, "Revoke")
    /\ \/ ~Stored(req[r].token) /\ Refuse(r, "error")
       \/ /\ Stored(req[r].token)
          /\ tokens' = [tokens EXCEPT ![req[r].token].revokedBy = r]
          /\ IF Op(r) = "logout" THEN Reply(r) ELSE Proceed(r)
          /\ UNCHANGED <<users, expired, access, req, claims, seen>>

\* WHERE revoked_at IS NULL: no row means that somebody else was faster, which
\* is answered with 500.
Revoke(r) ==
    LET t == req[r].token
    IN  /\ At(r, "Revoke")
        /\ \/ (Stored(t) => tokens[t].revokedBy # None) /\ Refuse(r, "error")
           \/ /\ Stored(t) /\ tokens[t].revokedBy = None
              /\ tokens' = [tokens EXCEPT ![t].revokedBy = r]
              /\ \/ Op(r) = "logout" /\ Reply(r)
                 \/ Op(r) = "refresh" /\ Answer(r, "error")
                 \/ Op(r) = "refresh" /\ Proceed(r)
              /\ UNCHANGED <<users, expired, access, req, claims, seen>>

\* Mutant: the error of the INSERT is not looked at.
StoreTokenUnchecked(r) ==
    LET u == seen[r].id
    IN  /\ At(r, "StoreToken")
        /\ tokens' = [tokens EXCEPT ![r] = [user |-> u, revokedBy |-> None]]
        /\ Answer(r, "ok")
        /\ access' = access \cup {[user |-> u, role |-> seen[r].row.role]}
        /\ UNCHANGED <<users, expired, req, claims, seen>>

\* The access token was signed with the role read before; the client gets both
\* tokens only with the answer.
StoreToken(r) ==
    LET u == seen[r].id
    IN  /\ At(r, "StoreToken")
        /\ \/ users[u] = None /\ Refuse(r, "error")
           \/ /\ users[u] # None
              /\ tokens' = [tokens EXCEPT ![r] = [user |-> u, revokedBy |-> None]]
              /\ \/ /\ Answer(r, "ok")
                    /\ access' = access \cup {[user |-> u, role |-> seen[r].row.role]}
                 \/ Answer(r, "error") /\ UNCHANGED access
              /\ UNCHANGED <<users, expired, req, claims, seen>>

-----------------------------------------------------------------------------
(* Users and roles.                                                         *)

Insert(r) ==
    /\ At(r, "Insert")
    /\ \/ Taken(req[r].name, r) /\ Refuse(r, "conflict")
       \/ /\ ~Taken(req[r].name, r)
          /\ users' = [users EXCEPT ![r] = [name |-> req[r].name, active |-> TRUE, role |-> "user"]]
          /\ Reply(r)
          /\ UNCHANGED <<tokens, expired, access, req, claims, seen>>

FindUser(r) ==
    LET u == IF Op(r) = "me" THEN claims[r].user ELSE req[r].user
    IN  /\ At(r, "FindUser")
        /\ \/ /\ users[u] = None
              /\ Refuse(r, IF Op(r) = "me" THEN "unauthorized" ELSE "not_found")
           \/ /\ users[u] # None
              /\ seen' = [seen EXCEPT ![r] = [id |-> u, row |-> users[u]]]
              /\ IF Op(r) = "patch" THEN Proceed(r) ELSE Answer(r, "ok")
              /\ UNCHANGED <<tables, access, req, claims>>

\* Mutant: a field the body does not have counts as false.
PatchWithZeroValues(row, in) ==
    [row EXCEPT !.name = IF in.name = None THEN @ ELSE in.name, !.active = in.active = TRUE]

ApplyUserPatch(row, in) ==
    [row EXCEPT !.name = IF in.name = None THEN @ ELSE in.name,
                !.active = IF in.active = None THEN @ ELSE in.active]

\* What an Update writes: the body, or the row that PATCH has read and patched.
Written(r) == IF Op(r) = "patch" THEN ApplyUserPatch(seen[r].row, req[r]) ELSE req[r]

\* UPDATE users SET username, email, is_active: never the role.
Update(r) ==
    LET u == req[r].user
    IN  /\ At(r, "Update")
        /\ \/ users[u] = None /\ Refuse(r, "not_found")
           \/ /\ users[u] # None /\ Taken(Written(r).name, u)
              /\ Refuse(r, "conflict")
           \/ /\ users[u] # None /\ ~Taken(Written(r).name, u)
              /\ users' = [users EXCEPT ![u].name = Written(r).name,
                                        ![u].active = Written(r).active]
              /\ Reply(r)
              /\ UNCHANGED <<tokens, expired, access, req, claims, seen>>

UpdateRole(r) ==
    LET u == req[r].user
    IN  /\ At(r, "UpdateRole")
        /\ \/ users[u] = None /\ Refuse(r, "not_found")
           \/ /\ users[u] # None
              /\ users' = [users EXCEPT ![u].role = req[r].role]
              /\ Reply(r)
              /\ UNCHANGED <<tokens, expired, access, req, claims, seen>>

Delete(r) ==
    LET u == req[r].user
    IN  /\ At(r, "Delete")
        /\ \/ users[u] = None /\ Refuse(r, "not_found")
           \/ /\ users[u] # None
              /\ users' = [users EXCEPT ![u] = None]
              /\ Reply(r)
              /\ UNCHANGED <<tokens, expired, access, req, claims, seen>>

-----------------------------------------------------------------------------
Running(r) == pc[r] # "Done"

\* A statement that does not get through, or a request past its deadline.
Interrupt(r) == Running(r) /\ ~At(r, "Arrive") /\ Refuse(r, "error")

Expire(t) ==
    /\ t \in Expiring \ expired /\ tokens[t] # None
    /\ expired' = expired \cup {t}
    /\ UNCHANGED <<users, tokens, access, req, claims, pc, seen, answer>>

Statement(r) ==
    \/ Arrive(r) \/ FindByUsername(r) \/ FindActive(r) \/ FindOwner(r) \/ Revoke(r)
    \/ StoreToken(r) \/ Insert(r) \/ FindUser(r) \/ Update(r) \/ UpdateRole(r) \/ Delete(r)

AllAnswered == (\A r \in Requests : ~Running(r)) /\ UNCHANGED vars

Next ==
    \/ \E r \in Requests : Statement(r) \/ Interrupt(r)
    \/ \E t \in Ids : Expire(t)
    \/ AllAnswered

Spec == Init /\ [][Next]_vars

-----------------------------------------------------------------------------
(* Properties.                                                              *)

Statements == {"FindByUsername", "FindActive", "FindOwner", "Revoke", "StoreToken",
    "Insert", "FindUser", "Update", "UpdateRole", "Delete"}

Outcomes == {"none", "ok", "error", "unauthorized", "forbidden", "not_found", "conflict"}

\* Type invariant of the tables and of what a request carries along.
TypeOK ==
    /\ users \in [Ids -> Row \cup {None}]
    /\ tokens \in [Ids -> Token \cup {None}]
    /\ expired \subseteq Ids /\ access \subseteq Claims
    /\ req \in [Requests -> Inputs]
    /\ claims \in [Requests -> Claims \cup {None}]
    /\ pc \in [Requests -> Statements \cup {"Arrive", "Done"}]
    /\ seen \in [Requests -> Found \cup {None}]
    /\ answer \in [Requests -> Outcomes]

Uses(r, t) == Op(r) \in {"refresh", "logout"} /\ req[r].token = t

\* A refresh token is good for one rotation or one logout: of all requests that
\* present it, however they overlap, at most one succeeds or stores a successor,
\* so nobody stays logged in on a token that was logged out.
TokenSpentOnce ==
    \A r, q \in Requests, t \in Ids :
        /\ Uses(r, t) /\ (answer[r] = "ok" \/ tokens[r] # None)
        /\ Uses(q, t) /\ (answer[q] = "ok" \/ tokens[q] # None)
        => r = q

\* A session ends without a successor only by a logout or by a refresh that is
\* answered with 500: a refresh that is refused has revoked nothing.
SessionLostOnlyByError ==
    \A t \in Ids, r \in Requests :
        tokens[t] # None /\ tokens[t].revokedBy = r /\ Op(r) = "refresh"
        => At(r, "StoreToken") \/ tokens[r] # None \/ answer[r] = "error"

\* No login and no refresh, whenever it began, gives an access token to a user
\* who has been deleted.
NoAccessAfterDelete == [][\A c \in access' \ access : users[c.user] # None]_vars

\* The administrators can lock themselves out only by a request of one who was
\* no administrator any more when it was executed, on an old access token.
AdminRemainsUnlessStale ==
    [][Admins # {} /\ Admins' = {} =>
        \E r \in Requests : pc'[r] # pc[r] /\ claims[r] # None /\ claims[r].user \notin Admins]_vars

Keeps(u, column) == users'[u][column] = users[u][column]
WritesBack(r, column) == req[r][column] # None \/ seen[r].row[column] # users[req[r].user][column]

ChangesAsAsked(u) ==
    /\ Keeps(u, "role") \/ \E r \in Requests :
          At(r, "UpdateRole") /\ req[r].user = u /\ pc'[r] = "Done"
    /\ \A column \in {"name", "active"} : Keeps(u, column) \/ \E r \in Requests :
          At(r, "Update") /\ req[r].user = u /\ WritesBack(r, column)

\* A column of a user changes only by a request that names it, or by a PATCH
\* that read the row before somebody else's change of the same column: it
\* writes the old value back.  A role is out of the reach of both.
ColumnsChangeAsAsked ==
    [][\A u \in Ids : users[u] # None /\ users'[u] # None => ChangesAsAsked(u)]_vars

-----------------------------------------------------------------------------
(* The inductive invariant: what a request has done by the time it reaches  *)
(* a statement.                                                             *)

OnScript(r) ==
    /\ Op(r) \notin Public /\ pc[r] \notin {"Arrive", "Done"} =>
          claims[r] # None /\ Admitted(claims[r], req[r])
    /\ At(r, "Insert") => Op(r) \in {"register", "create"}
    /\ At(r, "FindByUsername") => Op(r) = "login"
    /\ At(r, "FindActive") => Op(r) \in {"refresh", "logout"}
    /\ At(r, "FindOwner") => Op(r) = "refresh"
    /\ At(r, "Revoke") => Op(r) \in {"refresh", "logout"}
    /\ At(r, "StoreToken") => Op(r) \in {"login", "refresh"}
    /\ At(r, "FindUser") => Op(r) \in {"me", "get", "patch"}
    /\ At(r, "Update") => Op(r) \in {"replace", "patch"}
    /\ At(r, "UpdateRole") => Op(r) = "role"
    /\ At(r, "Delete") => Op(r) = "delete"
    /\ pc[r] # "Done" => answer[r] = "none" /\ users[r] = None /\ tokens[r] = None

HasSeen(r) ==
    /\ At(r, "StoreToken") => seen[r] # None
    /\ At(r, "Revoke") /\ Op(r) = "refresh" => seen[r] # None
    /\ At(r, "Update") /\ Op(r) = "patch" => seen[r] # None
    /\ At(r, "FindOwner") \/ At(r, "Revoke") => tokens[req[r].token] # None

\* Who has revoked a token has presented it, and a refresh that stored a token
\* or succeeded has revoked the one presented.
Spends(r) ==
    /\ \A t \in Ids : tokens[t] # None /\ tokens[t].revokedBy = r =>
          /\ Uses(r, t)
          /\ Op(r) = "refresh" => At(r, "StoreToken") \/ tokens[r] # None \/ answer[r] = "error"
    /\ Op(r) \in {"refresh", "logout"} /\
            (At(r, "StoreToken") \/ tokens[r] # None \/ answer[r] = "ok")
          => tokens[req[r].token] # None /\ tokens[req[r].token].revokedBy = r

\* The inductive invariant behind the theorems of AccountsProofs.
IInv == TypeOK /\ \A r \in Requests : OnScript(r) /\ HasSeen(r) /\ Spends(r)

-----------------------------------------------------------------------------
(* Refinement.                                                              *)

\* The token that request r has revoked and not replaced yet.
Exchanges(r, t) == Op(r) = "refresh" /\ At(r, "StoreToken") /\ req[r].token = t

Members == {u \in Ids : users[u] # None}
Owner == [t \in Ids |-> IF tokens[t] = None THEN None ELSE tokens[t].user]
Open == {t \in Ids : Stored(t) /\ tokens[t].revokedBy = None}
Exchanged == {t \in Ids : \E r \in Requests : Exchanges(r, t)}
Admittees == {c.user : c \in access}

Abstract == INSTANCE Sessions WITH
    Users <- Ids,
    Tokens <- Ids,
    accounts <- Members,
    owner <- Owner,
    open <- Open,
    exchanged <- Exchanged,
    admitted <- Admittees

\* Between two logins a session is one refresh token, handed on: whatever
\* overlaps, no token gets two successors or one after its logout, none belongs
\* to another user than the one before, and a deleted user's tokens are gone.
ImplementsSessions == Abstract!Spec

\* No token and no handler names a user whose row is not inserted yet.
IdsFresh ==
    \A u \in Requests : pc[u] # "Done" =>
        /\ \A t \in Ids : tokens[t] # None => tokens[t].user # u
        /\ \A r \in Requests : seen[r] # None => seen[r].id # u

\* The user that Refresh has looked up is the owner of the token.
SeenOwner(r) ==
    Op(r) = "refresh" /\ (At(r, "Revoke") \/ At(r, "StoreToken"))
        => seen[r].id = tokens[req[r].token].user

SessionInv == IInv /\ IdsFresh /\ \A r \in Requests : SeenOwner(r)
=============================================================================
