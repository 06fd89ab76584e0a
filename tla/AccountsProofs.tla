--------------------------- MODULE AccountsProofs ---------------------------
(***************************************************************************)
(* Proofs about Accounts, for every set of requests, users and inputs: the *)
(* inductive invariant, what follows from it, and that the statements of   *)
(* the handlers implement the sessions of module Sessions.                 *)
(***************************************************************************)
EXTENDS Accounts, TLAPS

-----------------------------------------------------------------------------
(* Operators.                                                               *)

\* Everything that follows leaves the inputs of the requests alone.
LEMMA InputOf ==
    ASSUME TypeOK, NEW r \in Requests
    PROVE  req[r] \in Input
BY InputsValid DEF TypeOK

\* What the scripts of the handlers say about the next statement.
LEMMA Following ==
    ASSUME NEW op \in {"register", "create", "login", "refresh", "logout", "me", "get",
                       "delete", "replace", "patch", "role"}
    PROVE  /\ Script(op)["Arrive"] \in Statements \ {"FindOwner", "Revoke", "StoreToken"}
           /\ Script(op)["Arrive"] = "Insert" => op \in {"register", "create"}
           /\ Script(op)["Arrive"] = "FindByUsername" => op = "login"
           /\ Script(op)["Arrive"] = "FindActive" => op \in {"refresh", "logout"}
           /\ Script(op)["Arrive"] = "FindUser" => op \in {"me", "get", "patch"}
           /\ Script(op)["Arrive"] = "Update" => op = "replace"
           /\ Script(op)["Arrive"] = "UpdateRole" => op = "role"
           /\ Script(op)["Arrive"] = "Delete" => op = "delete"
           /\ op = "login" => Script(op)["FindByUsername"] = "StoreToken"
           /\ op = "refresh" => /\ Script(op)["FindActive"] = "FindOwner"
                                /\ Script(op)["FindOwner"] = "Revoke"
                                /\ Script(op)["Revoke"] = "StoreToken"
           /\ op = "logout" => Script(op)["FindActive"] = "Revoke"
           /\ op = "patch" => Script(op)["FindUser"] = "Update"
BY DEF Script, Statements, RegisterScript, LoginScript, RefreshScript, LogoutScript, MeScript,
   GetScript, CreateScript, ReplaceScript, PatchScript, AssignRoleScript, DeleteScript

LEMMA OpOf ==
    ASSUME TypeOK, NEW r \in Requests
    PROVE  Op(r) \in {"register", "create", "login", "refresh", "logout", "me", "get",
                      "delete", "replace", "patch", "role"}
BY InputOf DEF Input, Op

-----------------------------------------------------------------------------
(* Steps that change no table.                                              *)

\* A refused request leaves everything as it was, and a refresh that has
\* revoked its token can only be answered with an error.
LEMMA RefuseKeeps ==
    ASSUME IInv, NEW r \in Requests, NEW o \in Outcomes,
           pc[r] # "Done", o # "ok", o = "error" \/ pc[r] # "StoreToken", Refuse(r, o)
    PROVE  IInv'
<1> USE DEF Refuse, Answer, tables
<1>1. TypeOK'
  BY DEF Statements, IInv, TypeOK
<1>2. /\ pc'[r] = "Done" /\ answer'[r] = o
      /\ \A q \in Requests \ {r} : pc'[q] = pc[q] /\ answer'[q] = answer[q]
  BY DEF IInv, TypeOK
<1>3. \A q \in Requests \ {r} : (OnScript(q) /\ HasSeen(q) /\ Spends(q))'
  BY <1>2 DEF IInv, OnScript, HasSeen, Spends, At, Op, Uses
<1>4. (OnScript(r) /\ HasSeen(r) /\ Spends(r))'
  BY <1>2 DEF IInv, OnScript, HasSeen, Spends, At, Op, Uses
<1> QED BY <1>1, <1>3, <1>4 DEF IInv

\* What a step of r does to the tables: users appear only under its own name,
\* tokens stay, and only tokens nobody has revoked are revoked, by r.
Tame(r) ==
    /\ \A q \in Requests \ {r} : users[q] = None => users'[q] = None
    /\ \A t \in Ids :
          /\ tokens[t] # None => /\ tokens'[t] # None
                                 /\ tokens'[t].revokedBy \in {tokens[t].revokedBy, r}
                                 /\ tokens[t].revokedBy # None =>
                                       tokens'[t].revokedBy = tokens[t].revokedBy
          /\ tokens[t] = None /\ tokens'[t] # None => t = r /\ tokens'[t].revokedBy = None

\* The other requests do not notice such a step.
LEMMA OthersKeep ==
    ASSUME IInv, TypeOK', NEW r \in Requests, Tame(r), req' = req,
           NEW q \in Requests \ {r},
           pc'[q] = pc[q], answer'[q] = answer[q], claims'[q] = claims[q], seen'[q] = seen[q]
    PROVE  (OnScript(q) /\ HasSeen(q) /\ Spends(q))'
<1>1. OnScript(q)'
  BY DEF IInv, OnScript, At, Op, Tame, Ids
<1>2. HasSeen(q)'
  <2>1. At(q, "FindOwner") \/ At(q, "Revoke") => req[q].token \in Ids
    <3>1. req[q] \in Input BY InputOf DEF IInv
    <3>2. At(q, "FindOwner") \/ At(q, "Revoke") => Op(q) \in {"refresh", "logout"}
      BY DEF IInv, OnScript
    <3> QED BY <3>1, <3>2 DEF Input, Op
  <2> QED BY <2>1 DEF IInv, HasSeen, At, Op, Tame
<1>3. Spends(q)'
  <2>1. ASSUME NEW t \in Ids, tokens'[t] # None, tokens'[t].revokedBy = q
        PROVE  tokens[t] # None /\ tokens[t].revokedBy = q
    BY <2>1, NoneIsFresh DEF Tame, Ids
  <2>2. tokens'[q] # None <=> tokens[q] # None
    BY DEF Tame, Ids
  <2>3. Op(q) \in {"refresh", "logout"} => req[q].token \in Ids
    BY InputOf DEF IInv, Input, Op
  <2>4. ASSUME NEW t \in Ids, tokens[t] # None, tokens[t].revokedBy = q
        PROVE  tokens'[t] # None /\ tokens'[t].revokedBy = q
    BY <2>4, NoneIsFresh DEF Tame, Ids
  <2> QED BY <2>1, <2>2, <2>3, <2>4 DEF IInv, Spends, At, Op, Uses
<1> QED BY <1>1, <1>2, <1>3

\* A step that leaves tokens and the rows of the other requests alone is tame.
LEMMA TameStutter ==
    ASSUME NEW r, tokens' = tokens, users' = users
    PROVE  Tame(r)
BY DEF Tame

\* Everything a step of r has to show for the invariant.
LEMMA StepKeeps ==
    ASSUME IInv, TypeOK', NEW r \in Requests, Tame(r), req' = req,
           \A q \in Requests \ {r} : /\ pc'[q] = pc[q] /\ answer'[q] = answer[q]
                                     /\ claims'[q] = claims[q] /\ seen'[q] = seen[q],
           (OnScript(r) /\ HasSeen(r) /\ Spends(r))'
    PROVE  IInv'
BY OthersKeep DEF IInv

-----------------------------------------------------------------------------
(* Statements.                                                              *)

LEMMA EnterKeeps ==
    ASSUME IInv, NEW r \in Requests, At(r, "Arrive"),
           NEW c \in Claims \cup {None}, Enter(r, c),
           Op(r) \in Public \/ (c # None /\ Admitted(c, req[r]))
    PROVE  IInv'
<1> USE DEF Enter, Proceed, tables, At
<1>1. TypeOK'
  BY OpOf, Following DEF IInv, TypeOK
<1>2. /\ pc'[r] = Script(Op(r))["Arrive"] /\ claims'[r] = c
      /\ \A q \in Requests \ {r} : pc'[q] = pc[q] /\ claims'[q] = claims[q]
  BY DEF IInv, TypeOK
<1>3. OnScript(r)'
  <2>1. Op(r)' = Op(r) BY DEF Op
  <2>2. OnScript(r) BY DEF IInv
  <2>3. \A s \in {"FindOwner", "Revoke", "StoreToken", "Done"} : pc'[r] # s
    BY <1>2, OpOf, Following DEF IInv, Statements
  <2> QED BY <1>2, <2>1, <2>2, <2>3, OpOf, Following DEF IInv, OnScript
<1>4. HasSeen(r)' /\ Spends(r)'
  <2>1. \A s \in {"FindOwner", "Revoke", "StoreToken"} : pc'[r] # s
    BY <1>2, OpOf, Following DEF IInv
  <2>2. At(r, "Update")' => Op(r) # "patch"
    BY <1>2, OpOf, Following DEF IInv
  <2>3. HasSeen(r) /\ Spends(r) BY DEF IInv
  <2> QED BY <1>2, <2>1, <2>2, <2>3 DEF HasSeen, Spends, Op, Uses
<1> QED BY <1>1, <1>2, <1>3, <1>4, StepKeeps, TameStutter

LEMMA ArriveKeeps ==
    ASSUME IInv, NEW r \in Requests, Arrive(r)
    PROVE  IInv'
<1>1. CASE Op(r) \in Public /\ Enter(r, None)
  BY <1>1, EnterKeeps DEF Arrive
<1>2. CASE Refuse(r, "unauthorized")
  BY <1>2, RefuseKeeps DEF Arrive, At, Outcomes
<1>3. ASSUME NEW c \in access, IF Admitted(c, req[r]) THEN Enter(r, c) ELSE Refuse(r, "forbidden")
      PROVE  IInv'
  <2>1. c \in Claims /\ c # None BY NoneIsFresh DEF IInv, TypeOK
  <2>2. CASE Admitted(c, req[r]) /\ Enter(r, c)
    BY <2>1, <2>2, EnterKeeps DEF Arrive
  <2>3. CASE Refuse(r, "forbidden")
    BY <2>3, RefuseKeeps DEF Arrive, At, Outcomes
  <2> QED BY <1>3, <2>2, <2>3
<1> QED BY <1>1, <1>2, <1>3 DEF Arrive

\* The statement after the one a request has reached.
LEMMA NextAt ==
    ASSUME IInv, NEW r \in Requests
    PROVE  LET next == Script(Op(r))[pc[r]] IN
           /\ pc[r] = "FindByUsername" => next = "StoreToken"
           /\ pc[r] = "FindActive" => next = IF Op(r) = "logout" THEN "Revoke" ELSE "FindOwner"
           /\ pc[r] = "FindOwner" => next = "Revoke"
           /\ pc[r] = "Revoke" /\ Op(r) = "refresh" => next = "StoreToken"
           /\ pc[r] = "FindUser" /\ Op(r) = "patch" => next = "Update"
BY OpOf, Following DEF IInv, OnScript, At

LEMMA FindByUsernameKeeps ==
    ASSUME IInv, NEW r \in Requests, FindByUsername(r)
    PROVE  IInv'
<1>1. CASE Refuse(r, "unauthorized")
  BY <1>1, RefuseKeeps DEF FindByUsername, At, Outcomes
<1>2. ASSUME NEW u \in Ids, users[u] # None,
             seen' = [seen EXCEPT ![r] = [id |-> u, row |-> users[u]]],
             Proceed(r), UNCHANGED <<tables, access, req, claims>>
      PROVE  IInv'
  <2> USE <1>2 DEF Proceed, tables
  <2>0. pc[r] = "FindByUsername" BY DEF FindByUsername, At
  <2>1. [id |-> u, row |-> users[u]] \in Found
    BY DEF IInv, TypeOK, Found
  <2>2. TypeOK'
    BY <2>0, <2>1, NextAt DEF Statements, IInv, TypeOK
  <2>3. /\ pc'[r] = "StoreToken" /\ seen'[r] # None
        /\ \A q \in Requests \ {r} : pc'[q] = pc[q] /\ seen'[q] = seen[q]
    BY <2>0, <2>1, NextAt, NoneIsFresh DEF IInv, TypeOK
  <2>4. Op(r) = "login" /\ pc[r] = "FindByUsername" BY DEF IInv, OnScript, FindByUsername, At
  <2>5. (OnScript(r) /\ HasSeen(r) /\ Spends(r))'
    BY <2>3, <2>4 DEF IInv, OnScript, HasSeen, Spends, At, Op, Uses, Public
  <2> QED BY <2>2, <2>3, <2>5, StepKeeps, TameStutter
<1> QED BY <1>1, <1>2 DEF FindByUsername

\* The token that is found has an owner.
LEMMA FindActiveKeeps ==
    ASSUME IInv, NEW r \in Requests, FindActive(r)
    PROVE  IInv'
<1>1. CASE Refuse(r, "unauthorized")
  BY <1>1, RefuseKeeps DEF FindActive, At, Outcomes
<1>2. CASE /\ Active(req[r].token)
           /\ Proceed(r)
           /\ UNCHANGED <<tables, access, req, claims, seen>>
  <2> USE <1>2 DEF Proceed, tables
  <2>0. pc[r] = "FindActive" BY DEF FindActive, At
  <2>1. TypeOK'
    BY <2>0, NextAt DEF Statements, IInv, TypeOK
  <2>2. /\ pc'[r] = IF Op(r) = "logout" THEN "Revoke" ELSE "FindOwner"
        /\ \A q \in Requests \ {r} : pc'[q] = pc[q]
    BY <2>0, NextAt DEF IInv, TypeOK
  <2>3. Op(r) \in {"refresh", "logout"} /\ pc[r] = "FindActive"
    BY DEF IInv, OnScript, FindActive, At
  <2>4. tokens[req[r].token] # None BY DEF Active, Stored
  <2>5. (OnScript(r) /\ HasSeen(r) /\ Spends(r))'
    BY <2>2, <2>3, <2>4 DEF IInv, OnScript, HasSeen, Spends, At, Op, Uses, Public
  <2> QED BY <2>1, <2>2, <2>5, StepKeeps, TameStutter
<1> QED BY <1>1, <1>2 DEF FindActive

LEMMA FindOwnerKeeps ==
    ASSUME IInv, NEW r \in Requests, FindOwner(r)
    PROVE  IInv'
<1> DEFINE u == tokens[req[r].token].user
<1>1. CASE Refuse(r, "unauthorized")
  BY <1>1, RefuseKeeps DEF FindOwner, At, Outcomes
<1>2. CASE /\ users[u] # None
           /\ seen' = [seen EXCEPT ![r] = [id |-> u, row |-> users[u]]]
           /\ Proceed(r)
           /\ UNCHANGED <<tables, access, req, claims>>
  <2> USE <1>2 DEF Proceed, tables
  <2>0. pc[r] = "FindOwner" BY DEF FindOwner, At
  <2>1. Op(r) = "refresh" /\ pc[r] = "FindOwner"
    BY DEF IInv, OnScript, FindOwner, At
  <2>2. tokens[req[r].token] # None
    BY <2>1 DEF IInv, HasSeen, At
  <2>3. req[r].token \in Ids
    BY <2>1, InputOf DEF IInv, Input, Op
  <2>4. u \in Ids
    BY <2>2, <2>3 DEF IInv, TypeOK, Token
  <2>5. [id |-> u, row |-> users[u]] \in Found
    BY <2>4 DEF IInv, TypeOK, Found
  <2>6. TypeOK'
    BY <2>0, <2>5, NextAt DEF Statements, IInv, TypeOK
  <2>7. /\ pc'[r] = "Revoke" /\ seen'[r] # None
        /\ \A q \in Requests \ {r} : pc'[q] = pc[q] /\ seen'[q] = seen[q]
    BY <2>0, <2>5, NextAt, NoneIsFresh DEF IInv, TypeOK
  <2>8. (OnScript(r) /\ HasSeen(r) /\ Spends(r))'
    BY <2>1, <2>2, <2>7 DEF IInv, OnScript, HasSeen, Spends, At, Op, Uses, Public
  <2> QED BY <2>6, <2>7, <2>8, StepKeeps, TameStutter
<1> QED BY <1>1, <1>2 DEF FindOwner

LEMMA FindUserKeeps ==
    ASSUME IInv, NEW r \in Requests, FindUser(r)
    PROVE  IInv'
<1> DEFINE u == IF Op(r) = "me" THEN claims[r].user ELSE req[r].user
<1>1. CASE Refuse(r, IF Op(r) = "me" THEN "unauthorized" ELSE "not_found")
  BY <1>1, RefuseKeeps DEF FindUser, At, Outcomes
<1>2. CASE /\ users[u] # None
           /\ seen' = [seen EXCEPT ![r] = [id |-> u, row |-> users[u]]]
           /\ IF Op(r) = "patch" THEN Proceed(r) ELSE Answer(r, "ok")
           /\ UNCHANGED <<tables, access, req, claims>>
  <2> USE <1>2 DEF Proceed, Answer, tables
  <2>0. pc[r] = "FindUser" BY DEF FindUser, At
  <2>1. Op(r) \in {"me", "get", "patch"} /\ pc[r] = "FindUser"
    BY DEF IInv, OnScript, FindUser, At
  <2>2. claims[r] # None /\ Admitted(claims[r], req[r])
    BY <2>1 DEF IInv, OnScript, Public
  <2>3. u \in Ids
    <3>1. CASE Op(r) = "me" BY <3>1, <2>2 DEF IInv, TypeOK, Claims
    <3>2. CASE Op(r) # "me" BY <3>2, <2>1, InputOf DEF IInv, Input, Op
    <3> QED BY <3>1, <3>2
  <2>4. [id |-> u, row |-> users[u]] \in Found
    BY <2>3 DEF IInv, TypeOK, Found
  <2>5. TypeOK'
    BY <2>0, <2>4, NextAt DEF Statements, IInv, TypeOK, Outcomes
  <2>6. /\ pc'[r] = IF Op(r) = "patch" THEN "Update" ELSE "Done"
        /\ seen'[r] # None
        /\ \A q \in Requests \ {r} : pc'[q] = pc[q] /\ seen'[q] = seen[q] /\ answer'[q] = answer[q]
        /\ Op(r) = "patch" => answer'[r] = answer[r]
    BY <2>0, <2>4, NextAt, NoneIsFresh DEF IInv, TypeOK
  <2>7. (OnScript(r) /\ HasSeen(r) /\ Spends(r))'
    BY <2>1, <2>2, <2>6 DEF IInv, OnScript, HasSeen, Spends, At, Op, Uses, Public
  <2> QED BY <2>5, <2>6, <2>7, StepKeeps, TameStutter
<1> QED BY <1>1, <1>2 DEF FindUser

\* The UPDATE marks an unrevoked token of the request's own input.
LEMMA RevokeKeeps ==
    ASSUME IInv, NEW r \in Requests, Revoke(r)
    PROVE  IInv'
<1> DEFINE t == req[r].token
<1>1. CASE Refuse(r, "error")
  BY <1>1, RefuseKeeps DEF Revoke, At, Outcomes
<1>2. CASE /\ Stored(t) /\ tokens[t].revokedBy = None
           /\ tokens' = [tokens EXCEPT ![t].revokedBy = r]
           /\ \/ Op(r) = "logout" /\ Reply(r)
              \/ Op(r) = "refresh" /\ Answer(r, "error")
              \/ Op(r) = "refresh" /\ Proceed(r)
           /\ UNCHANGED <<users, expired, access, req, claims, seen>>
  <2> USE <1>2 DEF Proceed, Answer, Reply
  <2>0. pc[r] = "Revoke" BY DEF Revoke, At
  <2>1. Op(r) \in {"refresh", "logout"} /\ pc[r] = "Revoke"
    BY DEF IInv, OnScript, Revoke, At
  <2>2. t \in Ids
    BY <2>1, InputOf DEF IInv, Input, Op
  <2>3. tokens[t] \in Token /\ tokens[t] # None
    BY <2>2, NoneIsFresh DEF IInv, TypeOK, Stored
  <2>4. PICK w : w = [tokens[t] EXCEPT !.revokedBy = r] OBVIOUS
  <2>5. w \in Token /\ w.revokedBy = r /\ w # None
    BY <2>3, <2>4, NoneIsFresh DEF Token
  <2>6. tokens' = [tokens EXCEPT ![t] = w]
    BY <2>4
  <2>7. tokens'[t] = w /\ \A s \in Ids \ {t} : tokens'[s] = tokens[s]
    BY <2>2, <2>6 DEF IInv, TypeOK
  <2>8. tokens' \in [Ids -> Token \cup {None}]
    BY <2>2, <2>5, <2>6 DEF IInv, TypeOK
  <2>9. TypeOK'
    BY <2>0, <2>8, NextAt DEF Statements, IInv, TypeOK, Outcomes
  <2>10. Tame(r)
    BY <2>3, <2>5, <2>7 DEF Tame
  <2>11. /\ pc'[r] \in {"StoreToken", "Done"}
         /\ pc'[r] = "StoreToken" => Op(r) = "refresh" /\ answer'[r] = answer[r]
         /\ pc'[r] = "Done" /\ Op(r) = "refresh" => answer'[r] = "error"
         /\ \A q \in Requests \ {r} : pc'[q] = pc[q] /\ answer'[q] = answer[q]
    BY <2>0, <2>1, NextAt DEF IInv, TypeOK
  <2>12. OnScript(r) /\ HasSeen(r) /\ Spends(r) BY DEF IInv
  <2>13. r \in Ids /\ r # t
    BY <2>1, <2>3, <2>12 DEF Ids, OnScript
  <2>14. tokens'[r] = None
    BY <2>1, <2>7, <2>12, <2>13 DEF OnScript
  <2>15. HasSeen(r)'
    <3>1. pc'[r] = "StoreToken" => seen[r] # None
      <4>1. Op(r) = "refresh" => seen[r] # None
        BY <2>1, <2>12 DEF HasSeen, At
      <4> QED BY <4>1, <2>11
    <3> QED BY <3>1, <2>11 DEF HasSeen, At
  <2>16. OnScript(r)'
    BY <2>1, <2>11, <2>12, <2>14 DEF OnScript, At, Op, Public
  <2>17. Spends(r)'
    <3>1. \A s \in Ids : tokens'[s] # None /\ tokens'[s].revokedBy = r => s = t
      BY <2>1, <2>7, <2>12 DEF Spends, Uses
    <3> QED BY <3>1, <2>1, <2>2, <2>5, <2>7, <2>11 DEF Spends, Uses, At, Op
  <2> QED BY <2>9, <2>10, <2>11, <2>15, <2>16, <2>17, StepKeeps
<1> QED BY <1>1, <1>2 DEF Revoke

\* The new token is the first one under the request's name.
LEMMA StoreTokenKeeps ==
    ASSUME IInv, NEW r \in Requests, StoreToken(r)
    PROVE  IInv'
<1> DEFINE u == seen[r].id
           w == [user |-> u, revokedBy |-> None]
<1>1. CASE Refuse(r, "error")
  BY <1>1, RefuseKeeps DEF StoreToken, At, Outcomes
<1>2. CASE /\ users[u] # None
           /\ tokens' = [tokens EXCEPT ![r] = w]
           /\ \/ /\ Answer(r, "ok")
                 /\ access' = access \cup {[user |-> u, role |-> seen[r].row.role]}
              \/ Answer(r, "error") /\ UNCHANGED access
           /\ UNCHANGED <<users, expired, req, claims, seen>>
  <2> USE <1>2 DEF Answer
  <2>1. Op(r) \in {"login", "refresh"} /\ pc[r] = "StoreToken" /\ tokens[r] = None /\ r \in Ids
    BY DEF IInv, OnScript, StoreToken, At, Ids
  <2>2. seen[r] \in Found
    BY <2>1 DEF IInv, TypeOK, HasSeen, At
  <2>3. w \in Token /\ w # None /\ [user |-> u, role |-> seen[r].row.role] \in Claims
    BY <2>2, NoneIsFresh DEF Token, Found, Claims, Row
  <2>4. tokens'[r] = w /\ \A s \in Ids \ {r} : tokens'[s] = tokens[s]
    BY <2>1 DEF IInv, TypeOK
  <2>5. TypeOK'
    BY <2>3 DEF Statements, IInv, TypeOK, Outcomes, Ids
  <2>6. Tame(r)
    BY <2>1, <2>3, <2>4 DEF Tame
  <2>7. /\ pc'[r] = "Done" /\ answer'[r] \in {"ok", "error"}
        /\ \A q \in Requests \ {r} : pc'[q] = pc[q] /\ answer'[q] = answer[q]
    BY DEF IInv, TypeOK
  <2>8. OnScript(r) /\ HasSeen(r) /\ Spends(r) BY DEF IInv
  <2>9. OnScript(r)' /\ HasSeen(r)'
    BY <2>7, <2>8 DEF OnScript, HasSeen, At, Op
  <2>10. Spends(r)'
    <3>1. \A s \in Ids : tokens'[s] # None /\ tokens'[s].revokedBy = r =>
             tokens[s] # None /\ tokens[s].revokedBy = r
      BY <2>4, NoneIsFresh DEF Ids
    <3>2. Op(r) = "refresh" =>
             tokens'[req[r].token] # None /\ tokens'[req[r].token].revokedBy = r
      <4>1. Op(r) = "refresh" => /\ tokens[req[r].token] # None
                                 /\ tokens[req[r].token].revokedBy = r
                                 /\ req[r].token \in Ids
        BY <2>1, <2>8, InputOf DEF IInv, Input, Op, Spends, At
      <4> QED BY <4>1, <2>1, <2>4
    <3> QED BY <3>1, <3>2, <2>1, <2>3, <2>4, <2>7, <2>8 DEF Spends, Uses, At, Op
  <2> QED BY <2>5, <2>6, <2>7, <2>9, <2>10, StepKeeps
<1> QED BY <1>1, <1>2 DEF StoreToken

\* A request that answers after its one write to table users.
LEMMA WriteKeeps ==
    ASSUME IInv, NEW r \in Requests,
           pc[r] \in {"Insert", "Update", "UpdateRole", "Delete"},
           users' \in [Ids -> Row \cup {None}],
           \A q \in Requests \ {r} : users[q] = None => users'[q] = None,
           Reply(r), UNCHANGED <<tokens, expired, access, req, claims, seen>>
    PROVE  IInv'
<1> USE DEF Reply, Answer
<1>1. TypeOK'
  BY DEF Statements, IInv, TypeOK, Outcomes
<1>2. Tame(r) BY DEF Tame
<1>3. /\ pc'[r] = "Done"
      /\ \A q \in Requests \ {r} : pc'[q] = pc[q] /\ answer'[q] = answer[q]
  BY DEF IInv, TypeOK
<1>4. Op(r) \notin {"refresh", "logout"} BY DEF IInv, OnScript, At
<1>5. (OnScript(r) /\ HasSeen(r) /\ Spends(r))'
  BY <1>3, <1>4 DEF IInv, OnScript, HasSeen, Spends, Uses, At, Op
<1> QED BY <1>1, <1>2, <1>3, <1>5, StepKeeps

LEMMA InsertKeeps ==
    ASSUME IInv, NEW r \in Requests, Insert(r)
    PROVE  IInv'
<1>1. CASE Refuse(r, "conflict")
  BY <1>1, RefuseKeeps DEF Insert, At, Outcomes
<1>2. CASE /\ users' = [users EXCEPT ![r] =
                  [name |-> req[r].name, active |-> TRUE, role |-> "user"]]
           /\ Reply(r)
           /\ UNCHANGED <<tokens, expired, access, req, claims, seen>>
  <2>1. req[r].name \in Names /\ pc[r] = "Insert"
    BY InputOf DEF IInv, OnScript, Insert, Input, Op, At
  <2>2. [name |-> req[r].name, active |-> TRUE, role |-> "user"] \in Row
    BY <2>1 DEF Row, Roles
  <2>3. users' \in [Ids -> Row \cup {None}]
    BY <1>2, <2>2 DEF IInv, TypeOK
  <2> QED BY <1>2, <2>1, <2>3, WriteKeeps DEF IInv, TypeOK, Ids
<1> QED BY <1>1, <1>2 DEF Insert

\* What an Update writes is a name and a flag, be it from the body or patched.
LEMMA WrittenTyped ==
    ASSUME IInv, NEW r \in Requests, pc[r] = "Update"
    PROVE  Written(r).name \in Names /\ Written(r).active \in BOOLEAN
<1>1. Op(r) \in {"replace", "patch"} /\ pc[r] = "Update" /\ req[r] \in Input
  BY InputOf DEF IInv, OnScript, At
<1>2. CASE Op(r) = "replace"
  BY <1>2, <1>1 DEF Written, Input, Op
<1>3. CASE Op(r) = "patch"
  <2>1. req[r].name \in Names \cup {None} /\ req[r].active \in BOOLEAN \cup {None}
    BY <1>3, <1>1 DEF Input, Op
  <2>2. seen[r].row \in Row
    BY <1>3, <1>1 DEF IInv, TypeOK, HasSeen, At, Found
  <2>3. PICK row : row = seen[r].row OBVIOUS
  <2>4. PICK x : x = [row EXCEPT
            !.name = IF req[r].name = None THEN @ ELSE req[r].name,
            !.active = IF req[r].active = None THEN @ ELSE req[r].active]
    OBVIOUS
  <2>5. x.name \in Names /\ x.active \in BOOLEAN
    <3>1. row \in Row BY <2>2, <2>3
    <3>2. /\ x.name = IF req[r].name = None THEN row.name ELSE req[r].name
          /\ x.active = IF req[r].active = None THEN row.active ELSE req[r].active
      BY <2>4, <3>1 DEF Row
    <3> QED BY <2>1, <3>1, <3>2 DEF Row
  <2>6. Written(r) = x
    BY <1>3, <2>3, <2>4 DEF Written, ApplyUserPatch
  <2> QED BY <2>5, <2>6
<1> QED BY <1>1, <1>2, <1>3

LEMMA UpdateKeeps ==
    ASSUME IInv, NEW r \in Requests, Update(r)
    PROVE  IInv'
<1> DEFINE u == req[r].user
           n == Written(r).name
           a == Written(r).active
<1>1. CASE Refuse(r, "not_found") \/ Refuse(r, "conflict")
  BY <1>1, RefuseKeeps DEF Update, At, Outcomes
<1>2. CASE /\ users[u] # None
           /\ users' = [users EXCEPT ![u].name = n, ![u].active = a]
           /\ Reply(r)
           /\ UNCHANGED <<tokens, expired, access, req, claims, seen>>
  <2>1. Op(r) \in {"replace", "patch"} /\ pc[r] = "Update" /\ req[r] \in Input
    BY InputOf DEF IInv, OnScript, Update, At
  <2>2. u \in Ids
    BY <2>1 DEF Input, Op
  <2>3. users[u] \in Row
    BY <1>2, <2>2 DEF IInv, TypeOK
  <2>4. n \in Names /\ a \in BOOLEAN
    BY <2>1, WrittenTyped
  <2>5. PICK w : w = [users[u] EXCEPT !.name = n, !.active = a] OBVIOUS
  <2>6. w \in Row
    BY <2>3, <2>4, <2>5 DEF Row
  <2>7. users' = [users EXCEPT ![u] = w]
    BY <1>2, <2>2, <2>3, <2>5 DEF Row, IInv, TypeOK
  <2>8. users' \in [Ids -> Row \cup {None}]
    BY <2>6, <2>7 DEF IInv, TypeOK
  <2>9. \A q \in Requests \ {r} : users[q] = None => users'[q] = None
    BY <1>2, <2>2, <2>7 DEF IInv, TypeOK, Ids
  <2> QED BY <1>2, <2>1, <2>8, <2>9, WriteKeeps
<1> QED BY <1>1, <1>2 DEF Update

LEMMA UpdateRoleKeeps ==
    ASSUME IInv, NEW r \in Requests, UpdateRole(r)
    PROVE  IInv'
<1> DEFINE u == req[r].user
<1>1. CASE Refuse(r, "not_found")
  BY <1>1, RefuseKeeps DEF UpdateRole, At, Outcomes
<1>2. CASE /\ users[u] # None
           /\ users' = [users EXCEPT ![u].role = req[r].role]
           /\ Reply(r)
           /\ UNCHANGED <<tokens, expired, access, req, claims, seen>>
  <2>1. Op(r) = "role" /\ pc[r] = "UpdateRole" /\ req[r] \in Input
    BY InputOf DEF IInv, OnScript, UpdateRole, At
  <2>2. u \in Ids /\ req[r].role \in Roles
    BY <2>1 DEF Input, Op
  <2>3. users[u] \in Row
    BY <1>2, <2>2 DEF IInv, TypeOK
  <2>4. PICK w : w = [users[u] EXCEPT !.role = req[r].role] OBVIOUS
  <2>5. w \in Row
    BY <2>2, <2>3, <2>4 DEF Row
  <2>6. users' = [users EXCEPT ![u] = w]
    BY <1>2, <2>4
  <2>7. users' \in [Ids -> Row \cup {None}]
    BY <2>5, <2>6 DEF IInv, TypeOK
  <2>8. \A q \in Requests \ {r} : users[q] = None => users'[q] = None
    BY <1>2, <2>2, <2>6 DEF IInv, TypeOK, Ids
  <2> QED BY <1>2, <2>1, <2>7, <2>8, WriteKeeps
<1> QED BY <1>1, <1>2 DEF UpdateRole

LEMMA DeleteKeeps ==
    ASSUME IInv, NEW r \in Requests, Delete(r)
    PROVE  IInv'
<1>1. CASE Refuse(r, "not_found")
  BY <1>1, RefuseKeeps DEF Delete, At, Outcomes
<1>2. CASE /\ users' = [users EXCEPT ![req[r].user] = None]
           /\ Reply(r)
           /\ UNCHANGED <<tokens, expired, access, req, claims, seen>>
  <2>1. users' \in [Ids -> Row \cup {None}]
    BY <1>2 DEF IInv, TypeOK
  <2>2. \A q \in Requests \ {r} : users[q] = None => users'[q] = None
    BY <1>2 DEF IInv, TypeOK, Ids
  <2> QED BY <1>2, <2>1, <2>2, WriteKeeps DEF Delete, At
<1> QED BY <1>1, <1>2 DEF Delete

LEMMA ExpireKeeps ==
    ASSUME IInv, NEW t \in Ids, Expire(t)
    PROVE  IInv'
<1>1. TypeOK'
  BY DEF Expire, IInv, TypeOK
<1>2. \A r \in Requests : (OnScript(r) /\ HasSeen(r) /\ Spends(r))'
  BY DEF Expire, IInv, OnScript, HasSeen, Spends, At, Op, Uses
<1> QED BY <1>1, <1>2 DEF IInv

-----------------------------------------------------------------------------
(* The invariant.                                                           *)

LEMMA InitIInv == Init => IInv
<1> SUFFICES ASSUME Init PROVE IInv OBVIOUS
<1>1. TypeOK
  <2>1. users \in [Ids -> Row \cup {None}]
    BY SeedValid DEF Init, Ids
  <2>2. tokens \in [Ids -> Token \cup {None}]
    BY DEF Init, Ids, Token
  <2>3. access \subseteq Claims
    BY SeedValid DEF Init, Claims, Ids, Row
  <2> QED BY <2>1, <2>2, <2>3 DEF Init, TypeOK, Outcomes
<1>2. \A r \in Requests : users[r] = None /\ tokens[r] = None
  BY IdsApart DEF Init, Ids
<1>3. \A t \in Ids : tokens[t] # None => tokens[t].revokedBy = None
  BY DEF Init
<1>4. \A r \in Requests : r # None
  BY NoneIsFresh DEF Ids
<1>5. \A r \in Requests : pc[r] = "Arrive" /\ answer[r] = "none"
  BY DEF Init
<1> QED BY <1>1, <1>2, <1>3, <1>4, <1>5 DEF IInv, OnScript, HasSeen, Spends, At

LEMMA NextIInv == IInv /\ [Next]_vars => IInv'
<1> SUFFICES ASSUME IInv, [Next]_vars PROVE IInv' OBVIOUS
<1>1. ASSUME NEW r \in Requests, Statement(r) PROVE IInv'
  BY <1>1, ArriveKeeps, FindByUsernameKeeps, FindActiveKeeps, FindOwnerKeeps, RevokeKeeps,
     StoreTokenKeeps, InsertKeeps, FindUserKeeps, UpdateKeeps, UpdateRoleKeeps, DeleteKeeps
     DEF Statement
<1>2. ASSUME NEW r \in Requests, Interrupt(r) PROVE IInv'
  BY <1>2, RefuseKeeps DEF Interrupt, Running, Outcomes
<1>3. ASSUME NEW t \in Ids, Expire(t) PROVE IInv'
  BY <1>3, ExpireKeeps
<1>4. CASE UNCHANGED vars
  BY <1>4 DEF vars, tables, IInv, TypeOK, OnScript, HasSeen, Spends, At, Op, Uses
<1> QED BY <1>1, <1>2, <1>3, <1>4 DEF Next, AllAnswered

\* The inductive invariant, and with it the types, hold in every behaviour.
THEOREM InvariantHolds == Spec => []IInv
<1> QED BY InitIInv, NextIInv, PTL DEF Spec

\* A refresh token is spent once (Refresh and Logout of AuthService).
THEOREM SpentOnce == Spec => []TokenSpentOnce
<1>1. IInv => TokenSpentOnce
  <2> SUFFICES ASSUME IInv, NEW r \in Requests, NEW q \in Requests, NEW t \in Ids,
                      Uses(r, t), answer[r] = "ok" \/ tokens[r] # None,
                      Uses(q, t), answer[q] = "ok" \/ tokens[q] # None
               PROVE  r = q
    BY DEF TokenSpentOnce
  <2>1. tokens[t].revokedBy = r BY DEF IInv, Spends, Uses
  <2>2. tokens[t].revokedBy = q BY DEF IInv, Spends, Uses
  <2> QED BY <2>1, <2>2
<1> QED BY <1>1, InvariantHolds, PTL

\* A refused refresh has revoked nothing (AuthService.Refresh).
THEOREM SessionsKept == Spec => []SessionLostOnlyByError
<1>1. IInv => SessionLostOnlyByError
  BY DEF IInv, Spends, SessionLostOnlyByError
<1> QED BY <1>1, InvariantHolds, PTL

-----------------------------------------------------------------------------
(* Action properties.                                                       *)

\* Only the last statement of a login or a refresh gives an access token away.
LEMMA AccessGiven ==
    ASSUME [Next]_vars, access' # access
    PROVE  \E r \in Requests : StoreToken(r)
<1> USE DEF Refuse, tables
<1>1. ASSUME NEW r \in Requests, Statement(r)
      PROVE  StoreToken(r)
  BY <1>1 DEF Statement, Arrive, Enter, FindByUsername, FindActive, FindOwner, Revoke,
     Insert, FindUser, Update, UpdateRole, Delete
<1>2. \E r \in Requests : Statement(r)
  BY DEF Next, AllAnswered, vars, Interrupt, Expire
<1> QED BY <1>1, <1>2

\* Access tokens go to users that exist (Login and Refresh of AuthService).
THEOREM AccessNeedsUser == Spec => NoAccessAfterDelete
<1>1. ASSUME [Next]_vars PROVE \A c \in access' \ access : users[c.user] # None
  <2>1. CASE access' = access BY <2>1
  <2>2. CASE access' # access
    <3>1. PICK r \in Requests : StoreToken(r) BY <1>1, <2>2, AccessGiven
    <3> QED BY <3>1, <2>2 DEF StoreToken, Refuse
  <2> QED BY <2>1, <2>2
<1> QED BY <1>1, PTL DEF Spec, NoAccessAfterDelete

\* Table users changes by one of four statements.
LEMMA UsersChanged ==
    ASSUME [Next]_vars, users' # users
    PROVE  \E r \in Requests : Insert(r) \/ Update(r) \/ UpdateRole(r) \/ Delete(r)
<1> USE DEF Refuse, tables
<1>1. ASSUME NEW r \in Requests, Statement(r)
      PROVE  Insert(r) \/ Update(r) \/ UpdateRole(r) \/ Delete(r)
  BY <1>1 DEF Statement, Arrive, Enter, FindByUsername, FindActive, FindOwner, Revoke,
     StoreToken, FindUser
<1>2. \E r \in Requests : Statement(r)
  BY DEF Next, AllAnswered, vars, Interrupt, Expire
<1> QED BY <1>1, <1>2

\* What each of the four does to the rows.
LEMMA InsertEffect ==
    ASSUME IInv, NEW r \in Requests, Insert(r), users' # users
    PROVE  users[r] = None /\ r \in Ids /\ \A v \in Ids \ {r} : users'[v] = users[v]
BY DEF IInv, TypeOK, OnScript, Insert, Refuse, tables, At, Ids

LEMMA UpdateEffect ==
    ASSUME IInv, NEW r \in Requests, Update(r), users' # users
    PROVE  LET u == req[r].user IN
           /\ u \in Ids /\ users'[u] \in Row
           /\ users'[u].name = Written(r).name /\ users'[u].active = Written(r).active
           /\ users'[u].role = users[u].role
           /\ \A v \in Ids \ {u} : users'[v] = users[v]
<1> DEFINE u == req[r].user
<1>1. /\ users[u] # None /\ Reply(r)
      /\ users' = [users EXCEPT ![u].name = Written(r).name, ![u].active = Written(r).active]
  BY DEF Update, Refuse, tables
<1>2. u \in Ids
  BY InputOf DEF IInv, OnScript, Update, At, Input, Op
<1>3. users[u] \in Row
  BY <1>1, <1>2 DEF IInv, TypeOK
<1>4. Written(r).name \in Names /\ Written(r).active \in BOOLEAN
  BY WrittenTyped DEF Update, At
<1>5. PICK w : w = [users[u] EXCEPT !.name = Written(r).name, !.active = Written(r).active]
  OBVIOUS
<1>6. users' = [users EXCEPT ![u] = w]
  BY <1>1, <1>2, <1>3, <1>5 DEF Row, IInv, TypeOK
<1>7. users'[u] = w /\ \A v \in Ids \ {u} : users'[v] = users[v]
  BY <1>2, <1>6 DEF IInv, TypeOK
<1>8. /\ w \in Row /\ w.name = Written(r).name /\ w.active = Written(r).active
      /\ w.role = users[u].role
  BY <1>3, <1>4, <1>5 DEF Row
<1> QED BY <1>2, <1>7, <1>8

LEMMA UpdateRoleEffect ==
    ASSUME IInv, NEW r \in Requests, UpdateRole(r), users' # users
    PROVE  LET u == req[r].user IN
           /\ u \in Ids /\ users[u] \in Row /\ pc'[r] = "Done"
           /\ users'[u] = [users[u] EXCEPT !.role = req[r].role]
           /\ \A v \in Ids \ {u} : users'[v] = users[v]
<1> DEFINE u == req[r].user
<1>1. users[u] # None /\ Reply(r) /\ users' = [users EXCEPT ![u].role = req[r].role]
  BY DEF UpdateRole, Refuse, tables
<1>2. u \in Ids
  BY InputOf DEF IInv, OnScript, UpdateRole, At, Input, Op
<1>3. users[u] \in Row
  BY <1>1, <1>2 DEF IInv, TypeOK
<1>4. pc'[r] = "Done"
  BY <1>1 DEF Reply, Answer, IInv, TypeOK
<1> QED BY <1>1, <1>2, <1>3, <1>4 DEF IInv, TypeOK

LEMMA DeleteEffect ==
    ASSUME IInv, NEW r \in Requests, Delete(r), users' # users
    PROVE  LET u == req[r].user IN
           /\ u \in Ids /\ users'[u] = None /\ pc'[r] = "Done"
           /\ \A v \in Ids \ {u} : users'[v] = users[v]
<1> DEFINE u == req[r].user
<1>1. Reply(r) /\ users' = [users EXCEPT ![u] = None]
  BY DEF Delete, Refuse, tables
<1>2. u \in Ids
  BY InputOf DEF IInv, OnScript, Delete, At, Input, Op
<1> QED BY <1>1, <1>2 DEF Reply, Answer, IInv, TypeOK

\* Who deletes or demotes the last administrator is another user by the claims,
\* and so none of the administrators there are.
THEOREM AdminRemains == Spec => AdminRemainsUnlessStale
<1>1. ASSUME IInv, [Next]_vars, Admins # {}, Admins' = {}
      PROVE  \E r \in Requests :
                pc'[r] # pc[r] /\ claims[r] # None /\ claims[r].user \notin Admins
  <2>1. PICK a \in Admins : TRUE BY <1>1
  <2>2. a \in Ids /\ users[a] # None /\ users[a].role = "admin" BY DEF Admins
  <2>3. users'[a] = None \/ users'[a].role # "admin" BY <1>1, <2>2 DEF Admins
  <2>4. PICK r \in Requests : Insert(r) \/ Update(r) \/ UpdateRole(r) \/ Delete(r)
    BY <1>1, <2>2, <2>3, UsersChanged
  <2>5. users' # users BY <2>2, <2>3
  <2>6. ~Insert(r)
    BY <1>1, <2>2, <2>3, <2>5, InsertEffect
  <2>7. ~Update(r)
    <3>1. SUFFICES ASSUME Update(r) PROVE FALSE OBVIOUS
    <3>2. users'[a] # users[a] BY <2>2, <2>3
    <3>3. a = req[r].user BY <1>1, <2>2, <2>5, <3>1, <3>2, UpdateEffect
    <3>4. users'[a] \in Row /\ users'[a].role = users[a].role
      BY <1>1, <2>5, <3>1, <3>3, UpdateEffect
    <3> QED BY <2>2, <2>3, <3>4, NoneIsFresh
  <2>8. CASE UpdateRole(r) \/ Delete(r)
    <3>1. req[r].user = a /\ pc'[r] = "Done"
      <4>1. users'[a] # users[a] BY <2>2, <2>3
      <4>2. CASE UpdateRole(r) BY <1>1, <2>2, <2>5, <4>1, <4>2, UpdateRoleEffect
      <4>3. CASE Delete(r) BY <1>1, <2>2, <2>5, <4>1, <4>3, DeleteEffect
      <4> QED BY <2>8, <4>2, <4>3
    <3>2. pc[r] \in {"UpdateRole", "Delete"} /\ Op(r) \in {"role", "delete"}
      BY <1>1, <2>8 DEF UpdateRole, Delete, At, IInv, OnScript
    <3>3. claims[r] # None /\ claims[r].user # a
      BY <1>1, <3>1, <3>2 DEF IInv, OnScript, Public, Admitted, Op
    <3>4. \A v \in Ids \ {a} : users'[v] = users[v]
      BY <1>1, <2>5, <2>8, <3>1, UpdateRoleEffect, DeleteEffect
    <3>5. claims[r].user \notin Admins
      BY <1>1, <3>3, <3>4 DEF Admins
    <3> QED BY <3>1, <3>2, <3>3, <3>5
  <2> QED BY <2>4, <2>6, <2>7, <2>8
<1> QED BY <1>1, InvariantHolds, PTL DEF Spec, AdminRemainsUnlessStale

\* What an Update writes into a column is what the body names, or what was read.
LEMMA WrittenNamed ==
    ASSUME IInv, NEW r \in Requests, At(r, "Update")
    PROVE  /\ req[r].name # None \/ Written(r).name = seen[r].row.name
           /\ req[r].active # None \/ Written(r).active = seen[r].row.active
<1>1. Op(r) \in {"replace", "patch"} /\ req[r] \in Input
  BY InputOf DEF IInv, OnScript, At
<1>2. CASE Op(r) = "replace"
  BY <1>1, <1>2, NoneIsFresh DEF Input, Op
<1>3. CASE Op(r) = "patch"
  <2>1. PICK row : row = seen[r].row OBVIOUS
  <2>2. PICK x : x = [row EXCEPT
            !.name = IF req[r].name = None THEN @ ELSE req[r].name,
            !.active = IF req[r].active = None THEN @ ELSE req[r].active]
    OBVIOUS
  <2>3. row \in Row
    BY <1>3, <2>1 DEF IInv, TypeOK, HasSeen, At, Found
  <2>4. /\ req[r].name = None => x.name = row.name
        /\ req[r].active = None => x.active = row.active
    BY <2>2, <2>3 DEF Row
  <2>5. Written(r) = x
    BY <1>3, <2>1, <2>2 DEF Written, ApplyUserPatch
  <2> QED BY <2>1, <2>4, <2>5
<1> QED BY <1>1, <1>2, <1>3

\* PUT and PATCH write the columns they name, or write back what PATCH has read;
\* the role is written by AssignRole alone.
THEOREM ColumnsKept == Spec => ColumnsChangeAsAsked
<1>1. ASSUME IInv, [Next]_vars, NEW u \in Ids, users[u] # None, users'[u] # None
      PROVE  ChangesAsAsked(u)
  <2>1. CASE users'[u] = users[u] BY <2>1 DEF ChangesAsAsked, Keeps
  <2>2. CASE users'[u] # users[u]
    <3>1. users' # users BY <2>2
    <3>2. PICK r \in Requests : Insert(r) \/ Update(r) \/ UpdateRole(r) \/ Delete(r)
      BY <1>1, <3>1, UsersChanged
    <3>3. ~Insert(r) BY <1>1, <2>2, <3>1, InsertEffect
    <3>4. ~Delete(r) BY <1>1, <2>2, <3>1, DeleteEffect
    <3>5. CASE UpdateRole(r)
      <4>1. u = req[r].user /\ pc'[r] = "Done" BY <1>1, <2>2, <3>1, <3>5, UpdateRoleEffect
      <4>2. /\ users[u] \in Row
            /\ users'[u] = [users[u] EXCEPT !.role = req[r].role]
        BY <1>1, <3>1, <3>5, <4>1, UpdateRoleEffect
      <4>3. users'[u].name = users[u].name /\ users'[u].active = users[u].active
        BY <4>2 DEF Row
      <4> QED BY <3>5, <4>1, <4>3 DEF UpdateRole, ChangesAsAsked, Keeps
    <3>6. CASE Update(r)
      <4>1. u = req[r].user BY <1>1, <2>2, <3>1, <3>6, UpdateEffect
      <4>2. /\ users'[u].name = Written(r).name /\ users'[u].active = Written(r).active
            /\ users'[u].role = users[u].role
        BY <1>1, <3>1, <3>6, <4>1, UpdateEffect
      <4>3. At(r, "Update") BY <3>6 DEF Update
      <4>4. /\ req[r].name # None \/ Written(r).name = seen[r].row.name
            /\ req[r].active # None \/ Written(r).active = seen[r].row.active
        BY <1>1, <4>3, WrittenNamed
      <4>5. \/ users'[u].name = users[u].name
            \/ req[r].name # None \/ seen[r].row.name # users[u].name
        BY <4>2, <4>4
      <4>6. \/ users'[u].active = users[u].active
            \/ req[r].active # None \/ seen[r].row.active # users[u].active
        BY <4>2, <4>4
      <4> QED BY <4>1, <4>2, <4>3, <4>5, <4>6 DEF ChangesAsAsked, Keeps, WritesBack
    <3> QED BY <3>2, <3>3, <3>4, <3>5, <3>6
  <2> QED BY <2>1, <2>2
<1>2. ASSUME IInv, [Next]_vars
      PROVE  \A u \in Ids : users[u] # None /\ users'[u] # None => ChangesAsAsked(u)
  BY <1>1, <1>2
<1> QED BY <1>2, InvariantHolds, PTL DEF Spec, ColumnsChangeAsAsked

-----------------------------------------------------------------------------
(* Accounts implements Sessions.                                            *)

\* Ids of users are never issued twice, and a refresh hands the session on to
\* the owner of the token it was shown.
LEMMA InitSession == Init => SessionInv
<1> SUFFICES ASSUME Init PROVE SessionInv OBVIOUS
<1>1. IInv BY InitIInv
<1>2. \A t \in Ids : tokens[t] # None => tokens[t].user \in SeedUsers
  BY DEF Init
<1>3. \A r \in Requests : pc[r] = "Arrive" /\ seen[r] = None
  BY DEF Init
<1> QED BY <1>1, <1>2, <1>3, IdsApart DEF SessionInv, IdsFresh, SeenOwner, At

\* A request that has not inserted its row is nobody a handler can find.
LEMMA RowOfDone ==
    ASSUME IInv, NEW u \in Requests, pc[u] # "Done"
    PROVE  users[u] = None
BY DEF IInv, OnScript

\* A step in which no token appears and no handler reads a row.
LEMMA SessionKept ==
    ASSUME SessionInv, IInv', NEW r \in Requests, req' = req, seen' = seen,
           \A q \in Requests \ {r} : pc'[q] = pc[q],
           pc[r] # "Done",
           pc'[r] \in {"Revoke", "StoreToken"} /\ Op(r) = "refresh" => pc[r] = "Revoke",
           \A t \in Ids : /\ tokens[t] = None => tokens'[t] = None
                          /\ tokens[t] # None => tokens'[t] # None /\ tokens'[t].user = tokens[t].user
    PROVE  SessionInv'
<1>1. IdsFresh'
  BY DEF SessionInv, IdsFresh
<1>2. ASSUME NEW q \in Requests PROVE SeenOwner(q)'
  <2> SUFFICES ASSUME Op(q) = "refresh", pc'[q] \in {"Revoke", "StoreToken"}
               PROVE  seen[q].id = tokens'[req[q].token].user
    BY DEF SeenOwner, At, Op
  <2>1. pc[q] \in {"Revoke", "StoreToken"}
    OBVIOUS
  <2>2. seen[q].id = tokens[req[q].token].user
    BY <2>1 DEF SessionInv, SeenOwner, At
  <2>3. req[q].token \in Ids /\ tokens[req[q].token] # None
    <3>1. req[q].token \in Ids
      BY InputOf DEF SessionInv, IInv, Input, Op
    <3>2. At(q, "Revoke") => tokens[req[q].token] # None
      BY DEF SessionInv, IInv, HasSeen
    <3>3. At(q, "StoreToken") => tokens[req[q].token] # None
      BY DEF SessionInv, IInv, Spends
    <3> QED BY <2>1, <3>1, <3>2, <3>3 DEF At
  <2> QED BY <2>2, <2>3
<1> QED BY <1>1, <1>2 DEF SessionInv

\* A handler reads the row of a user.
LEMMA SessionRead ==
    ASSUME SessionInv, IInv', NEW r \in Requests, NEW found \in Found,
           users[found.id] # None, seen' = [seen EXCEPT ![r] = found],
           UNCHANGED <<tokens, req>>, pc[r] # "Done",
           \A q \in Requests \ {r} : pc'[q] = pc[q],
           Op(r) = "refresh" /\ pc'[r] \in {"Revoke", "StoreToken"} =>
               found.id = tokens[req[r].token].user
    PROVE  SessionInv'
<1>1. seen'[r] = found /\ \A q \in Requests \ {r} : seen'[q] = seen[q]
  BY DEF SessionInv, IInv, TypeOK
<1>2. \A u \in Requests : pc'[u] # "Done" => pc[u] # "Done"
  OBVIOUS
<1>3. \A u \in Requests : pc[u] # "Done" => found.id # u
  BY RowOfDone DEF SessionInv
<1>4. IdsFresh'
  BY <1>1, <1>2, <1>3 DEF SessionInv, IdsFresh
<1>5. ASSUME NEW q \in Requests PROVE SeenOwner(q)'
  <2>1. CASE q = r
    BY <1>1, <2>1 DEF SeenOwner, At, Op
  <2>2. CASE q # r
    BY <1>1, <2>2 DEF SessionInv, SeenOwner, At, Op
  <2> QED BY <2>1, <2>2
<1> QED BY <1>4, <1>5 DEF SessionInv

\* A request that is answered.
LEMMA SessionAnswered ==
    ASSUME SessionInv, IInv', NEW r \in Requests, NEW o, Answer(r, o), pc[r] # "Done",
           UNCHANGED <<tokens, req, seen>>
    PROVE  SessionInv'
<1>1. pc'[r] = "Done" /\ \A q \in Requests \ {r} : pc'[q] = pc[q]
  BY DEF Answer, SessionInv, IInv, TypeOK
<1> QED BY <1>1, SessionKept

LEMMA StoreTokenSession ==
    ASSUME SessionInv, IInv', NEW r \in Requests, StoreToken(r)
    PROVE  SessionInv'
<1>1. pc[r] = "StoreToken" /\ tokens[r] = None /\ seen[r] \in Found
  BY DEF SessionInv, IInv, TypeOK, OnScript, HasSeen, StoreToken, At
<1>2. CASE Refuse(r, "error")
  BY <1>1, <1>2, SessionAnswered DEF Refuse, tables
<1>3. CASE /\ users[seen[r].id] # None
           /\ tokens' = [tokens EXCEPT ![r] = [user |-> seen[r].id, revokedBy |-> None]]
           /\ (Answer(r, "ok") \/ Answer(r, "error"))
           /\ UNCHANGED <<req, seen>>
  <2>1. pc'[r] = "Done" /\ \A q \in Requests \ {r} : pc'[q] = pc[q]
    BY <1>3 DEF Answer, SessionInv, IInv, TypeOK
  <2>2. /\ tokens'[r].user = seen[r].id
        /\ \A t \in Ids \ {r} : tokens'[t] = tokens[t]
    BY <1>3 DEF SessionInv, IInv, TypeOK, Ids
  <2>3. \A u \in Requests : pc[u] # "Done" => seen[r].id # u
    BY <1>1, <1>3, RowOfDone DEF SessionInv
  <2>4. IdsFresh'
    BY <1>3, <2>1, <2>2, <2>3 DEF SessionInv, IdsFresh
  <2>5. ASSUME NEW q \in Requests PROVE SeenOwner(q)'
    <3> SUFFICES ASSUME Op(q) = "refresh", pc'[q] \in {"Revoke", "StoreToken"}
                 PROVE  seen[q].id = tokens'[req[q].token].user
      BY <1>3 DEF SeenOwner, At, Op
    <3>1. q # r /\ pc'[q] = pc[q]
      BY <2>1
    <3>2. req[q].token \in Ids /\ tokens[req[q].token] # None
      BY <3>1, InputOf DEF SessionInv, IInv, HasSeen, Spends, At, Input, Op
    <3>3. req[q].token # r
      BY <1>1, <3>2
    <3> QED BY <2>2, <3>1, <3>2, <3>3 DEF SessionInv, SeenOwner, At
  <2> QED BY <2>4, <2>5 DEF SessionInv
<1> QED BY <1>2, <1>3 DEF StoreToken

LEMMA RevokeSession ==
    ASSUME SessionInv, IInv', NEW r \in Requests, Revoke(r)
    PROVE  SessionInv'
<1>1. pc[r] = "Revoke" /\ Op(r) \in {"refresh", "logout"} /\ req[r].token \in Ids
  BY InputOf DEF SessionInv, IInv, OnScript, Revoke, At, Input, Op
<1>2. CASE Refuse(r, "error")
  BY <1>1, <1>2, SessionAnswered DEF Refuse, tables
<1>3. CASE /\ Stored(req[r].token)
           /\ tokens' = [tokens EXCEPT ![req[r].token].revokedBy = r]
           /\ (Reply(r) \/ Answer(r, "error") \/ Proceed(r))
           /\ UNCHANGED <<req, seen>>
  <2>1. \A t \in Ids : /\ tokens[t] = None => tokens'[t] = None
                       /\ tokens[t] # None => /\ tokens'[t] # None
                                              /\ tokens'[t].user = tokens[t].user
    <3>1. tokens[req[r].token] \in Token
      BY <1>1, <1>3 DEF SessionInv, IInv, TypeOK, Stored
    <3>2. PICK w : w = [tokens[req[r].token] EXCEPT !.revokedBy = r]
      OBVIOUS
    <3>3. w \in Token /\ w.user = tokens[req[r].token].user
      BY <3>1, <3>2 DEF Token
    <3>4. w # None
      BY <3>3, NoneIsFresh
    <3>5. tokens' = [tokens EXCEPT ![req[r].token] = w]
      BY <1>3, <3>2
    <3> QED BY <1>1, <1>3, <3>3, <3>4, <3>5 DEF SessionInv, IInv, TypeOK, Stored
  <2>2. \A q \in Requests \ {r} : pc'[q] = pc[q]
    BY <1>3 DEF Reply, Answer, Proceed, SessionInv, IInv, TypeOK
  <2> QED BY <1>1, <1>3, <2>1, <2>2, SessionKept
<1> QED BY <1>2, <1>3 DEF Revoke

\* Statements that read nothing into the handler.
LEMMA EnterSession ==
    ASSUME SessionInv, IInv', NEW r \in Requests, Arrive(r) \/ FindActive(r)
    PROVE  SessionInv'
<1>1. /\ pc[r] \in {"Arrive", "FindActive"}
      /\ pc[r] = "FindActive" => Op(r) \in {"refresh", "logout"}
      /\ UNCHANGED <<tokens, req, seen>>
  BY DEF SessionInv, IInv, OnScript, Arrive, FindActive, At, Enter, Refuse, tables
<1>2. CASE \E o : Answer(r, o)
  BY <1>1, <1>2, SessionAnswered
<1>3. CASE Proceed(r)
  <2>1. pc'[r] = Script(Op(r))[pc[r]] /\ \A q \in Requests \ {r} : pc'[q] = pc[q]
    BY <1>3 DEF Proceed, SessionInv, IInv, TypeOK
  <2>2. Op(r) = "refresh" => pc'[r] \notin {"Revoke", "StoreToken"}
    BY <1>1, <2>1, Following
  <2> QED BY <1>1, <2>1, <2>2, SessionKept
<1> QED BY <1>2, <1>3 DEF Arrive, FindActive, Enter, Refuse

LEMMA FindByUsernameSession ==
    ASSUME SessionInv, IInv', NEW r \in Requests, FindByUsername(r)
    PROVE  SessionInv'
<1>1. pc[r] = "FindByUsername" /\ Op(r) = "login"
  BY DEF SessionInv, IInv, OnScript, FindByUsername, At
<1>2. CASE Refuse(r, "unauthorized")
  BY <1>1, <1>2, SessionAnswered DEF Refuse, tables
<1>3. ASSUME NEW u \in Ids, users[u] # None,
             seen' = [seen EXCEPT ![r] = [id |-> u, row |-> users[u]]],
             Proceed(r), UNCHANGED <<tables, access, req, claims>>
      PROVE  SessionInv'
  <2>1. PICK found : found = [id |-> u, row |-> users[u]]
    OBVIOUS
  <2>2. found \in Found /\ found.id = u
    BY <1>3, <2>1 DEF SessionInv, IInv, TypeOK, Found
  <2>3. \A q \in Requests \ {r} : pc'[q] = pc[q]
    BY <1>3 DEF Proceed, SessionInv, IInv, TypeOK
  <2> QED BY <1>1, <1>3, <2>1, <2>2, <2>3, SessionRead DEF tables
<1> QED BY <1>2, <1>3 DEF FindByUsername

LEMMA FindOwnerSession ==
    ASSUME SessionInv, IInv', NEW r \in Requests, FindOwner(r)
    PROVE  SessionInv'
<1> DEFINE u == tokens[req[r].token].user
<1>1. pc[r] = "FindOwner" /\ Op(r) = "refresh"
  BY DEF SessionInv, IInv, OnScript, FindOwner, At
<1>2. CASE Refuse(r, "unauthorized")
  BY <1>1, <1>2, SessionAnswered DEF Refuse, tables
<1>3. CASE /\ users[u] # None
           /\ seen' = [seen EXCEPT ![r] = [id |-> u, row |-> users[u]]]
           /\ Proceed(r)
           /\ UNCHANGED <<tables, access, req, claims>>
  <2>1. PICK found : found = [id |-> u, row |-> users[u]]
    OBVIOUS
  <2>2. u \in Ids
    <3>1. req[r].token \in Ids /\ tokens[req[r].token] # None
      BY <1>1, InputOf DEF SessionInv, IInv, HasSeen, At, Input, Op
    <3> QED BY <3>1 DEF SessionInv, IInv, TypeOK, Token
  <2>3. found \in Found /\ found.id = u
    BY <1>3, <2>1, <2>2 DEF SessionInv, IInv, TypeOK, Found
  <2>4. \A q \in Requests \ {r} : pc'[q] = pc[q]
    BY <1>3 DEF Proceed, SessionInv, IInv, TypeOK
  <2> QED BY <1>1, <1>3, <2>1, <2>3, <2>4, SessionRead DEF tables
<1> QED BY <1>2, <1>3 DEF FindOwner

LEMMA FindUserSession ==
    ASSUME SessionInv, IInv', NEW r \in Requests, FindUser(r)
    PROVE  SessionInv'
<1> DEFINE u == IF Op(r) = "me" THEN claims[r].user ELSE req[r].user
<1>1. pc[r] = "FindUser" /\ Op(r) \in {"me", "get", "patch"}
  BY DEF SessionInv, IInv, OnScript, FindUser, At
<1>2. ASSUME NEW o, Refuse(r, o) PROVE SessionInv'
  BY <1>1, <1>2, SessionAnswered DEF Refuse, tables
<1>3. CASE /\ users[u] # None
           /\ seen' = [seen EXCEPT ![r] = [id |-> u, row |-> users[u]]]
           /\ (Proceed(r) \/ Answer(r, "ok"))
           /\ UNCHANGED <<tables, access, req, claims>>
  <2>1. PICK found : found = [id |-> u, row |-> users[u]]
    OBVIOUS
  <2>2. u \in Ids
    <3>1. Op(r) = "me" => claims[r] \in Claims
      BY <1>1 DEF SessionInv, IInv, OnScript, TypeOK, Public
    <3>2. Op(r) # "me" => req[r].user \in Ids
      BY <1>1, InputOf DEF SessionInv, IInv, Input, Op
    <3> QED BY <3>1, <3>2 DEF Claims
  <2>3. found \in Found /\ found.id = u
    BY <1>3, <2>1, <2>2 DEF SessionInv, IInv, TypeOK, Found
  <2>4. \A q \in Requests \ {r} : pc'[q] = pc[q]
    BY <1>3 DEF Proceed, Answer, SessionInv, IInv, TypeOK
  <2> QED BY <1>1, <1>3, <2>1, <2>3, <2>4, SessionRead DEF tables
<1> QED BY <1>2, <1>3 DEF FindUser

LEMMA WriteSession ==
    ASSUME SessionInv, IInv', NEW r \in Requests,
           Insert(r) \/ Update(r) \/ UpdateRole(r) \/ Delete(r)
    PROVE  SessionInv'
<1>1. pc[r] # "Done" /\ UNCHANGED <<tokens, req, seen>>
  BY DEF Insert, Update, UpdateRole, Delete, At, Refuse, tables
<1>2. \E o : Answer(r, o)
  BY DEF Insert, Update, UpdateRole, Delete, Reply, Refuse
<1> QED BY <1>1, <1>2, SessionAnswered

LEMMA NextSession == SessionInv /\ [Next]_vars => SessionInv'
<1> SUFFICES ASSUME SessionInv, [Next]_vars PROVE SessionInv' OBVIOUS
<1>1. IInv' BY NextIInv DEF SessionInv
<1>2. ASSUME NEW r \in Requests, Statement(r) PROVE SessionInv'
  BY <1>1, <1>2, EnterSession, FindByUsernameSession, FindOwnerSession, RevokeSession,
     StoreTokenSession, FindUserSession, WriteSession DEF Statement
<1>3. ASSUME NEW r \in Requests, Interrupt(r) PROVE SessionInv'
  BY <1>1, <1>3, SessionAnswered DEF Interrupt, Running, Refuse, tables
<1>4. CASE UNCHANGED <<tokens, req, pc, seen>>
  BY <1>1, <1>4 DEF SessionInv, IdsFresh, SeenOwner, At, Op
<1> QED BY <1>2, <1>3, <1>4 DEF Next, AllAnswered, Expire, vars, tables

\* At the beginning every seeded user has an account and one token.
LEMMA InitRefines == Init => Abstract!Init
<1> SUFFICES ASSUME Init PROVE Abstract!Init OBVIOUS
<1>1. \A u \in Ids : users[u] # None <=> u \in SeedUsers
  <2>1. \A u \in SeedUsers : SeedRow[u] # None
    BY SeedValid, NoneIsFresh
  <2> QED BY <2>1 DEF Init
<1>2. Members = SeedUsers
  BY <1>1 DEF Members, Ids
<1>3. \A t \in Ids : Owner[t] = IF t \in SeedUsers THEN t ELSE None
  <2>1. \A t \in SeedUsers : [user |-> t, revokedBy |-> None] # None
    BY NoneIsFresh DEF Token, Ids
  <2> QED BY <2>1 DEF Init, Owner
<1>4. Owner \in [Ids -> Members \cup {None}]
  BY <1>2, <1>3 DEF Owner
<1>5. None \notin Ids
  BY NoneIsFresh
<1>6. Open = {t \in Ids : Owner[t] # None}
  <2>1. ASSUME NEW t \in Ids PROVE t \in Open <=> t \in SeedUsers
    <3>1. CASE t \in SeedUsers
      <4>1. tokens[t] = [user |-> t, revokedBy |-> None] /\ tokens[t] # None
        BY <3>1, NoneIsFresh DEF Init, Token, Ids
      <4> QED BY <1>1, <3>1, <4>1 DEF Open, Stored
    <3>2. CASE t \notin SeedUsers
      BY <3>2 DEF Init, Open, Stored
    <3> QED BY <3>1, <3>2
  <2>2. \A t \in Ids : Owner[t] # None <=> t \in SeedUsers
    BY <1>3, <1>5
  <2> QED BY <2>1, <2>2 DEF Open
<1>7. Exchanged = {}
  BY DEF Init, Exchanged, Exchanges, At
<1>8. Admittees = Members
  <2>1. \A c \in access : c.user \in SeedUsers
    BY DEF Init
  <2>2. ASSUME NEW u \in SeedUsers PROVE \E c \in access : c.user = u
    <3>1. [user |-> u, role |-> SeedRow[u].role] \in access
      BY DEF Init
    <3> QED BY <3>1
  <2> QED BY <1>2, <2>1, <2>2 DEF Admittees
<1>9. Members \in SUBSET Ids
  BY DEF Members
<1> QED BY <1>4, <1>6, <1>7, <1>8, <1>9 DEF Abstract!Init

\* A step that opens and closes no account and touches no token.
LEMMA SessionsStay ==
    ASSUME TypeOK, UNCHANGED <<tokens, access>>, Members' = Members, Exchanged' = Exchanged
    PROVE  UNCHANGED Abstract!vars
<1>1. Owner' = Owner /\ Admittees' = Admittees
  BY DEF Owner, Admittees
<1>2. ASSUME NEW t \in Ids PROVE Stored(t)' <=> Stored(t)
  <2>1. CASE tokens[t] = None
    BY <2>1 DEF Stored
  <2>2. CASE tokens[t] # None
    <3>1. tokens[t].user \in Ids
      BY <2>2 DEF TypeOK, Token
    <3>2. users'[tokens[t].user] # None <=> users[tokens[t].user] # None
      BY <3>1 DEF Members
    <3> QED BY <2>2, <3>2 DEF Stored
  <2> QED BY <2>1, <2>2
<1>3. Open' = Open
  BY <1>2 DEF Open
<1> QED BY <1>1, <1>3 DEF Abstract!vars

\* What has become of the tokens given up: a step of one request moves its own
\* token only, and two requests never wait for a successor of the same one.
LEMMA ExchangedStays ==
    ASSUME NEW r \in Requests, req' = req, \A q \in Requests \ {r} : pc'[q] = pc[q],
           Op(r) = "refresh" => (pc[r] = "StoreToken" <=> pc'[r] = "StoreToken")
    PROVE  Exchanged' = Exchanged
<1>1. \A q \in Requests, t \in Ids : Exchanges(q, t)' <=> Exchanges(q, t)
  BY DEF Exchanges, At, Op
<1> QED BY <1>1 DEF Exchanged

LEMMA ExchangesOnce ==
    ASSUME IInv, NEW r \in Requests, NEW q \in Requests, NEW t \in Ids,
           Exchanges(r, t), Exchanges(q, t)
    PROVE  r = q
BY DEF IInv, Spends, Exchanges

LEMMA ExchangedLeft ==
    ASSUME IInv, NEW r \in Requests, req' = req, \A q \in Requests \ {r} : pc'[q] = pc[q],
           Op(r) = "refresh", pc[r] = "StoreToken", pc'[r] = "Done"
    PROVE  /\ req[r].token \in Exchanged
           /\ Exchanged' = Exchanged \ {req[r].token}
<1>1. req[r].token \in Ids /\ Exchanges(r, req[r].token)
  BY InputOf DEF IInv, Input, Op, Exchanges, At
<1>2. ~Exchanges(r, req[r].token)' /\ \A t \in Ids : ~Exchanges(r, t)'
  BY DEF Exchanges, At
<1>3. \A q \in Requests \ {r}, t \in Ids : Exchanges(q, t)' <=> Exchanges(q, t)
  BY DEF Exchanges, At, Op
<1>4. \A q \in Requests \ {r} : ~Exchanges(q, req[r].token)
  BY <1>1, ExchangesOnce
<1>5. \A t \in Ids : Exchanges(r, t) => t = req[r].token
  BY DEF Exchanges
<1> QED BY <1>1, <1>2, <1>3, <1>4, <1>5 DEF Exchanged

LEMMA ExchangedEntered ==
    ASSUME NEW r \in Requests, req' = req, \A q \in Requests \ {r} : pc'[q] = pc[q],
           Op(r) = "refresh", req[r].token \in Ids, pc[r] = "Revoke", pc'[r] = "StoreToken"
    PROVE  Exchanged' = Exchanged \cup {req[r].token}
<1>1. \A t \in Ids : /\ ~Exchanges(r, t)
                     /\ Exchanges(r, t)' <=> t = req[r].token
  BY DEF Exchanges, At, Op
<1>2. \A q \in Requests \ {r}, t \in Ids : Exchanges(q, t)' <=> Exchanges(q, t)
  BY DEF Exchanges, At, Op
<1> QED BY <1>1, <1>2 DEF Exchanged

\* A refused or interrupted refresh that has revoked its token gives it up.
LEMMA RefusedStep ==
    ASSUME IInv, NEW r \in Requests, NEW o, Refuse(r, o), pc[r] # "Done"
    PROVE  Abstract!Next \/ UNCHANGED Abstract!vars
<1>1. /\ pc'[r] = "Done" /\ \A q \in Requests \ {r} : pc'[q] = pc[q]
      /\ UNCHANGED <<users, tokens, access, req>>
  BY DEF Refuse, Answer, tables, IInv, TypeOK
<1>2. UNCHANGED <<Members, Owner, Open, Admittees>>
  BY <1>1 DEF Members, Owner, Open, Stored, Admittees
<1>3. CASE Op(r) = "refresh" /\ pc[r] = "StoreToken"
  <2>1. req[r].token \in Exchanged /\ Exchanged' = Exchanged \ {req[r].token}
    BY <1>1, <1>3, ExchangedLeft
  <2>2. Abstract!GiveUp(req[r].token)
    BY <1>2, <2>1 DEF Abstract!GiveUp
  <2> QED BY <2>1, <2>2 DEF Abstract!Next
<1>4. CASE ~(Op(r) = "refresh" /\ pc[r] = "StoreToken")
  <2>1. Exchanged' = Exchanged
    BY <1>1, <1>4, ExchangedStays
  <2> QED BY <1>2, <2>1 DEF Abstract!vars
<1> QED BY <1>3, <1>4

\* A statement that reads a row, or lets a request pass.
LEMMA ReadStep ==
    ASSUME IInv, NEW r \in Requests, UNCHANGED <<users, tokens, access, req>>,
           pc[r] \notin {"StoreToken", "Done"}, Op(r) = "refresh" => pc[r] # "Revoke",
           Proceed(r) \/ Answer(r, "ok")
    PROVE  Abstract!Next \/ UNCHANGED Abstract!vars
<1>1. \A q \in Requests \ {r} : pc'[q] = pc[q]
  BY DEF Proceed, Answer, IInv, TypeOK
<1>2. Op(r) = "refresh" => pc'[r] # "StoreToken"
  <2>1. pc'[r] \in {"Done", Script(Op(r))[pc[r]]}
    BY DEF Proceed, Answer, IInv, TypeOK
  <2>2. CASE Op(r) = "refresh"
    <3>1. pc[r] \in {"Arrive", "FindActive", "FindOwner"}
      BY <2>2 DEF IInv, TypeOK, OnScript, At, Statements
    <3>2. Script("refresh")["Arrive"] # "StoreToken"
          /\ Script("refresh")["FindActive"] # "StoreToken"
          /\ Script("refresh")["FindOwner"] # "StoreToken"
      BY DEF Script, RefreshScript
    <3> QED BY <2>1, <2>2, <3>1, <3>2
  <2> QED BY <2>2
<1>3. Exchanged' = Exchanged
  BY <1>1, <1>2, ExchangedStays
<1> QED BY <1>3, SessionsStay DEF Members, IInv

\* The new token: a sign-in, or the successor of the token given up, issued to
\* the same user.
LEMMA StoreTokenStep ==
    ASSUME SessionInv, NEW r \in Requests, StoreToken(r)
    PROVE  Abstract!Next \/ UNCHANGED Abstract!vars
<1> DEFINE u == seen[r].id
<1>1. CASE Refuse(r, "error")
  BY <1>1, RefusedStep DEF SessionInv, StoreToken, At
<1>2. CASE /\ users[u] # None
           /\ tokens' = [tokens EXCEPT ![r] = [user |-> u, revokedBy |-> None]]
           /\ \/ /\ Answer(r, "ok")
                 /\ access' = access \cup {[user |-> u, role |-> seen[r].row.role]}
              \/ Answer(r, "error") /\ UNCHANGED access
           /\ UNCHANGED <<users, expired, req, claims, seen>>
  <2>1. /\ Op(r) \in {"login", "refresh"} /\ pc[r] = "StoreToken" /\ tokens[r] = None
        /\ r \in Ids /\ seen[r] \in Found
    BY DEF SessionInv, IInv, TypeOK, OnScript, HasSeen, StoreToken, At, Ids
  <2>2. u \in Members /\ Members' = Members
    BY <1>2, <2>1 DEF Found, Members
  <2>3. PICK w : w = [user |-> u, revokedBy |-> None]
    OBVIOUS
  <2>4. w # None /\ w.user = u /\ w.revokedBy = None
    BY <2>1, <2>3, NoneIsFresh DEF Token, Found
  <2>5. tokens'[r] = w /\ \A t \in Ids \ {r} : tokens'[t] = tokens[t]
    BY <1>2, <2>1, <2>3 DEF SessionInv, IInv, TypeOK
  <2>6. Owner[r] = None /\ Owner' = [Owner EXCEPT ![r] = u]
    BY <2>1, <2>4, <2>5 DEF Owner
  <2>7. Open' = Open \cup {r}
    <3>1. r \in Open'
      BY <1>2, <2>1, <2>4, <2>5 DEF Open, Stored
    <3>2. \A t \in Ids \ {r} : t \in Open' <=> t \in Open
      BY <1>2, <2>5 DEF Open, Stored
    <3> QED BY <3>1, <3>2 DEF Open
  <2>8. Admittees' \in {Admittees, Admittees \cup {u}}
    <3>1. CASE access' = access
      BY <3>1 DEF Admittees
    <3>2. CASE access' = access \cup {[user |-> u, role |-> seen[r].row.role]}
      BY <3>2 DEF Admittees
    <3> QED BY <1>2, <3>1, <3>2
  <2>9. ASSUME NEW holders, u \in holders PROVE Abstract!Issue(r, holders)
    BY <2>2, <2>6, <2>7, <2>8, <2>9 DEF Abstract!Issue
  <2>10. pc'[r] = "Done" /\ \A q \in Requests \ {r} : pc'[q] = pc[q]
    BY <1>2 DEF Answer, SessionInv, IInv, TypeOK
  <2>11. CASE Op(r) = "login"
    <3>1. Exchanged' = Exchanged
      BY <1>2, <2>10, <2>11, ExchangedStays
    <3>2. Abstract!SignIn(r)
      BY <2>2, <2>9, <3>1 DEF Abstract!SignIn
    <3> QED BY <2>1, <2>2, <3>2 DEF Abstract!Next
  <2>12. CASE Op(r) = "refresh"
    <3>1. /\ req[r].token \in Exchanged
          /\ Exchanged' = Exchanged \ {req[r].token}
      BY <1>2, <2>1, <2>10, <2>12, ExchangedLeft DEF SessionInv
    <3>2. Owner[req[r].token] = u
      <4>1. u = tokens[req[r].token].user
        BY <2>1, <2>12 DEF SessionInv, SeenOwner, At
      <4>2. req[r].token \in Ids
        BY <3>1 DEF Exchanged
      <4>3. tokens[req[r].token] # None
        BY <2>1, <2>12 DEF SessionInv, IInv, Spends, At
      <4> QED BY <4>1, <4>2, <4>3 DEF Owner
    <3>3. Abstract!Renew(req[r].token, r)
      BY <2>2, <2>9, <3>1, <3>2 DEF Abstract!Renew
    <3> QED BY <2>1, <3>1, <3>3 DEF Abstract!Next
  <2> QED BY <2>1, <2>11, <2>12
<1> QED BY <1>1, <1>2 DEF StoreToken

\* The one UPDATE that finds the token unrevoked ends its turn.
LEMMA RevokeStep ==
    ASSUME SessionInv, NEW r \in Requests, Revoke(r)
    PROVE  Abstract!Next \/ UNCHANGED Abstract!vars
<1> DEFINE t == req[r].token
<1>1. CASE Refuse(r, "error")
  BY <1>1, RefusedStep DEF SessionInv, Revoke, At
<1>2. CASE /\ Stored(t) /\ tokens[t].revokedBy = None
           /\ tokens' = [tokens EXCEPT ![t].revokedBy = r]
           /\ \/ Op(r) = "logout" /\ Reply(r)
              \/ Op(r) = "refresh" /\ Answer(r, "error")
              \/ Op(r) = "refresh" /\ Proceed(r)
           /\ UNCHANGED <<users, expired, access, req, claims, seen>>
  <2>1. pc[r] = "Revoke" /\ Op(r) \in {"refresh", "logout"} /\ t \in Ids
    BY InputOf DEF SessionInv, IInv, OnScript, Revoke, At, Input, Op
  <2>2. tokens[t] \in Token
    BY <1>2, <2>1 DEF SessionInv, IInv, TypeOK, Stored
  <2>3. PICK w : w = [tokens[t] EXCEPT !.revokedBy = r]
    OBVIOUS
  <2>4. w \in Token /\ w.user = tokens[t].user /\ w.revokedBy = r
    BY <2>2, <2>3 DEF Token
  <2>5. w # None /\ r # None
    BY <2>4, NoneIsFresh DEF Ids
  <2>6. tokens' = [tokens EXCEPT ![t] = w]
    BY <1>2, <2>3
  <2>7. tokens'[t] = w /\ \A s \in Ids \ {t} : tokens'[s] = tokens[s]
    BY <2>1, <2>6 DEF SessionInv, IInv, TypeOK
  <2>8. Owner' = Owner
    BY <1>2, <2>4, <2>5, <2>7 DEF Owner, Stored
  <2>9. t \in Open /\ Open' = Open \ {t}
    <3>1. t \in Open
      BY <1>2, <2>1 DEF Open
    <3>2. t \notin Open'
      BY <2>4, <2>5, <2>7 DEF Open
    <3>3. \A s \in Ids \ {t} : s \in Open' <=> s \in Open
      BY <1>2, <2>7 DEF Open, Stored
    <3> QED BY <3>1, <3>2, <3>3 DEF Open
  <2>10. Members' = Members /\ Admittees' = Admittees
    BY <1>2 DEF Members, Admittees
  <2>11. CASE \E o : Answer(r, o)
    <3>1. pc'[r] = "Done" /\ \A q \in Requests \ {r} : pc'[q] = pc[q]
      BY <2>11 DEF Answer, SessionInv, IInv, TypeOK
    <3>2. Exchanged' = Exchanged
      BY <1>2, <2>1, <3>1, ExchangedStays
    <3>3. Abstract!SignOut(t)
      BY <2>8, <2>9, <2>10, <3>2 DEF Abstract!SignOut
    <3> QED BY <2>9, <3>3 DEF Abstract!Next
  <2>12. CASE Op(r) = "refresh" /\ Proceed(r)
    <3>1. pc'[r] = "StoreToken" /\ \A q \in Requests \ {r} : pc'[q] = pc[q]
      BY <2>1, <2>12, NextAt DEF Proceed, SessionInv, IInv, TypeOK
    <3>2. Exchanged' = Exchanged \cup {t}
      BY <1>2, <2>1, <2>12, <3>1, ExchangedEntered
    <3>3. Abstract!Exchange(t)
      BY <2>8, <2>9, <2>10, <3>2 DEF Abstract!Exchange
    <3> QED BY <2>9, <3>3 DEF Abstract!Next
  <2> QED BY <1>2, <2>11, <2>12 DEF Reply
<1> QED BY <1>1, <1>2 DEF Revoke

\* A write to table users that is answered.
LEMMA WriteStays ==
    ASSUME IInv, NEW r \in Requests, pc[r] \in {"Insert", "Update", "UpdateRole", "Delete"},
           Reply(r), UNCHANGED <<tokens, access, req>>
    PROVE  Exchanged' = Exchanged /\ UNCHANGED <<Owner, Admittees>>
<1>1. pc'[r] = "Done" /\ \A q \in Requests \ {r} : pc'[q] = pc[q]
  BY DEF Reply, Answer, IInv, TypeOK
<1> QED BY <1>1, ExchangedStays DEF Owner, Admittees

\* Nobody owns a token, open or not, before his account is opened.
LEMMA InsertStep ==
    ASSUME SessionInv, NEW r \in Requests, Insert(r)
    PROVE  Abstract!Next \/ UNCHANGED Abstract!vars
<1>1. CASE Refuse(r, "conflict")
  BY <1>1, RefusedStep DEF SessionInv, Insert, At
<1>2. CASE /\ users' = [users EXCEPT ![r] = [name |-> req[r].name, active |-> TRUE, role |-> "user"]]
           /\ Reply(r)
           /\ UNCHANGED <<tokens, expired, access, req, claims, seen>>
  <2>1. pc[r] = "Insert" /\ users[r] = None /\ r \in Ids /\ req[r].name \in Names
    BY InputOf DEF SessionInv, IInv, OnScript, Insert, At, Input, Op, Ids
  <2>2. PICK w : w = [name |-> req[r].name, active |-> TRUE, role |-> "user"]
    OBVIOUS
  <2>3. w # None
    <3>1. w \in Row
      BY <2>1, <2>2 DEF Row, Roles
    <3> QED BY <3>1, NoneIsFresh
  <2>4. users'[r] = w /\ \A v \in Ids \ {r} : users'[v] = users[v]
    BY <1>2, <2>1, <2>2 DEF SessionInv, IInv, TypeOK
  <2>5. r \in Ids \ Members /\ Members' = Members \cup {r}
    BY <2>1, <2>3, <2>4 DEF Members
  <2>6. ASSUME NEW t \in Ids PROVE Stored(t)' <=> Stored(t)
    <3>1. tokens[t] # None => tokens[t].user \in Ids \ {r}
      BY <2>1 DEF SessionInv, IdsFresh, IInv, TypeOK, Token
    <3> QED BY <1>2, <2>4, <3>1 DEF Stored
  <2>7. Open' = Open
    BY <1>2, <2>6 DEF Open
  <2>8. Exchanged' = Exchanged /\ UNCHANGED <<Owner, Admittees>>
    BY <1>2, <2>1, WriteStays DEF SessionInv
  <2>9. Abstract!OpenAccount(r)
    BY <2>5, <2>7, <2>8 DEF Abstract!OpenAccount
  <2> QED BY <2>5, <2>9 DEF Abstract!Next
<1> QED BY <1>1, <1>2 DEF Insert

LEMMA ChangeStep ==
    ASSUME SessionInv, NEW r \in Requests, Update(r) \/ UpdateRole(r)
    PROVE  Abstract!Next \/ UNCHANGED Abstract!vars
<1> DEFINE u == req[r].user
<1>1. ASSUME NEW o, Refuse(r, o) PROVE Abstract!Next \/ UNCHANGED Abstract!vars
  BY <1>1, RefusedStep DEF SessionInv, Update, UpdateRole, At
<1>2. CASE /\ users[u] # None
           /\ u \in Ids => users'[u] \in Row
           /\ \A v \in Ids \ {u} : users'[v] = users[v]
           /\ Reply(r)
           /\ UNCHANGED <<tokens, expired, access, req, claims, seen>>
  <2>1. pc[r] \in {"Update", "UpdateRole"}
    BY DEF Update, UpdateRole, At
  <2>2. \A v \in Ids : users'[v] # None <=> users[v] # None
    BY <1>2, NoneIsFresh
  <2>3. Members' = Members
    BY <2>2 DEF Members
  <2>4. Exchanged' = Exchanged
    BY <1>2, <2>1, WriteStays DEF SessionInv
  <2> QED BY <1>2, <2>3, <2>4, SessionsStay DEF SessionInv, IInv
<1>3. CASE users[u] # None /\ Reply(r) /\ UNCHANGED <<tokens, expired, access, req, claims, seen>>
  <2>1. CASE users' = users
    <3>1. u \in Ids => users'[u] \in Row
      BY <1>3, <2>1 DEF SessionInv, IInv, TypeOK
    <3> QED BY <1>2, <1>3, <2>1, <3>1
  <2>2. CASE users' # users /\ Update(r)
    <3>1. users'[u] \in Row /\ \A v \in Ids \ {u} : users'[v] = users[v]
      BY <2>2, UpdateEffect DEF SessionInv
    <3> QED BY <1>2, <1>3, <3>1
  <2>3. CASE users' # users /\ UpdateRole(r)
    <3>1. /\ users[u] \in Row /\ users'[u] = [users[u] EXCEPT !.role = req[r].role]
          /\ \A v \in Ids \ {u} : users'[v] = users[v]
      BY <2>3, UpdateRoleEffect DEF SessionInv
    <3>2. req[r].role \in Roles
      BY <2>3, InputOf DEF SessionInv, IInv, OnScript, UpdateRole, At, Input, Op
    <3>3. users'[u] \in Row
      BY <3>1, <3>2 DEF Row
    <3> QED BY <1>2, <1>3, <3>1, <3>3
  <2> QED BY <2>1, <2>2, <2>3
<1> QED BY <1>1, <1>3 DEF Update, UpdateRole

\* With the row of a user go the tokens that were issued to him.
LEMMA DeleteStep ==
    ASSUME SessionInv, NEW r \in Requests, Delete(r)
    PROVE  Abstract!Next \/ UNCHANGED Abstract!vars
<1> DEFINE u == req[r].user
<1>1. CASE Refuse(r, "not_found")
  BY <1>1, RefusedStep DEF SessionInv, Delete, At
<1>2. CASE /\ users[u] # None
           /\ users' = [users EXCEPT ![u] = None]
           /\ Reply(r)
           /\ UNCHANGED <<tokens, expired, access, req, claims, seen>>
  <2>1. pc[r] = "Delete" /\ u \in Ids
    BY InputOf DEF SessionInv, IInv, OnScript, Delete, At, Input, Op
  <2>2. users'[u] = None /\ \A v \in Ids \ {u} : users'[v] = users[v]
    BY <1>2, <2>1 DEF SessionInv, IInv, TypeOK
  <2>3. u \in Members /\ Members' = Members \ {u}
    BY <1>2, <2>1, <2>2 DEF Members
  <2>4. Open' = {t \in Open : Owner[t] # u}
    <3>1. ASSUME NEW t \in Ids PROVE t \in Open' <=> t \in Open /\ Owner[t] # u
      <4>1. CASE tokens[t] = None
        BY <1>2, <4>1 DEF Open, Stored
      <4>2. CASE tokens[t] # None
        <5>1. tokens[t].user \in Ids /\ Owner[t] = tokens[t].user
          BY <4>2 DEF SessionInv, IInv, TypeOK, Token, Owner
        <5> QED BY <1>2, <2>2, <5>1 DEF Open, Stored
      <4> QED BY <4>1, <4>2
    <3> QED BY <3>1 DEF Open
  <2>5. Exchanged' = Exchanged /\ UNCHANGED <<Owner, Admittees>>
    BY <1>2, <2>1, WriteStays DEF SessionInv
  <2>6. Abstract!CloseAccount(u)
    BY <2>3, <2>4, <2>5 DEF Abstract!CloseAccount
  <2> QED BY <2>3, <2>6 DEF Abstract!Next
<1> QED BY <1>1, <1>2 DEF Delete

\* Statements that leave all tables alone.
LEMMA ArriveStep ==
    ASSUME IInv, NEW r \in Requests, Arrive(r) \/ FindActive(r)
    PROVE  Abstract!Next \/ UNCHANGED Abstract!vars
<1>1. pc[r] \in {"Arrive", "FindActive"}
  BY DEF Arrive, FindActive, At
<1>2. ASSUME NEW o, Refuse(r, o) PROVE Abstract!Next \/ UNCHANGED Abstract!vars
  BY <1>1, <1>2, RefusedStep
<1>3. CASE Proceed(r) /\ UNCHANGED <<users, tokens, access, req>>
  BY <1>1, <1>3, ReadStep
<1> QED BY <1>2, <1>3 DEF Arrive, FindActive, Enter, tables

LEMMA FindStep ==
    ASSUME IInv, NEW r \in Requests, FindByUsername(r) \/ FindOwner(r) \/ FindUser(r)
    PROVE  Abstract!Next \/ UNCHANGED Abstract!vars
<1>1. pc[r] \in {"FindByUsername", "FindOwner", "FindUser"}
  BY DEF FindByUsername, FindOwner, FindUser, At
<1>2. ASSUME NEW o, Refuse(r, o) PROVE Abstract!Next \/ UNCHANGED Abstract!vars
  BY <1>1, <1>2, RefusedStep
<1>3. CASE (Proceed(r) \/ Answer(r, "ok")) /\ UNCHANGED <<users, tokens, access, req>>
  BY <1>1, <1>3, ReadStep
<1> QED BY <1>2, <1>3 DEF FindByUsername, FindOwner, FindUser, tables

LEMMA NextRefines == SessionInv /\ [Next]_vars => Abstract!Next \/ UNCHANGED Abstract!vars
<1> SUFFICES ASSUME SessionInv, [Next]_vars
             PROVE  Abstract!Next \/ UNCHANGED Abstract!vars
  OBVIOUS
<1>1. ASSUME NEW r \in Requests, Statement(r) PROVE Abstract!Next \/ UNCHANGED Abstract!vars
  BY <1>1, ArriveStep, FindStep, RevokeStep, StoreTokenStep, InsertStep, ChangeStep, DeleteStep
     DEF Statement, SessionInv
<1>2. ASSUME NEW r \in Requests, Interrupt(r) PROVE Abstract!Next \/ UNCHANGED Abstract!vars
  BY <1>2, RefusedStep DEF Interrupt, Running, SessionInv
<1>3. CASE UNCHANGED <<users, tokens, access, req, pc>>
  BY <1>3 DEF Abstract!vars, Members, Owner, Open, Stored, Exchanged, Exchanges, At, Op, Admittees
<1> QED BY <1>1, <1>2, <1>3 DEF Next, AllAnswered, Expire, vars, tables

\* Whatever the requests ask and however their statements interleave, a session
\* is one refresh token, handed on or ended: Accounts implements Sessions.
THEOREM Refinement == Spec => ImplementsSessions
BY InitRefines, InitSession, NextSession, NextRefines, PTL
   DEF Spec, ImplementsSessions, Abstract!Spec
=============================================================================
