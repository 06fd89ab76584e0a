----------------------------- MODULE MCAccounts -----------------------------
(***************************************************************************)
(* Small instance of Accounts: two administrators and every operation on   *)
(* them, with enough names for a conflict.                                 *)
(***************************************************************************)
EXTENDS Accounts, TLC

CONSTANTS u1, u2, n1, n2, n3

MCRow == u1 :> [name |-> n1, active |-> TRUE, role |-> "admin"]
         @@ u2 :> [name |-> n2, active |-> TRUE, role |-> "admin"]

MCInputs ==
    {[op |-> "register", name |-> n3], [op |-> "create", name |-> n3],
     [op |-> "me"], [op |-> "get", user |-> u1],
     [op |-> "replace", user |-> u1, name |-> n3, active |-> FALSE],
     [op |-> "patch", user |-> u1, name |-> n3, active |-> None],
     [op |-> "patch", user |-> u1, name |-> None, active |-> FALSE],
     [op |-> "login", name |-> n1, password |-> TRUE],
     [op |-> "login", name |-> n3, password |-> FALSE],
     [op |-> "logout", token |-> u1]}
    \cup [op : {"refresh"}, token : {u1} \cup Requests]
    \cup [op : {"delete"}, user : {u1, u2}]
    \cup [op : {"role"}, user : {u1, u2}, role : {"user"}]

Symmetry == Permutations(Requests)
=============================================================================
