------------------------------ MODULE MCSiakad ------------------------------
(***************************************************************************)
(* Small instance of Siakad: two students with 18 and 24 credits, two      *)
(* classes of 12, one of them with a single seat, and a limit of one       *)
(* failed login.                                                           *)
(***************************************************************************)
EXTENDS Siakad, TLC

CONSTANTS s1, s2, e1, e2, e3, n1, n2, n3, c1, c2, y1, y2

MCRow == s1 :> [email |-> e1, nim |-> n1, ipk |-> None, deletedAt |-> {}]
         @@ s2 :> [email |-> e2, nim |-> n2, ipk |-> 300, deletedAt |-> {}]

MCSKS == c1 :> 12 @@ c2 :> 12
MCKuota == c1 :> 1 @@ c2 :> 2

MCInputs ==
    {[op |-> "login", email |-> e1, password |-> TRUE],
     [op |-> "login", email |-> e1, password |-> FALSE],
     [op |-> "login", email |-> e3, password |-> TRUE],
     [op |-> "login", email |-> Admin, password |-> TRUE],
     [op |-> "me", by |-> s1],
     [op |-> "get", by |-> s1, student |-> s1],
     [op |-> "get", by |-> s2, student |-> s1],
     [op |-> "create", by |-> Admin, email |-> e3, nim |-> n1, ipk |-> None],
     [op |-> "create", by |-> Admin, email |-> e3, nim |-> n3, ipk |-> None],
     [op |-> "create", by |-> Admin, email |-> e1, nim |-> n3, ipk |-> None],
     [op |-> "update", by |-> Admin, student |-> s1, ipk |-> 250],
     [op |-> "update", by |-> Admin, student |-> s2, ipk |-> 200],
     [op |-> "delete", by |-> Admin, student |-> s1],
     [op |-> "enroll", by |-> s1, class |-> c1, year |-> y1],
     [op |-> "enroll", by |-> s1, class |-> c2, year |-> y1],
     [op |-> "enroll", by |-> s2, class |-> c1, year |-> y1],
     [op |-> "enroll", by |-> s2, class |-> c2, year |-> y1],
     [op |-> "enroll", by |-> s2, class |-> c2, year |-> y2]}
    \cup [op : {"drop"}, by : {s1}, enrollment : Requests]

Symmetry == Permutations(Requests)
=============================================================================
