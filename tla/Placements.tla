----------------------------- MODULE Placements -----------------------------
(***************************************************************************)
(* What thesis supervision in api-students promises, without transactions, *)
(* row locks or supervised_count: an accepted request is one indivisible   *)
(* placement under the quota that is in force, and a student who has a     *)
(* supervisor loses him only together with the account.                    *)
(*                                                                         *)
(* Module Supervision models the code statement by statement and is shown  *)
(* to implement this specification.                                        *)
(***************************************************************************)
EXTENDS Integers, FiniteSets

CONSTANTS
    Students,
    Supervisors,
    SeedQuota,    \* quota every supervisor starts with
    Quotas,       \* quotas an administrator may ask for
    None          \* no supervisor

VARIABLES
    students,     \* the students that still have an account
    supervisor,   \* the supervisor of every student, or None
    quota,        \* quota and version of every supervisor
    version

vars == <<students, supervisor, quota, version>>

Group(p) == {s \in Students : supervisor[s] = p}
HasRoom(p) == Cardinality(Group(p)) < quota[p]

Init ==
    /\ students = Students
    /\ supervisor \in [Students -> Supervisors \cup {None}]
    /\ quota = SeedQuota
    /\ version = [p \in Supervisors |-> 1]
    /\ \A p \in Supervisors : Cardinality(Group(p)) <= quota[p]

Assign(s, p) ==
    /\ s \in students
    /\ supervisor[s] = None
    /\ HasRoom(p)
    /\ supervisor' = [supervisor EXCEPT ![s] = p]
    /\ UNCHANGED <<students, quota, version>>

\* The student is never without a supervisor in between.
Switch(s, p) ==
    /\ s \in students
    /\ supervisor[s] \notin {None, p}
    /\ HasRoom(p)
    /\ supervisor' = [supervisor EXCEPT ![s] = p]
    /\ UNCHANGED <<students, quota, version>>

ChangeQuota(p, q) ==
    /\ Cardinality(Group(p)) <= q
    /\ quota' = [quota EXCEPT ![p] = q]
    /\ version' = [version EXCEPT ![p] = @ + 1]
    /\ UNCHANGED <<students, supervisor>>

CloseAccount(s) ==
    /\ s \in students
    /\ students' = students \ {s}
    /\ supervisor' = [supervisor EXCEPT ![s] = None]
    /\ UNCHANGED <<quota, version>>

Next ==
    \/ \E s \in Students, p \in Supervisors : Assign(s, p) \/ Switch(s, p)
    \/ \E p \in Supervisors, q \in Quotas : ChangeQuota(p, q)
    \/ \E s \in Students : CloseAccount(s)

Spec == Init /\ [][Next]_vars
=============================================================================
