--------------------------------- MODULE Krs ---------------------------------
(***************************************************************************)
(* What the course registration (KRS) of api-students promises, without    *)
(* transactions, row locks or seat counters: every accepted request is one *)
(* indivisible change of the registration together with the one event that *)
(* announces it, and every refused request is no change at all.            *)
(*                                                                         *)
(* Module Enrollment models the code statement by statement and is shown   *)
(* to implement this specification.                                        *)
(***************************************************************************)
EXTENDS Integers, FiniteSets, FiniteSetsExt

CONSTANTS
    Students,     \* users that may register
    Courses,      \* rows of table courses
    Credits,      \* credits (SKS) of every course
    SeedQuota,    \* quota every course starts with
    MaxCredits,   \* credits one student may hold
    Quotas,       \* quotas an administrator may ask for
    EventIds      \* values of the outbox id column

VARIABLES
    students,     \* the students that still have an account
    quota,        \* quota and version of every course
    version,
    registered,   \* pairs <<course, student>>
    feed          \* announced events [id, body]

vars == <<students, quota, version, registered, feed>>

Class(c) == {s \in Students : <<c, s>> \in registered}
Plan(s) == {c \in Courses : <<c, s>> \in registered}
Load(s) == MapThenSumSet(LAMBDA c : Credits[c], Plan(s))

Init ==
    /\ students = Students
    /\ quota = SeedQuota
    /\ version = [c \in Courses |-> 1]
    /\ registered \in SUBSET (Courses \X Students)
    /\ feed = {}
    /\ \A c \in Courses : Cardinality(Class(c)) <= quota[c]
    /\ \A s \in Students : Load(s) <= MaxCredits

AboutQuota(body) == body.type = "course.quota_changed"

\* Events of one student, or quota events of one course.
SameSubject(a, b) ==
    /\ AboutQuota(a) <=> AboutQuota(b)
    /\ IF AboutQuota(a) THEN a.course = b.course ELSE a.user = b.user

\* The event gets an id above those of all earlier events of its subject:
\* sorted by id, the events of a student tell what happened to the student.
Announce(body) ==
    \E id \in EventIds :
        /\ \A e \in feed : e.id # id /\ (SameSubject(e.body, body) => e.id < id)
        /\ feed' = feed \cup {[id |-> id, body |-> body]}

Enroll(s, c) ==
    /\ s \in students
    /\ <<c, s>> \notin registered
    /\ Cardinality(Class(c)) < quota[c]
    /\ Load(s) + Credits[c] <= MaxCredits
    /\ registered' = registered \cup {<<c, s>>}
    /\ Announce([type |-> "enrollment.created", user |-> s, course |-> c])
    /\ UNCHANGED <<students, quota, version>>

Drop(s, c) ==
    /\ s \in students
    /\ <<c, s>> \in registered
    /\ registered' = registered \ {<<c, s>>}
    /\ Announce([type |-> "enrollment.dropped", user |-> s, course |-> c])
    /\ UNCHANGED <<students, quota, version>>

Swap(s, from, to) ==
    /\ s \in students
    /\ <<from, s>> \in registered
    /\ <<to, s>> \notin registered
    /\ Cardinality(Class(to)) < quota[to]
    /\ Load(s) - Credits[from] + Credits[to] <= MaxCredits
    /\ registered' = (registered \ {<<from, s>>}) \cup {<<to, s>>}
    /\ Announce([type |-> "enrollment.swapped", user |-> s, course |-> to,
                 from |-> from])
    /\ UNCHANGED <<students, quota, version>>

ChangeQuota(c, q) ==
    /\ Cardinality(Class(c)) <= q
    /\ quota' = [quota EXCEPT ![c] = q]
    /\ version' = [version EXCEPT ![c] = @ + 1]
    /\ Announce([type |-> "course.quota_changed", course |-> c, quota |-> q])
    /\ UNCHANGED <<students, registered>>

CloseAccount(s) ==
    /\ s \in students
    /\ students' = students \ {s}
    /\ registered' = {p \in registered : p[2] # s}
    /\ UNCHANGED <<quota, version, feed>>

Next ==
    \/ \E s \in Students, c \in Courses : Enroll(s, c) \/ Drop(s, c)
    \/ \E s \in Students, c, d \in Courses : Swap(s, c, d)
    \/ \E c \in Courses, q \in Quotas : ChangeQuota(c, q)
    \/ \E s \in Students : CloseAccount(s)

Spec == Init /\ [][Next]_vars

-----------------------------------------------------------------------------
(* What the feed tells.                                                     *)

\* The event says whether student s is in class c.
Concerns(body, s, c) ==
    /\ ~AboutQuota(body)
    /\ body.user = s
    /\ body.course = c \/ (body.type = "enrollment.swapped" /\ body.from = c)

Joins(body, c) == body.type # "enrollment.dropped" /\ body.course = c

\* The last event, by id, about a student with an account and a class tells
\* whether the student is registered for it: what happened to one student got
\* its ids in the order in which it happened.
FeedTells ==
    \A e \in feed, s \in students, c \in Courses :
        /\ Concerns(e.body, s, c)
        /\ \A f \in feed : Concerns(f.body, s, c) => f.id <= e.id
        => (<<c, s>> \in registered <=> Joins(e.body, c))
=============================================================================
