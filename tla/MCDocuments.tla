----------------------------- MODULE MCDocuments -----------------------------
(* Three requests against small tables, for TLC.                            *)
EXTENDS Documents, TLC

CONSTANTS r1, r2, r3, ann, ben, cas, c1, n1, n2, n3, p1

MCRole == ann :> "user" @@ ben :> "user" @@ cas :> "admin"

\* Two students with equal timestamps, the second one without an owner.
MCSeedStudents ==
    {[id |-> 1, nim |-> n1, active |-> TRUE, owner |-> ann, at |-> 1],
     [id |-> 2, nim |-> n2, active |-> TRUE, owner |-> None, at |-> 1]}

MCSeedPortfolios == {[student |-> 1, headline |-> None, projects |-> {p1}]}

\* One review with one reply less than allowed.
MCSeedReviews ==
    {[id |-> 1, course |-> c1, author |-> ann, rating |-> 5,
      replies |-> 1, helpful_count |-> 0, helpful_by |-> {}]}

MCSeedEnrolled == {<<c1, ann>>, <<c1, ben>>}
MCMoving == {<<c1, ben>>}
MCLeaving == {ann}

MCInputs ==
    [op : {"list_students"}, by : {cas}]
    \cup [op : {"get_student"}, by : {ben}, id : {2}]
    \cup [op : {"delete_student"}, by : {cas}, id : {1}]
    \cup [op : {"create_student"}, by : {cas}, nim : {n3}, active : {TRUE}]
    \cup [op : {"replace_student"}, by : {ann}, id : {1}, nim : {n3}, active : {FALSE}]
    \cup [op : {"patch_student"}, by : {cas}, id : {2}, nim : {None}, active : {FALSE}]
    \cup [op : {"get_portfolio", "upsert_portfolio"}, by : {ann}, student : {2}]
    \cup [op : {"add_project"}, by : {ann}, student : {1, 2}]
    \cup [op : {"delete_project"}, by : {ann}, student : {1}, project : {p1}]
    \cup [op : {"create_review"}, by : {ben, cas}, course : {c1}, rating : {1}]
    \cup [op : {"list_reviews"}, by : {cas}, course : {c1}]
    \cup [op : {"reply"}, by : {cas}, id : {1}]
    \cup [op : {"helpful"}, by : {ann, ben}, id : {1}]
    \cup [op : {"get_review"}, by : {cas}, id : {1}]
    \cup [op : {"patch_review"}, by : {ann, ben}, id : {1}, rating : {1}]
    \cup [op : {"delete_review"}, by : {ben, cas}, id : {1}]

Symmetry == Permutations(Requests)
=============================================================================
