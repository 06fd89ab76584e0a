------------------------------- MODULE Reviews -------------------------------
(***************************************************************************)
(* Reviews of courses: documents of MongoDB, written by participants whose *)
(* registrations are in PostgreSQL.  Replies and votes are part of the     *)
(* document; each change is one statement whose filter holds the           *)
(* condition, and a second query explains why nothing matched.             *)
(***************************************************************************)
EXTENDS Service

CONSTANTS
    Courses,        \* rows of table courses
    Ratings,
    MaxReplies,     \* MaxRepliesPerReview
    SeedReviews,    \* documents that are there at the start
    SeedEnrolled    \* registrations that are there at the start

Review == [id : Nat, course : Courses, author : Users, rating : Ratings,
           replies : Nat, helpful_count : Nat, helpful_by : SUBSET Users]

\* A course id may be any number; None stands for one that is not a course.
ReviewInput ==
    [op : {"create_review"}, by : Users, course : Courses \cup {None}, rating : Ratings]
    \cup [op : {"list_reviews"}, by : Users, course : Courses \cup {None}]
    \cup [op : {"get_review", "delete_review", "reply", "helpful"}, by : Users, id : Nat]
    \cup [op : {"patch_review"}, by : Users, id : Nat, rating : Ratings]

CountsRight(d) ==
    /\ d.helpful_count = Cardinality(d.helpful_by)
    /\ d.author \notin d.helpful_by
    /\ d.replies <= MaxReplies

ASSUME NoCourseIsNone == None \notin Courses
ASSUME MaxRepliesValid == MaxReplies \in Nat \ {0}
ASSUME UsersFinite == IsFiniteSet(Users)
ASSUME SeedEnrolledValid == SeedEnrolled \subseteq Courses \X Users
ASSUME SeedReviewsValid ==
    /\ SeedReviews \subseteq Review /\ IsFiniteSet(SeedReviews)
    /\ \A d \in SeedReviews :
          /\ d.id \in 1 .. Cardinality(SeedReviews) /\ CountsRight(d)
          /\ <<d.course, d.author>> \in SeedEnrolled
    /\ \A d, e \in SeedReviews : (d.id = e.id \/ (d.course = e.course /\ d.author = e.author)) => d = e

VARIABLES
    enrolled,       \* table enrollments
    attended,       \* every registration there has ever been (for the properties)
    reviews,        \* collection course_reviews
    nextReview      \* the next _id: ids of MongoDB grow with time

reviewVars == <<enrolled, attended, reviews, nextReview>>

ReviewInit ==
    /\ enrolled = SeedEnrolled
    /\ attended = SeedEnrolled
    /\ reviews = SeedReviews
    /\ nextReview = Cardinality(SeedReviews) + 1

Doc(id) == {d \in reviews : d.id = id}

Store(d) == reviews' = {e \in reviews : e.id # d.id} \cup {d}

PassReview(r, next) == Goto(r, next) /\ UNCHANGED reviewVars
RefuseReview(r, outcome) == Answer(r, outcome) /\ UNCHANGED reviewVars
Stored(r) == Reply(r) /\ UNCHANGED <<enrolled, attended, nextReview>>

-----------------------------------------------------------------------------
(* Courses and registrations, which other handlers change meanwhile.        *)

Enroll(c, u) ==
    /\ u \in users
    /\ enrolled' = enrolled \cup {<<c, u>>}
    /\ attended' = attended \cup {<<c, u>>}
    /\ UNCHANGED <<reviews, nextReview>>

Drop(c, u) ==
    /\ enrolled' = enrolled \ {<<c, u>>}
    /\ UNCHANGED <<attended, reviews, nextReview>>

\* ON DELETE CASCADE; the reviews of the user stay.
Forget(u) ==
    /\ enrolled' = {e \in enrolled : e[2] # u}
    /\ UNCHANGED <<attended, reviews, nextReview>>

-----------------------------------------------------------------------------
\* The client has the id of a review from an answer.
ArriveReview(r) ==
    LET op == req[r].op
    IN  /\ At(r, "Arrive")
        /\ \/ op = "create_review" /\ PassReview(r, "FindCourse")
           \/ /\ op = "list_reviews"
              /\ Begin(r, "FindByCourse", nextReview)
              /\ UNCHANGED reviewVars
           \/ /\ op \in {"get_review", "patch_review", "delete_review", "reply", "helpful"}
              /\ req[r].id < nextReview
              /\ PassReview(r, CASE op = "get_review" -> "FindReview"
                                 [] op = "patch_review" -> "UpdateOwn"
                                 [] op = "delete_review" -> "DeleteReview"
                                 [] op = "reply" -> "AddReply"
                                 [] op = "helpful" -> "MarkHelpful")

\* Mutant: the registration is not asked for.
FindCourseOnly(r) ==
    /\ At(r, "FindCourse")
    /\ \/ req[r].course \notin Courses /\ RefuseReview(r, "not_found")
       \/ req[r].course \in Courses /\ PassReview(r, "InsertReview")

FindCourse(r) ==
    /\ At(r, "FindCourse")
    /\ \/ req[r].course \notin Courses /\ RefuseReview(r, "not_found")
       \/ req[r].course \in Courses /\ PassReview(r, "IsEnrolled")

IsEnrolled(r) ==
    /\ At(r, "IsEnrolled")
    /\ \/ <<req[r].course, req[r].by>> \notin enrolled /\ RefuseReview(r, "not_enrolled")
       \/ <<req[r].course, req[r].by>> \in enrolled /\ PassReview(r, "InsertReview")

\* The unique index on course_id and user_id.
InsertReview(r) ==
    LET in == req[r]
    IN  /\ At(r, "InsertReview")
        /\ \/ /\ \E d \in reviews : d.course = in.course /\ d.author = in.by
              /\ RefuseReview(r, "already_reviewed")
           \/ /\ \A d \in reviews : ~(d.course = in.course /\ d.author = in.by)
              /\ Store([id |-> nextReview, course |-> in.course, author |-> in.by,
                        rating |-> in.rating, replies |-> 0,
                        helpful_count |-> 0, helpful_by |-> {}])
              /\ nextReview' = nextReview + 1
              /\ Reply(r)
              /\ UNCHANGED <<enrolled, attended>>

\* _id grows with time and is all a list is sorted by; a course that is not
\* there has an empty list.
ReviewKeys(c) == {[id |-> d.id, at |-> d.id] : d \in {e \in reviews : e.course = c}}

FindByCourse(r) ==
    /\ At(r, "FindByCourse")
    /\ ReadPage(r, ReviewKeys(req[r].course))
    /\ UNCHANGED reviewVars

FindReview(r) ==
    /\ At(r, "FindReview")
    /\ RefuseReview(r, IF Doc(req[r].id) = {} THEN "not_found" ELSE "ok")

UpdateOwn(r) ==
    LET in == req[r]
    IN  /\ At(r, "UpdateOwn")
        /\ \/ \E d \in Doc(in.id) :
                d.author = in.by /\ Store([d EXCEPT !.rating = in.rating]) /\ Stored(r)
           \/ (\A d \in Doc(in.id) : d.author # in.by) /\ PassReview(r, "WhyNoMatch")

Mine(r, d) == d.author = req[r].by \/ Can(req[r].by, "review:moderate")

DeleteReview(r) ==
    /\ At(r, "DeleteReview")
    /\ \/ \E d \in Doc(req[r].id) :
            Mine(r, d) /\ reviews' = reviews \ {d} /\ Stored(r)
       \/ (\A d \in Doc(req[r].id) : ~Mine(r, d)) /\ PassReview(r, "WhyNoMatch")

WhyNoMatch(r) ==
    /\ At(r, "WhyNoMatch")
    /\ RefuseReview(r, IF Doc(req[r].id) = {} THEN "not_found" ELSE "not_owner")

\* "replies.49": {$exists: false}, and $push in the same statement.
AddReply(r) ==
    /\ At(r, "AddReply")
    /\ \/ \E d \in Doc(req[r].id) :
            d.replies < MaxReplies /\ Store([d EXCEPT !.replies = @ + 1]) /\ Stored(r)
       \/ (\A d \in Doc(req[r].id) : d.replies >= MaxReplies) /\ PassReview(r, "ExplainReply")

ExplainReply(r) ==
    /\ At(r, "ExplainReply")
    /\ RefuseReview(r, IF Doc(req[r].id) = {} THEN "not_found" ELSE "reply_limit")

\* Mutant: who has voted may vote again.
OpenToAnyVote(d, u) == d.author # u

OpenToVote(d, u) == d.author # u /\ u \notin d.helpful_by

MarkHelpful(r) ==
    LET u == req[r].by
    IN  /\ At(r, "MarkHelpful")
        /\ \/ \E d \in Doc(req[r].id) :
                /\ OpenToVote(d, u)
                /\ Store([d EXCEPT !.helpful_by = @ \cup {u}, !.helpful_count = @ + 1])
                /\ Stored(r)
           \/ (\A d \in Doc(req[r].id) : ~OpenToVote(d, u)) /\ PassReview(r, "ExplainVote")

ExplainVote(r) ==
    /\ At(r, "ExplainVote")
    /\ \/ Doc(req[r].id) = {} /\ RefuseReview(r, "not_found")
       \/ \E d \in Doc(req[r].id) :
            RefuseReview(r, IF d.author = req[r].by THEN "own_review" ELSE "already_voted")

ReviewStatement(r) ==
    \/ ArriveReview(r) \/ FindCourse(r) \/ IsEnrolled(r) \/ InsertReview(r)
    \/ FindByCourse(r) \/ FindReview(r) \/ UpdateOwn(r) \/ DeleteReview(r)
    \/ WhyNoMatch(r) \/ AddReply(r) \/ ExplainReply(r) \/ MarkHelpful(r) \/ ExplainVote(r)
=============================================================================
