------------------------------ MODULE Documents ------------------------------
(***************************************************************************)
(* Students, portfolios and reviews of api-students together: one set of   *)
(* requests, two databases, and other handlers that meanwhile change the   *)
(* registrations and remove users.                                         *)
(***************************************************************************)
EXTENDS Portfolios, Reviews

CONSTANTS
    Inputs,     \* what the requests of a behaviour may ask
    Moving,     \* registrations that other requests make and drop
    Leaving     \* users that an administrator may delete

ASSUME InputsValid == Inputs \subseteq StudentInput \cup PortfolioInput \cup ReviewInput
ASSUME EnvironmentValid == Moving \subseteq Courses \X Users /\ Leaving \subseteq Users

vars == <<shared, studentVars, portfolioVars, reviewVars>>

Init ==
    /\ users = Users
    /\ req \in [Requests -> Inputs]
    /\ pc = [r \in Requests |-> "Arrive"]
    /\ answer = [r \in Requests |-> "none"]
    /\ listed = [r \in Requests |-> <<>>]
    /\ cursor = [r \in Requests |-> None]
    /\ from = [r \in Requests |-> 0]
    /\ StudentInit /\ PortfolioInit /\ ReviewInit

StudentOps == {"list_students", "get_student", "create_student", "replace_student",
               "patch_student", "delete_student"}
PortfolioOps == {"get_portfolio", "upsert_portfolio", "add_project", "delete_project"}
ReviewOps == {"create_review", "list_reviews", "get_review", "patch_review",
              "delete_review", "reply", "helpful"}

Statement(r) ==
    \/ /\ req[r].op \in StudentOps /\ StudentStatement(r)
       /\ UNCHANGED <<portfolioVars, reviewVars>>
    \/ /\ req[r].op \in PortfolioOps /\ PortfolioStatement(r)
       /\ UNCHANGED <<studentVars, reviewVars>>
    \/ /\ req[r].op \in ReviewOps /\ ReviewStatement(r)
       /\ UNCHANGED <<studentVars, portfolioVars>>

\* A statement fails or the request is past its deadline; a client stops paging.
Interrupt(r) ==
    /\ pc[r] \notin {"Arrive", "Done"}
    /\ Answer(r, "error")
    /\ UNCHANGED <<studentVars, portfolioVars, reviewVars>>

Registration(c, u) ==
    /\ Enroll(c, u) \/ Drop(c, u)
    /\ UNCHANGED <<shared, studentVars, portfolioVars>>

\* The access token of the user stays valid.
RemoveUser(u) ==
    /\ u \in users
    /\ users' = users \ {u}
    /\ Disown(u) /\ Forget(u)
    /\ UNCHANGED <<req, pc, answer, listed, cursor, from, portfolioVars>>

\* Requests that were never sent, because what they are about never came to
\* be, may stay so.
AllAnswered == (\A r \in Requests : pc[r] \in {"Arrive", "Done"}) /\ UNCHANGED vars

Next ==
    \/ \E r \in Requests : Statement(r) \/ Interrupt(r)
    \/ \E e \in Moving : Registration(e[1], e[2])
    \/ \E u \in Leaving : RemoveUser(u)
    \/ AllAnswered

Spec == Init /\ [][Next]_vars

-----------------------------------------------------------------------------
(* Properties.                                                              *)

\* What a document counts is what it holds, however many clients write to it at
\* once: helpful_count is the number of users who voted, nobody votes twice or
\* for himself, and neither replies nor projects exceed their limit.
CountsAddUp ==
    /\ \A d \in reviews : CountsRight(d)
    /\ \A p \in portfolios : Cardinality(p.projects) <= MaxProjects

\* No foreign key leads from MongoDB to PostgreSQL, and still: whoever wrote a
\* review takes the course or took it once, and nobody has two reviews of one
\* course.
ReviewsByParticipants ==
    /\ \A d \in reviews : <<d.course, d.author>> \in attended
    /\ \A d, e \in reviews : (d.course = e.course /\ d.author = e.author) => d = e

\* The reason a client gets for a refusal comes from a second query, which may
\* see something else than the statement that matched nothing.  For reviews it
\* is true all the same: a vote refused as a repetition is in the document, a
\* refused reply met a full document, and who is not let in is not the author,
\* as long as the document is there.  For projects it is not: PROJECT_LIMIT
\* means a full portfolio, or one that was created a moment ago.
RefusalsTrue ==
    \A r \in Requests :
        /\ \A d \in reviews : req[r].op \in ReviewOps \ {"create_review", "list_reviews"} /\ d.id = req[r].id =>
              /\ answer[r] = "already_voted" => req[r].by \in d.helpful_by
              /\ answer[r] = "own_review" => req[r].by = d.author
              /\ answer[r] = "reply_limit" => d.replies = MaxReplies
              /\ answer[r] = "not_owner" => req[r].by # d.author
        /\ answer[r] = "project_limit" => found[r] \in {MaxProjects, -1}

Keys(r) == IF req[r].op = "list_students" THEN StudentKeys ELSE ReviewKeys(req[r].course)

\* A client that reads a list page by page meets nothing twice, and when it has
\* seen the last page it has met everything that was there from the first page
\* on: equal timestamps, and rows inserted or deleted between two pages, make
\* no difference.
ListedOnce ==
    \A r \in Requests : req[r].op \in {"list_students", "list_reviews"} =>
        /\ \A i, j \in 1 .. Len(listed[r]) : listed[r][i] = listed[r][j] => i = j
        /\ answer[r] = "ok" =>
              \A x \in Keys(r) : x.id < from[r] => \E i \in 1 .. Len(listed[r]) : listed[r][i] = x.id

-----------------------------------------------------------------------------
(* The inductive invariant behind them.                                     *)

Steps(op) ==
    CASE op = "list_students" -> {"FindAfterCursor"}
      [] op = "get_student" -> {"FindStudent"}
      [] op = "create_student" -> {"InsertStudent"}
      [] op \in {"replace_student", "patch_student"} -> {"FindStudent", "UpdateStudent"}
      [] op = "delete_student" -> {"DeleteStudent"}
      [] op = "get_portfolio" -> {"FindOwner", "FindPortfolio"}
      [] op = "upsert_portfolio" -> {"FindOwner", "Upsert"}
      [] op = "add_project" -> {"FindOwner", "AddProject", "ExplainAdd"}
      [] op = "delete_project" -> {"DeleteProject", "ExplainDelete"}
      [] op = "create_review" -> {"FindCourse", "IsEnrolled", "InsertReview"}
      [] op = "list_reviews" -> {"FindByCourse"}
      [] op = "get_review" -> {"FindReview"}
      [] op = "patch_review" -> {"UpdateOwn", "WhyNoMatch"}
      [] op = "delete_review" -> {"DeleteReview", "WhyNoMatch"}
      [] op = "reply" -> {"AddReply", "ExplainReply"}
      [] op = "helpful" -> {"MarkHelpful", "ExplainVote"}

Statements ==
    {"Arrive", "Done", "FindAfterCursor", "FindStudent", "InsertStudent", "UpdateStudent",
     "DeleteStudent", "FindOwner", "FindPortfolio", "Upsert", "AddProject", "ExplainAdd",
     "DeleteProject", "ExplainDelete", "FindCourse", "IsEnrolled", "InsertReview",
     "FindByCourse", "FindReview", "UpdateOwn", "WhyNoMatch", "DeleteReview", "AddReply",
     "ExplainReply", "MarkHelpful", "ExplainVote"}

Outcomes ==
    {"none", "ok", "error", "forbidden", "not_found", "conflict", "portfolio_not_found",
     "project_not_found", "project_limit", "not_enrolled", "already_reviewed",
     "not_owner", "reply_limit", "own_review", "already_voted"}

TypeOK ==
    /\ users \subseteq Users
    /\ req \in [Requests -> Inputs]
    /\ pc \in [Requests -> Statements]
    /\ \A r \in Requests : pc[r] \in Steps(req[r].op) \cup {"Arrive", "Done"}
    /\ answer \in [Requests -> Outcomes]
    /\ listed \in [Requests -> Seq(Nat)]
    /\ cursor \in [Requests -> Key \cup {None}]
    /\ from \in [Requests -> Nat]
    /\ students \subseteq Student /\ nextStudent \in Nat
    /\ row \in [Requests -> Student \cup {None}]
    /\ \A r \in Requests : pc[r] = "UpdateStudent" => row[r] # None
    /\ portfolios \subseteq Portfolio
    /\ found \in [Requests -> Int]
    /\ enrolled \subseteq attended /\ attended \subseteq Courses \X Users
    /\ reviews \subseteq Review /\ nextReview \in Nat

\* An id is issued once.
IdsFresh ==
    /\ \A s \in students : s.id < nextStudent
    /\ \A s, t \in students : s.id = t.id => s = t
    /\ \A d \in reviews : d.id < nextReview
    /\ \A d, e \in reviews : d.id = e.id => d = e

ById == {"get_review", "patch_review", "delete_review", "reply", "helpful"}

\* What a request has learnt before its last statement stays true of the
\* review, whatever others write to it.
Learnt(r) ==
    LET in == req[r]
    IN  /\ answer[r] # "none" => pc[r] = "Done"
        /\ pc[r] = "InsertReview" => <<in.course, in.by>> \in attended
        /\ pc[r] = "ExplainAdd" \/ answer[r] = "project_limit" => found[r] \in {MaxProjects, -1}
        /\ in.op \in ById /\ pc[r] # "Arrive" => in.id < nextReview
        /\ in.op \in ById => \A d \in reviews : d.id = in.id =>
              /\ pc[r] = "WhyNoMatch" \/ answer[r] = "not_owner" => in.by # d.author
              /\ pc[r] = "ExplainReply" \/ answer[r] = "reply_limit" => d.replies >= MaxReplies
              /\ pc[r] = "ExplainVote" => in.by = d.author \/ in.by \in d.helpful_by
              /\ answer[r] = "own_review" => in.by = d.author
              /\ answer[r] = "already_voted" => in.by \in d.helpful_by

Lists == {"list_students", "list_reviews"}
Issued(r) == IF req[r].op = "list_students" THEN nextStudent ELSE nextReview

OnPage(r, x) == \E i \in 1 .. Len(listed[r]) : listed[r][i] = x.id

\* The rows are split by the cursor: what is beyond it has not been shown, and
\* what was there at the start is on a page or beyond.
Paging(r) ==
    /\ \A i \in 1 .. Len(listed[r]) : listed[r][i] < Issued(r)
    /\ \A i, j \in 1 .. Len(listed[r]) : listed[r][i] = listed[r][j] => i = j
    /\ from[r] <= Issued(r)
    /\ pc[r] # "Done" => \A x \in Keys(r) : Beyond(cursor[r], x) => ~OnPage(r, x)
    /\ pc[r] \in {"FindAfterCursor", "FindByCourse"} =>
          \A x \in Keys(r) : x.id < from[r] => OnPage(r, x) \/ Beyond(cursor[r], x)
    /\ pc[r] = "Arrive" => cursor[r] = None /\ listed[r] = <<>>
    /\ answer[r] = "ok" => \A x \in Keys(r) : x.id < from[r] => OnPage(r, x)

IInv ==
    /\ TypeOK /\ IdsFresh /\ CountsAddUp /\ ReviewsByParticipants
    /\ \A r \in Requests : Learnt(r) /\ (req[r].op \in Lists => Paging(r))
=============================================================================
