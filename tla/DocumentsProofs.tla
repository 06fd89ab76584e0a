--------------------------- MODULE DocumentsProofs ---------------------------
(***************************************************************************)
(* Proofs about Documents, for every set of requests, users and rows,      *)
(* every limit and every page size.                                        *)
(***************************************************************************)
EXTENDS Documents, FiniteSetTheorems, SequenceTheorems, TLAPS

-----------------------------------------------------------------------------
(* Requests.                                                                *)

\* What the body of a request holds.
LEMMA InputOf ==
    ASSUME TypeOK, NEW r \in Requests
    PROVE  LET in == req[r] IN
           /\ in.by \in Users
           /\ in.op \in StudentOps \cup PortfolioOps \cup ReviewOps
           /\ in.op \in {"create_student", "replace_student"} => in.nim \in NIMs /\ in.active \in BOOLEAN
           /\ in.op = "patch_student" => in.nim \in NIMs \cup {None} /\ in.active \in BOOLEAN \cup {None}
           /\ in.op \in PortfolioOps => in.student \in Nat
           /\ in.op \in ById => in.id \in Nat
           /\ in.op \in {"create_review", "patch_review"} => in.rating \in Ratings
<1>1. req[r] \in StudentInput \cup PortfolioInput \cup ReviewInput
  BY InputsValid DEF TypeOK
<1>2. CASE req[r] \in StudentInput
  BY <1>2 DEF StudentInput, StudentOps, PortfolioOps, ReviewOps, ById
<1>3. CASE req[r] \in PortfolioInput
  BY <1>3 DEF PortfolioInput, StudentOps, PortfolioOps, ReviewOps, ById
<1>4. CASE req[r] \in ReviewInput
  BY <1>4 DEF ReviewInput, StudentOps, PortfolioOps, ReviewOps, ById
<1> QED BY <1>1, <1>2, <1>3, <1>4

\* Which requests reach which statement.
LEMMA OpAt ==
    ASSUME TypeOK, NEW r \in Requests
    PROVE  LET op == req[r].op IN
           /\ pc[r] \in {"FindStudent", "UpdateStudent"} =>
                 op \in {"get_student", "replace_student", "patch_student"}
           /\ pc[r] = "UpdateStudent" => op \in {"replace_student", "patch_student"}
           /\ pc[r] = "FindAfterCursor" => op = "list_students"
           /\ pc[r] = "InsertStudent" => op = "create_student"
           /\ pc[r] = "DeleteStudent" => op = "delete_student"
           /\ pc[r] = "FindOwner" => op \in {"get_portfolio", "upsert_portfolio", "add_project"}
           /\ pc[r] = "FindPortfolio" => op = "get_portfolio"
           /\ pc[r] = "Upsert" => op = "upsert_portfolio"
           /\ pc[r] \in {"AddProject", "ExplainAdd"} => op = "add_project"
           /\ pc[r] \in {"DeleteProject", "ExplainDelete"} => op = "delete_project"
           /\ pc[r] \in {"FindCourse", "IsEnrolled", "InsertReview"} => op = "create_review"
           /\ pc[r] = "FindByCourse" => op = "list_reviews"
           /\ pc[r] = "FindReview" => op = "get_review"
           /\ pc[r] = "UpdateOwn" => op = "patch_review"
           /\ pc[r] = "DeleteReview" => op = "delete_review"
           /\ pc[r] = "WhyNoMatch" => op \in {"patch_review", "delete_review"}
           /\ pc[r] \in {"AddReply", "ExplainReply"} => op = "reply"
           /\ pc[r] \in {"MarkHelpful", "ExplainVote"} => op = "helpful"
<1>1. req[r].op \in StudentOps \cup PortfolioOps \cup ReviewOps BY InputOf
<1>2. pc[r] \in Steps(req[r].op) \cup {"Arrive", "Done"} BY DEF TypeOK
<1>3. CASE req[r].op \in StudentOps BY <1>2, <1>3 DEF StudentOps, Steps
<1>4. CASE req[r].op \in PortfolioOps BY <1>2, <1>4 DEF PortfolioOps, Steps
<1>5. CASE req[r].op \in ReviewOps BY <1>2, <1>5 DEF ReviewOps, Steps
<1> QED BY <1>1, <1>3, <1>4, <1>5

-----------------------------------------------------------------------------
(* The parts of a step: what it does to the request that takes it, and what *)
(* to the tables.                                                           *)

SharedOK ==
    /\ users \subseteq Users
    /\ req \in [Requests -> Inputs]
    /\ pc \in [Requests -> Statements]
    /\ \A r \in Requests : pc[r] \in Steps(req[r].op) \cup {"Arrive", "Done"}
    /\ answer \in [Requests -> Outcomes]
    /\ listed \in [Requests -> Seq(Nat)]
    /\ cursor \in [Requests -> Key \cup {None}]
    /\ from \in [Requests -> Nat]

LocalOK ==
    /\ row \in [Requests -> Student \cup {None}]
    /\ \A r \in Requests : pc[r] = "UpdateStudent" => row[r] # None
    /\ found \in [Requests -> Int]

StudentsOK ==
    /\ students \subseteq Student /\ nextStudent \in Nat
    /\ \A s \in students : s.id < nextStudent
    /\ \A s, t \in students : s.id = t.id => s = t

PortfoliosOK ==
    /\ portfolios \subseteq Portfolio
    /\ \A p \in portfolios : Cardinality(p.projects) <= MaxProjects

ReviewsOK ==
    /\ enrolled \subseteq attended /\ attended \subseteq Courses \X Users
    /\ reviews \subseteq Review /\ nextReview \in Nat
    /\ \A d \in reviews : d.id < nextReview /\ CountsRight(d)
    /\ \A d, e \in reviews : d.id = e.id => d = e
    /\ ReviewsByParticipants

LEMMA Parts ==
    IInv <=> /\ SharedOK /\ LocalOK /\ StudentsOK /\ PortfoliosOK /\ ReviewsOK
             /\ \A r \in Requests : Learnt(r) /\ (req[r].op \in Lists => Paging(r))
BY DEF IInv, TypeOK, IdsFresh, CountsAddUp, SharedOK, LocalOK, StudentsOK, PortfoliosOK, ReviewsOK

\* A student keeps what he is sorted by, and a new one gets a new id.
StudentsMove ==
    /\ nextStudent <= nextStudent'
    /\ \A s \in students' :
          \/ nextStudent <= s.id /\ s.id < nextStudent'
          \/ \E t \in students : t.id = s.id /\ t.at = s.at

\* A review keeps its author, its replies and its votes.
ReviewsMove ==
    /\ attended \subseteq attended'
    /\ nextReview <= nextReview'
    /\ \A d \in reviews' :
          \/ nextReview <= d.id /\ d.id < nextReview'
          \/ \E e \in reviews :
                /\ e.id = d.id /\ e.course = d.course /\ e.author = d.author
                /\ e.replies <= d.replies /\ e.helpful_by \subseteq d.helpful_by

\* The step is not one of this request.
Still(q) ==
    /\ req'[q] = req[q] /\ pc'[q] = pc[q] /\ answer'[q] = answer[q] /\ listed'[q] = listed[q]
    /\ cursor'[q] = cursor[q] /\ from'[q] = from[q] /\ found'[q] = found[q]

\* What a request has learnt survives what others do to the reviews.
LEMMA LearntKept ==
    ASSUME IInv, ReviewsMove, ReviewsOK', NEW q \in Requests, Still(q)
    PROVE  Learnt(q)'
<1> DEFINE in == req[q]
<1>1. Learnt(q) /\ TypeOK /\ ReviewsOK BY Parts DEF IInv
<1>2. (req[q])' = in /\ (pc[q])' = pc[q] /\ (answer[q])' = answer[q] /\ (found[q])' = found[q]
  BY DEF Still
<1>3. in.op \in ById => in.id \in Nat BY <1>1, InputOf
<1>4. ASSUME in.op \in ById, NEW d \in reviews', d.id = in.id
      PROVE  /\ pc[q] = "WhyNoMatch" \/ answer[q] = "not_owner" => in.by # d.author
             /\ pc[q] = "ExplainReply" \/ answer[q] = "reply_limit" => d.replies >= MaxReplies
             /\ pc[q] = "ExplainVote" => in.by = d.author \/ in.by \in d.helpful_by
             /\ answer[q] = "own_review" => in.by = d.author
             /\ answer[q] = "already_voted" => in.by \in d.helpful_by
  <2>1. CASE pc[q] = "Arrive"
    <3>1. answer[q] = "none" BY <1>1, <2>1 DEF Learnt
    <3> QED BY <2>1, <3>1
  <2>2. CASE pc[q] # "Arrive"
    <3>1. in.id < nextReview BY <1>1, <1>4, <2>2 DEF Learnt
    <3>2. nextReview \in Nat /\ d.id \in Nat BY <1>1, <1>3, <1>4 DEF ReviewsOK
    <3>3. PICK e \in reviews :
             /\ e.id = d.id /\ e.course = d.course /\ e.author = d.author
             /\ e.replies <= d.replies /\ e.helpful_by \subseteq d.helpful_by
      BY <3>1, <3>2, <1>4 DEF ReviewsMove
    <3>4. e.replies \in Nat /\ d.replies \in Nat BY <1>1 DEF ReviewsOK, Review
    <3>5. /\ pc[q] = "WhyNoMatch" \/ answer[q] = "not_owner" => in.by # e.author
          /\ pc[q] = "ExplainReply" \/ answer[q] = "reply_limit" => e.replies >= MaxReplies
          /\ pc[q] = "ExplainVote" => in.by = e.author \/ in.by \in e.helpful_by
          /\ answer[q] = "own_review" => in.by = e.author
          /\ answer[q] = "already_voted" => in.by \in e.helpful_by
      BY <1>1, <1>4, <3>3 DEF Learnt
    <3>6. MaxReplies \in Nat BY MaxRepliesValid
    <3>7. e.replies >= MaxReplies => d.replies >= MaxReplies BY <3>3, <3>4, <3>6
    <3> QED BY <3>3, <3>5, <3>7
  <2> QED BY <2>1, <2>2
<1>5. in.op \in ById /\ pc[q] # "Arrive" => in.id < nextReview'
  BY <1>1, <1>3 DEF Learnt, ReviewsMove, ReviewsOK
<1>6. pc[q] = "InsertReview" => <<in.course, in.by>> \in attended'
  BY <1>1 DEF Learnt, ReviewsMove
<1>7. /\ answer[q] # "none" => pc[q] = "Done"
      /\ pc[q] = "ExplainAdd" \/ answer[q] = "project_limit" => found[q] \in {MaxProjects, -1}
  BY <1>1 DEF Learnt
<1> HIDE DEF in
<1> QED BY <1>2, <1>4, <1>5, <1>6, <1>7 DEF Learnt, in

\* What a list may show later is an old row, or a new one with a new id.
LEMMA KeysMove ==
    ASSUME IInv, StudentsMove, ReviewsMove, StudentsOK', ReviewsOK', NEW q \in Requests, Still(q)
    PROVE  /\ Issued(q) \in Nat /\ Issued(q)' \in Nat /\ Issued(q) <= Issued(q)'
           /\ \A x \in Keys(q)' : x \in Keys(q) \/ (x.id \in Nat /\ Issued(q) <= x.id)
<1>1. StudentsOK /\ ReviewsOK BY Parts
<1>2. (req[q])' = req[q] BY DEF Still
<1>3. CASE req[q].op = "list_students"
  <2>1. Issued(q) = nextStudent /\ Issued(q)' = nextStudent'
    BY <1>2, <1>3 DEF Issued
  <2>2. Keys(q) = StudentKeys /\ Keys(q)' = StudentKeys' BY <1>2, <1>3 DEF Keys
  <2>3. ASSUME NEW x \in StudentKeys' PROVE x \in StudentKeys \/ (x.id \in Nat /\ nextStudent <= x.id)
    <3>1. PICK s \in students' : x = [id |-> s.id, at |-> s.at] BY <2>3 DEF StudentKeys
    <3>2. s.id \in Nat BY DEF StudentsOK, Student
    <3>3. CASE nextStudent <= s.id BY <3>1, <3>2, <3>3
    <3>4. CASE \E t \in students : t.id = s.id /\ t.at = s.at BY <3>1, <3>4 DEF StudentKeys
    <3> QED BY <3>3, <3>4 DEF StudentsMove
  <2> QED BY <1>1, <2>1, <2>2, <2>3 DEF StudentsMove, StudentsOK
<1>4. CASE req[q].op # "list_students"
  <2> DEFINE c == req[q].course
  <2>1. Issued(q) = nextReview /\ Issued(q)' = nextReview'
    BY <1>2, <1>4 DEF Issued
  <2>2. Keys(q) = {[id |-> d.id, at |-> d.id] : d \in {e \in reviews : e.course = c}}
    BY <1>4 DEF Keys, ReviewKeys
  <2>3. Keys(q)' = {[id |-> d.id, at |-> d.id] : d \in {e \in reviews' : e.course = c}}
    BY <1>2, <1>4 DEF Keys, ReviewKeys
  <2>4. ASSUME NEW x \in Keys(q)' PROVE x \in Keys(q) \/ (x.id \in Nat /\ nextReview <= x.id)
    <3>1. PICK s \in reviews' : s.course = c /\ x = [id |-> s.id, at |-> s.id] BY <2>3, <2>4
    <3>2. s.id \in Nat BY DEF ReviewsOK, Review
    <3>3. CASE nextReview <= s.id BY <3>1, <3>2, <3>3
    <3>4. CASE \E t \in reviews : t.id = s.id /\ t.course = s.course BY <3>1, <3>4, <2>2
    <3> QED BY <3>3, <3>4 DEF ReviewsMove
  <2> QED BY <1>1, <2>1, <2>4 DEF ReviewsMove, ReviewsOK
<1> QED BY <1>3, <1>4

LEMMA PagingKept ==
    ASSUME IInv, StudentsMove, ReviewsMove, StudentsOK', ReviewsOK', NEW q \in Requests, Still(q),
           req[q].op \in Lists
    PROVE  Paging(q)'
<1>1. Paging(q) /\ SharedOK BY Parts
<1>2. /\ Issued(q) \in Nat /\ Issued(q)' \in Nat /\ Issued(q) <= Issued(q)'
      /\ \A x \in Keys(q)' : x \in Keys(q) \/ (x.id \in Nat /\ Issued(q) <= x.id)
  BY KeysMove
<1>3. /\ (pc[q])' = pc[q] /\ (answer[q])' = answer[q] /\ (listed[q])' = listed[q]
      /\ (cursor[q])' = cursor[q] /\ (from[q])' = from[q]
  BY DEF Still
<1>4. listed[q] \in Seq(Nat) /\ from[q] \in Nat BY <1>1 DEF SharedOK
<1>5. \A i \in 1 .. Len(listed[q]) : listed[q][i] \in Nat BY <1>4
<1>6. \A x : OnPage(q, x)' <=> OnPage(q, x) BY <1>3 DEF OnPage
<1>7. \A i \in 1 .. Len(listed[q]) : listed[q][i] < Issued(q)'
  BY <1>1, <1>2, <1>5 DEF Paging
<1>8. from[q] <= Issued(q)' BY <1>1, <1>2, <1>4 DEF Paging
<1>9. ASSUME pc[q] # "Done", NEW x \in Keys(q)', Beyond(cursor[q], x) PROVE ~OnPage(q, x)
  <2>1. CASE x \in Keys(q) BY <1>1, <1>9, <2>1 DEF Paging
  <2>2. CASE x.id \in Nat /\ Issued(q) <= x.id
    <3>1. \A i \in 1 .. Len(listed[q]) : listed[q][i] # x.id BY <1>1, <1>2, <1>5, <2>2 DEF Paging
    <3> QED BY <3>1 DEF OnPage
  <2> QED BY <1>2, <2>1, <2>2
<1>10. \A x \in Keys(q)' : x.id < from[q] => x \in Keys(q)
  BY <1>1, <1>2, <1>4 DEF Paging
<1>11. pc[q] \in {"FindAfterCursor", "FindByCourse"} =>
          \A x \in Keys(q)' : x.id < from[q] => OnPage(q, x) \/ Beyond(cursor[q], x)
  BY <1>1, <1>10 DEF Paging
<1>12. answer[q] = "ok" => \A x \in Keys(q)' : x.id < from[q] => OnPage(q, x)
  BY <1>1, <1>10 DEF Paging
<1>13. /\ \A i, j \in 1 .. Len(listed[q]) : listed[q][i] = listed[q][j] => i = j
       /\ pc[q] = "Arrive" => cursor[q] = None /\ listed[q] = <<>>
  BY <1>1 DEF Paging
<1>14. \A x : Beyond(cursor[q], x)' <=> Beyond(cursor[q], x)
  BY <1>3 DEF Beyond, Newer
<1> QED BY <1>3, <1>6, <1>7, <1>8, <1>9, <1>11, <1>12, <1>13, <1>14 DEF Paging

\* A step keeps the invariant if it keeps the tables and serves its request.
LEMMA StepKeeps ==
    ASSUME IInv, SharedOK', LocalOK', StudentsOK', PortfoliosOK', ReviewsOK',
           StudentsMove, ReviewsMove, NEW r \in Requests,
           \A q \in Requests \ {r} : Still(q),
           (req[r])' = req[r], Learnt(r)', req[r].op \in Lists => Paging(r)'
    PROVE  IInv'
<1>1. ASSUME NEW q \in Requests PROVE Learnt(q)' /\ ((req[q].op)' \in Lists => Paging(q)')
  <2>1. CASE q = r BY <2>1
  <2>2. CASE q # r
    <3>1. Still(q) BY <2>2
    <3>2. (req[q])' = req[q] BY <3>1 DEF Still
    <3> QED BY <3>1, <3>2, LearntKept, PagingKept
  <2> QED BY <2>1, <2>2
<1> QED
  BY <1>1 DEF IInv, TypeOK, IdsFresh, CountsAddUp, SharedOK, LocalOK, StudentsOK, PortfoliosOK, ReviewsOK

-----------------------------------------------------------------------------
(* The tables.                                                              *)

LEMMA StudentsPart ==
    ASSUME IInv, students' \subseteq students, nextStudent' = nextStudent
    PROVE  StudentsOK' /\ StudentsMove
BY Parts DEF StudentsOK, StudentsMove

LEMMA StudentsPut ==
    ASSUME IInv, NEW s \in students, NEW t \in Student, t.id = s.id, t.at = s.at,
           Put(t), nextStudent' = nextStudent
    PROVE  StudentsOK' /\ StudentsMove
BY Parts DEF StudentsOK, StudentsMove, Put

LEMMA StudentsInsert ==
    ASSUME IInv, NEW t \in Student, t.id = nextStudent,
           students' = students \cup {t}, nextStudent' = nextStudent + 1
    PROVE  StudentsOK' /\ StudentsMove
BY Parts DEF StudentsOK, StudentsMove, Student

LEMMA StudentsDisown ==
    ASSUME IInv, NEW u, Disown(u)
    PROVE  StudentsOK' /\ StudentsMove
<1>1. StudentsOK BY Parts
<1>2. students' = {IF s.owner = u THEN [s EXCEPT !.owner = None] ELSE s : s \in students}
      /\ nextStudent' = nextStudent
  BY DEF Disown
<1>3. ASSUME NEW t \in students'
      PROVE  \E s \in students : t \in Student /\ t.id = s.id /\ t.at = s.at
                                 /\ t = (IF s.owner = u THEN [s EXCEPT !.owner = None] ELSE s)
  <2>1. PICK s \in students : t = IF s.owner = u THEN [s EXCEPT !.owner = None] ELSE s BY <1>2
  <2>2. s \in Student BY <1>1 DEF StudentsOK
  <2>3. t \in Student /\ t.id = s.id /\ t.at = s.at BY <2>1, <2>2 DEF Student
  <2> QED BY <2>1, <2>3
<1>4. students' \subseteq Student /\ \A t \in students' : t.id < nextStudent
  BY <1>1, <1>3 DEF StudentsOK
<1>5. ASSUME NEW t \in students', NEW v \in students', t.id = v.id PROVE t = v
  <2>1. PICK s \in students : t.id = s.id /\ t = (IF s.owner = u THEN [s EXCEPT !.owner = None] ELSE s)
    BY <1>3
  <2>2. PICK w \in students : v.id = w.id /\ v = (IF w.owner = u THEN [w EXCEPT !.owner = None] ELSE w)
    BY <1>3
  <2>3. s = w BY <1>1, <1>5, <2>1, <2>2 DEF StudentsOK
  <2> QED BY <2>1, <2>2, <2>3
<1> QED BY <1>1, <1>2, <1>3, <1>4, <1>5 DEF StudentsOK, StudentsMove

LEMMA ReviewsPart ==
    ASSUME IInv, reviews' \subseteq reviews, nextReview' = nextReview,
           enrolled' \subseteq attended', attended \subseteq attended',
           attended' \subseteq Courses \X Users
    PROVE  ReviewsOK' /\ ReviewsMove
<1>1. ReviewsOK BY Parts
<1>2. \A d \in reviews : d.replies \in Nat BY <1>1 DEF ReviewsOK, Review
<1>3. (\A d \in reviews' : CountsRight(d)') BY <1>1 DEF ReviewsOK, CountsRight
<1> QED BY <1>1, <1>2, <1>3 DEF ReviewsOK, ReviewsMove, ReviewsByParticipants

LEMMA ReviewsStore ==
    ASSUME IInv, NEW e \in reviews, NEW d \in Review,
           d.id = e.id, d.course = e.course, d.author = e.author,
           e.replies <= d.replies, e.helpful_by \subseteq d.helpful_by, CountsRight(d),
           Store(d), UNCHANGED <<enrolled, attended, nextReview>>
    PROVE  ReviewsOK' /\ ReviewsMove
<1>1. ReviewsOK BY Parts
<1>2. reviews' = {x \in reviews : x.id # d.id} \cup {d} BY DEF Store
<1>3. \A x \in reviews' : CountsRight(x)' BY <1>1, <1>2 DEF ReviewsOK, CountsRight
<1>4. \A x \in reviews' : x = d \/ (x \in reviews /\ x.id # d.id) BY <1>2
<1>5. \A x \in reviews : x.replies \in Nat BY <1>1 DEF ReviewsOK, Review
<1>6. /\ reviews' \subseteq Review
      /\ \A x \in reviews' : x.id < nextReview
      /\ \A x, y \in reviews' : x.id = y.id => x = y
  BY <1>1, <1>4 DEF ReviewsOK
<1>7. /\ \A x \in reviews' : <<x.course, x.author>> \in attended
      /\ \A x, y \in reviews' : (x.course = y.course /\ x.author = y.author) => x = y
  BY <1>1, <1>4 DEF ReviewsOK, ReviewsByParticipants
<1>8. ReviewsMove BY <1>1, <1>4, <1>5 DEF ReviewsOK, ReviewsMove
<1> QED BY <1>1, <1>3, <1>6, <1>7, <1>8 DEF ReviewsOK, ReviewsByParticipants

LEMMA ReviewsInsert ==
    ASSUME IInv, NEW d \in Review, d.id = nextReview, CountsRight(d),
           <<d.course, d.author>> \in attended,
           \A e \in reviews : ~(e.course = d.course /\ e.author = d.author),
           Store(d), nextReview' = nextReview + 1, UNCHANGED <<enrolled, attended>>
    PROVE  ReviewsOK' /\ ReviewsMove
<1>1. ReviewsOK BY Parts
<1>2. reviews' = {x \in reviews : x.id # d.id} \cup {d} BY DEF Store
<1>3. \A x \in reviews' : CountsRight(x)' BY <1>1, <1>2 DEF ReviewsOK, CountsRight
<1>4. \A x \in reviews' : x = d \/ (x \in reviews /\ x.id # d.id) BY <1>2
<1>5. \A x \in reviews : x.replies \in Nat /\ x.id \in Nat BY <1>1 DEF ReviewsOK, Review
<1>6. nextReview \in Nat /\ \A x \in reviews : x.id < nextReview BY <1>1 DEF ReviewsOK
<1>7. /\ reviews' \subseteq Review
      /\ \A x \in reviews' : x.id < nextReview + 1
      /\ \A x, y \in reviews' : x.id = y.id => x = y
  BY <1>1, <1>4, <1>5, <1>6 DEF ReviewsOK
<1>8. /\ \A x \in reviews' : <<x.course, x.author>> \in attended
      /\ \A x, y \in reviews' : (x.course = y.course /\ x.author = y.author) => x = y
  BY <1>1, <1>4 DEF ReviewsOK, ReviewsByParticipants
<1>9. ReviewsMove BY <1>4, <1>5, <1>6 DEF ReviewsMove
<1> QED BY <1>1, <1>3, <1>6, <1>7, <1>8, <1>9 DEF ReviewsOK, ReviewsByParticipants

LEMMA PortfoliosPut ==
    ASSUME IInv, NEW p \in Portfolio, Cardinality(p.projects) <= MaxProjects, Replace(p)
    PROVE  PortfoliosOK'
BY Parts DEF PortfoliosOK, Replace

-----------------------------------------------------------------------------
(* A statement that is no page of a list leads its request to the next one  *)
(* or to an answer.                                                         *)

LEMMA GotoKeeps ==
    ASSUME IInv, LocalOK', StudentsOK', PortfoliosOK', ReviewsOK', StudentsMove, ReviewsMove,
           NEW r \in Requests, NEW next \in Statements, Goto(r, next),
           next \in Steps(req[r].op), req[r].op \notin Lists,
           \A q \in Requests \ {r} : found'[q] = found[q],
           Learnt(r)'
    PROVE  IInv'
<1>1. SharedOK BY Parts
<1>2. pc' = [pc EXCEPT ![r] = next] /\ UNCHANGED <<users, req, answer, listed, cursor, from>>
  BY DEF Goto
<1>3. SharedOK'
  <2>1. pc' \in [Requests -> Statements] BY <1>1, <1>2 DEF SharedOK
  <2>2. ASSUME NEW q \in Requests PROVE (pc[q])' \in Steps(req[q].op) \cup {"Arrive", "Done"}
    BY <1>1, <1>2 DEF SharedOK
  <2>3. \A q \in Requests : pc'[q] \in Steps(req'[q].op) \cup {"Arrive", "Done"} BY <1>2, <2>2
  <2> QED BY <1>1, <1>2, <2>1, <2>3 DEF SharedOK
<1>4. \A q \in Requests \ {r} : Still(q) BY <1>1, <1>2 DEF Still, SharedOK
<1> QED BY <1>2, <1>3, <1>4, StepKeeps

LEMMA AnswerKeeps ==
    ASSUME IInv, StudentsOK', PortfoliosOK', ReviewsOK', StudentsMove, ReviewsMove,
           NEW r \in Requests, NEW outcome \in Outcomes, Answer(r, outcome),
           LocalOK', req[r].op \in Lists => Paging(r)',
           \A q \in Requests \ {r} : found'[q] = found[q], Learnt(r)'
    PROVE  IInv'
<1>1. SharedOK BY Parts
<1>2. /\ pc' = [pc EXCEPT ![r] = "Done"] /\ answer' = [answer EXCEPT ![r] = outcome]
      /\ UNCHANGED <<users, req, listed, cursor, from>>
  BY DEF Answer
<1>3. SharedOK'
  <2>1. pc' \in [Requests -> Statements] /\ answer' \in [Requests -> Outcomes]
    BY <1>1, <1>2 DEF SharedOK, Statements
  <2>2. ASSUME NEW q \in Requests PROVE (pc[q])' \in Steps(req[q].op) \cup {"Arrive", "Done"}
    BY <1>1, <1>2 DEF SharedOK
  <2>3. \A q \in Requests : pc'[q] \in Steps(req'[q].op) \cup {"Arrive", "Done"} BY <1>2, <2>2
  <2> QED BY <1>1, <1>2, <2>1, <2>3 DEF SharedOK
<1>4. \A q \in Requests \ {r} : Still(q) BY <1>1, <1>2 DEF Still, SharedOK
<1> QED BY <1>2, <1>3, <1>4, StepKeeps

\* Most statements teach the request nothing that has to last.
LEMMA NothingLearnt ==
    ASSUME IInv, ReviewsOK', ReviewsMove, NEW r \in Requests, NEW next, Goto(r, next), pc[r] # "Done",
           next \notin {"InsertReview", "ExplainAdd", "WhyNoMatch", "ExplainReply", "ExplainVote"},
           req[r].op \in ById => req[r].id < nextReview
    PROVE  Learnt(r)'
<1>1. Learnt(r) /\ SharedOK /\ ReviewsOK BY Parts
<1>2. (pc[r])' = next /\ (req[r])' = req[r] /\ (answer[r])' = answer[r] /\ answer[r] = "none"
  BY <1>1 DEF Goto, SharedOK, Learnt
<1>3. req[r].op \in ById => req[r].id \in Nat BY InputOf DEF IInv
<1>4. req[r].op \in ById => req[r].id < nextReview' BY <1>1, <1>3 DEF ReviewsMove, ReviewsOK
<1> QED BY <1>2, <1>4 DEF Learnt

Plain == {"ok", "error", "forbidden", "not_found", "conflict", "portfolio_not_found",
          "project_not_found", "not_enrolled", "already_reviewed"}

LEMMA PlainAnswer ==
    ASSUME IInv, ReviewsOK', ReviewsMove, NEW r \in Requests, NEW outcome \in Plain,
           Answer(r, outcome), req[r].op \in ById => pc[r] # "Arrive"
    PROVE  Learnt(r)'
<1>1. Learnt(r) /\ SharedOK /\ ReviewsOK BY Parts
<1>2. (pc[r])' = "Done" /\ (req[r])' = req[r] /\ (answer[r])' = outcome
  BY <1>1 DEF Answer, SharedOK
<1>3. req[r].op \in ById => req[r].id \in Nat BY InputOf DEF IInv
<1>4. req[r].op \in ById => req[r].id < nextReview'
  BY <1>1, <1>3 DEF ReviewsMove, ReviewsOK, Learnt
<1>5. outcome \notin {"project_limit", "not_owner", "reply_limit", "own_review", "already_voted"}
  BY DEF Plain
<1> QED BY <1>2, <1>4, <1>5 DEF Learnt

\* The two together, for a statement that leaves what it has read alone.
LEMMA Moves ==
    ASSUME IInv, StudentsOK', PortfoliosOK', ReviewsOK', StudentsMove, ReviewsMove,
           UNCHANGED <<row, found>>,
           NEW r \in Requests, NEW next \in Statements, Goto(r, next), pc[r] # "Done",
           next \in Steps(req[r].op), req[r].op \notin Lists, next # "UpdateStudent",
           next \notin {"InsertReview", "ExplainAdd", "WhyNoMatch", "ExplainReply", "ExplainVote"},
           req[r].op \in ById => req[r].id < nextReview
    PROVE  IInv'
<1>1. LocalOK'
  <2>1. LocalOK /\ SharedOK BY Parts
  <2>2. pc' = [pc EXCEPT ![r] = next] /\ pc \in [Requests -> Statements] BY <2>1 DEF Goto, SharedOK
  <2> QED BY <2>1, <2>2 DEF LocalOK
<1> QED BY <1>1, NothingLearnt, GotoKeeps

LEMMA Answers ==
    ASSUME IInv, StudentsOK', PortfoliosOK', ReviewsOK', StudentsMove, ReviewsMove,
           UNCHANGED <<row, found>>,
           NEW r \in Requests, NEW outcome \in Plain, Answer(r, outcome),
           req[r].op \in Lists => Paging(r)',
           req[r].op \in ById => pc[r] # "Arrive"
    PROVE  IInv'
<1>1. LocalOK'
  <2>1. LocalOK /\ SharedOK BY Parts
  <2>2. pc' = [pc EXCEPT ![r] = "Done"] /\ pc \in [Requests -> Statements] BY <2>1 DEF Answer, SharedOK
  <2> QED BY <2>1, <2>2 DEF LocalOK
<1>2. outcome \in Outcomes BY DEF Plain, Outcomes
<1>3. Learnt(r)' BY PlainAnswer
<1> QED BY <1>1, <1>2, <1>3, AnswerKeeps

-----------------------------------------------------------------------------
(* Pages.                                                                   *)

LEMMA NewerOrder ==
    ASSUME NEW x \in Key, NEW y \in Key, NEW z \in Key
    PROVE  /\ ~Newer(x, x)
           /\ Newer(x, y) => ~Newer(y, x)
           /\ Newer(x, y) /\ Newer(y, z) => Newer(x, z)
BY DEF Key, Newer

LEMMA PageShape ==
    ASSUME NEW rows, NEW page \in Pages(rows)
    PROVE  /\ Len(page) \in Nat /\ Len(page) <= Limit + 1 /\ DOMAIN page = 1 .. Len(page)
           /\ \A i \in 1 .. Len(page) : page[i] \in rows
           /\ IsPage(page, rows)
<1>1. PICK n \in 0 .. Limit + 1 : page \in [1 .. n -> rows] BY DEF Pages
<1>2. n \in Nat BY LimitValid
<1>3. page \in Seq(rows) BY <1>1, <1>2, SeqDef
<1>4. DOMAIN page = 1 .. Len(page) /\ Len(page) \in Nat BY <1>3, LenProperties
<1>5. Len(page) = n BY <1>1, <1>2, <1>4
<1>6. n <= Limit + 1 BY LimitValid
<1> QED BY <1>1, <1>4, <1>5, <1>6 DEF Pages

LEMMA Concat ==
    ASSUME NEW L \in Seq(Nat), NEW N \in Seq(Nat)
    PROVE  /\ L \o N \in Seq(Nat) /\ Len(L \o N) = Len(L) + Len(N)
           /\ \A i \in 1 .. Len(L) + Len(N) :
                 (L \o N)[i] = IF i <= Len(L) THEN L[i] ELSE N[i - Len(L)]
BY ConcatProperties, Zenon

\* Rows behind the last one of a list have not been shown.
ShownOf(rows, last, L) ==
    /\ rows \subseteq Key /\ (\A x, y \in rows : x.id = y.id => x = y)
    /\ last \in Key \cup {None} /\ L \in Seq(Nat)
    /\ \A i, j \in 1 .. Len(L) : L[i] = L[j] => i = j
    /\ \A x \in rows : Beyond(last, x) => \A i \in 1 .. Len(L) : L[i] # x.id

\* A page of n of the rows that are left.
PageOf(rows, last, page, n) ==
    /\ n \in Nat /\ n <= Limit + 1
    /\ \A i \in 1 .. n : page[i] \in rows /\ Beyond(last, page[i])
    /\ \A i, j \in 1 .. n : i < j => Newer(page[i], page[j])
    /\ \A x \in rows : Beyond(last, x) =>
          \/ \E i \in 1 .. n : page[i] = x
          \/ n = Limit + 1 /\ Newer(page[Limit + 1], x)

\* The list with the part of the page that is sent.
SentOf(page, n, size, L, N, M) ==
    /\ size \in Nat /\ size = (IF n > Limit THEN Limit ELSE n)
    /\ N \in Seq(Nat) /\ Len(N) = size /\ (\A i \in 1 .. size : N[i] = page[i].id)
    /\ M = L \o N

\* What the client has seen then, and what is left.
LeftOf(rows, last, page, n, L, M) ==
    /\ M \in Seq(Nat)
    /\ \A i \in 1 .. Len(M) : (\E j \in 1 .. Len(L) : M[i] = L[j]) \/ (\E x \in rows : M[i] = x.id)
    /\ \A i, j \in 1 .. Len(M) : M[i] = M[j] => i = j
    /\ \A i \in 1 .. Len(L) : \E j \in 1 .. Len(M) : M[j] = L[i]
    /\ n > Limit =>
          /\ page[Limit] \in rows
          /\ \A x \in rows : Newer(page[Limit], x) => \A i \in 1 .. Len(M) : M[i] # x.id
          /\ \A x \in rows : Beyond(last, x) =>
                (\E i \in 1 .. Len(M) : M[i] = x.id) \/ Newer(page[Limit], x)
    /\ ~(n > Limit) =>
          \A x \in rows : Beyond(last, x) => \E i \in 1 .. Len(M) : M[i] = x.id

LEMMA PageMove ==
    ASSUME NEW rows, NEW last, NEW page, NEW n, NEW size, NEW L, NEW N, NEW M,
           ShownOf(rows, last, L), PageOf(rows, last, page, n), SentOf(page, n, size, L, N, M)
    PROVE  LeftOf(rows, last, page, n, L, M)
<1> DEFINE C == {x \in rows : Beyond(last, x)}
<1> USE DEF ShownOf, PageOf, SentOf
<1>2. Limit \in Nat /\ Limit >= 1 BY LimitValid
<1>3. size <= n /\ size <= Limit BY <1>2
<1>4. \A i \in 1 .. size : page[i] \in C /\ page[i] \in rows /\ page[i] \in Key /\ page[i].id \in Nat
  <2> SUFFICES ASSUME NEW i \in 1 .. size
               PROVE  page[i] \in C /\ page[i] \in rows /\ page[i] \in Key /\ page[i].id \in Nat
    OBVIOUS
  <2>1. i \in 1 .. n BY <1>3
  <2>2. page[i] \in C BY <2>1
  <2> QED BY <2>2 DEF Key
<1>6. /\ M \in Seq(Nat) /\ Len(M) = Len(L) + size
      /\ \A i \in 1 .. Len(L) : M[i] = L[i]
      /\ \A i \in 1 .. size : M[Len(L) + i] = page[i].id
  <2>0. /\ M \in Seq(Nat) /\ Len(M) = Len(L) + Len(N)
        /\ \A i \in 1 .. Len(L) + Len(N) : M[i] = IF i <= Len(L) THEN L[i] ELSE N[i - Len(L)]
    BY Concat
  <2>5. Len(L) \in Nat BY LenProperties
  <2>2. M \in Seq(Nat) /\ Len(M) = Len(L) + size BY <2>0
  <2>3. ASSUME NEW i \in 1 .. Len(L) PROVE M[i] = L[i]
    <3>1. i \in 1 .. Len(L) + Len(N) /\ i <= Len(L) BY <1>3, <2>5
    <3> QED BY <2>0, <3>1
  <2>4. ASSUME NEW i \in 1 .. size PROVE M[Len(L) + i] = N[i]
    <3>1. /\ Len(L) + i \in 1 .. Len(L) + Len(N) /\ ~(Len(L) + i <= Len(L))
          /\ (Len(L) + i) - Len(L) = i
      BY <1>3, <2>5
    <3> QED BY <2>0, <3>1
  <2> QED BY <2>2, <2>3, <2>4
<1>7. Len(L) \in Nat BY LenProperties
<1>8. \A i \in 1 .. Len(M) :
         i \in 1 .. Len(L) \/ (i - Len(L) \in 1 .. size /\ M[i] = page[i - Len(L)].id)
  <2> SUFFICES ASSUME NEW i \in 1 .. Len(M), i \notin 1 .. Len(L)
               PROVE  i - Len(L) \in 1 .. size /\ M[i] = page[i - Len(L)].id
    OBVIOUS
  <2>1. i - Len(L) \in 1 .. size BY <1>3, <1>6, <1>7
  <2>2. M[Len(L) + (i - Len(L))] = page[i - Len(L)].id BY <1>6, <2>1
  <2>3. Len(L) + (i - Len(L)) = i BY <1>6, <1>7
  <2> QED BY <2>1, <2>2, <2>3
<1>9. \A i, j \in 1 .. size : page[i].id = page[j].id => i = j
  <2>1. ASSUME NEW i \in 1 .. size, NEW j \in 1 .. size, page[i].id = page[j].id, i < j
        PROVE  FALSE
    <3>1. page[i] = page[j] BY <1>4, <2>1
    <3>2. i \in 1 .. n /\ j \in 1 .. n BY <1>2, <1>3
    <3>3. Newer(page[i], page[j]) BY <2>1, <3>2
    <3> QED BY <1>4, <3>1, <3>3, NewerOrder
  <2>2. ASSUME NEW i \in 1 .. size, NEW j \in 1 .. size, page[i].id = page[j].id PROVE i = j
    <3>1. ~(i < j) BY <2>1, <2>2
    <3>2. ~(j < i) BY <2>1, <2>2
    <3> QED BY <3>1, <3>2
  <2> QED BY <2>2
<1>10. \A i \in 1 .. Len(L), j \in 1 .. size : L[i] # page[j].id
  BY <1>4
<1>11. \A i, j \in 1 .. Len(M) : M[i] = M[j] => i = j
  <2> SUFFICES ASSUME NEW i \in 1 .. Len(M), NEW j \in 1 .. Len(M), M[i] = M[j] PROVE i = j
    OBVIOUS
  <2>1. CASE i \in 1 .. Len(L) /\ j \in 1 .. Len(L) BY <1>6, <2>1
  <2>2. CASE i \in 1 .. Len(L) /\ j \notin 1 .. Len(L)
    <3>1. j - Len(L) \in 1 .. size /\ M[j] = page[j - Len(L)].id BY <1>8, <2>2
    <3>2. M[i] = L[i] BY <1>6, <2>2
    <3>3. L[i] # page[j - Len(L)].id BY <1>10, <2>2, <3>1
    <3> QED BY <3>1, <3>2, <3>3
  <2>3. CASE i \notin 1 .. Len(L) /\ j \in 1 .. Len(L)
    <3>1. i - Len(L) \in 1 .. size /\ M[i] = page[i - Len(L)].id BY <1>8, <2>3
    <3>2. M[j] = L[j] BY <1>6, <2>3
    <3>3. L[j] # page[i - Len(L)].id BY <1>10, <2>3, <3>1
    <3> QED BY <3>1, <3>2, <3>3
  <2>4. CASE i \notin 1 .. Len(L) /\ j \notin 1 .. Len(L)
    <3>0. /\ i - Len(L) \in 1 .. size /\ M[i] = page[i - Len(L)].id
          /\ j - Len(L) \in 1 .. size /\ M[j] = page[j - Len(L)].id
      BY <1>8, <2>4
    <3>1. i - Len(L) = j - Len(L) BY <1>9, <3>0
    <3> QED BY <1>6, <1>7, <3>1
  <2> QED BY <2>1, <2>2, <2>3, <2>4
<1>12. \A i \in 1 .. Len(M) : (\E j \in 1 .. Len(L) : M[i] = L[j]) \/ (\E x \in rows : M[i] = x.id)
  BY <1>4, <1>6, <1>8
<1>13. \A i \in 1 .. Len(L) : \E j \in 1 .. Len(M) : M[j] = L[i]
  <2> SUFFICES ASSUME NEW i \in 1 .. Len(L) PROVE \E j \in 1 .. Len(M) : M[j] = L[i] OBVIOUS
  <2>1. i \in 1 .. Len(M) BY <1>3, <1>6, <1>7
  <2> QED BY <1>6, <2>1
<1>14. \A i \in 1 .. size : \E j \in 1 .. Len(M) : M[j] = page[i].id
  <2> SUFFICES ASSUME NEW i \in 1 .. size PROVE \E j \in 1 .. Len(M) : M[j] = page[i].id OBVIOUS
  <2>1. Len(L) + i \in 1 .. Len(M) BY <1>3, <1>6, <1>7
  <2> QED BY <1>6, <2>1
<1>15. ASSUME n > Limit
       PROVE  /\ page[Limit] \in rows
              /\ \A x \in rows : Newer(page[Limit], x) => \A i \in 1 .. Len(M) : M[i] # x.id
              /\ \A x \in rows : Beyond(last, x) =>
                    (\E i \in 1 .. Len(M) : M[i] = x.id) \/ Newer(page[Limit], x)
  <2>1. size = Limit /\ n = Limit + 1 BY <1>2, <1>15
  <2>2. page[Limit] \in C /\ page[Limit] \in rows /\ page[Limit] \in Key BY <1>2, <1>4, <2>1
  <2>3. ASSUME NEW x \in rows, Newer(page[Limit], x) PROVE \A i \in 1 .. Len(M) : M[i] # x.id
    <3>1. Beyond(last, x)
      <4>1. CASE last = None BY <4>1 DEF Beyond
      <4>2. CASE last # None
        <5>1. last \in Key /\ Newer(last, page[Limit]) BY <2>2, <4>2 DEF Beyond
        <5>2. Newer(last, x) BY <2>2, <2>3, <5>1, NewerOrder
        <5> QED BY <4>2, <5>2 DEF Beyond
      <4> QED BY <4>1, <4>2
    <3>2. \A i \in 1 .. Len(L) : L[i] # x.id BY <3>1
    <3>3. \A i \in 1 .. size : page[i].id # x.id
      <4> SUFFICES ASSUME NEW i \in 1 .. size, page[i].id = x.id PROVE FALSE OBVIOUS
      <4>1. page[i] = x BY <1>4
      <4>2. Newer(page[Limit], page[i]) BY <2>3, <4>1
      <4>3. CASE i = Limit BY <2>2, <4>2, <4>3, NewerOrder
      <4>4. CASE i < Limit
        <5>0. i \in 1 .. n /\ Limit \in 1 .. n BY <1>2, <2>1, <4>4
        <5>1. Newer(page[i], page[Limit]) BY <4>4, <5>0
        <5> QED BY <1>4, <2>2, <4>2, <5>1, NewerOrder
      <4> QED BY <1>2, <2>1, <4>3, <4>4
    <3>4. ASSUME NEW i \in 1 .. Len(M) PROVE M[i] # x.id
      <4>1. CASE i \in 1 .. Len(L) BY <1>6, <3>2, <4>1
      <4>2. CASE i \notin 1 .. Len(L)
        <5>1. i - Len(L) \in 1 .. size /\ M[i] = page[i - Len(L)].id BY <1>8, <4>2
        <5> QED BY <3>3, <5>1
      <4> QED BY <4>1, <4>2
    <3> QED BY <3>4
  <2>4. ASSUME NEW x \in rows, Beyond(last, x)
        PROVE  (\E i \in 1 .. Len(M) : M[i] = x.id) \/ Newer(page[Limit], x)
    <3>1. x \in C BY <2>4
    <3>2. page[Limit + 1] \in Key /\ Newer(page[Limit], page[Limit + 1])
      BY <1>2, <2>1
    <3>3. CASE Newer(page[Limit + 1], x) BY <2>2, <3>2, <3>3, NewerOrder
    <3>4. CASE \E i \in 1 .. n : page[i] = x
      <4>1. PICK i \in 1 .. n : page[i] = x BY <3>4
      <4>2. CASE i \in 1 .. size BY <1>14, <4>1, <4>2
      <4>3. CASE i = Limit + 1 BY <3>2, <4>1, <4>3
      <4>4. i \in 1 .. Limit \/ i = Limit + 1 BY <1>2, <2>1
      <4> QED BY <2>1, <4>2, <4>3, <4>4
    <3> QED BY <2>1, <3>1, <3>3, <3>4
  <2> QED BY <2>2, <2>3, <2>4
<1>16. ASSUME ~(n > Limit), NEW x \in rows, Beyond(last, x)
       PROVE  \E i \in 1 .. Len(M) : M[i] = x.id
  <2>1. size = n /\ n # Limit + 1 BY <1>2, <1>16
  <2>2. PICK i \in 1 .. n : page[i] = x BY <1>16, <2>1
  <2> QED BY <1>14, <2>1, <2>2
<1> HIDE DEF C
<1> QED BY <1>6, <1>11, <1>12, <1>13, <1>15, <1>16 DEF LeftOf

-----------------------------------------------------------------------------
(* Lists.                                                                   *)

LEMMA KeysIssued ==
    ASSUME IInv, NEW r \in Requests
    PROVE  /\ Keys(r) \subseteq Key /\ Issued(r) \in Nat
           /\ \A x \in Keys(r) : x.id < Issued(r)
           /\ \A x, y \in Keys(r) : x.id = y.id => x = y
<1>1. StudentsOK /\ ReviewsOK BY Parts
<1>2. CASE req[r].op = "list_students"
  <2>1. Keys(r) = {[id |-> s.id, at |-> s.at] : s \in students} /\ Issued(r) = nextStudent
    BY <1>2 DEF Keys, StudentKeys, Issued
  <2>2. \A s \in students : s.id \in Nat /\ s.at \in Nat BY <1>1, TimesValid DEF StudentsOK, Student
  <2> QED BY <1>1, <2>1, <2>2 DEF StudentsOK, Key
<1>3. CASE req[r].op # "list_students"
  <2> DEFINE D == {e \in reviews : e.course = req[r].course}
  <2>1. Keys(r) = {[id |-> d.id, at |-> d.id] : d \in D} /\ Issued(r) = nextReview
    BY <1>3 DEF Keys, ReviewKeys, Issued
  <2>2. \A d \in D : d.id \in Nat /\ d \in reviews BY <1>1 DEF ReviewsOK, Review
  <2> HIDE DEF D
  <2> QED BY <1>1, <2>1, <2>2 DEF ReviewsOK, Key
<1> QED BY <1>2, <1>3

\* The tables are left alone.
Untouched == UNCHANGED <<studentVars, portfolioVars, reviewVars>>

LEMMA UntouchedKeeps ==
    ASSUME IInv, Untouched
    PROVE  StudentsOK' /\ PortfoliosOK' /\ ReviewsOK' /\ StudentsMove /\ ReviewsMove
<1>1. StudentsOK /\ PortfoliosOK /\ ReviewsOK BY Parts
<1>2. /\ UNCHANGED <<students, nextStudent, portfolios>>
      /\ UNCHANGED <<enrolled, attended, reviews, nextReview>>
  BY DEF Untouched, studentVars, portfolioVars, reviewVars
<1>3. StudentsOK' /\ StudentsMove BY <1>2, StudentsPart
<1>4. ReviewsOK' /\ ReviewsMove BY <1>1, <1>2, ReviewsPart DEF ReviewsOK
<1>5. PortfoliosOK' BY <1>1, <1>2 DEF PortfoliosOK
<1> QED BY <1>3, <1>4, <1>5

\* The request for the first page.
LEMMA BeginKeeps ==
    ASSUME IInv, Untouched, NEW r \in Requests, req[r].op \in Lists, At(r, "Arrive"),
           NEW next \in {"FindAfterCursor", "FindByCourse"}, next \in Steps(req[r].op),
           Begin(r, next, Issued(r))
    PROVE  IInv'
<1>1. SharedOK /\ LocalOK /\ Learnt(r) /\ Paging(r) BY Parts
<1>2. /\ pc' = [pc EXCEPT ![r] = next] /\ from' = [from EXCEPT ![r] = Issued(r)]
      /\ UNCHANGED <<users, req, answer, listed, cursor>> /\ pc[r] = "Arrive"
  BY DEF Begin, At
<1>3. StudentsOK' /\ PortfoliosOK' /\ ReviewsOK' /\ StudentsMove /\ ReviewsMove BY UntouchedKeeps
<1>4. UNCHANGED <<students, nextStudent, row, found, reviews, nextReview>>
  BY DEF Untouched, studentVars, portfolioVars, reviewVars
<1>5. Keys(r)' = Keys(r) /\ Issued(r)' = Issued(r) /\ Issued(r) \in Nat
  <2>1. Issued(r) \in Nat BY KeysIssued
  <2> QED BY <1>2, <1>4, <2>1 DEF Keys, StudentKeys, ReviewKeys, Issued
<1>6. SharedOK'
  <2>1. pc' \in [Requests -> Statements] /\ from' \in [Requests -> Nat]
    BY <1>1, <1>2, <1>5 DEF SharedOK, Statements
  <2>2. \A q \in Requests : pc'[q] \in Steps(req'[q].op) \cup {"Arrive", "Done"}
    BY <1>1, <1>2 DEF SharedOK
  <2> QED BY <1>1, <1>2, <2>1, <2>2 DEF SharedOK
<1>7. LocalOK'
  <2>1. pc \in [Requests -> Statements] BY <1>1 DEF SharedOK
  <2> QED BY <1>1, <1>2, <1>4, <2>1 DEF LocalOK
<1>8. \A q \in Requests \ {r} : Still(q) BY <1>1, <1>2, <1>4 DEF Still, SharedOK
<1>9. /\ (pc[r])' = next /\ (req[r])' = req[r] /\ (from[r])' = Issued(r)
      /\ (answer[r])' = "none" /\ (listed[r])' = <<>> /\ (cursor[r])' = None
  BY <1>1, <1>2 DEF SharedOK, Learnt, Paging
<1>10. Learnt(r)' BY <1>9 DEF Learnt, Lists, ById
<1>11. Paging(r)'
  <2>1. \A x : Beyond(cursor[r], x)' BY <1>9 DEF Beyond
  <2>2. \A x : ~OnPage(r, x)' BY <1>9 DEF OnPage
  <2>3. 1 .. Len((listed[r])') = {} BY <1>9
  <2>4. Issued(r) <= Issued(r) BY <1>5
  <2> QED BY <1>5, <1>9, <2>1, <2>2, <2>3, <2>4 DEF Paging
<1> QED BY <1>2, <1>3, <1>6, <1>7, <1>8, <1>10, <1>11, StepKeeps

\* One more page: the rows are split by its last one, or all have been shown.
LEMMA ShowPages ==
    ASSUME IInv, NEW r \in Requests, req[r].op \in Lists,
           pc[r] \in {"FindAfterCursor", "FindByCourse"}, ReadPage(r, Keys(r)),
           Keys(r)' = Keys(r), Issued(r)' = Issued(r)
    PROVE  /\ (listed[r])' \in Seq(Nat) /\ (cursor[r])' \in Key \cup {None} /\ Paging(r)'
           /\ \/ (pc[r])' = pc[r] /\ (answer[r])' = answer[r]
              \/ (pc[r])' = "Done" /\ (answer[r])' = "ok"
<1>1. SharedOK /\ LocalOK /\ Learnt(r) /\ Paging(r) BY Parts
<1>2. PICK rows : rows = Keys(r) OBVIOUS
<1>3. PICK last : last = cursor[r] OBVIOUS
<1>4. PICK L : L = listed[r] OBVIOUS
<1>5. PICK C : C = {x \in rows : Beyond(last, x)} OBVIOUS
<1>6. PICK page \in Pages(C) : Show(r, page) BY <1>2, <1>3, <1>5 DEF ReadPage
<1>7. PICK n : n = Len(page) OBVIOUS
<1>8. PICK size : size = IF n > Limit THEN Limit ELSE n OBVIOUS
<1>9. PICK N : N = [i \in 1 .. size |-> page[i].id] OBVIOUS
<1>10. PICK M : M = L \o N OBVIOUS
<1>11. /\ n \in Nat /\ n <= Limit + 1 /\ DOMAIN page = 1 .. n
       /\ \A i \in 1 .. n : page[i] \in C
       /\ IsPage(page, C)
  BY <1>6, <1>7, PageShape
<1>12. Limit \in Nat /\ Limit >= 1 BY LimitValid
<1>13. size \in Nat /\ size <= n BY <1>8, <1>11, <1>12
<1>14. /\ rows \subseteq Key /\ Issued(r) \in Nat
       /\ \A x \in rows : x.id < Issued(r)
       /\ \A x, y \in rows : x.id = y.id => x = y
  BY <1>2, KeysIssued
<1>15. N \in Seq(Nat) /\ Len(N) = size /\ \A i \in 1 .. size : N[i] = page[i].id
  <2>1. ASSUME NEW i \in 1 .. size PROVE page[i].id \in Nat
    <3>1. i \in 1 .. n BY <1>11, <1>13
    <3>2. page[i] \in Key BY <1>5, <1>11, <1>14, <3>1
    <3> QED BY <3>2 DEF Key
  <2>2. N \in [1 .. size -> Nat] BY <1>9, <2>1
  <2>3. N \in Seq(Nat) BY <1>13, <2>2, SeqDef
  <2>4. DOMAIN N = 1 .. Len(N) /\ Len(N) \in Nat BY <2>3, LenProperties
  <2>5. Len(N) = size BY <1>13, <2>2, <2>4
  <2> QED BY <1>9, <2>3, <2>5
<1>16. L \in Seq(Nat) /\ last \in Key \cup {None} BY <1>1, <1>3, <1>4 DEF SharedOK
<1>17. /\ \A i, j \in 1 .. Len(L) : L[i] = L[j] => i = j
       /\ \A x \in rows : Beyond(last, x) => \A i \in 1 .. Len(L) : L[i] # x.id
       /\ \A i \in 1 .. Len(L) : L[i] < Issued(r)
       /\ \A x \in rows : x.id < from[r] => (\E i \in 1 .. Len(L) : L[i] = x.id) \/ Beyond(last, x)
       /\ from[r] <= Issued(r)
  BY <1>1, <1>2, <1>3, <1>4 DEF Paging, OnPage
<1>18. LeftOf(rows, last, page, n, L, M)
  <2>1. \A i \in 1 .. n : page[i] \in rows /\ Beyond(last, page[i]) BY <1>5, <1>11
  <2>2. \A i, j \in 1 .. n : i < j => Newer(page[i], page[j]) BY <1>11 DEF IsPage
  <2>3. \A x \in rows : Beyond(last, x) =>
           \/ \E i \in 1 .. n : page[i] = x
           \/ n = Limit + 1 /\ Newer(page[Limit + 1], x)
    BY <1>5, <1>7, <1>11 DEF IsPage
  <2>4. PageOf(rows, last, page, n) BY <1>11, <2>1, <2>2, <2>3 DEF PageOf
  <2>5. ShownOf(rows, last, L) BY <1>14, <1>16, <1>17 DEF ShownOf
  <2>6. SentOf(page, n, size, L, N, M) BY <1>8, <1>10, <1>13, <1>15 DEF SentOf
  <2> QED BY <2>4, <2>5, <2>6, PageMove
<1>19. /\ M \in Seq(Nat)
       /\ \A i \in 1 .. Len(M) : (\E j \in 1 .. Len(L) : M[i] = L[j]) \/ (\E x \in rows : M[i] = x.id)
       /\ \A i, j \in 1 .. Len(M) : M[i] = M[j] => i = j
       /\ \A i \in 1 .. Len(L) : \E j \in 1 .. Len(M) : M[j] = L[i]
       /\ n > Limit =>
             /\ page[Limit] \in rows
             /\ \A x \in rows : Newer(page[Limit], x) => \A i \in 1 .. Len(M) : M[i] # x.id
             /\ \A x \in rows : Beyond(last, x) =>
                   (\E i \in 1 .. Len(M) : M[i] = x.id) \/ Newer(page[Limit], x)
       /\ ~(n > Limit) =>
             \A x \in rows : Beyond(last, x) => \E i \in 1 .. Len(M) : M[i] = x.id
  BY <1>18 DEF LeftOf
<1>20. (listed[r])' = M /\ (from[r])' = from[r]
  BY <1>1, <1>4, <1>6, <1>7, <1>8, <1>9, <1>10 DEF Show, SharedOK
<1>21. answer[r] = "none" /\ pc[r] # "Done" /\ pc[r] # "Arrive"
  BY <1>1 DEF Learnt
<1>22. \A i \in 1 .. Len(M) : M[i] < Issued(r) BY <1>14, <1>17, <1>19
<1>23. \A x : (\E i \in 1 .. Len(L) : L[i] = x.id) => \E i \in 1 .. Len(M) : M[i] = x.id
  BY <1>19
<1>24. CASE n > Limit
  <2>1. /\ (cursor[r])' = page[Limit] /\ (pc[r])' = pc[r] /\ (answer[r])' = answer[r]
    BY <1>1, <1>6, <1>7, <1>24 DEF Show, SharedOK
  <2>2. page[Limit] \in Key BY <1>14, <1>19, <1>24
  <2>3. page[Limit] # None BY <2>2, NoneIsFresh
  <2>4. \A x : Beyond(cursor[r], x)' <=> Newer(page[Limit], x) BY <2>1, <2>3 DEF Beyond, Newer
  <2>5. \A x : OnPage(r, x)' <=> \E i \in 1 .. Len(M) : M[i] = x.id BY <1>20 DEF OnPage
  <2>6. \A x \in rows : Newer(page[Limit], x) => ~ \E i \in 1 .. Len(M) : M[i] = x.id
    BY <1>19, <1>24
  <2>7. \A x \in rows : x.id < from[r] => (\E i \in 1 .. Len(M) : M[i] = x.id) \/ Newer(page[Limit], x)
    BY <1>17, <1>19, <1>23, <1>24
  <2>8. Paging(r)'
    BY <1>2, <1>17, <1>19, <1>20, <1>21, <1>22, <2>1, <2>4, <2>5, <2>6, <2>7 DEF Paging
  <2> QED BY <1>19, <1>20, <2>1, <2>2, <2>8
<1>25. CASE ~(n > Limit)
  <2>1. /\ (cursor[r])' = cursor[r] /\ (pc[r])' = "Done" /\ (answer[r])' = "ok"
    BY <1>1, <1>6, <1>7, <1>25 DEF Show, SharedOK
  <2>2. \A x : OnPage(r, x)' <=> \E i \in 1 .. Len(M) : M[i] = x.id BY <1>20 DEF OnPage
  <2>3. \A x \in rows : x.id < from[r] => \E i \in 1 .. Len(M) : M[i] = x.id
    BY <1>17, <1>19, <1>23, <1>25
  <2>4. Paging(r)'
    BY <1>2, <1>17, <1>19, <1>20, <1>22, <2>1, <2>2, <2>3 DEF Paging
  <2> QED BY <1>3, <1>16, <1>19, <1>20, <2>1, <2>4
<1> QED BY <1>24, <1>25

LEMMA ShowKeeps ==
    ASSUME IInv, Untouched, NEW r \in Requests, req[r].op \in Lists,
           pc[r] \in {"FindAfterCursor", "FindByCourse"}, ReadPage(r, Keys(r))
    PROVE  IInv'
<1>1. SharedOK /\ LocalOK /\ Learnt(r) /\ Paging(r) BY Parts
<1>2. StudentsOK' /\ PortfoliosOK' /\ ReviewsOK' /\ StudentsMove /\ ReviewsMove BY UntouchedKeeps
<1>3. UNCHANGED <<students, nextStudent, row, found, reviews, nextReview>>
  BY DEF Untouched, studentVars, portfolioVars, reviewVars
<1>4. /\ UNCHANGED <<users, req, from>>
      /\ \E M : listed' = [listed EXCEPT ![r] = M]
      /\ \E c : cursor' = [cursor EXCEPT ![r] = c]
      /\ \E p : pc' = [pc EXCEPT ![r] = p]
      /\ \E a : answer' = [answer EXCEPT ![r] = a]
  <2>1. PICK page \in Pages({x \in Keys(r) : Beyond(cursor[r], x)}) : Show(r, page) BY DEF ReadPage
  <2>2. PICK M : listed' = [listed EXCEPT ![r] = M] /\ UNCHANGED <<users, req, from>>
    BY <2>1 DEF Show
  <2>3. \/ UNCHANGED <<pc, answer>> /\ \E c : cursor' = [cursor EXCEPT ![r] = c]
        \/ /\ pc' = [pc EXCEPT ![r] = "Done"] /\ answer' = [answer EXCEPT ![r] = "ok"]
           /\ UNCHANGED cursor
    BY <2>1 DEF Show
  <2>4. /\ pc = [pc EXCEPT ![r] = pc[r]] /\ answer = [answer EXCEPT ![r] = answer[r]]
        /\ cursor = [cursor EXCEPT ![r] = cursor[r]]
    BY <1>1 DEF SharedOK
  <2> QED BY <2>2, <2>3, <2>4
<1>5. Keys(r)' = Keys(r) /\ Issued(r)' = Issued(r)
  BY <1>3, <1>4 DEF Keys, StudentKeys, ReviewKeys, Issued
<1>6. /\ (listed[r])' \in Seq(Nat) /\ (cursor[r])' \in Key \cup {None} /\ Paging(r)'
      /\ \/ (pc[r])' = pc[r] /\ (answer[r])' = answer[r]
         \/ (pc[r])' = "Done" /\ (answer[r])' = "ok"
  BY <1>5, ShowPages
<1>7. \A q \in Requests \ {r} : Still(q) BY <1>1, <1>3, <1>4 DEF Still, SharedOK
<1>8. SharedOK'
  <2>1. /\ pc[r] \in Statements /\ pc[r] \in Steps(req[r].op) \cup {"Arrive", "Done"}
        /\ answer[r] \in Outcomes
    BY <1>1 DEF SharedOK
  <2>2. /\ (pc[r])' \in Statements /\ (pc[r])' \in Steps(req[r].op) \cup {"Arrive", "Done"}
        /\ (answer[r])' \in Outcomes
    BY <1>6, <2>1 DEF Statements, Outcomes
  <2>3. /\ listed' \in [Requests -> Seq(Nat)] /\ cursor' \in [Requests -> Key \cup {None}]
    BY <1>1, <1>4, <1>6 DEF SharedOK
  <2>4. /\ pc' \in [Requests -> Statements] /\ answer' \in [Requests -> Outcomes]
    BY <1>1, <1>4, <2>2 DEF SharedOK
  <2>5. \A q \in Requests : pc'[q] \in Steps(req'[q].op) \cup {"Arrive", "Done"}
    BY <1>1, <1>4, <2>2 DEF SharedOK
  <2> QED BY <1>1, <1>4, <2>3, <2>4, <2>5 DEF SharedOK
<1>9. LocalOK'
  <2>1. (pc[r])' # "UpdateStudent" BY <1>6
  <2>2. \A q \in Requests \ {r} : (pc[q])' = pc[q] BY <1>7 DEF Still
  <2> QED BY <1>1, <1>3, <2>1, <2>2 DEF LocalOK
<1>10. Learnt(r)'
  <2>1. answer[r] = "none" /\ (req[r])' = req[r] BY <1>1, <1>4 DEF Learnt
  <2> QED BY <1>6, <2>1 DEF Learnt, Lists, ById
<1> QED BY <1>2, <1>4, <1>6, <1>7, <1>8, <1>9, <1>10, StepKeeps

-----------------------------------------------------------------------------
(* Statements that leave the tables alone, or those of one component.       *)

LEMMA Refuses ==
    ASSUME IInv, Untouched, NEW r \in Requests, NEW outcome \in Plain, Answer(r, outcome),
           req[r].op \in Lists => outcome # "ok", req[r].op \in ById => pc[r] # "Arrive"
    PROVE  IInv'
<1>1. StudentsOK' /\ PortfoliosOK' /\ ReviewsOK' /\ StudentsMove /\ ReviewsMove BY UntouchedKeeps
<1>2. UNCHANGED <<students, nextStudent, row, found, reviews, nextReview>>
  BY DEF Untouched, studentVars, portfolioVars, reviewVars
<1>3. req[r].op \in Lists => Paging(r)'
  <2> SUFFICES ASSUME req[r].op \in Lists PROVE Paging(r)' OBVIOUS
  <2>1. SharedOK /\ Paging(r) BY Parts
  <2>2. /\ (pc[r])' = "Done" /\ (answer[r])' = outcome /\ outcome # "ok"
        /\ UNCHANGED <<users, req, listed, cursor, from>>
    BY <2>1 DEF Answer, SharedOK
  <2>3. Keys(r)' = Keys(r) /\ Issued(r)' = Issued(r)
    BY <1>2, <2>2 DEF Keys, StudentKeys, ReviewKeys, Issued
  <2> QED BY <2>1, <2>2, <2>3 DEF Paging
<1> QED BY <1>1, <1>2, <1>3, Answers

LEMMA Passes ==
    ASSUME IInv, Untouched, NEW r \in Requests, NEW next, Goto(r, next), pc[r] # "Done",
           next \in Steps(req[r].op), req[r].op \notin Lists, next # "UpdateStudent",
           next \notin {"InsertReview", "ExplainAdd", "WhyNoMatch", "ExplainReply", "ExplainVote"},
           next \in Statements,
           req[r].op \in ById => req[r].id < nextReview
    PROVE  IInv'
<1>1. StudentsOK' /\ PortfoliosOK' /\ ReviewsOK' /\ StudentsMove /\ ReviewsMove BY UntouchedKeeps
<1>2. UNCHANGED <<row, found>> BY DEF Untouched, studentVars, portfolioVars
<1> QED BY <1>1, <1>2, Moves

LEMMA StudentsAlone ==
    ASSUME IInv, UNCHANGED <<portfolioVars, reviewVars>>
    PROVE  PortfoliosOK' /\ ReviewsOK' /\ ReviewsMove /\ UNCHANGED found
<1>1. PortfoliosOK /\ ReviewsOK BY Parts
<1>2. UNCHANGED <<portfolios, found, enrolled, attended, reviews, nextReview>>
  BY DEF portfolioVars, reviewVars
<1>3. ReviewsOK' /\ ReviewsMove BY <1>1, <1>2, ReviewsPart DEF ReviewsOK
<1> QED BY <1>1, <1>2, <1>3 DEF PortfoliosOK

LEMMA PortfoliosAlone ==
    ASSUME IInv, UNCHANGED <<studentVars, reviewVars>>
    PROVE  StudentsOK' /\ StudentsMove /\ ReviewsOK' /\ ReviewsMove /\ UNCHANGED row
<1>1. ReviewsOK BY Parts
<1>2. UNCHANGED <<students, nextStudent, row, enrolled, attended, reviews, nextReview>>
  BY DEF studentVars, reviewVars
<1>3. ReviewsOK' /\ ReviewsMove BY <1>1, <1>2, ReviewsPart DEF ReviewsOK
<1>4. StudentsOK' /\ StudentsMove BY <1>2, StudentsPart
<1> QED BY <1>2, <1>3, <1>4

LEMMA ReviewsAlone ==
    ASSUME IInv, UNCHANGED <<studentVars, portfolioVars>>
    PROVE  StudentsOK' /\ StudentsMove /\ PortfoliosOK' /\ UNCHANGED <<row, found>>
<1>1. PortfoliosOK BY Parts
<1>2. UNCHANGED <<students, nextStudent, row, portfolios, found>>
  BY DEF studentVars, portfolioVars
<1>3. StudentsOK' /\ StudentsMove BY <1>2, StudentsPart
<1> QED BY <1>1, <1>2, <1>3 DEF PortfoliosOK

-----------------------------------------------------------------------------
(* Students, one statement after the other.                                 *)

LEMMA ArriveStudentKeeps ==
    ASSUME IInv, NEW r \in Requests, req[r].op \in StudentOps,
           ArriveStudent(r), UNCHANGED <<portfolioVars, reviewVars>>
    PROVE  IInv'
<1>1. req[r].op \notin ById /\ pc[r] = "Arrive" BY DEF StudentOps, ById, ArriveStudent, At
<1>2. CASE RefuseStudent(r, "forbidden")
  <2>1. Untouched /\ Answer(r, "forbidden")
    BY <1>2 DEF RefuseStudent, Untouched
  <2> QED BY <1>1, <2>1, Refuses DEF Plain
<1>3. CASE /\ req[r].op = "list_students" /\ Begin(r, "FindAfterCursor", nextStudent)
           /\ UNCHANGED studentVars
  <2>1. Issued(r) = nextStudent /\ req[r].op \in Lists /\ "FindAfterCursor" \in Steps(req[r].op)
    BY <1>3 DEF Issued, Lists, Steps
  <2>2. Untouched BY <1>3 DEF Untouched
  <2>3. At(r, "Arrive") BY <1>1 DEF At
  <2> QED BY <1>3, <2>1, <2>2, <2>3, BeginKeeps
<1>4. ASSUME NEW next \in {"InsertStudent", "DeleteStudent", "FindStudent"},
             next \in Steps(req[r].op), req[r].op \notin Lists, PassStudent(r, next)
      PROVE  IInv'
  <2>1. Untouched /\ Goto(r, next) BY <1>4 DEF PassStudent, Untouched
  <2>2. next \in Statements BY DEF Statements
  <2> QED BY <1>1, <1>4, <2>1, <2>2, Passes
<1>5. CASE req[r].op = "create_student" /\ PassStudent(r, "InsertStudent")
  <2>1. "InsertStudent" \in Steps(req[r].op) /\ req[r].op \notin Lists BY <1>5 DEF Steps, Lists
  <2> QED BY <1>4, <1>5, <2>1
<1>6. CASE req[r].op = "delete_student" /\ PassStudent(r, "DeleteStudent")
  <2>1. "DeleteStudent" \in Steps(req[r].op) /\ req[r].op \notin Lists BY <1>6 DEF Steps, Lists
  <2> QED BY <1>4, <1>6, <2>1
<1>7. CASE /\ req[r].op \in {"get_student", "replace_student", "patch_student"}
           /\ PassStudent(r, "FindStudent")
  <2>1. "FindStudent" \in Steps(req[r].op) /\ req[r].op \notin Lists BY <1>7 DEF Steps, Lists
  <2> QED BY <1>4, <1>7, <2>1
<1> QED BY <1>2, <1>3, <1>5, <1>6, <1>7 DEF ArriveStudent

LEMMA FindStudentKeeps ==
    ASSUME IInv, NEW r \in Requests, req[r].op \in StudentOps,
           FindStudent(r), UNCHANGED <<portfolioVars, reviewVars>>
    PROVE  IInv'
<1>1. pc[r] = "FindStudent" BY DEF FindStudent, At
<1>2. req[r].op \in {"get_student", "replace_student", "patch_student"} BY <1>1, OpAt DEF IInv
<1>3. req[r].op \notin Lists /\ req[r].op \notin ById BY <1>2 DEF Lists, ById
<1>4. CASE RefuseStudent(r, "not_found") \/ RefuseStudent(r, "forbidden")
  <2>1. PICK outcome \in {"not_found", "forbidden"} : Untouched /\ Answer(r, outcome)
    BY <1>4 DEF RefuseStudent, Untouched
  <2> QED BY <1>3, <2>1, Refuses DEF Plain
<1>5. ASSUME NEW s \in WithId(req[r].id),
             IF req[r].op = "get_student" THEN Answer(r, "ok") ELSE Goto(r, "UpdateStudent"),
             row' = [row EXCEPT ![r] = s], UNCHANGED <<students, nextStudent>>
      PROVE  IInv'
  <2>1. SharedOK /\ LocalOK /\ StudentsOK /\ Learnt(r) BY Parts
  <2>2. s \in Student BY <2>1 DEF WithId, StudentsOK
  <2>3. s # None BY <2>2, NoStudentIsNone
  <2>4. /\ PortfoliosOK' /\ ReviewsOK' /\ ReviewsMove /\ UNCHANGED found
        /\ StudentsOK' /\ StudentsMove
    BY <1>5, StudentsAlone, StudentsPart
  <2>5. LocalOK'
    <3>1. row' = [row EXCEPT ![r] = s] /\ row \in [Requests -> Student \cup {None}]
      BY <1>5, <2>1 DEF LocalOK
    <3>2. \A q \in Requests \ {r} : (pc[q])' = pc[q] /\ (row[q])' = row[q]
      BY <1>5, <2>1, <3>1 DEF Answer, Goto, SharedOK
    <3>3. (row[r])' = s BY <3>1
    <3> QED BY <2>1, <2>2, <2>3, <2>4, <3>1, <3>2, <3>3 DEF LocalOK
  <2>6. CASE req[r].op = "get_student"
    <3>1. Learnt(r)' BY <1>3, <1>5, <2>4, <2>6, PlainAnswer DEF Plain
    <3>2. Answer(r, "ok") /\ "ok" \in Outcomes BY <1>5, <2>6 DEF Outcomes
    <3> QED BY <1>3, <2>4, <2>5, <3>1, <3>2, AnswerKeeps
  <2>7. CASE req[r].op # "get_student"
    <3>1. Goto(r, "UpdateStudent") BY <1>5, <2>7
    <3>2. Learnt(r)' BY <1>1, <1>3, <2>4, <3>1, NothingLearnt
    <3>3. "UpdateStudent" \in Steps(req[r].op) /\ "UpdateStudent" \in Statements
      BY <1>2, <2>7 DEF Steps, Statements
    <3> QED BY <1>3, <2>4, <2>5, <3>1, <3>2, <3>3, GotoKeeps
  <2> QED BY <2>6, <2>7
<1> QED BY <1>4, <1>5 DEF FindStudent

LEMMA WrittenOK ==
    ASSUME IInv, NEW r \in Requests, pc[r] = "UpdateStudent"
    PROVE  Written(r).nim \in NIMs /\ Written(r).active \in BOOLEAN
<1>1. TypeOK /\ LocalOK BY Parts DEF IInv
<1>2. req[r].op \in {"replace_student", "patch_student"} BY <1>1, OpAt
<1>3. row[r] \in Student BY <1>1 DEF LocalOK
<1>4. CASE req[r].op = "patch_student"
  <2>1. req[r].nim \in NIMs \cup {None} /\ req[r].active \in BOOLEAN \cup {None}
    BY <1>1, <1>4, InputOf
  <2> DEFINE nim == IF req[r].nim = None THEN row[r].nim ELSE req[r].nim
             active == IF req[r].active = None THEN row[r].active ELSE req[r].active
  <2>2. Written(r) = [row[r] EXCEPT !.nim = nim, !.active = active]
    BY <1>4 DEF Written, ApplyPatchStudent
  <2>3. Written(r).nim = nim /\ Written(r).active = active BY <1>3, <2>2 DEF Student
  <2>4. row[r].nim \in NIMs /\ row[r].active \in BOOLEAN BY <1>3 DEF Student
  <2> QED BY <2>1, <2>3, <2>4
<1>5. CASE req[r].op = "replace_student"
  <2>1. req[r].nim \in NIMs /\ req[r].active \in BOOLEAN BY <1>1, <1>5, InputOf
  <2> QED BY <1>5, <2>1 DEF Written
<1> QED BY <1>2, <1>4, <1>5

LEMMA UpdateStudentKeeps ==
    ASSUME IInv, NEW r \in Requests,
           UpdateStudent(r), UNCHANGED <<portfolioVars, reviewVars>>
    PROVE  IInv'
<1>1. pc[r] = "UpdateStudent" BY DEF UpdateStudent, At
<1>2. req[r].op \in {"replace_student", "patch_student"} BY <1>1, OpAt DEF IInv
<1>3. req[r].op \notin Lists /\ req[r].op \notin ById BY <1>2 DEF Lists, ById
<1>4. CASE RefuseStudent(r, "not_found") \/ RefuseStudent(r, "conflict")
  <2>1. PICK outcome \in {"not_found", "conflict"} : Untouched /\ Answer(r, outcome)
    BY <1>4 DEF RefuseStudent, Untouched
  <2> QED BY <1>3, <2>1, Refuses DEF Plain
<1>5. ASSUME NEW s \in WithId(req[r].id),
             Put([s EXCEPT !.nim = Written(r).nim, !.active = Written(r).active]),
             Reply(r), UNCHANGED <<nextStudent, row>>
      PROVE  IInv'
  <2>1. PICK t : t = [s EXCEPT !.nim = Written(r).nim, !.active = Written(r).active] OBVIOUS
  <2>2. s \in students /\ s \in Student BY Parts DEF WithId, StudentsOK
  <2>3. t \in Student /\ t.id = s.id /\ t.at = s.at BY <1>1, <2>1, <2>2, WrittenOK DEF Student
  <2>4. StudentsOK' /\ StudentsMove BY <1>5, <2>1, <2>2, <2>3, StudentsPut
  <2>5. PICK outcome \in {"ok", "error"} : Answer(r, outcome) BY <1>5 DEF Reply
  <2>6. outcome \in Plain BY DEF Plain
  <2> QED BY <1>3, <1>5, <2>4, <2>5, <2>6, StudentsAlone, Answers
<1> QED BY <1>4, <1>5 DEF UpdateStudent

LEMMA InsertStudentKeeps ==
    ASSUME IInv, NEW r \in Requests,
           InsertStudent(r), UNCHANGED <<portfolioVars, reviewVars>>
    PROVE  IInv'
<1>1. pc[r] = "InsertStudent" BY DEF InsertStudent, At
<1>2. req[r].op = "create_student" BY <1>1, OpAt DEF IInv
<1>3. req[r].op \notin Lists /\ req[r].op \notin ById BY <1>2 DEF Lists, ById
<1>4. CASE RefuseStudent(r, "conflict") \/ RefuseStudent(r, "error")
  <2>1. PICK outcome \in {"conflict", "error"} : Untouched /\ Answer(r, outcome)
    BY <1>4 DEF RefuseStudent, Untouched
  <2> QED BY <1>3, <2>1, Refuses DEF Plain
<1>5. ASSUME NEW t \in Times,
             students' = students \cup {[id |-> nextStudent, nim |-> req[r].nim,
                 active |-> req[r].active, owner |-> req[r].by, at |-> t]},
             nextStudent' = nextStudent + 1, Reply(r), UNCHANGED row
      PROVE  IInv'
  <2>1. PICK s : s = [id |-> nextStudent, nim |-> req[r].nim, active |-> req[r].active,
                      owner |-> req[r].by, at |-> t] OBVIOUS
  <2>2. nextStudent \in Nat BY Parts DEF StudentsOK
  <2>3. req[r].nim \in NIMs /\ req[r].active \in BOOLEAN /\ req[r].by \in Users
    BY <1>2, InputOf DEF IInv
  <2>4. s \in Student /\ s.id = nextStudent BY <2>1, <2>2, <2>3 DEF Student
  <2>5. StudentsOK' /\ StudentsMove BY <1>5, <2>1, <2>4, StudentsInsert
  <2>6. PICK outcome \in {"ok", "error"} : Answer(r, outcome) BY <1>5 DEF Reply
  <2>7. outcome \in Plain BY DEF Plain
  <2> QED BY <1>3, <1>5, <2>5, <2>6, <2>7, StudentsAlone, Answers
<1> QED BY <1>4, <1>5 DEF InsertStudent

LEMMA DeleteStudentKeeps ==
    ASSUME IInv, NEW r \in Requests,
           DeleteStudent(r), UNCHANGED <<portfolioVars, reviewVars>>
    PROVE  IInv'
<1>1. pc[r] = "DeleteStudent" BY DEF DeleteStudent, At
<1>2. req[r].op = "delete_student" BY <1>1, OpAt DEF IInv
<1>3. req[r].op \notin Lists /\ req[r].op \notin ById BY <1>2 DEF Lists, ById
<1>4. CASE RefuseStudent(r, "not_found")
  <2>1. Untouched /\ Answer(r, "not_found") BY <1>4 DEF RefuseStudent, Untouched
  <2> QED BY <1>3, <2>1, Refuses DEF Plain
<1>5. CASE students' = students \ WithId(req[r].id) /\ Reply(r) /\ UNCHANGED <<nextStudent, row>>
  <2>1. StudentsOK' /\ StudentsMove BY <1>5, StudentsPart
  <2>2. PICK outcome \in {"ok", "error"} : Answer(r, outcome) BY <1>5 DEF Reply
  <2>3. outcome \in Plain BY DEF Plain
  <2> QED BY <1>3, <1>5, <2>1, <2>2, <2>3, StudentsAlone, Answers
<1> QED BY <1>4, <1>5 DEF DeleteStudent

LEMMA FindAfterCursorKeeps ==
    ASSUME IInv, NEW r \in Requests,
           FindAfterCursor(r), UNCHANGED <<portfolioVars, reviewVars>>
    PROVE  IInv'
<1>1. pc[r] = "FindAfterCursor" BY DEF FindAfterCursor, At
<1>2. req[r].op = "list_students" BY <1>1, OpAt DEF IInv
<1>3. Keys(r) = StudentKeys /\ req[r].op \in Lists BY <1>2 DEF Keys, Lists
<1>4. Untouched /\ ReadPage(r, StudentKeys) BY DEF FindAfterCursor, Untouched
<1> QED BY <1>1, <1>3, <1>4, ShowKeeps

LEMMA StudentStatementKeeps ==
    ASSUME IInv, NEW r \in Requests, req[r].op \in StudentOps,
           StudentStatement(r), UNCHANGED <<portfolioVars, reviewVars>>
    PROVE  IInv'
BY ArriveStudentKeeps, FindAfterCursorKeeps, FindStudentKeeps, UpdateStudentKeeps,
   InsertStudentKeeps, DeleteStudentKeeps DEF StudentStatement

-----------------------------------------------------------------------------
(* Portfolios.                                                              *)

LEMMA PortfolioFinite ==
    ASSUME NEW p \in Portfolio
    PROVE  IsFiniteSet(p.projects) /\ Cardinality(p.projects) \in Nat
<1>1. IsFiniteSet(Projects) BY ProjectsFinite, FS_Union DEF Projects
<1>2. p.projects \subseteq Projects BY DEF Portfolio
<1>3. IsFiniteSet(p.projects) BY <1>1, <1>2, FS_Subset
<1> QED BY <1>3, FS_CardinalityType

LEMMA ArrivePortfolioKeeps ==
    ASSUME IInv, NEW r \in Requests,
           ArrivePortfolio(r), UNCHANGED <<studentVars, reviewVars>>
    PROVE  IInv'
<1>1. pc[r] = "Arrive" BY DEF ArrivePortfolio, At
<1>2. PICK next \in {"FindOwner", "DeleteProject"} :
         /\ next \in Steps(req[r].op) /\ req[r].op \in PortfolioOps /\ PassPortfolio(r, next)
  <2>1. CASE /\ req[r].op \in {"get_portfolio", "upsert_portfolio", "add_project"}
             /\ PassPortfolio(r, "FindOwner")
    BY <2>1 DEF Steps, PortfolioOps
  <2>2. CASE req[r].op = "delete_project" /\ PassPortfolio(r, "DeleteProject")
    BY <2>2 DEF Steps, PortfolioOps
  <2> QED BY <2>1, <2>2 DEF ArrivePortfolio
<1>3. Untouched /\ Goto(r, next) BY <1>2 DEF PassPortfolio, Untouched
<1>4. req[r].op \notin Lists /\ req[r].op \notin ById BY <1>2 DEF PortfolioOps, Lists, ById
<1>5. next \in Statements BY DEF Statements
<1> QED BY <1>1, <1>2, <1>3, <1>4, <1>5, Passes

LEMMA FindOwnerKeeps ==
    ASSUME IInv, NEW r \in Requests,
           FindOwner(r), UNCHANGED <<studentVars, reviewVars>>
    PROVE  IInv'
<1>1. pc[r] = "FindOwner" BY DEF FindOwner, At
<1>2. req[r].op \in {"get_portfolio", "upsert_portfolio", "add_project"} BY <1>1, OpAt DEF IInv
<1>3. req[r].op \notin Lists /\ req[r].op \notin ById BY <1>2 DEF Lists, ById
<1>4. CASE RefusePortfolio(r, "not_found")
  <2>1. Untouched /\ Answer(r, "not_found") BY <1>4 DEF RefusePortfolio, Untouched
  <2> QED BY <1>3, <2>1, Refuses DEF Plain
<1>5. CASE PassPortfolio(r, CASE req[r].op = "get_portfolio" -> "FindPortfolio"
                              [] req[r].op = "upsert_portfolio" -> "Upsert"
                              [] req[r].op = "add_project" -> "AddProject")
  <2>1. PICK next \in {"FindPortfolio", "Upsert", "AddProject"} :
           next \in Steps(req[r].op) /\ PassPortfolio(r, next)
    BY <1>2, <1>5 DEF Steps
  <2>2. Untouched /\ Goto(r, next) BY <2>1 DEF PassPortfolio, Untouched
  <2>3. next \in Statements BY DEF Statements
  <2> QED BY <1>1, <1>3, <2>1, <2>2, <2>3, Passes
<1> QED BY <1>4, <1>5 DEF FindOwner

LEMMA FindPortfolioKeeps ==
    ASSUME IInv, NEW r \in Requests,
           FindPortfolio(r), UNCHANGED <<studentVars, reviewVars>>
    PROVE  IInv'
<1>1. pc[r] = "FindPortfolio" BY DEF FindPortfolio, At
<1>2. req[r].op = "get_portfolio" BY <1>1, OpAt DEF IInv
<1>3. req[r].op \notin Lists /\ req[r].op \notin ById BY <1>2 DEF Lists, ById
<1>4. PICK outcome \in {"portfolio_not_found", "ok"} : Untouched /\ Answer(r, outcome)
  BY DEF FindPortfolio, RefusePortfolio, Untouched
<1> QED BY <1>3, <1>4, Refuses DEF Plain

\* A write to a portfolio, and its reply.
LEMMA PortfolioWritten ==
    ASSUME IInv, NEW r \in Requests, req[r].op \in PortfolioOps, NEW p \in Portfolio,
           Cardinality(p.projects) <= MaxProjects, Replace(p), Reply(r), UNCHANGED found,
           UNCHANGED <<studentVars, reviewVars>>
    PROVE  IInv'
<1>1. req[r].op \notin Lists /\ req[r].op \notin ById BY DEF PortfolioOps, Lists, ById
<1>2. PICK outcome \in {"ok", "error"} : Answer(r, outcome) BY DEF Reply
<1>3. outcome \in Plain BY DEF Plain
<1> QED BY <1>1, <1>2, <1>3, PortfoliosAlone, PortfoliosPut, Answers

LEMMA UpsertKeeps ==
    ASSUME IInv, NEW r \in Requests,
           Upsert(r), UNCHANGED <<studentVars, reviewVars>>
    PROVE  IInv'
<1>1. pc[r] = "Upsert" BY DEF Upsert, At
<1>2. req[r].op = "upsert_portfolio" /\ req[r].op \in PortfolioOps
  BY <1>1, OpAt DEF IInv, PortfolioOps
<1>3. req[r].student \in Nat BY <1>2, InputOf DEF IInv
<1>4. Reply(r) /\ UNCHANGED found BY DEF Upsert
<1>5. PortfoliosOK BY Parts
<1>6. CASE Replace([student |-> req[r].student, headline |-> r, projects |-> {}])
  <2>1. PICK p : p = [student |-> req[r].student, headline |-> r, projects |-> {}] OBVIOUS
  <2>2. p \in Portfolio BY <1>3, <2>1 DEF Portfolio
  <2>3. Cardinality(p.projects) = 0 BY <2>1, FS_EmptySet
  <2>4. Cardinality(p.projects) <= MaxProjects BY <2>3, MaxProjectsValid
  <2> QED BY <1>2, <1>4, <1>6, <2>1, <2>2, <2>4, PortfolioWritten
<1>7. ASSUME NEW o \in Of(req[r].student), Replace([o EXCEPT !.headline = r]) PROVE IInv'
  <2>1. PICK p : p = [o EXCEPT !.headline = r] OBVIOUS
  <2>2. o \in Portfolio /\ Cardinality(o.projects) <= MaxProjects BY <1>5 DEF Of, PortfoliosOK
  <2>3. p \in Portfolio /\ p.projects = o.projects BY <2>1, <2>2 DEF Portfolio
  <2> QED BY <1>2, <1>4, <1>7, <2>1, <2>2, <2>3, PortfolioWritten
<1> QED BY <1>6, <1>7 DEF Upsert

\* A full portfolio, or none, is what an addition that was not made has met.
LEMMA AddProjectKeeps ==
    ASSUME IInv, NEW r \in Requests,
           AddProject(r), UNCHANGED <<studentVars, reviewVars>>
    PROVE  IInv'
<1>1. pc[r] = "AddProject" BY DEF AddProject, At
<1>2. req[r].op = "add_project" /\ req[r].op \in PortfolioOps
  BY <1>1, OpAt DEF IInv, PortfolioOps
<1>3. PortfoliosOK /\ SharedOK /\ LocalOK /\ Learnt(r) BY Parts
<1>4. ASSUME NEW o \in Of(req[r].student), HasSpace(o),
             Replace([o EXCEPT !.projects = @ \cup {r}]), Reply(r), UNCHANGED found
      PROVE  IInv'
  <2>1. PICK p : p = [o EXCEPT !.projects = @ \cup {r}] OBVIOUS
  <2>2. o \in Portfolio BY <1>3 DEF Of, PortfoliosOK
  <2>3. p \in Portfolio /\ p.projects = o.projects \cup {r} BY <2>1, <2>2 DEF Portfolio, Projects
  <2>4. IsFiniteSet(o.projects) /\ Cardinality(o.projects) \in Nat BY <2>2, PortfolioFinite
  <2>5. Cardinality(p.projects) = IF r \in o.projects THEN Cardinality(o.projects)
                                                      ELSE Cardinality(o.projects) + 1
    BY <2>3, <2>4, FS_AddElement
  <2>6. Cardinality(p.projects) <= MaxProjects
    BY <1>4, <2>4, <2>5, MaxProjectsValid DEF HasSpace
  <2> QED BY <1>2, <1>4, <2>1, <2>3, <2>6, PortfolioWritten
<1>5. ASSUME NEW n \in {MaxProjects, -1}, found' = [found EXCEPT ![r] = n],
             Goto(r, "ExplainAdd"), UNCHANGED portfolios
      PROVE  IInv'
  <2>1. StudentsOK' /\ StudentsMove /\ ReviewsOK' /\ ReviewsMove /\ UNCHANGED row
    BY PortfoliosAlone
  <2>2. PortfoliosOK' BY <1>3, <1>5 DEF PortfoliosOK
  <2>3. n \in Int BY MaxProjectsValid
  <2>4. LocalOK'
    <3>1. (pc[r])' = "ExplainAdd" /\ \A q \in Requests \ {r} : (pc[q])' = pc[q]
      BY <1>3, <1>5 DEF Goto, SharedOK
    <3>2. found' \in [Requests -> Int] BY <1>3, <1>5, <2>3 DEF LocalOK
    <3> QED BY <1>3, <2>1, <3>1, <3>2 DEF LocalOK
  <2>5. \A q \in Requests \ {r} : found'[q] = found[q] BY <1>3, <1>5 DEF LocalOK
  <2>6. Learnt(r)'
    <3>1. /\ (req[r])' = req[r] /\ (answer[r])' = answer[r] /\ (pc[r])' = "ExplainAdd"
          /\ (found[r])' = n /\ answer[r] = "none"
      BY <1>1, <1>3, <1>5 DEF Goto, SharedOK, LocalOK, Learnt
    <3>2. req[r].op \notin ById BY <1>2 DEF ById
    <3> QED BY <3>1, <3>2 DEF Learnt
  <2>7. "ExplainAdd" \in Steps(req[r].op) /\ "ExplainAdd" \in Statements /\ req[r].op \notin Lists
    BY <1>2 DEF Steps, Statements, Lists
  <2> QED BY <1>5, <2>1, <2>2, <2>4, <2>5, <2>6, <2>7, GotoKeeps
<1>6. ASSUME NEW o \in Of(req[r].student), ~HasSpace(o)
      PROVE  Cardinality(o.projects) = MaxProjects
  <2>1. o \in Portfolio /\ Cardinality(o.projects) <= MaxProjects BY <1>3 DEF Of, PortfoliosOK
  <2>2. Cardinality(o.projects) \in Nat BY <2>1, PortfolioFinite
  <2> QED BY <1>6, <2>1, <2>2, MaxProjectsValid DEF HasSpace
<1> QED BY <1>4, <1>5, <1>6 DEF AddProject

LEMMA ExplainAddKeeps ==
    ASSUME IInv, NEW r \in Requests,
           ExplainAdd(r), UNCHANGED <<studentVars, reviewVars>>
    PROVE  IInv'
<1>1. pc[r] = "ExplainAdd" BY DEF ExplainAdd, At
<1>2. req[r].op = "add_project" BY <1>1, OpAt DEF IInv
<1>3. req[r].op \notin Lists /\ req[r].op \notin ById BY <1>2 DEF Lists, ById
<1>4. PICK outcome \in {"portfolio_not_found", "project_limit"} : Untouched /\ Answer(r, outcome)
  BY DEF ExplainAdd, RefusePortfolio, Untouched
<1>5. CASE outcome = "portfolio_not_found" BY <1>3, <1>4, <1>5, Refuses DEF Plain
<1>6. CASE outcome = "project_limit"
  <2>1. SharedOK /\ LocalOK /\ Learnt(r) BY Parts
  <2>2. StudentsOK' /\ PortfoliosOK' /\ ReviewsOK' /\ StudentsMove /\ ReviewsMove
    BY <1>4, UntouchedKeeps
  <2>3. UNCHANGED <<row, found>> BY <1>4 DEF Untouched, studentVars, portfolioVars
  <2>4. /\ (pc[r])' = "Done" /\ (answer[r])' = "project_limit" /\ (req[r])' = req[r]
        /\ \A q \in Requests \ {r} : (pc[q])' = pc[q]
    BY <1>4, <1>6, <2>1 DEF Answer, SharedOK
  <2>5. LocalOK' BY <2>1, <2>3, <2>4 DEF LocalOK
  <2>6. Learnt(r)' BY <1>1, <1>3, <2>1, <2>3, <2>4 DEF Learnt
  <2>7. outcome \in Outcomes BY <1>6 DEF Outcomes
  <2> QED BY <1>3, <1>4, <2>2, <2>3, <2>5, <2>6, <2>7, AnswerKeeps
<1> QED BY <1>4, <1>5, <1>6

LEMMA DeleteProjectKeeps ==
    ASSUME IInv, NEW r \in Requests,
           DeleteProject(r), UNCHANGED <<studentVars, reviewVars>>
    PROVE  IInv'
<1>1. pc[r] = "DeleteProject" BY DEF DeleteProject, At
<1>2. req[r].op = "delete_project" /\ req[r].op \in PortfolioOps
  BY <1>1, OpAt DEF IInv, PortfolioOps
<1>3. PortfoliosOK BY Parts
<1>4. ASSUME NEW o \in Of(req[r].student),
             Replace([o EXCEPT !.projects = @ \ {req[r].project}]), Reply(r), UNCHANGED found
      PROVE  IInv'
  <2>1. PICK p : p = [o EXCEPT !.projects = @ \ {req[r].project}] OBVIOUS
  <2>2. o \in Portfolio /\ Cardinality(o.projects) <= MaxProjects BY <1>3 DEF Of, PortfoliosOK
  <2>3. p \in Portfolio /\ p.projects = o.projects \ {req[r].project}
    BY <2>1, <2>2 DEF Portfolio
  <2>4. IsFiniteSet(o.projects) /\ Cardinality(o.projects) \in Nat BY <2>2, PortfolioFinite
  <2>5. Cardinality(p.projects) <= Cardinality(o.projects) /\ Cardinality(p.projects) \in Nat
    BY <2>3, <2>4, FS_Subset, PortfolioFinite
  <2>6. Cardinality(p.projects) <= MaxProjects BY <2>2, <2>4, <2>5, MaxProjectsValid
  <2> QED BY <1>2, <1>4, <2>1, <2>3, <2>6, PortfolioWritten
<1>5. CASE PassPortfolio(r, "ExplainDelete")
  <2>1. Untouched /\ Goto(r, "ExplainDelete") BY <1>5 DEF PassPortfolio, Untouched
  <2>2. /\ "ExplainDelete" \in Steps(req[r].op) /\ "ExplainDelete" \in Statements
        /\ req[r].op \notin Lists /\ req[r].op \notin ById
    BY <1>2 DEF Steps, Statements, Lists, ById
  <2> QED BY <1>1, <2>1, <2>2, Passes
<1> QED BY <1>4, <1>5 DEF DeleteProject

LEMMA ExplainDeleteKeeps ==
    ASSUME IInv, NEW r \in Requests,
           ExplainDelete(r), UNCHANGED <<studentVars, reviewVars>>
    PROVE  IInv'
<1>1. pc[r] = "ExplainDelete" BY DEF ExplainDelete, At
<1>2. req[r].op = "delete_project" BY <1>1, OpAt DEF IInv
<1>3. req[r].op \notin Lists /\ req[r].op \notin ById BY <1>2 DEF Lists, ById
<1>4. PICK outcome \in {"portfolio_not_found", "project_not_found"} : Untouched /\ Answer(r, outcome)
  BY DEF ExplainDelete, RefusePortfolio, Untouched
<1> QED BY <1>3, <1>4, Refuses DEF Plain

LEMMA PortfolioStatementKeeps ==
    ASSUME IInv, NEW r \in Requests,
           PortfolioStatement(r), UNCHANGED <<studentVars, reviewVars>>
    PROVE  IInv'
BY ArrivePortfolioKeeps, FindOwnerKeeps, FindPortfolioKeeps, UpsertKeeps, AddProjectKeeps,
   ExplainAddKeeps, DeleteProjectKeeps, ExplainDeleteKeeps DEF PortfolioStatement

-----------------------------------------------------------------------------
(* Reviews.                                                                 *)

\* A statement that matched nothing leads to the query for the reason, ...
LEMMA Asks ==
    ASSUME IInv, Untouched, NEW r \in Requests, req[r].op \in ById, pc[r] \notin {"Arrive", "Done"},
           NEW next \in {"WhyNoMatch", "ExplainReply", "ExplainVote"}, next \in Steps(req[r].op),
           Goto(r, next),
           \A d \in reviews : d.id = req[r].id =>
              /\ next = "WhyNoMatch" => req[r].by # d.author
              /\ next = "ExplainReply" => d.replies >= MaxReplies
              /\ next = "ExplainVote" => req[r].by = d.author \/ req[r].by \in d.helpful_by
    PROVE  IInv'
<1>1. SharedOK /\ LocalOK /\ Learnt(r) BY Parts
<1>2. StudentsOK' /\ PortfoliosOK' /\ ReviewsOK' /\ StudentsMove /\ ReviewsMove BY UntouchedKeeps
<1>3. UNCHANGED <<row, found, reviews, nextReview>>
  BY DEF Untouched, studentVars, portfolioVars, reviewVars
<1>4. /\ (pc[r])' = next /\ (answer[r])' = "none" /\ (req[r])' = req[r]
      /\ \A q \in Requests \ {r} : (pc[q])' = pc[q]
  BY <1>1 DEF Goto, SharedOK, Learnt
<1>5. LocalOK' BY <1>1, <1>3, <1>4 DEF LocalOK
<1>6. Learnt(r)' BY <1>1, <1>3, <1>4 DEF Learnt
<1>7. next \in Statements /\ req[r].op \notin Lists BY DEF Statements, ById, Lists
<1> QED BY <1>2, <1>3, <1>5, <1>6, <1>7, GotoKeeps

\* ... and the reason is the answer.
LEMMA Explains ==
    ASSUME IInv, Untouched, NEW r \in Requests, req[r].op \in ById, pc[r] \notin {"Arrive", "Done"},
           NEW outcome \in {"not_owner", "reply_limit", "own_review", "already_voted"},
           Answer(r, outcome),
           \A d \in reviews : d.id = req[r].id =>
              /\ outcome = "not_owner" => req[r].by # d.author
              /\ outcome = "reply_limit" => d.replies >= MaxReplies
              /\ outcome = "own_review" => req[r].by = d.author
              /\ outcome = "already_voted" => req[r].by \in d.helpful_by
    PROVE  IInv'
<1>1. SharedOK /\ LocalOK /\ Learnt(r) BY Parts
<1>2. StudentsOK' /\ PortfoliosOK' /\ ReviewsOK' /\ StudentsMove /\ ReviewsMove BY UntouchedKeeps
<1>3. UNCHANGED <<row, found, reviews, nextReview>>
  BY DEF Untouched, studentVars, portfolioVars, reviewVars
<1>4. /\ (pc[r])' = "Done" /\ (answer[r])' = outcome /\ (req[r])' = req[r]
      /\ \A q \in Requests \ {r} : (pc[q])' = pc[q]
  BY <1>1 DEF Answer, SharedOK
<1>5. LocalOK' BY <1>1, <1>3, <1>4 DEF LocalOK
<1>6. Learnt(r)' BY <1>1, <1>3, <1>4 DEF Learnt
<1>7. outcome \in Outcomes /\ req[r].op \notin Lists BY DEF Outcomes, ById, Lists
<1> QED BY <1>2, <1>3, <1>5, <1>6, <1>7, AnswerKeeps

\* A write to a review, and its reply.
LEMMA ReviewWritten ==
    ASSUME IInv, NEW r \in Requests, req[r].op \notin Lists, req[r].op \in ById => pc[r] # "Arrive",
           ReviewsOK', ReviewsMove, Reply(r), UNCHANGED <<studentVars, portfolioVars>>
    PROVE  IInv'
<1>1. PICK outcome \in {"ok", "error"} : Answer(r, outcome) BY DEF Reply
<1>2. outcome \in Plain BY DEF Plain
<1> QED BY <1>1, <1>2, ReviewsAlone, Answers

LEMMA ArriveReviewKeeps ==
    ASSUME IInv, NEW r \in Requests, req[r].op \in ReviewOps,
           ArriveReview(r), UNCHANGED <<studentVars, portfolioVars>>
    PROVE  IInv'
<1>1. pc[r] = "Arrive" BY DEF ArriveReview, At
<1>2. CASE req[r].op = "create_review" /\ PassReview(r, "FindCourse")
  <2>1. Untouched /\ Goto(r, "FindCourse") BY <1>2 DEF PassReview, Untouched
  <2>2. /\ "FindCourse" \in Steps(req[r].op) /\ "FindCourse" \in Statements
        /\ req[r].op \notin Lists /\ req[r].op \notin ById
    BY <1>2 DEF Steps, Statements, Lists, ById
  <2> QED BY <1>1, <2>1, <2>2, Passes
<1>3. CASE /\ req[r].op = "list_reviews" /\ Begin(r, "FindByCourse", nextReview)
           /\ UNCHANGED reviewVars
  <2>1. Issued(r) = nextReview /\ req[r].op \in Lists /\ "FindByCourse" \in Steps(req[r].op)
    BY <1>3 DEF Issued, Lists, Steps
  <2>2. Untouched BY <1>3 DEF Untouched
  <2>3. At(r, "Arrive") BY <1>1 DEF At
  <2> QED BY <1>3, <2>1, <2>2, <2>3, BeginKeeps
<1>4. CASE /\ req[r].op \in {"get_review", "patch_review", "delete_review", "reply", "helpful"}
           /\ req[r].id < nextReview
           /\ PassReview(r, CASE req[r].op = "get_review" -> "FindReview"
                              [] req[r].op = "patch_review" -> "UpdateOwn"
                              [] req[r].op = "delete_review" -> "DeleteReview"
                              [] req[r].op = "reply" -> "AddReply"
                              [] req[r].op = "helpful" -> "MarkHelpful")
  <2>1. PICK next \in {"FindReview", "UpdateOwn", "DeleteReview", "AddReply", "MarkHelpful"} :
           next \in Steps(req[r].op) /\ PassReview(r, next)
    BY <1>4 DEF Steps
  <2>2. Untouched /\ Goto(r, next) BY <2>1 DEF PassReview, Untouched
  <2>3. next \in Statements /\ req[r].op \notin Lists BY <1>4 DEF Statements, Lists
  <2> QED BY <1>1, <1>4, <2>1, <2>2, <2>3, Passes
<1> QED BY <1>2, <1>3, <1>4 DEF ArriveReview

LEMMA FindCourseKeeps ==
    ASSUME IInv, NEW r \in Requests, FindCourse(r), UNCHANGED <<studentVars, portfolioVars>>
    PROVE  IInv'
<1>1. pc[r] = "FindCourse" BY DEF FindCourse, At
<1>2. req[r].op = "create_review" BY <1>1, OpAt DEF IInv
<1>3. req[r].op \notin Lists /\ req[r].op \notin ById BY <1>2 DEF Lists, ById
<1>4. CASE RefuseReview(r, "not_found")
  <2>1. Untouched /\ Answer(r, "not_found") BY <1>4 DEF RefuseReview, Untouched
  <2> QED BY <1>3, <2>1, Refuses DEF Plain
<1>5. CASE PassReview(r, "IsEnrolled")
  <2>1. Untouched /\ Goto(r, "IsEnrolled") BY <1>5 DEF PassReview, Untouched
  <2>2. "IsEnrolled" \in Steps(req[r].op) /\ "IsEnrolled" \in Statements
    BY <1>2 DEF Steps, Statements
  <2> QED BY <1>1, <1>3, <2>1, <2>2, Passes
<1> QED BY <1>4, <1>5 DEF FindCourse

\* Who is registered now has attended, whatever happens before the insert.
LEMMA IsEnrolledKeeps ==
    ASSUME IInv, NEW r \in Requests, IsEnrolled(r), UNCHANGED <<studentVars, portfolioVars>>
    PROVE  IInv'
<1>1. pc[r] = "IsEnrolled" BY DEF IsEnrolled, At
<1>2. req[r].op = "create_review" BY <1>1, OpAt DEF IInv
<1>3. req[r].op \notin Lists /\ req[r].op \notin ById BY <1>2 DEF Lists, ById
<1>4. CASE RefuseReview(r, "not_enrolled")
  <2>1. Untouched /\ Answer(r, "not_enrolled") BY <1>4 DEF RefuseReview, Untouched
  <2> QED BY <1>3, <2>1, Refuses DEF Plain
<1>5. CASE <<req[r].course, req[r].by>> \in enrolled /\ PassReview(r, "InsertReview")
  <2>1. SharedOK /\ LocalOK /\ ReviewsOK /\ Learnt(r) BY Parts
  <2>2. Untouched /\ Goto(r, "InsertReview") BY <1>5 DEF PassReview, Untouched
  <2>3. StudentsOK' /\ PortfoliosOK' /\ ReviewsOK' /\ StudentsMove /\ ReviewsMove
    BY <2>2, UntouchedKeeps
  <2>4. UNCHANGED <<row, found, attended>>
    BY <2>2 DEF Untouched, studentVars, portfolioVars, reviewVars
  <2>5. /\ (pc[r])' = "InsertReview" /\ (answer[r])' = "none" /\ (req[r])' = req[r]
        /\ \A q \in Requests \ {r} : (pc[q])' = pc[q]
    BY <1>1, <2>1, <2>2 DEF Goto, SharedOK, Learnt
  <2>6. LocalOK' BY <2>1, <2>4, <2>5 DEF LocalOK
  <2>7. <<req[r].course, req[r].by>> \in attended BY <1>5, <2>1 DEF ReviewsOK
  <2>8. Learnt(r)' BY <1>3, <2>4, <2>5, <2>7 DEF Learnt
  <2>9. "InsertReview" \in Steps(req[r].op) /\ "InsertReview" \in Statements
    BY <1>2 DEF Steps, Statements
  <2> QED BY <1>3, <2>2, <2>3, <2>4, <2>6, <2>8, <2>9, GotoKeeps
<1> QED BY <1>4, <1>5 DEF IsEnrolled

LEMMA InsertReviewKeeps ==
    ASSUME IInv, NEW r \in Requests, InsertReview(r), UNCHANGED <<studentVars, portfolioVars>>
    PROVE  IInv'
<1>1. pc[r] = "InsertReview" BY DEF InsertReview, At
<1>2. req[r].op = "create_review" BY <1>1, OpAt DEF IInv
<1>3. req[r].op \notin Lists /\ req[r].op \notin ById BY <1>2 DEF Lists, ById
<1>4. CASE RefuseReview(r, "already_reviewed")
  <2>1. Untouched /\ Answer(r, "already_reviewed") BY <1>4 DEF RefuseReview, Untouched
  <2> QED BY <1>3, <2>1, Refuses DEF Plain
<1>5. CASE /\ \A d \in reviews : ~(d.course = req[r].course /\ d.author = req[r].by)
           /\ Store([id |-> nextReview, course |-> req[r].course, author |-> req[r].by,
                     rating |-> req[r].rating, replies |-> 0,
                     helpful_count |-> 0, helpful_by |-> {}])
           /\ nextReview' = nextReview + 1
           /\ Reply(r) /\ UNCHANGED <<enrolled, attended>>
  <2>1. PICK d : d = [id |-> nextReview, course |-> req[r].course, author |-> req[r].by,
                      rating |-> req[r].rating, replies |-> 0,
                      helpful_count |-> 0, helpful_by |-> {}] OBVIOUS
  <2>2. ReviewsOK /\ Learnt(r) BY Parts
  <2>3. <<req[r].course, req[r].by>> \in attended BY <1>1, <2>2 DEF Learnt
  <2>4. req[r].course \in Courses /\ req[r].by \in Users BY <2>2, <2>3 DEF ReviewsOK
  <2>5. req[r].rating \in Ratings BY <1>2, InputOf DEF IInv
  <2>6. d \in Review BY <2>1, <2>2, <2>4, <2>5 DEF ReviewsOK, Review
  <2>7. Cardinality({}) = 0 BY FS_EmptySet
  <2>8. CountsRight(d) BY <2>1, <2>7, MaxRepliesValid DEF CountsRight
  <2>9. ReviewsOK' /\ ReviewsMove
    BY <1>5, <2>1, <2>3, <2>6, <2>8, ReviewsInsert
  <2> QED BY <1>3, <1>5, <2>9, ReviewWritten
<1> QED BY <1>4, <1>5 DEF InsertReview

LEMMA FindByCourseKeeps ==
    ASSUME IInv, NEW r \in Requests, FindByCourse(r), UNCHANGED <<studentVars, portfolioVars>>
    PROVE  IInv'
<1>1. pc[r] = "FindByCourse" BY DEF FindByCourse, At
<1>2. req[r].op = "list_reviews" BY <1>1, OpAt DEF IInv
<1>3. Keys(r) = ReviewKeys(req[r].course) /\ req[r].op \in Lists BY <1>2 DEF Keys, Lists
<1>4. Untouched /\ ReadPage(r, ReviewKeys(req[r].course)) BY DEF FindByCourse, Untouched
<1> QED BY <1>1, <1>3, <1>4, ShowKeeps

LEMMA FindReviewKeeps ==
    ASSUME IInv, NEW r \in Requests, FindReview(r), UNCHANGED <<studentVars, portfolioVars>>
    PROVE  IInv'
<1>1. pc[r] = "FindReview" BY DEF FindReview, At
<1>2. req[r].op = "get_review" BY <1>1, OpAt DEF IInv
<1>3. req[r].op \notin Lists BY <1>2 DEF Lists
<1>4. PICK outcome \in {"not_found", "ok"} : Untouched /\ Answer(r, outcome)
  BY DEF FindReview, RefuseReview, Untouched
<1> QED BY <1>1, <1>3, <1>4, Refuses DEF Plain

LEMMA UpdateOwnKeeps ==
    ASSUME IInv, NEW r \in Requests, UpdateOwn(r), UNCHANGED <<studentVars, portfolioVars>>
    PROVE  IInv'
<1>1. pc[r] = "UpdateOwn" BY DEF UpdateOwn, At
<1>2. req[r].op = "patch_review" BY <1>1, OpAt DEF IInv
<1>3. req[r].op \notin Lists /\ req[r].op \in ById BY <1>2 DEF Lists, ById
<1>4. ASSUME NEW e \in Doc(req[r].id), Store([e EXCEPT !.rating = req[r].rating]), Stored(r)
      PROVE  IInv'
  <2>1. PICK d : d = [e EXCEPT !.rating = req[r].rating] OBVIOUS
  <2>2. e \in reviews /\ e \in Review /\ CountsRight(e) BY Parts DEF Doc, ReviewsOK
  <2>3. req[r].rating \in Ratings BY <1>2, InputOf DEF IInv
  <2>4. /\ d \in Review /\ d.id = e.id /\ d.course = e.course /\ d.author = e.author
        /\ d.replies = e.replies /\ d.helpful_by = e.helpful_by
        /\ d.helpful_count = e.helpful_count /\ e.replies \in Nat
    BY <2>1, <2>2, <2>3 DEF Review
  <2>5. CountsRight(d) BY <2>2, <2>4 DEF CountsRight
  <2>6. Reply(r) /\ UNCHANGED <<enrolled, attended, nextReview>> BY <1>4 DEF Stored
  <2>7. e.replies <= d.replies /\ e.helpful_by \subseteq d.helpful_by BY <2>4
  <2>8. ReviewsOK' /\ ReviewsMove BY <1>4, <2>1, <2>2, <2>4, <2>5, <2>6, <2>7, ReviewsStore
  <2> QED BY <1>1, <1>3, <2>6, <2>8, ReviewWritten
<1>5. CASE (\A d \in Doc(req[r].id) : d.author # req[r].by) /\ PassReview(r, "WhyNoMatch")
  <2>1. Untouched /\ Goto(r, "WhyNoMatch") BY <1>5 DEF PassReview, Untouched
  <2>2. "WhyNoMatch" \in Steps(req[r].op) BY <1>2 DEF Steps
  <2>3. \A d \in reviews : d.id = req[r].id => req[r].by # d.author BY <1>5 DEF Doc
  <2> QED BY <1>1, <1>3, <2>1, <2>2, <2>3, Asks
<1> QED BY <1>4, <1>5 DEF UpdateOwn

LEMMA DeleteReviewKeeps ==
    ASSUME IInv, NEW r \in Requests, DeleteReview(r), UNCHANGED <<studentVars, portfolioVars>>
    PROVE  IInv'
<1>1. pc[r] = "DeleteReview" BY DEF DeleteReview, At
<1>2. req[r].op = "delete_review" BY <1>1, OpAt DEF IInv
<1>3. req[r].op \notin Lists /\ req[r].op \in ById BY <1>2 DEF Lists, ById
<1>4. ASSUME NEW e \in Doc(req[r].id), reviews' = reviews \ {e}, Stored(r)
      PROVE  IInv'
  <2>1. Reply(r) /\ UNCHANGED <<enrolled, attended, nextReview>> BY <1>4 DEF Stored
  <2>2. ReviewsOK BY Parts
  <2>3. ReviewsOK' /\ ReviewsMove BY <1>4, <2>1, <2>2, ReviewsPart DEF ReviewsOK
  <2> QED BY <1>1, <1>3, <2>1, <2>3, ReviewWritten
<1>5. CASE (\A d \in Doc(req[r].id) : ~Mine(r, d)) /\ PassReview(r, "WhyNoMatch")
  <2>1. Untouched /\ Goto(r, "WhyNoMatch") BY <1>5 DEF PassReview, Untouched
  <2>2. "WhyNoMatch" \in Steps(req[r].op) BY <1>2 DEF Steps
  <2>3. \A d \in reviews : d.id = req[r].id => req[r].by # d.author BY <1>5 DEF Doc, Mine
  <2> QED BY <1>1, <1>3, <2>1, <2>2, <2>3, Asks
<1> QED BY <1>4, <1>5 DEF DeleteReview

LEMMA WhyNoMatchKeeps ==
    ASSUME IInv, NEW r \in Requests, WhyNoMatch(r), UNCHANGED <<studentVars, portfolioVars>>
    PROVE  IInv'
<1>1. pc[r] = "WhyNoMatch" BY DEF WhyNoMatch, At
<1>2. req[r].op \in {"patch_review", "delete_review"} BY <1>1, OpAt DEF IInv
<1>3. req[r].op \notin Lists /\ req[r].op \in ById BY <1>2 DEF Lists, ById
<1>4. CASE RefuseReview(r, "not_found")
  <2>1. Untouched /\ Answer(r, "not_found") BY <1>4 DEF RefuseReview, Untouched
  <2> QED BY <1>1, <1>3, <2>1, Refuses DEF Plain
<1>5. CASE RefuseReview(r, "not_owner")
  <2>1. Untouched /\ Answer(r, "not_owner") BY <1>5 DEF RefuseReview, Untouched
  <2>2. Learnt(r) BY Parts
  <2>3. \A d \in reviews : d.id = req[r].id => req[r].by # d.author BY <1>1, <1>3, <2>2 DEF Learnt
  <2> QED BY <1>1, <1>3, <2>1, <2>3, Explains
<1> QED BY <1>4, <1>5 DEF WhyNoMatch

LEMMA AddReplyKeeps ==
    ASSUME IInv, NEW r \in Requests, AddReply(r), UNCHANGED <<studentVars, portfolioVars>>
    PROVE  IInv'
<1>1. pc[r] = "AddReply" BY DEF AddReply, At
<1>2. req[r].op = "reply" BY <1>1, OpAt DEF IInv
<1>3. req[r].op \notin Lists /\ req[r].op \in ById BY <1>2 DEF Lists, ById
<1>4. ASSUME NEW e \in Doc(req[r].id), e.replies < MaxReplies,
             Store([e EXCEPT !.replies = @ + 1]), Stored(r)
      PROVE  IInv'
  <2>1. PICK d : d = [e EXCEPT !.replies = @ + 1] OBVIOUS
  <2>2. e \in reviews /\ e \in Review /\ CountsRight(e) BY Parts DEF Doc, ReviewsOK
  <2>3. e.replies \in Nat BY <2>2 DEF Review
  <2>4. /\ d \in Review /\ d.id = e.id /\ d.course = e.course /\ d.author = e.author
        /\ d.replies = e.replies + 1 /\ d.helpful_by = e.helpful_by
        /\ d.helpful_count = e.helpful_count
    BY <2>1, <2>2, <2>3 DEF Review
  <2>5. d.replies <= MaxReplies /\ e.replies <= d.replies BY <1>4, <2>3, <2>4, MaxRepliesValid
  <2>6. CountsRight(d) BY <2>2, <2>4, <2>5 DEF CountsRight
  <2>7. Reply(r) /\ UNCHANGED <<enrolled, attended, nextReview>> BY <1>4 DEF Stored
  <2>8. ReviewsOK' /\ ReviewsMove BY <1>4, <2>1, <2>2, <2>4, <2>5, <2>6, <2>7, ReviewsStore
  <2> QED BY <1>1, <1>3, <2>7, <2>8, ReviewWritten
<1>5. CASE (\A d \in Doc(req[r].id) : d.replies >= MaxReplies) /\ PassReview(r, "ExplainReply")
  <2>1. Untouched /\ Goto(r, "ExplainReply") BY <1>5 DEF PassReview, Untouched
  <2>2. "ExplainReply" \in Steps(req[r].op) BY <1>2 DEF Steps
  <2>3. \A d \in reviews : d.id = req[r].id => d.replies >= MaxReplies BY <1>5 DEF Doc
  <2> QED BY <1>1, <1>3, <2>1, <2>2, <2>3, Asks
<1> QED BY <1>4, <1>5 DEF AddReply

LEMMA ExplainReplyKeeps ==
    ASSUME IInv, NEW r \in Requests, ExplainReply(r), UNCHANGED <<studentVars, portfolioVars>>
    PROVE  IInv'
<1>1. pc[r] = "ExplainReply" BY DEF ExplainReply, At
<1>2. req[r].op = "reply" BY <1>1, OpAt DEF IInv
<1>3. req[r].op \notin Lists /\ req[r].op \in ById BY <1>2 DEF Lists, ById
<1>4. CASE RefuseReview(r, "not_found")
  <2>1. Untouched /\ Answer(r, "not_found") BY <1>4 DEF RefuseReview, Untouched
  <2> QED BY <1>1, <1>3, <2>1, Refuses DEF Plain
<1>5. CASE RefuseReview(r, "reply_limit")
  <2>1. Untouched /\ Answer(r, "reply_limit") BY <1>5 DEF RefuseReview, Untouched
  <2>2. Learnt(r) BY Parts
  <2>3. \A d \in reviews : d.id = req[r].id => d.replies >= MaxReplies
    BY <1>1, <1>3, <2>2 DEF Learnt
  <2> QED BY <1>1, <1>3, <2>1, <2>3, Explains
<1> QED BY <1>4, <1>5 DEF ExplainReply

LEMMA MarkHelpfulKeeps ==
    ASSUME IInv, NEW r \in Requests, MarkHelpful(r), UNCHANGED <<studentVars, portfolioVars>>
    PROVE  IInv'
<1>1. pc[r] = "MarkHelpful" BY DEF MarkHelpful, At
<1>2. req[r].op = "helpful" BY <1>1, OpAt DEF IInv
<1>3. req[r].op \notin Lists /\ req[r].op \in ById BY <1>2 DEF Lists, ById
<1>4. ASSUME NEW e \in Doc(req[r].id), OpenToVote(e, req[r].by),
             Store([e EXCEPT !.helpful_by = @ \cup {req[r].by}, !.helpful_count = @ + 1]), Stored(r)
      PROVE  IInv'
  <2>0. PICK votes, count : votes = e.helpful_by \cup {req[r].by} /\ count = e.helpful_count + 1
    OBVIOUS
  <2>1. PICK d : d = [e EXCEPT !.helpful_by = votes, !.helpful_count = count] OBVIOUS
  <2>2. e \in reviews /\ e \in Review /\ CountsRight(e) BY Parts DEF Doc, ReviewsOK
  <2>3. /\ e.replies \in Nat /\ e.helpful_count \in Nat /\ e.helpful_by \subseteq Users
        /\ req[r].by \in Users
    BY <2>2, InputOf DEF Review, IInv
  <2>13. votes \in SUBSET Users /\ count \in Nat BY <2>0, <2>3
  <2>12. /\ d \in Review /\ d.id = e.id /\ d.course = e.course /\ d.author = e.author
        /\ d.replies = e.replies /\ d.helpful_by = votes /\ d.helpful_count = count
    BY <2>1, <2>2, <2>13 DEF Review
  <2>4. /\ d \in Review /\ d.id = e.id /\ d.course = e.course /\ d.author = e.author
        /\ d.replies = e.replies /\ d.helpful_by = e.helpful_by \cup {req[r].by}
        /\ d.helpful_count = e.helpful_count + 1
    BY <2>0, <2>12
  <2>5. IsFiniteSet(e.helpful_by) BY <2>3, UsersFinite, FS_Subset
  <2>6. req[r].by \notin e.helpful_by /\ e.author # req[r].by BY <1>4 DEF OpenToVote
  <2>7. Cardinality(d.helpful_by) = Cardinality(e.helpful_by) + 1
    BY <2>4, <2>5, <2>6, FS_AddElement
  <2>8. CountsRight(d) BY <2>2, <2>4, <2>6, <2>7 DEF CountsRight
  <2>9. Reply(r) /\ UNCHANGED <<enrolled, attended, nextReview>> BY <1>4 DEF Stored
  <2>10. e.replies <= d.replies BY <2>3, <2>4
  <2>11. ReviewsOK' /\ ReviewsMove BY <1>4, <2>0, <2>1, <2>2, <2>4, <2>8, <2>9, <2>10, ReviewsStore
  <2> QED BY <1>1, <1>3, <2>9, <2>11, ReviewWritten
<1>5. CASE (\A d \in Doc(req[r].id) : ~OpenToVote(d, req[r].by)) /\ PassReview(r, "ExplainVote")
  <2>1. Untouched /\ Goto(r, "ExplainVote") BY <1>5 DEF PassReview, Untouched
  <2>2. "ExplainVote" \in Steps(req[r].op) BY <1>2 DEF Steps
  <2>3. \A d \in reviews : d.id = req[r].id => req[r].by = d.author \/ req[r].by \in d.helpful_by
    BY <1>5 DEF Doc, OpenToVote
  <2> QED BY <1>1, <1>3, <2>1, <2>2, <2>3, Asks
<1> QED BY <1>4, <1>5 DEF MarkHelpful

LEMMA ExplainVoteKeeps ==
    ASSUME IInv, NEW r \in Requests, ExplainVote(r), UNCHANGED <<studentVars, portfolioVars>>
    PROVE  IInv'
<1>1. pc[r] = "ExplainVote" BY DEF ExplainVote, At
<1>2. req[r].op = "helpful" BY <1>1, OpAt DEF IInv
<1>3. req[r].op \notin Lists /\ req[r].op \in ById BY <1>2 DEF Lists, ById
<1>4. CASE RefuseReview(r, "not_found")
  <2>1. Untouched /\ Answer(r, "not_found") BY <1>4 DEF RefuseReview, Untouched
  <2> QED BY <1>1, <1>3, <2>1, Refuses DEF Plain
<1>5. ASSUME NEW e \in Doc(req[r].id),
             RefuseReview(r, IF e.author = req[r].by THEN "own_review" ELSE "already_voted")
      PROVE  IInv'
  <2>1. Learnt(r) /\ ReviewsOK BY Parts
  <2>2. e \in reviews /\ e.id = req[r].id /\ \A d \in reviews : d.id = req[r].id => d = e
    BY <2>1 DEF Doc, ReviewsOK
  <2>3. req[r].by = e.author \/ req[r].by \in e.helpful_by BY <1>1, <1>3, <2>1, <2>2 DEF Learnt
  <2>4. PICK outcome : outcome = IF e.author = req[r].by THEN "own_review" ELSE "already_voted"
    OBVIOUS
  <2>5. Untouched /\ Answer(r, outcome) BY <1>5, <2>4 DEF RefuseReview, Untouched
  <2>6. /\ outcome \in {"own_review", "already_voted"}
        /\ outcome = "own_review" => req[r].by = e.author
        /\ outcome = "already_voted" => req[r].by \in e.helpful_by
    BY <2>3, <2>4
  <2>7. \A d \in reviews : d.id = req[r].id =>
           /\ outcome = "own_review" => req[r].by = d.author
           /\ outcome = "already_voted" => req[r].by \in d.helpful_by
    BY <2>2, <2>6
  <2> QED BY <1>1, <1>3, <2>5, <2>6, <2>7, Explains
<1> QED BY <1>4, <1>5 DEF ExplainVote

LEMMA ReviewStatementKeeps ==
    ASSUME IInv, NEW r \in Requests, req[r].op \in ReviewOps,
           ReviewStatement(r), UNCHANGED <<studentVars, portfolioVars>>
    PROVE  IInv'
BY ArriveReviewKeeps, FindCourseKeeps, IsEnrolledKeeps, InsertReviewKeeps, FindByCourseKeeps,
   FindReviewKeeps, UpdateOwnKeeps, DeleteReviewKeeps, WhyNoMatchKeeps, AddReplyKeeps,
   ExplainReplyKeeps, MarkHelpfulKeeps, ExplainVoteKeeps DEF ReviewStatement

-----------------------------------------------------------------------------
(* What is not a statement of a request.                                    *)

LEMMA InterruptKeeps ==
    ASSUME IInv, NEW r \in Requests, Interrupt(r)
    PROVE  IInv'
<1>1. pc[r] # "Arrive" /\ Answer(r, "error") /\ Untouched BY DEF Interrupt, Untouched
<1> QED BY <1>1, Refuses DEF Plain

\* A step of nobody keeps the invariant if it keeps the tables.
LEMMA OthersKeep ==
    ASSUME IInv, users' \subseteq Users, StudentsOK', PortfoliosOK', ReviewsOK',
           StudentsMove, ReviewsMove,
           UNCHANGED <<req, pc, answer, listed, cursor, from, row, found>>
    PROVE  IInv'
<1>1. SharedOK /\ LocalOK BY Parts
<1>2. SharedOK' BY <1>1 DEF SharedOK
<1>3. LocalOK' BY <1>1 DEF LocalOK
<1>4. ASSUME NEW q \in Requests PROVE Learnt(q)' /\ ((req[q].op)' \in Lists => Paging(q)')
  <2>1. Still(q) /\ (req[q])' = req[q] BY DEF Still
  <2> QED BY <2>1, LearntKept, PagingKept
<1> QED
  BY <1>2, <1>3, <1>4 DEF IInv, TypeOK, IdsFresh, CountsAddUp, SharedOK, LocalOK, StudentsOK,
     PortfoliosOK, ReviewsOK

LEMMA RegistrationKeeps ==
    ASSUME IInv, NEW e \in Moving, Registration(e[1], e[2])
    PROVE  IInv'
<1>1. /\ UNCHANGED <<users, req, pc, answer, listed, cursor, from>>
      /\ UNCHANGED <<studentVars, portfolioVars>>
  BY DEF Registration, shared
<1>2. SharedOK /\ ReviewsOK BY Parts
<1>3. <<e[1], e[2]>> \in Courses \X Users BY EnvironmentValid
<1>4. /\ UNCHANGED <<reviews, nextReview>> /\ attended \subseteq attended'
      /\ enrolled' \subseteq attended' /\ attended' \subseteq Courses \X Users
  <2>1. CASE Enroll(e[1], e[2]) BY <1>2, <1>3, <2>1 DEF Enroll, ReviewsOK
  <2>2. CASE Drop(e[1], e[2]) BY <1>2, <2>2 DEF Drop, ReviewsOK
  <2> QED BY <2>1, <2>2 DEF Registration
<1>5. ReviewsOK' /\ ReviewsMove BY <1>4, ReviewsPart
<1>6. users' \subseteq Users BY <1>1, <1>2 DEF SharedOK
<1> QED BY <1>1, <1>5, <1>6, ReviewsAlone, OthersKeep

LEMMA RemoveUserKeeps ==
    ASSUME IInv, NEW u \in Leaving, RemoveUser(u)
    PROVE  IInv'
<1>1. /\ UNCHANGED <<req, pc, answer, listed, cursor, from, row, portfolios, found>>
      /\ users' = users \ {u} /\ Disown(u)
  BY DEF RemoveUser, Disown, portfolioVars
<1>2. SharedOK /\ ReviewsOK /\ PortfoliosOK BY Parts
<1>3. /\ UNCHANGED <<attended, reviews, nextReview>> /\ enrolled' \subseteq enrolled
  BY DEF RemoveUser, Forget
<1>4. ReviewsOK' /\ ReviewsMove BY <1>2, <1>3, ReviewsPart DEF ReviewsOK
<1>5. StudentsOK' /\ StudentsMove BY <1>1, StudentsDisown
<1>6. PortfoliosOK' /\ users' \subseteq Users BY <1>1, <1>2 DEF PortfoliosOK, SharedOK
<1> QED BY <1>1, <1>4, <1>5, <1>6, OthersKeep

LEMMA StutterKeeps ==
    ASSUME IInv, UNCHANGED vars
    PROVE  IInv'
<1>1. /\ UNCHANGED <<users, req, pc, answer, listed, cursor, from, row, found>> /\ Untouched
  BY DEF vars, shared, Untouched, studentVars, portfolioVars
<1>2. users' \subseteq Users BY <1>1, Parts DEF SharedOK
<1> QED BY <1>1, <1>2, UntouchedKeeps, OthersKeep

LEMMA StatementKeeps ==
    ASSUME IInv, NEW r \in Requests, Statement(r)
    PROVE  IInv'
BY StudentStatementKeeps, PortfolioStatementKeeps, ReviewStatementKeeps DEF Statement

LEMMA NextKeeps ==
    ASSUME IInv, [Next]_vars
    PROVE  IInv'
BY StatementKeeps, InterruptKeeps, RegistrationKeeps, RemoveUserKeeps, StutterKeeps
   DEF Next, AllAnswered

LEMMA InitHolds ==
    ASSUME Init
    PROVE  IInv
<1>1. /\ users = Users /\ req \in [Requests -> Inputs]
      /\ pc = [r \in Requests |-> "Arrive"] /\ answer = [r \in Requests |-> "none"]
      /\ listed = [r \in Requests |-> <<>>] /\ cursor = [r \in Requests |-> None]
      /\ from = [r \in Requests |-> 0]
  BY DEF Init
<1>2. /\ students = SeedStudents /\ nextStudent = Cardinality(SeedStudents) + 1
      /\ row = [r \in Requests |-> None]
  BY DEF Init, StudentInit
<1>3. portfolios = SeedPortfolios /\ found = [r \in Requests |-> 0] BY DEF Init, PortfolioInit
<1>4. /\ enrolled = SeedEnrolled /\ attended = SeedEnrolled /\ reviews = SeedReviews
      /\ nextReview = Cardinality(SeedReviews) + 1
  BY DEF Init, ReviewInit
<1>5. Cardinality(SeedStudents) \in Nat /\ Cardinality(SeedReviews) \in Nat
  BY SeedStudentsValid, SeedReviewsValid, FS_CardinalityType
<1>6. SharedOK
  <2>1. <<>> \in Seq(Nat) BY EmptySeq
  <2> QED BY <1>1, <2>1 DEF SharedOK, Statements, Outcomes
<1>7. LocalOK BY <1>1, <1>2, <1>3 DEF LocalOK
<1>8. StudentsOK
  <2>1. SeedStudents \subseteq Student BY SeedStudentsValid
  <2>2. \A s \in SeedStudents : s.id \in Nat /\ s.id < nextStudent
    BY <1>2, <1>5, SeedStudentsValid
  <2> QED BY <1>2, <1>5, <2>1, <2>2, SeedStudentsValid DEF StudentsOK
<1>9. PortfoliosOK BY <1>3, SeedPortfoliosValid DEF PortfoliosOK
<1>10. ReviewsOK
  <2>0. \A d \in SeedReviews : d.id \in 1 .. Cardinality(SeedReviews) /\ CountsRight(d)
    BY SeedReviewsValid, Zenon
  <2>1. \A d \in SeedReviews : d.id < nextReview /\ CountsRight(d) BY <1>4, <1>5, <2>0
  <2>2. ReviewsByParticipants BY <1>4, SeedReviewsValid DEF ReviewsByParticipants
  <2> QED BY <1>4, <1>5, <2>1, <2>2, SeedReviewsValid, SeedEnrolledValid DEF ReviewsOK
<1>11. ASSUME NEW r \in Requests PROVE Learnt(r) /\ Paging(r)
  <2>1. /\ pc[r] = "Arrive" /\ answer[r] = "none" /\ listed[r] = <<>> /\ cursor[r] = None
        /\ from[r] = 0
    BY <1>1
  <2>2. Learnt(r) BY <2>1 DEF Learnt
  <2>3. Issued(r) \in Nat BY <1>2, <1>4, <1>5 DEF Issued
  <2>4. \A x : ~OnPage(r, x) BY <2>1 DEF OnPage
  <2>5. 1 .. Len(listed[r]) = {} BY <2>1
  <2>6. from[r] <= Issued(r) BY <2>1, <2>3
  <2> QED BY <2>1, <2>2, <2>4, <2>5, <2>6 DEF Paging
<1> QED BY <1>6, <1>7, <1>8, <1>9, <1>10, <1>11, Parts

-----------------------------------------------------------------------------
(* Theorems.                                                                *)

\* Whatever clients, other handlers and failures do, the invariant holds
\* (handlers of student_service.go, portfolio_service.go and review_service.go).
THEOREM InvariantHolds == Spec => []IInv
<1>1. Init => IInv BY InitHolds
<1>2. IInv /\ [Next]_vars => IInv' BY NextKeeps
<1> QED BY <1>1, <1>2, PTL DEF Spec

\* Votes, replies and projects are counted right (MarkHelpful, AddReply and
\* AddProject of the repositories).
THEOREM CountsHold == Spec => []CountsAddUp
<1>1. IInv => CountsAddUp BY DEF IInv
<1> QED BY <1>1, InvariantHolds, PTL

\* Only who takes or took a course has reviewed it, and once (ReviewService.Create
\* and the unique index).
THEOREM ParticipantsHold == Spec => []ReviewsByParticipants
<1>1. IInv => ReviewsByParticipants BY DEF IInv
<1> QED BY <1>1, InvariantHolds, PTL

\* The reason of a refusal is true (whyNoMatch and its like in the repositories).
THEOREM RefusalsHold == Spec => []RefusalsTrue
<1>1. ASSUME IInv PROVE RefusalsTrue
  <2> SUFFICES ASSUME NEW r \in Requests
               PROVE  /\ req[r].op \in ReviewOps \ {"create_review", "list_reviews"} =>
                            \A d \in reviews : d.id = req[r].id =>
                               /\ answer[r] = "already_voted" => req[r].by \in d.helpful_by
                               /\ answer[r] = "own_review" => req[r].by = d.author
                               /\ answer[r] = "reply_limit" => d.replies = MaxReplies
                               /\ answer[r] = "not_owner" => req[r].by # d.author
                      /\ answer[r] = "project_limit" => found[r] \in {MaxProjects, -1}
    BY DEF RefusalsTrue
  <2>1. Learnt(r) /\ ReviewsOK BY <1>1, Parts
  <2>2. ASSUME req[r].op \in ById, NEW d \in reviews, d.id = req[r].id
        PROVE  /\ answer[r] = "already_voted" => req[r].by \in d.helpful_by
               /\ answer[r] = "own_review" => req[r].by = d.author
               /\ answer[r] = "reply_limit" => d.replies = MaxReplies
               /\ answer[r] = "not_owner" => req[r].by # d.author
    <3>1. d.replies <= MaxReplies /\ d.replies \in Nat
      BY <2>1, <2>2 DEF ReviewsOK, CountsRight, Review
    <3>2. answer[r] = "reply_limit" => d.replies >= MaxReplies BY <2>1, <2>2 DEF Learnt
    <3>3. answer[r] = "reply_limit" => d.replies = MaxReplies BY <3>1, <3>2, MaxRepliesValid
    <3> QED BY <2>1, <2>2, <3>3 DEF Learnt
  <2>3. ReviewOps \ {"create_review", "list_reviews"} \subseteq ById BY DEF ReviewOps, ById
  <2>4. answer[r] = "project_limit" => found[r] \in {MaxProjects, -1} BY <2>1 DEF Learnt
  <2> QED BY <2>2, <2>3, <2>4
<1> QED BY <1>1, InvariantHolds, PTL

\* A list read page by page shows every row once (helper/cursor.go and the
\* FindAfterCursor and FindByCourse of the repositories).
THEOREM ListingHolds == Spec => []ListedOnce
<1>1. IInv => ListedOnce BY DEF IInv, ListedOnce, Lists, Paging, OnPage
<1> QED BY <1>1, InvariantHolds, PTL
=============================================================================
