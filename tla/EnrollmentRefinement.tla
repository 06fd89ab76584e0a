------------------------ MODULE EnrollmentRefinement ------------------------
(***************************************************************************)
(* Enrollment implements Krs, for every set of requests, students and      *)
(* courses: what a transaction has decided on is still true when it        *)
(* commits (IInv), hence every commit is one step of Krs and everything    *)
(* else is none.  From the same invariant: the limit of credits, the       *)
(* absence of waiting cycles, that the outbox tells what happened to every *)
(* student, and that it feeds the pipeline as module Notices expects.      *)
(***************************************************************************)
EXTENDS EnrollmentProofs, Sums

-----------------------------------------------------------------------------
(* Credits.                                                                 *)

\* SUM(credits) of a student is the sum over the classes of the student.
LEMMA CreditSumIsSum ==
    ASSUME NEW s, NEW pairs
    PROVE  /\ CreditSum(s, pairs) = SumOver(Credits, CoursesOf(s, pairs))
           /\ CoursesOf(s, pairs) \in SUBSET Courses
           /\ IsFiniteSet(CoursesOf(s, pairs))
  <1>1. CreditSum(s, pairs) = SumOver(Credits, CoursesOf(s, pairs))
    BY DEF CreditSum, SumOver
  <1>2. CoursesOf(s, pairs) \in SUBSET Courses
    BY DEF CoursesOf
  <1>3. IsFiniteSet(CoursesOf(s, pairs))
    BY <1>2, CoursesOrdered, FS_Subset
  <1>4. QED
    BY <1>1, <1>2, <1>3

LEMMA CreditsNat == Credits \in [Courses -> Nat] /\ MaxCredits \in Nat
  BY CreditsPositive

LEMMA CreditSumType ==
    ASSUME NEW s, NEW pairs
    PROVE  CreditSum(s, pairs) \in Nat
  BY CreditSumIsSum, SumType, CreditsNat

\* The sum depends on nothing but the student's own rows.
LEMMA CreditSumSame ==
    ASSUME NEW s, NEW P, NEW Q, \A c \in Courses : <<c, s>> \in P <=> <<c, s>> \in Q
    PROVE  CreditSum(s, P) = CreditSum(s, Q)
  <1>1. CoursesOf(s, P) = CoursesOf(s, Q)
    BY DEF CoursesOf
  <1>2. QED
    BY <1>1, CreditSumIsSum

\* One class more, one class less.
LEMMA CreditSumAdd ==
    ASSUME NEW s, NEW P, NEW c \in Courses, <<c, s>> \notin P
    PROVE  CreditSum(s, P \cup {<<c, s>>}) = CreditSum(s, P) + Credits[c]
  <1>1. CoursesOf(s, P \cup {<<c, s>>}) = CoursesOf(s, P) \cup {c} /\ c \notin CoursesOf(s, P)
    BY DEF CoursesOf
  <1>2. SumOver(Credits, CoursesOf(s, P) \cup {c}) = SumOver(Credits, CoursesOf(s, P)) + Credits[c]
    BY <1>1, CreditSumIsSum, CreditsNat, SumAdd
  <1>3. QED
    BY <1>1, <1>2, CreditSumIsSum

LEMMA CreditSumRemove ==
    ASSUME NEW s, NEW P, NEW c \in Courses, <<c, s>> \in P
    PROVE  CreditSum(s, P \ {<<c, s>>}) = CreditSum(s, P) - Credits[c]
  <1> DEFINE Q == P \ {<<c, s>>}
  <1>1. <<c, s>> \notin Q /\ P = Q \cup {<<c, s>>}
    OBVIOUS
  <1>2. CreditSum(s, P) = CreditSum(s, Q) + Credits[c]
    BY <1>1, CreditSumAdd
  <1>3. CreditSum(s, Q) \in Nat /\ Credits[c] \in Nat
    BY CreditSumType, CreditsNat
  <1>4. QED
    BY <1>2, <1>3

\* Who has no rows has no credits.
LEMMA CreditSumNone ==
    ASSUME NEW s, NEW P, \A c \in Courses : <<c, s>> \notin P
    PROVE  CreditSum(s, P) = 0
  <1>1. CoursesOf(s, P) = {}
    BY DEF CoursesOf
  <1>2. QED
    BY <1>1, CreditSumIsSum, SumEmpty

-----------------------------------------------------------------------------
(* Events.                                                                  *)

\* An event is about the quota of its class, or about its student.
LEMMA BodyFacts ==
    ASSUME TypeOK, NEW r \in Requests
    PROVE  /\ Abstract!AboutQuota(EventBody(req[r])) <=> Op(r) = "quota"
           /\ Op(r) # "quota" => EventBody(req[r]).user = req[r].user
           /\ Op(r) = "quota" => EventBody(req[r]).course = req[r].course
  <1>1. Op(r) \in {"enroll", "drop", "swap", "quota"}
    BY InputFacts
  <1>2. CASE Op(r) = "enroll"
    <2>1. EventBody(req[r]) = [type |-> "enrollment.created", user |-> req[r].user,
                               course |-> req[r].course]
      BY <1>2 DEF EventBody, Op
    <2>2. QED
      BY <1>2, <2>1 DEF Abstract!AboutQuota
  <1>3. CASE Op(r) = "drop"
    <2>1. EventBody(req[r]) = [type |-> "enrollment.dropped", user |-> req[r].user,
                               course |-> req[r].course]
      BY <1>3 DEF EventBody, Op
    <2>2. QED
      BY <1>3, <2>1 DEF Abstract!AboutQuota
  <1>4. CASE Op(r) = "swap"
    <2>1. EventBody(req[r]) = [type |-> "enrollment.swapped", user |-> req[r].user,
                               course |-> req[r].course, from |-> req[r].from]
      BY <1>4 DEF EventBody, Op
    <2>2. QED
      BY <1>4, <2>1 DEF Abstract!AboutQuota
  <1>5. CASE Op(r) = "quota"
    <2>1. EventBody(req[r]) = [type |-> "course.quota_changed", course |-> req[r].course,
                               quota |-> req[r].quota]
      BY <1>5 DEF EventBody, Op
    <2>2. QED
      BY <1>5, <2>1 DEF Abstract!AboutQuota
  <1>6. QED
    BY <1>1, <1>2, <1>3, <1>4, <1>5

\* Two requests that would announce something about the same subject ask for
\* the same row lock: that of the student, or that of the class.
LEMMA SubjectFacts ==
    ASSUME TypeOK, NEW r \in Requests, NEW q \in Requests,
           Abstract!SameSubject(EventBody(req[q]), EventBody(req[r]))
    PROVE  \/ Op(r) # "quota" /\ Op(q) # "quota" /\ req[r].user = req[q].user
           \/ Op(r) = "quota" /\ Op(q) = "quota" /\ req[r].course = req[q].course
  BY BodyFacts DEF Abstract!SameSubject

-----------------------------------------------------------------------------
(* A step of one request does not disturb the decisions of another.         *)

\* As long as the rows of q's student, q's locks and q's private state stay,
\* and no event of q's subject gets between, q's decisions stay valid.
LEMMA OthersStay ==
    ASSUME TypeOK, NEW q \in Requests, DecisionValid(q),
           Private(q)' = Private(q), staged'[q] = staged[q],
           \A s \in Students : userLock'[s] = q <=> userLock[s] = q,
           \A c \in Courses : courseLock'[c] = q <=> courseLock[c] = q,
           HoldsStudent(q) =>
               /\ req[q].user \in users => req[q].user \in users'
               /\ \A c \in CourseIds : <<c, req[q].user>> \in enrollments'
                                   <=> <<c, req[q].user>> \in enrollments,
           nextId \in Nat, nextId' \in Nat, nextId' >= nextId,
           \A f \in outbox', e \in staged[q] :
               f \in outbox \/ (f.id # e.id /\ ~ Abstract!SameSubject(f.body, e.body))
    PROVE  DecisionValid(q)'
  <1> USE DEF DecisionValid
  <1>1. /\ req'[q] = req[q] /\ pc'[q] = pc[q] /\ Op(q)' = Op(q) /\ row'[q] = row[q]
        /\ HoldsStudent(q)' = HoldsStudent(q) /\ HasAnnounced(q)' = HasAnnounced(q)
    BY DEF Private, Op, HoldsStudent, HasAnnounced
  <1>2. AccountKept(q)'
    BY <1>1 DEF AccountKept
  <1>3. LimitKept(q)'
    <2>1. Op(q) \in {"enroll", "swap"} /\ pc[q] \notin {"LockStudent", "Done"} => HoldsStudent(q)
      BY DEF HoldsStudent
    <2>2. ASSUME HoldsStudent(q)
          PROVE  CreditSum(req[q].user, enrollments') = CreditSum(req[q].user, enrollments)
      BY <2>2, CreditSumSame, CoursesOrdered
    <2>3. QED
      BY <1>1, <2>1, <2>2 DEF LimitKept
  <1>4. OwnsOnly(q)'
    <2>1. Op(q) = "swap" => Unlocked(q)' = Unlocked(q)
      BY <1>1 DEF Unlocked
    <2>2. \A c : Touches(q, c)' <=> Touches(q, c)
      BY <1>1 DEF Touches, HasIncremented, HasRequoted, HasDecremented, Leaving
    <2>3. QED
      BY <1>1, <2>1, <2>2 DEF OwnsOnly
  <1>5. EventStaged(q)'
    <2>1. CASE ~ HasAnnounced(q)
      BY <1>1, <2>1 DEF EventStaged
    <2>2. CASE HasAnnounced(q)
      <3>1. PICK e \in Event :
              /\ staged[q] = {e} /\ e.body = EventBody(req[q]) /\ e.id < nextId
              /\ \A f \in outbox : f.id # e.id /\ (Abstract!SameSubject(f.body, e.body)
                                                     => f.id < e.id)
        BY <2>2 DEF EventStaged
      <3>2. e.id \in Nat
        BY BoundsNat DEF Event
      <3>3. e.id < nextId'
        BY <3>1, <3>2
      <3>4. \A f \in outbox' : f.id # e.id /\ (Abstract!SameSubject(f.body, e.body)
                                                 => f.id < e.id)
        BY <3>1
      <3>5. QED
        BY <1>1, <2>2, <3>1, <3>3, <3>4 DEF EventStaged
    <2>3. QED
      BY <2>1, <2>2
  <1>6. QED
    BY <1>2, <1>3, <1>4, <1>5

\* A step that leaves the tables alone and takes no lock of another request
\* keeps the decisions of the other requests.
LEMMA QuietStep ==
    ASSUME IInv, TypeOK', NEW r \in Requests, UNCHANGED <<tables, req>>,
           nextId' \in Nat, nextId' >= nextId,
           \A q \in Requests \ {r} : Private(q)' = Private(q) /\ staged'[q] = staged[q],
           \A q \in Requests \ {r} : \A s \in Students : userLock'[s] = q <=> userLock[s] = q,
           \A q \in Requests \ {r} : \A c \in Courses : courseLock'[c] = q <=> courseLock[c] = q
    PROVE  /\ \A q \in Requests \ {r} : DecisionValid(q)'
           /\ CreditLimitHolds'
  <1>1. TypeOK /\ nextId \in Nat
    BY DEF IInv, TransactionInv, TypeOK
  <1>2. ASSUME NEW q \in Requests \ {r} PROVE DecisionValid(q)'
    BY <1>1, <1>2, OthersStay DEF IInv, DecisionInv, tables
  <1>3. CreditLimitHolds'
    BY DEF IInv, DecisionInv, CreditLimitHolds, tables
  <1>4. QED
    BY <1>2, <1>3

-----------------------------------------------------------------------------
(* Init.                                                                    *)

LEMMA InitDecisions == Init => IInv
  <1> SUFFICES ASSUME Init PROVE IInv
    OBVIOUS
  <1>1. TransactionInv /\ TypeOK
    BY InitInv DEF TransactionInv
  <1>2. ASSUME NEW r \in Requests PROVE DecisionValid(r)
    <2>1. Op(r) \in {"enroll", "drop", "swap", "quota"}
      BY <1>1, InputFacts
    <2>2. pc[r] = IF Op(r) = "quota" THEN "UpdateQuota" ELSE "LockStudent"
      BY DEF Init, Op, FirstStatement
    <2>3. AccountKept(r) /\ LimitKept(r)
      BY <2>1, <2>2 DEF AccountKept, HoldsStudent, LimitKept
    <2>4. OwnsOnly(r)
      BY <2>1, <2>2, NoneIsFresh DEF Init, OwnsOnly
    <2>5. EventStaged(r)
      BY <2>1, <2>2 DEF Init, EventStaged, HasAnnounced
    <2>6. QED
      BY <2>3, <2>4, <2>5 DEF DecisionValid
  <1>3. CreditLimitHolds /\ IdsDrawn
    BY DEF Init, LegalTables, CreditLimitHolds, IdsDrawn
  <1>4. QED
    BY <1>1, <1>2, <1>3 DEF IInv, DecisionInv

-----------------------------------------------------------------------------
(* The end of a transaction without commit.                                 *)

\* A rollback gives up the locks and the staged event, and decides nothing.
LEMMA RollbackStays ==
    ASSUME IInv, TypeOK', NEW r \in Requests, Running(r), Release(r),
           UNCHANGED <<tables, nextId, req>>,
           NEW statement \in {"Done", FirstStatement(Op(r))},
           pc' = [pc EXCEPT ![r] = statement]
    PROVE  DecisionInv'
  <1>1. TypeOK /\ nextId \in Nat
    BY DEF IInv, TransactionInv, TypeOK
  <1>2. \A q \in Requests \ {r} : Private(q)' = Private(q) /\ staged'[q] = staged[q]
    BY <1>1 DEF Private, Release, TypeOK
  <1>3. /\ \A q \in Requests \ {r} : \A s \in Students : userLock'[s] = q <=> userLock[s] = q
        /\ \A q \in Requests \ {r} : \A c \in Courses : courseLock'[c] = q <=> courseLock[c] = q
    BY NoneIsFresh DEF Release
  <1>4. (\A q \in Requests \ {r} : DecisionValid(q)') /\ CreditLimitHolds'
    BY <1>1, <1>2, <1>3, QuietStep
  <1>5. DecisionValid(r)'
    <2>1. Op(r) \in {"enroll", "drop", "swap", "quota"} /\ Op(r)' = Op(r) /\ pc'[r] = statement
      BY <1>1, InputFacts DEF Op, TypeOK
    <2>2. statement = "Done" \/ statement = IF Op(r) = "quota" THEN "UpdateQuota" ELSE "LockStudent"
      BY DEF FirstStatement
    <2>3. /\ \A s \in Students : userLock'[s] # r
          /\ \A c \in Courses : courseLock'[c] # r
          /\ staged'[r] = {}
      BY <1>1, NoneIsFresh DEF Release, TypeOK
    <2>4. AccountKept(r)' /\ LimitKept(r)'
      BY <2>1, <2>2 DEF AccountKept, HoldsStudent, LimitKept
    <2>5. OwnsOnly(r)'
      BY <2>1, <2>2, <2>3 DEF OwnsOnly
    <2>6. EventStaged(r)'
      BY <2>1, <2>2, <2>3 DEF EventStaged, HasAnnounced
    <2>7. QED
      BY <2>4, <2>5, <2>6 DEF DecisionValid
  <1>6. IdsDrawn'
    <2>1. \A q \in Requests : staged'[q] \in SUBSET staged[q]
      BY <1>1, <1>2 DEF Release, TypeOK
    <2>2. QED
      BY <2>1 DEF IInv, DecisionInv, IdsDrawn, tables
  <1>7. QED
    BY <1>4, <1>5, <1>6 DEF DecisionInv

LEMMA RefuseStays ==
    ASSUME IInv, TypeOK', NEW r \in Requests, Running(r), NEW outcome, Refuse(r, outcome)
    PROVE  DecisionInv'
  BY RollbackStays DEF Refuse, Answer

LEMMA DeadlockVictimStays ==
    ASSUME IInv, TypeOK', NEW r \in Requests, DeadlockVictim(r)
    PROVE  DecisionInv'
  <1>1. Running(r)
    BY DEF DeadlockVictim, WaitsFor, Running, At
  <1>2. QED
    BY <1>1, RollbackStays DEF DeadlockVictim

-----------------------------------------------------------------------------
(* Statements that succeed.                                                 *)

\* A statement other than INSERT INTO outbox and COMMIT keeps all decisions
\* when it keeps those of its own request.
LEMMA StatementStays ==
    ASSUME IInv, TypeOK', NEW r \in Requests, UNCHANGED <<tables, nextId, req, staged>>,
           \A q \in Requests \ {r} : Private(q)' = Private(q),
           \A s \in Students : userLock'[s] # userLock[s] => userLock[s] = None /\ userLock'[s] = r,
           \A c \in Courses : courseLock'[c] # courseLock[c]
                                => courseLock[c] = None /\ courseLock'[c] = r,
           AccountKept(r)', LimitKept(r)', OwnsOnly(r)', EventStaged(r)'
    PROVE  DecisionInv'
  <1>1. nextId \in Nat
    BY DEF IInv, TransactionInv, TypeOK
  <1>2. /\ \A q \in Requests \ {r} : \A s \in Students : userLock'[s] = q <=> userLock[s] = q
        /\ \A q \in Requests \ {r} : \A c \in Courses : courseLock'[c] = q <=> courseLock[c] = q
    BY NoneIsFresh
  <1>3. (\A q \in Requests \ {r} : DecisionValid(q)') /\ CreditLimitHolds'
    BY <1>1, <1>2, QuietStep
  <1>4. IdsDrawn'
    BY DEF IInv, DecisionInv, IdsDrawn, tables
  <1>5. QED
    BY <1>3, <1>4 DEF DecisionInv, DecisionValid

LEMMA LockStudentStays ==
    ASSUME IInv, TypeOK', NEW r \in Requests, LockStudent(r)
    PROVE  DecisionInv'
  <1> USE DEF IInv, TransactionInv, DecisionInv, DecisionValid
  <1>1. Op(r) \in {"enroll", "drop", "swap"} /\ req[r].user \in Students /\ pc[r] = "LockStudent"
    BY InputFacts, ScriptFacts DEF LockStudent, At, OnScript
  <1>2. Running(r)
    BY <1>1 DEF Running
  <1>3. CASE Refuse(r, "not_found")
    BY <1>2, <1>3, RefuseStays
  <1>4. CASE /\ req[r].user \in users
             /\ userLock[req[r].user] = None
             /\ userLock' = [userLock EXCEPT ![req[r].user] = r]
             /\ Proceed(r)
             /\ UNCHANGED <<tables, nextId, courseLock, req, attempt, row, added,
                            removed, staged, result>>
    <2>1. /\ Op(r)' = Op(r)
          /\ pc' = [pc EXCEPT ![r] = pc'[r]]
          /\ Op(r) = "enroll" => pc'[r] = "SumCredits"
          /\ Op(r) = "drop" => pc'[r] = "DeleteEnrollment"
          /\ Op(r) = "swap" => pc'[r] = "LockCourses"
      BY <1>1, <1>4, ScriptFacts
      DEF Op, Proceed, LockStudent, At, TypeOK, EnrollScript, DropScript, SwapScript
    <2>2. AccountKept(r)' /\ LimitKept(r)' /\ EventStaged(r)'
      BY <1>1, <1>4, <2>1 DEF AccountKept, LimitKept, EventStaged, HasAnnounced, tables
    <2>3. \A s \in Students : userLock[s] # r
      BY <1>1 DEF OwnsOnly, HoldsStudent
    <2>4. \A c \in Courses : courseLock'[c] # r
      BY <1>1, <1>4 DEF OwnsOnly, Touches, HasIncremented, HasRequoted, HasDecremented
    <2>5. OwnsOnly(r)'
      BY <1>1, <1>4, <2>1, <2>3, <2>4 DEF OwnsOnly, HoldsStudent, TypeOK
    <2>6. QED
      BY <1>4, <2>1, <2>2, <2>5, StatementStays DEF Private, TypeOK
  <1>5. QED
    BY <1>3, <1>4 DEF LockStudent

\* ORDER BY id: the next row to lock is the one with the least id.
LEMMA NextIsLeast ==
    ASSUME TypeOK, NEW r \in Requests, Op(r) = "swap", Unlocked(r) # {}
    PROVE  NextToLock(r) \in Unlocked(r) /\ \A d \in Unlocked(r) : NextToLock(r) <= d
  <1>1. \E c \in Unlocked(r) : \A d \in Unlocked(r) : c <= d
    <2>1. PICK c \in Unlocked(r) : TRUE
      OBVIOUS
    <2>2. Unlocked(r) \subseteq {req[r].from, req[r].course} /\ Unlocked(r) \subseteq Nat
      BY CoursesOrdered DEF Unlocked
    <2>3. CASE \A d \in Unlocked(r) : c <= d
      BY <2>3
    <2>4. CASE \E d \in Unlocked(r) : ~ (c <= d)
      <3>1. PICK d \in Unlocked(r) : ~ (c <= d)
        BY <2>4
      <3>2. \A e \in Unlocked(r) : e = c \/ e = d
        BY <2>2, <3>1
      <3>3. d <= c /\ d <= d
        BY <2>2, <3>1
      <3>4. QED
        BY <3>1, <3>2, <3>3
    <2>5. QED
      BY <2>3, <2>4
  <1>2. QED
    BY <1>1 DEF NextToLock

LEMMA LockCoursesStays ==
    ASSUME IInv, TypeOK', NEW r \in Requests, LockCourses(r)
    PROVE  DecisionInv'
  <1> USE DEF IInv, TransactionInv, DecisionInv, DecisionValid
  <1>1. Op(r) = "swap" /\ pc[r] = "LockCourses" /\ Running(r)
    BY InputFacts, ScriptFacts DEF LockCourses, At, OnScript, Running
  <1>2. CASE /\ Unlocked(r) # {}
             /\ courseLock[NextToLock(r)] = None
             /\ courseLock' = [courseLock EXCEPT ![NextToLock(r)] = r]
             /\ UNCHANGED <<tables, nextId, userLock, req, pc, attempt, row, added,
                            removed, staged, result>>
    <2>1. NextToLock(r) \in Unlocked(r) /\ \A d \in Unlocked(r) : NextToLock(r) <= d
      BY <1>1, <1>2, NextIsLeast
    <2>2. NextToLock(r) \in Courses /\ NextToLock(r) \in {req[r].from, req[r].course}
      BY <2>1 DEF Unlocked
    <2>3. Unlocked(r)' = Unlocked(r) \ {NextToLock(r)} /\ Op(r)' = Op(r)
      <3>1. /\ courseLock'[NextToLock(r)] = r /\ req' = req
            /\ \A c \in Courses \ {NextToLock(r)} : courseLock'[c] = courseLock[c]
        BY <1>2, <2>2 DEF TypeOK
      <3>2. QED
        BY <3>1 DEF Unlocked, Op
    <2>4. \A d \in Unlocked(r)' : NextToLock(r) < d
      <3>1. Unlocked(r) \subseteq Nat
        BY CoursesOrdered DEF Unlocked
      <3>2. QED
        BY <2>1, <2>3, <3>1
    <2>5. OwnsOnly(r)'
      <3>1. \A c \in Courses : Touches(r, c)' <=> Touches(r, c)
        BY <1>2, <2>3 DEF Touches, HasIncremented, HasRequoted, HasDecremented, Leaving, tables
      <3>2. \A c \in Courses : ~ Touches(r, c)
        BY <1>1 DEF Touches, HasIncremented, HasRequoted, HasDecremented
      <3>3. HoldsStudent(r)' = HoldsStudent(r)
        BY <1>2, <2>3 DEF HoldsStudent
      <3>4. ASSUME NEW c \in Courses, courseLock'[c] = r
            PROVE  c \in {req[r].from, req[r].course} /\ \A d \in Unlocked(r)' : c < d
        <4>1. CASE c = NextToLock(r)
          BY <2>2, <2>4, <4>1
        <4>2. CASE c # NextToLock(r)
          <5>1. courseLock[c] = r
            BY <1>2, <2>2, <3>4, <4>2 DEF TypeOK
          <5>2. QED
            BY <1>1, <2>3, <3>2, <5>1 DEF OwnsOnly
        <4>3. QED
          BY <4>1, <4>2
      <3>5. QED
        BY <1>1, <1>2, <2>3, <3>3, <3>4 DEF OwnsOnly
    <2>6. AccountKept(r)' /\ LimitKept(r)' /\ EventStaged(r)'
      BY <1>1, <1>2, <2>3 DEF AccountKept, HoldsStudent, LimitKept, EventStaged, HasAnnounced, tables
    <2>7. QED
      BY <1>2, <2>2, <2>5, <2>6, StatementStays DEF Private, TypeOK
  <1>3. CASE /\ Unlocked(r) = {}
             /\ {req[r].from, req[r].course} \subseteq Courses
             /\ Proceed(r)
             /\ UNCHANGED <<tables, nextId, locks, req, attempt, row, added,
                            removed, staged, result>>
    <2>1. Op(r)' = Op(r) /\ pc' = [pc EXCEPT ![r] = pc'[r]] /\ pc'[r] = "SumCredits"
      BY <1>1, <1>3, ScriptFacts DEF Op, Proceed, TypeOK, SwapScript
    <2>2. Unlocked(r)' = {}
      BY <1>3, <2>1 DEF Unlocked, locks
    <2>3. OwnsOnly(r)'
      <3>1. \A c \in Courses : ~ Touches(r, c)
        BY <1>1 DEF Touches, HasIncremented, HasRequoted, HasDecremented
      <3>2. HoldsStudent(r) /\ HoldsStudent(r)'
        BY <1>1, <2>1 DEF HoldsStudent
      <3>3. QED
        BY <1>1, <1>3, <2>1, <2>2, <3>1, <3>2 DEF OwnsOnly, locks
    <2>4. AccountKept(r)' /\ LimitKept(r)' /\ EventStaged(r)'
      BY <1>1, <1>3, <2>1 DEF AccountKept, HoldsStudent, LimitKept, EventStaged, HasAnnounced, tables
    <2>5. QED
      BY <1>3, <2>1, <2>3, <2>4, StatementStays DEF Private, TypeOK, locks
  <1>4. CASE Refuse(r, "not_found")
    BY <1>1, <1>4, RefuseStays
  <1>5. QED
    BY <1>2, <1>3, <1>4 DEF LockCourses

\* SumCredits sees the committed rows: the transaction has written none yet.
LEMMA SumCreditsStays ==
    ASSUME IInv, TypeOK', NEW r \in Requests, SumCredits(r)
    PROVE  DecisionInv'
  <1> USE DEF IInv, TransactionInv, DecisionInv, DecisionValid
  <1>1. Op(r) \in {"enroll", "swap"} /\ pc[r] = "SumCredits" /\ Running(r)
    BY InputFacts, ScriptFacts DEF SumCredits, At, OnScript, Running
  <1>2. CASE /\ CreditsAfter(r) <= MaxCredits
             /\ Proceed(r)
             /\ UNCHANGED <<tables, nextId, locks, req, attempt, row, added,
                            removed, staged, result>>
    <2>1. /\ Op(r)' = Op(r)
          /\ pc' = [pc EXCEPT ![r] = pc'[r]]
          /\ Op(r) = "enroll" => pc'[r] = "IncrementEnrolled"
          /\ Op(r) = "swap" => pc'[r] = "DeleteEnrollment"
      BY <1>1, <1>2, ScriptFacts DEF Op, Proceed, TypeOK, EnrollScript, SwapScript
    <2>2. VisibleEnrollments(r) = enrollments
      <3>1. removed[r] = {} /\ added[r] = {}
        BY <1>1 DEF Effects, HasDeleted, HasDecremented, HasInserted
      <3>2. QED
        BY <3>1 DEF VisibleEnrollments
    <2>3. LimitKept(r)'
      BY <1>1, <1>2, <2>1, <2>2 DEF LimitKept, CreditsAfter, tables
    <2>4. OwnsOnly(r)'
      <3>1. \A c \in Courses : ~ Touches(r, c)
        BY <1>1 DEF Touches, HasIncremented, HasRequoted, HasDecremented
      <3>2. HoldsStudent(r) /\ HoldsStudent(r)'
        BY <1>1, <2>1 DEF HoldsStudent
      <3>3. Unlocked(r)' = Unlocked(r)
        BY <1>2 DEF Unlocked, locks
      <3>4. QED
        BY <1>1, <1>2, <2>1, <3>1, <3>2, <3>3 DEF OwnsOnly, locks
    <2>5. AccountKept(r)' /\ EventStaged(r)'
      BY <1>1, <1>2, <2>1 DEF AccountKept, HoldsStudent, EventStaged, HasAnnounced, tables
    <2>6. QED
      BY <1>2, <2>1, <2>3, <2>4, <2>5, StatementStays DEF Private, TypeOK, locks
  <1>3. CASE \E outcome \in {"credit_limit", "not_found"} : Refuse(r, outcome)
    BY <1>1, <1>3, RefuseStays
  <1>4. QED
    BY <1>2, <1>3 DEF SumCredits

\* The statements after the checks change neither what was checked nor which
\* locks are held, unless they write a row.
LEMMA LaterStatementOwn ==
    ASSUME IInv, NEW r \in Requests, UNCHANGED <<tables, req, userLock>>,
           pc[r] \notin {"LockStudent", "LockCourses", "SumCredits", "Done"},
           pc'[r] \notin {"LockStudent", "LockCourses", "SumCredits", "Done"},
           \A c \in Courses : Touches(r, c) => Touches(r, c)',
           \A c \in Courses : courseLock'[c] # courseLock[c]
               => courseLock[c] = None /\ courseLock'[c] = r /\ Touches(r, c)'
    PROVE  AccountKept(r)' /\ LimitKept(r)' /\ OwnsOnly(r)'
  <1> USE DEF IInv, TransactionInv, DecisionInv, DecisionValid
  <1>1. Op(r)' = Op(r) /\ HoldsStudent(r)' = HoldsStudent(r)
    BY DEF Op, HoldsStudent
  <1>2. AccountKept(r)'
    BY <1>1 DEF AccountKept, tables
  <1>3. LimitKept(r)'
    BY <1>1 DEF LimitKept, tables
  <1>4. OwnsOnly(r)'
    <2>1. Op(r) = "swap" => Unlocked(r)' = {} /\ {req[r].from, req[r].course} \subseteq Courses
      <3>1. Op(r) = "swap" => Unlocked(r) = {} /\ {req[r].from, req[r].course} \subseteq Courses
        BY DEF OwnsOnly
      <3>2. \A c \in Courses : courseLock[c] = r => courseLock'[c] = r
        BY NoneIsFresh
      <3>3. Unlocked(r)' \subseteq Unlocked(r)
        BY <3>2 DEF Unlocked
      <3>4. QED
        BY <3>1, <3>3
    <2>2. ASSUME NEW c \in Courses, courseLock'[c] = r
          PROVE  \/ Touches(r, c)'
                 \/ Op(r) = "swap" /\ c \in {req[r].from, req[r].course}
      <3>1. CASE courseLock[c] = r
        <4>1. \/ Touches(r, c)
              \/ Op(r) = "swap" /\ c \in {req[r].from, req[r].course}
          BY <3>1 DEF OwnsOnly
        <4>2. QED
          BY <4>1
      <3>2. CASE courseLock[c] # r
        BY <2>2, <3>2
      <3>3. QED
        BY <3>1, <3>2
    <2>3. \A s \in Students : userLock'[s] = r => HoldsStudent(r) /\ s = req[r].user
      BY DEF OwnsOnly
    <2>4. req' = req /\ pc'[r] \notin {"LockStudent", "LockCourses", "Done"}
      OBVIOUS
    <2>5. QED
      BY <1>1, <2>1, <2>2, <2>3, <2>4 DEF OwnsOnly
  <1>5. QED
    BY <1>2, <1>3, <1>4

\* Such a statement, when it stages no event.
LEMMA LaterStatementStays ==
    ASSUME IInv, TypeOK', NEW r \in Requests,
           UNCHANGED <<tables, nextId, req, staged, userLock>>,
           \A q \in Requests \ {r} : Private(q)' = Private(q),
           pc[r] \notin {"LockStudent", "LockCourses", "SumCredits", "Done"},
           pc'[r] \notin {"LockStudent", "LockCourses", "SumCredits", "Done"},
           HasAnnounced(r)' <=> HasAnnounced(r),
           \A c \in Courses : Touches(r, c) => Touches(r, c)',
           \A c \in Courses : courseLock'[c] # courseLock[c]
               => courseLock[c] = None /\ courseLock'[c] = r /\ Touches(r, c)'
    PROVE  DecisionInv'
  <1>1. AccountKept(r)' /\ LimitKept(r)' /\ OwnsOnly(r)'
    BY LaterStatementOwn
  <1>2. EventStaged(r)'
    BY DEF IInv, DecisionInv, DecisionValid, EventStaged, tables
  <1>3. QED
    BY <1>1, <1>2, StatementStays

\* The rows of a transaction are written one after the other and stay written.
LEMMA IncrementEnrolledStays ==
    ASSUME IInv, TypeOK', NEW r \in Requests, IncrementEnrolled(r)
    PROVE  DecisionInv'
  <1> USE DEF IInv, TransactionInv
  <1>1. Op(r) \in {"enroll", "swap"} /\ pc[r] = "IncrementEnrolled" /\ Running(r)
    BY InputFacts, ScriptFacts DEF IncrementEnrolled, At, OnScript, Running
  <1>2. CASE WriteCourse(r, req[r].course, [Visible(r, req[r].course) EXCEPT !.count = @ + 1])
    <2>1. /\ Op(r)' = Op(r) /\ req' = req
          /\ pc' = [pc EXCEPT ![r] = pc'[r]]
          /\ Op(r) = "enroll" => pc'[r] = "InsertOutbox"
          /\ Op(r) = "swap" => pc'[r] = "InsertEnrollment"
      BY <1>1, <1>2, ScriptFacts DEF Op, Proceed, WriteCourse, TypeOK, EnrollScript, SwapScript
    <2>2. /\ \A c : Touches(r, c) => Touches(r, c)'
          /\ \A c : c = req[r].course => Touches(r, c)'
      BY <1>1, <2>1 DEF Touches, HasIncremented, HasRequoted, HasDecremented, Leaving
    <2>3. HasAnnounced(r)' <=> HasAnnounced(r)
      BY <1>1, <2>1 DEF HasAnnounced
    <2>4. \A c \in Courses : courseLock'[c] # courseLock[c]
               => courseLock[c] = None /\ courseLock'[c] = r /\ Touches(r, c)'
      BY <1>2, <2>2 DEF WriteCourse, Free, TypeOK
    <2>5. \A q \in Requests \ {r} : Private(q)' = Private(q)
      BY <1>2, <2>1 DEF Private, WriteCourse, TypeOK
    <2>6. UNCHANGED <<tables, nextId, req, staged, userLock>>
      BY <1>2 DEF WriteCourse
    <2>7. QED
      BY <1>1, <2>1, <2>2, <2>3, <2>4, <2>5, <2>6, LaterStatementStays
  <1>3. CASE Refuse(r, "course_full")
    BY <1>1, <1>3, RefuseStays
  <1>4. QED
    BY <1>2, <1>3 DEF IncrementEnrolled

LEMMA DecrementEnrolledStays ==
    ASSUME IInv, TypeOK', NEW r \in Requests, DecrementEnrolled(r)
    PROVE  DecisionInv'
  <1> USE DEF IInv, TransactionInv
  <1>1. Op(r) \in {"drop", "swap"} /\ pc[r] = "DecrementEnrolled"
    BY InputFacts, ScriptFacts DEF DecrementEnrolled, At, OnScript
  <1>2. WriteCourse(r, Leaving(r), [Visible(r, Leaving(r)) EXCEPT !.count = @ - 1])
    BY DEF DecrementEnrolled
  <1>3. /\ Op(r)' = Op(r) /\ req' = req /\ Leaving(r)' = Leaving(r)
        /\ pc' = [pc EXCEPT ![r] = pc'[r]]
        /\ Op(r) = "drop" => pc'[r] = "InsertOutbox"
        /\ Op(r) = "swap" => pc'[r] = "IncrementEnrolled"
    BY <1>1, <1>2, ScriptFacts
    DEF Op, Proceed, WriteCourse, TypeOK, DropScript, SwapScript, Leaving
  <1>4. /\ \A c : ~ Touches(r, c)
        /\ \A c : c = Leaving(r) => Touches(r, c)'
    BY <1>1, <1>3 DEF Touches, HasIncremented, HasRequoted, HasDecremented
  <1>5. HasAnnounced(r)' <=> HasAnnounced(r)
    BY <1>1, <1>3 DEF HasAnnounced
  <1>6. \A c \in Courses : courseLock'[c] # courseLock[c]
             => courseLock[c] = None /\ courseLock'[c] = r /\ Touches(r, c)'
    BY <1>2, <1>4 DEF WriteCourse, Free, TypeOK
  <1>7. \A q \in Requests \ {r} : Private(q)' = Private(q)
    BY <1>2, <1>3 DEF Private, WriteCourse, TypeOK
  <1>8. UNCHANGED <<tables, nextId, req, staged, userLock>>
    BY <1>2 DEF WriteCourse
  <1>9. QED
    BY <1>1, <1>3, <1>4, <1>5, <1>6, <1>7, <1>8, LaterStatementStays

LEMMA DeleteEnrollmentStays ==
    ASSUME IInv, TypeOK', NEW r \in Requests, DeleteEnrollment(r)
    PROVE  DecisionInv'
  <1> USE DEF IInv, TransactionInv
  <1>1. Op(r) \in {"drop", "swap"} /\ pc[r] = "DeleteEnrollment" /\ Running(r)
    BY InputFacts, ScriptFacts DEF DeleteEnrollment, At, OnScript, Running
  <1>2. CASE /\ removed' = [removed EXCEPT ![r] = @ \cup {<<Leaving(r), req[r].user>>}]
             /\ Proceed(r)
             /\ UNCHANGED <<tables, nextId, locks, req, attempt, row, added, staged, result>>
    <2>1. /\ Op(r)' = Op(r) /\ req' = req
          /\ pc' = [pc EXCEPT ![r] = pc'[r]]
          /\ pc'[r] = "DecrementEnrolled"
      BY <1>1, <1>2, ScriptFacts DEF Op, Proceed, TypeOK, DropScript, SwapScript
    <2>2. \A c : ~ Touches(r, c)
      BY <1>1 DEF Touches, HasIncremented, HasRequoted, HasDecremented
    <2>3. HasAnnounced(r)' <=> HasAnnounced(r)
      BY <1>1, <2>1 DEF HasAnnounced
    <2>4. \A q \in Requests \ {r} : Private(q)' = Private(q)
      BY <1>2, <2>1 DEF Private, TypeOK
    <2>5. QED
      BY <1>1, <1>2, <2>1, <2>2, <2>3, <2>4, LaterStatementStays DEF locks
  <1>3. CASE Refuse(r, "not_enrolled")
    BY <1>1, <1>3, RefuseStays
  <1>4. QED
    BY <1>2, <1>3 DEF DeleteEnrollment

LEMMA InsertEnrollmentStays ==
    ASSUME IInv, TypeOK', NEW r \in Requests, InsertEnrollment(r)
    PROVE  DecisionInv'
  <1> USE DEF IInv, TransactionInv
  <1>1. Op(r) \in {"enroll", "swap"} /\ pc[r] = "InsertEnrollment" /\ Running(r)
    BY InputFacts, ScriptFacts DEF InsertEnrollment, At, OnScript, Running
  <1>2. CASE /\ added' = [added EXCEPT ![r] = @ \cup {<<req[r].course, req[r].user>>}]
             /\ Proceed(r)
             /\ UNCHANGED <<tables, nextId, locks, req, attempt, row, removed, staged, result>>
    <2>1. /\ Op(r)' = Op(r) /\ req' = req
          /\ pc' = [pc EXCEPT ![r] = pc'[r]]
          /\ Op(r) = "enroll" => pc'[r] = "Commit"
          /\ Op(r) = "swap" => pc'[r] = "InsertOutbox"
      BY <1>1, <1>2, ScriptFacts DEF Op, Proceed, TypeOK, EnrollScript, SwapScript
    <2>2. \A c : Touches(r, c) => Touches(r, c)'
      BY <1>1, <2>1 DEF Touches, HasIncremented, HasRequoted, HasDecremented, Leaving
    <2>3. HasAnnounced(r)' <=> HasAnnounced(r)
      BY <1>1, <2>1 DEF HasAnnounced
    <2>4. \A q \in Requests \ {r} : Private(q)' = Private(q)
      BY <1>2, <2>1 DEF Private, TypeOK
    <2>5. QED
      BY <1>1, <1>2, <2>1, <2>2, <2>3, <2>4, LaterStatementStays DEF locks
  <1>3. CASE Refuse(r, "already_enrolled")
    BY <1>1, <1>3, RefuseStays
  <1>4. QED
    BY <1>2, <1>3 DEF InsertEnrollment

LEMMA UpdateQuotaStays ==
    ASSUME IInv, TypeOK', NEW r \in Requests, UpdateQuota(r)
    PROVE  DecisionInv'
  <1> USE DEF IInv, TransactionInv
  <1>1. Op(r) = "quota" /\ pc[r] = "UpdateQuota"
    BY InputFacts, ScriptFacts DEF UpdateQuota, At, OnScript
  <1>2. \A c : ~ Touches(r, c)
    BY <1>1 DEF Touches, HasIncremented, HasRequoted, HasDecremented
  <1>3. CASE WriteCourse(r, req[r].course, [Visible(r, req[r].course) EXCEPT
                             !.quota = req[r].quota, !.version = @ + 1])
    <2>1. /\ Op(r)' = Op(r) /\ req' = req
          /\ pc' = [pc EXCEPT ![r] = pc'[r]]
          /\ pc'[r] = "InsertOutbox"
      BY <1>1, <1>3, ScriptFacts DEF Op, Proceed, WriteCourse, TypeOK, QuotaScript
    <2>2. \A c : c = req[r].course => Touches(r, c)'
      BY <1>1, <2>1 DEF Touches, HasRequoted
    <2>3. HasAnnounced(r)' <=> HasAnnounced(r)
      BY <1>1, <2>1 DEF HasAnnounced
    <2>4. \A c \in Courses : courseLock'[c] # courseLock[c]
               => courseLock[c] = None /\ courseLock'[c] = r /\ Touches(r, c)'
      BY <1>3, <2>2 DEF WriteCourse, Free, TypeOK
    <2>5. \A q \in Requests \ {r} : Private(q)' = Private(q)
      BY <1>3, <2>1 DEF Private, WriteCourse, TypeOK
    <2>6. UNCHANGED <<tables, nextId, req, staged, userLock>>
      BY <1>3 DEF WriteCourse
    <2>7. QED
      BY <1>1, <1>2, <2>1, <2>3, <2>4, <2>5, <2>6, LaterStatementStays
  <1>4. CASE /\ pc' = [pc EXCEPT ![r] = "ExplainQuota"]
             /\ UNCHANGED <<tables, nextId, locks, req, attempt, row, added,
                            removed, staged, result>>
    <2>1. pc'[r] = "ExplainQuota" /\ Op(r)' = Op(r)
      BY <1>4 DEF TypeOK, Op
    <2>2. HasAnnounced(r)' <=> HasAnnounced(r)
      BY <1>1, <2>1 DEF HasAnnounced
    <2>3. \A q \in Requests \ {r} : Private(q)' = Private(q)
      BY <1>4 DEF Private, TypeOK
    <2>4. QED
      BY <1>1, <1>2, <1>4, <2>1, <2>2, <2>3, LaterStatementStays DEF locks
  <1>5. QED
    BY <1>3, <1>4 DEF UpdateQuota

LEMMA ExplainQuotaStays ==
    ASSUME IInv, TypeOK', NEW r \in Requests, ExplainQuota(r)
    PROVE  DecisionInv'
  <1>1. Running(r)
    BY DEF ExplainQuota, At, Running
  <1>2. QED
    BY <1>1, RefuseStays DEF ExplainQuota

\* The id is drawn while the row lock of the subject is held: it is above the
\* ids of all committed events, and nobody else has it.
LEMMA InsertOutboxStays ==
    ASSUME IInv, TypeOK', NEW r \in Requests, InsertOutbox(r)
    PROVE  DecisionInv'
  <1> USE DEF IInv, TransactionInv, DecisionInv
  <1> DEFINE e == [id |-> nextId, body |-> EventBody(req[r])]
  <1>1. Op(r) \in {"enroll", "drop", "swap", "quota"} /\ pc[r] = "InsertOutbox"
    BY InputFacts DEF InsertOutbox, At
  <1>2. /\ Op(r)' = Op(r) /\ req' = req
        /\ pc' = [pc EXCEPT ![r] = pc'[r]]
        /\ Op(r) = "enroll" => pc'[r] = "InsertEnrollment"
        /\ Op(r) # "enroll" => pc'[r] = "Commit"
    BY <1>1, ScriptFacts
    DEF Op, Proceed, InsertOutbox, TypeOK, EnrollScript, DropScript, SwapScript, QuotaScript
  <1>3. nextId \in Nat /\ nextId' = nextId + 1 /\ e \in Event
    BY DEF InsertOutbox, TypeOK, Event
  <1>4. ~ HasAnnounced(r) /\ HasAnnounced(r)'
    BY <1>1, <1>2 DEF HasAnnounced
  <1>5. staged'[r] = {e} /\ \A q \in Requests \ {r} : staged'[q] = staged[q]
    <2>1. staged[r] = {}
      BY <1>4 DEF DecisionValid, EventStaged
    <2>2. QED
      BY <2>1 DEF InsertOutbox, TypeOK
  <1>6. UNCHANGED <<tables, req, userLock, courseLock>>
    BY DEF InsertOutbox, locks
  <1>7. \A q \in Requests \ {r} : Private(q)' = Private(q)
    BY <1>2 DEF InsertOutbox, Private, TypeOK
  <1>8. (\A q \in Requests \ {r} : DecisionValid(q)') /\ CreditLimitHolds'
    BY <1>3, <1>5, <1>6, <1>7, QuietStep
  <1>9. AccountKept(r)' /\ LimitKept(r)' /\ OwnsOnly(r)'
    <2>1. \A c : Touches(r, c) => Touches(r, c)'
      BY <1>1, <1>2 DEF Touches, HasIncremented, HasRequoted, HasDecremented, Leaving
    <2>2. QED
      BY <1>1, <1>2, <1>6, <2>1, LaterStatementOwn
  <1>10. EventStaged(r)'
    <2>1. e.id = nextId /\ e.body = EventBody(req[r]) /\ e.id < nextId'
      BY <1>3
    <2>2. \A f \in outbox : f.id < nextId /\ f.id \in Nat
      BY BoundsNat DEF IdsDrawn, TypeOK, Event
    <2>3. \A f \in outbox' : f.id # e.id /\ f.id < e.id
      BY <1>3, <1>6, <2>1, <2>2 DEF tables
    <2> HIDE DEF e
    <2>4. QED
      BY <1>2, <1>3, <1>4, <1>5, <2>1, <2>3 DEF EventStaged
  <1>11. IdsDrawn'
    <2>1. \A f \in outbox' : f.id < nextId'
      <3>1. \A f \in outbox : f.id < nextId /\ f.id \in Nat
        BY BoundsNat DEF IdsDrawn, TypeOK, Event
      <3>2. QED
        BY <1>3, <1>6, <3>1 DEF tables
    <2>2. \A q \in Requests : \A f \in staged[q] : f.id < nextId /\ f.id \in Nat
      BY BoundsNat DEF DecisionValid, EventStaged, Event
    <2>3. \A p, q \in Requests : p # q =>
            \A f \in staged'[p], g \in staged'[q] : f.id # g.id
      <3> SUFFICES ASSUME NEW p \in Requests, NEW q \in Requests, p # q,
                          NEW f \in staged'[p], NEW g \in staged'[q]
                   PROVE  f.id # g.id
        OBVIOUS
      <3>1. CASE p = r
        BY <1>3, <1>5, <2>2, <3>1
      <3>2. CASE q = r
        BY <1>3, <1>5, <2>2, <3>2
      <3>3. CASE p # r /\ q # r
        BY <1>5, <3>3 DEF IdsDrawn
      <3>4. QED
        BY <3>1, <3>2, <3>3
    <2>4. QED
      BY <2>1, <2>3 DEF IdsDrawn
  <1>12. QED
    BY <1>8, <1>9, <1>10, <1>11 DEF DecisionValid

-----------------------------------------------------------------------------
(* Commit.                                                                  *)

\* What a commit makes of the student's plan.
LEMMA CommitPlan ==
    ASSUME IInv, NEW r \in Requests, Commit(r)
    PROVE  /\ Op(r) \in {"enroll", "drop", "swap", "quota"}
           /\ pc[r] = "Commit"
           /\ Op(r) = "enroll" => /\ Joined(r) \notin enrollments
                                  /\ enrollments' = enrollments \cup {Joined(r)}
                                  /\ req[r].course \in Courses
           /\ Op(r) = "drop" => /\ Left(r) \in enrollments
                                /\ enrollments' = enrollments \ {Left(r)}
                                /\ Leaving(r) \in Courses
           /\ Op(r) = "swap" => /\ Left(r) \in enrollments
                                /\ Joined(r) \notin enrollments
                                /\ enrollments' = (enrollments \ {Left(r)}) \cup {Joined(r)}
                                /\ Leaving(r) \in Courses /\ req[r].course \in Courses
           /\ Op(r) = "quota" => enrollments' = enrollments /\ req[r].course \in Courses
  <1> USE DEF IInv, TransactionInv
  <1>1. Op(r) \in {"enroll", "drop", "swap", "quota"} /\ pc[r] = "Commit"
    BY InputFacts DEF Commit, At
  <1>2. /\ HasInserted(r) <=> Op(r) \in {"enroll", "swap"}
        /\ HasIncremented(r) <=> Op(r) \in {"enroll", "swap"}
        /\ HasDeleted(r) <=> Op(r) \in {"drop", "swap"}
        /\ HasRequoted(r) <=> Op(r) = "quota"
    BY <1>1 DEF HasInserted, HasIncremented, HasDeleted, HasDecremented, HasRequoted
  <1>3. enrollments' = (enrollments \ removed[r]) \cup added[r]
    BY DEF Commit, VisibleEnrollments
  <1>4. /\ removed[r] = IF HasDeleted(r) THEN {Left(r)} ELSE {}
        /\ added[r] = IF HasInserted(r) THEN {Joined(r)} ELSE {}
        /\ HasDeleted(r) => Left(r) \in enrollments
        /\ HasInserted(r) => Joined(r) \notin enrollments
        /\ HasIncremented(r) \/ HasRequoted(r) => req[r].course \in Courses
    BY DEF Effects
  <1>5. HasDeleted(r) => Leaving(r) \in Courses
    BY <1>4 DEF TypeOK, Left, Pairs
  <1>6. QED
    BY <1>1, <1>2, <1>3, <1>4, <1>5

\* The limit checked by SumCredits is the limit of what Commit makes visible.
LEMMA CommitCredits ==
    ASSUME IInv, NEW r \in Requests, Commit(r)
    PROVE  CreditLimitHolds'
  <1> USE DEF IInv, TransactionInv, DecisionInv
  <1>1. /\ Op(r) \in {"enroll", "drop", "swap", "quota"} /\ pc[r] = "Commit"
        /\ Op(r) # "quota" => req[r].user \in Students
        /\ Op(r) = "swap" => Leaving(r) = req[r].from
    BY CommitPlan, InputFacts DEF Leaving
  <1> SUFFICES ASSUME NEW s \in Students
               PROVE  CreditSum(s, enrollments') <= MaxCredits
    BY DEF CreditLimitHolds
  <1>2. CreditSum(s, enrollments) \in Nat /\ CreditSum(s, enrollments) <= MaxCredits
    BY CreditSumType DEF CreditLimitHolds
  <1>3. CASE Op(r) = "quota"
    BY <1>2, <1>3, CommitPlan
  <1>4. CASE Op(r) # "quota" /\ s # req[r].user
    <2>1. \A c \in Courses : <<c, s>> \in enrollments' <=> <<c, s>> \in enrollments
      <3>1. \A c \in Courses : <<c, s>> # Left(r) /\ <<c, s>> # Joined(r)
        BY <1>4 DEF Left, Joined
      <3>2. QED
        BY <1>1, <1>4, <3>1, CommitPlan
    <2>2. QED
      BY <1>2, <2>1, CreditSumSame
  <1>5. CASE Op(r) = "enroll" /\ s = req[r].user
    <2>1. /\ req[r].course \in Courses
          /\ <<req[r].course, s>> \notin enrollments
          /\ enrollments' = enrollments \cup {<<req[r].course, s>>}
      BY <1>5, CommitPlan DEF Joined
    <2>2. CreditSum(s, enrollments') = CreditSum(s, enrollments) + Credits[req[r].course]
      BY <2>1, CreditSumAdd
    <2>3. CreditSum(s, enrollments) + Credits[req[r].course] <= MaxCredits
      BY <1>1, <1>5 DEF DecisionValid, LimitKept
    <2>4. QED
      BY <2>2, <2>3
  <1>6. CASE Op(r) = "drop" /\ s = req[r].user
    <2>1. /\ Leaving(r) \in Courses
          /\ <<Leaving(r), s>> \in enrollments
          /\ enrollments' = enrollments \ {<<Leaving(r), s>>}
      BY <1>6, CommitPlan DEF Left
    <2>2. CreditSum(s, enrollments') = CreditSum(s, enrollments) - Credits[Leaving(r)]
      BY <2>1, CreditSumRemove
    <2>3. Credits[Leaving(r)] \in Nat
      BY <2>1, CreditsNat
    <2>4. QED
      BY <1>2, <2>2, <2>3, CreditsNat
  <1>7. CASE Op(r) = "swap" /\ s = req[r].user
    <2> DEFINE f == req[r].from
               c == req[r].course
               rest == enrollments \ {<<f, s>>}
    <2>1. /\ f \in Courses /\ c \in Courses
          /\ <<f, s>> \in enrollments
          /\ <<c, s>> \notin enrollments
          /\ enrollments' = rest \cup {<<c, s>>}
      BY <1>1, <1>7, CommitPlan DEF Left, Joined
    <2>2. CreditSum(s, rest) = CreditSum(s, enrollments) - Credits[f]
      BY <2>1, CreditSumRemove
    <2>3. <<c, s>> \notin rest
      BY <2>1
    <2>4. CreditSum(s, rest \cup {<<c, s>>}) = CreditSum(s, rest) + Credits[c]
      <3>1. c \in Courses
        BY <2>1
      <3> HIDE DEF f, c, rest
      <3>2. QED
        BY <2>3, <3>1, CreditSumAdd
    <2>5. CreditSum(s, enrollments) - Credits[f] + Credits[c] <= MaxCredits
      BY <1>1, <1>7 DEF DecisionValid, LimitKept
    <2>6. QED
      BY <2>1, <2>2, <2>4, <2>5
  <1>8. QED
    BY <1>1, <1>3, <1>4, <1>5, <1>6, <1>7

\* The row lock of the subject separates two transactions that have staged
\* events: neither is about the subject of the other.
LEMMA StagedApart ==
    ASSUME IInv, NEW r \in Requests, NEW q \in Requests, q # r,
           HasAnnounced(r), HasAnnounced(q)
    PROVE  ~ Abstract!SameSubject(EventBody(req[r]), EventBody(req[q]))
  <1> USE DEF IInv, TransactionInv
  <1> SUFFICES ASSUME Abstract!SameSubject(EventBody(req[r]), EventBody(req[q]))
               PROVE  FALSE
    OBVIOUS
  <1>1. CASE Op(r) # "quota" /\ Op(q) # "quota" /\ req[r].user = req[q].user
    <2>1. userLock[req[r].user] = r /\ userLock[req[q].user] = q
      BY <1>1 DEF HasAnnounced, LocksHeld, HoldsStudent
    <2>2. QED
      BY <1>1, <2>1
  <1>2. CASE Op(r) = "quota" /\ Op(q) = "quota" /\ req[r].course = req[q].course
    <2>1. HasRequoted(r) /\ HasRequoted(q)
      BY <1>2 DEF HasAnnounced, HasRequoted
    <2>2. req[r].course \in Courses /\ Touches(r, req[r].course) /\ Touches(q, req[r].course)
      BY <1>2, <2>1 DEF Effects, Touches
    <2>3. row[r][req[r].course] # None /\ row[q][req[r].course] # None
      BY <2>2, WrittenRows
    <2>4. courseLock[req[r].course] = r /\ courseLock[req[r].course] = q
      BY <2>2, <2>3 DEF LocksHeld
    <2>5. QED
      BY <2>4
  <1>3. QED
    BY <1>1, <1>2, SubjectFacts

LEMMA CommitStays ==
    ASSUME IInv, TypeOK', NEW r \in Requests, Commit(r)
    PROVE  DecisionInv'
  <1> USE DEF IInv, TransactionInv, DecisionInv
  <1>1. pc[r] = "Commit" /\ req' = req /\ pc' = [pc EXCEPT ![r] = "Done"]
        /\ users' = users /\ nextId' = nextId /\ nextId \in Nat
        /\ outbox' = outbox \cup staged[r]
    BY DEF Commit, At, Answer, TypeOK
  <1>2. HasAnnounced(r)
    BY <1>1 DEF HasAnnounced
  <1>3. PICK f \in Event :
          /\ staged[r] = {f} /\ f.body = EventBody(req[r]) /\ f.id < nextId
    BY <1>2 DEF DecisionValid, EventStaged
  <1>4. ASSUME NEW q \in Requests, q # r PROVE DecisionValid(q)'
    <2>1. Private(q)' = Private(q) /\ staged'[q] = staged[q]
      BY <1>1, <1>4 DEF Commit, Release, Private, TypeOK
    <2>2. /\ \A s \in Students : userLock'[s] = q <=> userLock[s] = q
          /\ \A c \in Courses : courseLock'[c] = q <=> courseLock[c] = q
      BY <1>4, NoneIsFresh DEF Commit, Release
    <2>3. ASSUME HoldsStudent(q), NEW c \in CourseIds
          PROVE  <<c, req[q].user>> \in enrollments' <=> <<c, req[q].user>> \in enrollments
      <3>1. userLock[req[q].user] = q
        BY <2>3 DEF LocksHeld
      <3>2. Op(r) # "quota" => userLock[req[r].user] = r
        BY <1>1 DEF LocksHeld, HoldsStudent
      <3>3. Op(r) # "quota" => <<c, req[q].user>> # Left(r) /\ <<c, req[q].user>> # Joined(r)
        BY <1>4, <3>1, <3>2 DEF Left, Joined
      <3>4. QED
        BY <3>3, CommitPlan
    <2>4. ASSUME NEW g \in outbox', NEW e \in staged[q]
          PROVE  g \in outbox \/ (g.id # e.id /\ ~ Abstract!SameSubject(g.body, e.body))
      <3>1. CASE g \in outbox
        BY <3>1
      <3>2. CASE g = f
        <4>1. HasAnnounced(q) /\ e.body = EventBody(req[q])
          BY <2>4 DEF DecisionValid, EventStaged
        <4>2. g.id # e.id
          BY <1>3, <1>4, <3>2 DEF IdsDrawn
        <4>3. ~ Abstract!SameSubject(g.body, e.body)
          BY <1>2, <1>3, <1>4, <3>2, <4>1, StagedApart
        <4>4. QED
          BY <4>2, <4>3
      <3>3. QED
        BY <1>1, <1>3, <3>1, <3>2
    <2>5. QED
      BY <1>1, <2>1, <2>2, <2>3, <2>4, OthersStay
  <1>5. DecisionValid(r)'
    <2>1. Op(r)' = Op(r) /\ pc'[r] = "Done"
      BY <1>1 DEF Op, TypeOK
    <2>2. /\ \A s \in Students : userLock'[s] # r
          /\ \A c \in Courses : courseLock'[c] # r
          /\ staged'[r] = {}
      BY NoneIsFresh DEF Commit, Release, TypeOK
    <2>3. AccountKept(r)' /\ LimitKept(r)'
      BY <2>1 DEF AccountKept, HoldsStudent, LimitKept
    <2>4. OwnsOnly(r)'
      BY <2>1, <2>2 DEF OwnsOnly
    <2>5. EventStaged(r)'
      BY <2>1, <2>2 DEF EventStaged, HasAnnounced
    <2>6. QED
      BY <2>3, <2>4, <2>5 DEF DecisionValid
  <1>6. IdsDrawn'
    <2>1. \A g \in outbox' : g.id < nextId'
      BY <1>1, <1>3 DEF IdsDrawn
    <2>2. \A q \in Requests : staged'[q] \in SUBSET staged[q]
      BY DEF Commit, Release, TypeOK
    <2>3. QED
      BY <2>1, <2>2 DEF IdsDrawn
  <1>7. QED
    BY <1>4, <1>5, <1>6, CommitCredits

-----------------------------------------------------------------------------
(* The deletion of a user.                                                  *)

LEMMA DeleteUserStays ==
    ASSUME IInv, TypeOK', NEW s \in Students, DeleteUser(s)
    PROVE  DecisionInv'
  <1> USE DEF IInv, TransactionInv, DecisionInv
  <1>1. ASSUME NEW q \in Requests PROVE DecisionValid(q)'
    <2>1. Private(q)' = Private(q) /\ staged' = staged /\ outbox' = outbox
          /\ userLock' = userLock /\ courseLock' = courseLock
          /\ nextId' = nextId /\ nextId \in Nat
      BY DEF DeleteUser, Private, locks, TypeOK
    <2>2. HoldsStudent(q) => req[q].user # s
      BY NoneIsFresh DEF LocksHeld, DeleteUser
    <2>3. HoldsStudent(q) =>
            /\ req[q].user \in users => req[q].user \in users'
            /\ \A c \in CourseIds : <<c, req[q].user>> \in enrollments'
                                <=> <<c, req[q].user>> \in enrollments
      BY <2>2 DEF DeleteUser
    <2>4. QED
      BY <2>1, <2>3, OthersStay
  <1>2. ASSUME NEW t \in Students PROVE CreditSum(t, enrollments') <= MaxCredits
    <2>1. CASE t = s
      <3>1. \A c \in Courses : <<c, t>> \notin enrollments'
        BY <2>1 DEF DeleteUser
      <3>2. QED
        BY <3>1, CreditSumNone, CreditsNat
    <2>2. CASE t # s
      <3>1. \A c \in Courses : <<c, t>> \in enrollments' <=> <<c, t>> \in enrollments
        BY <2>2 DEF DeleteUser
      <3>2. QED
        BY <3>1, CreditSumSame DEF CreditLimitHolds
    <2>3. QED
      BY <2>1, <2>2
  <1>3. IdsDrawn'
    BY DEF DeleteUser, IdsDrawn
  <1>4. QED
    BY <1>1, <1>2, <1>3 DEF CreditLimitHolds

-----------------------------------------------------------------------------
(* The invariant.                                                           *)

\* IInv is inductive: what SumCredits, the row locks and the outbox row of a
\* transaction have settled stays settled whatever the other requests do.
THEOREM DecisionsInductive == IInv /\ [Next]_vars => IInv'
  <1> SUFFICES ASSUME IInv, [Next]_vars PROVE IInv'
    OBVIOUS
  <1>1. TransactionInv' /\ TypeOK'
    BY Inductive DEF IInv, TransactionInv
  <1>2. ASSUME NEW r \in Requests, Statement(r) PROVE DecisionInv'
    BY <1>1, <1>2, LockStudentStays, LockCoursesStays, SumCreditsStays,
       IncrementEnrolledStays, DecrementEnrolledStays, DeleteEnrollmentStays,
       InsertEnrollmentStays, InsertOutboxStays, UpdateQuotaStays, ExplainQuotaStays,
       CommitStays
    DEF Statement
  <1>3. ASSUME NEW r \in Requests, Interrupt(r) PROVE DecisionInv'
    BY <1>1, <1>3, RefuseStays DEF Interrupt
  <1>4. ASSUME NEW r \in Requests, DeadlockVictim(r) PROVE DecisionInv'
    BY <1>1, <1>4, DeadlockVictimStays
  <1>5. ASSUME NEW s \in Students, DeleteUser(s) PROVE DecisionInv'
    BY <1>1, <1>5, DeleteUserStays
  <1>6. ASSUME UNCHANGED vars PROVE DecisionInv'
    <2>1. TypeOK /\ nextId \in Nat
      BY DEF IInv, TransactionInv, TypeOK
    <2>2. \A q \in Requests : Private(q)' = Private(q) /\ staged'[q] = staged[q]
      BY <1>6 DEF Private, vars
    <2>3. UNCHANGED <<users, enrollments, outbox, nextId, userLock, courseLock, staged>>
      BY <1>6 DEF vars
    <2>4. \A q \in Requests : DecisionValid(q)'
      BY <2>1, <2>2, <2>3, OthersStay DEF IInv, DecisionInv
    <2>5. CreditLimitHolds' /\ IdsDrawn'
      BY <2>3 DEF IInv, DecisionInv, CreditLimitHolds, IdsDrawn
    <2>6. QED
      BY <2>4, <2>5 DEF DecisionInv
  <1>7. QED
    BY <1>1, <1>2, <1>3, <1>4, <1>5, <1>6 DEF Next, AllAnswered, IInv

\* The inductive invariant holds in every reachable state of the registration
\* code, for every number of requests, students, classes and retries.
THEOREM DecisionsHold == Spec => []IInv
  BY InitDecisions, DecisionsInductive, PTL DEF Spec

\* No student ever holds more credits than MaxCreditsPerSemester, whatever the
\* requests interleave between the SUM(credits) and the INSERT of Enroll and
\* Swap.
THEOREM CreditLimit == Spec => []CreditLimitHolds
  <1>1. IInv => CreditLimitHolds
    BY DEF IInv, DecisionInv
  <1>2. QED
    BY <1>1, DecisionsHold, PTL

-----------------------------------------------------------------------------
(* Waiting.                                                                 *)

\* A request waits for the student's lock and holds nothing, or for the lock of
\* one class and holds only classes before it.
LEMMA WaitFacts ==
    ASSUME IInv, NEW r \in Requests, WaitsFor(r) # {}
    PROVE  \/ /\ pc[r] = "LockStudent"
              /\ WaitsFor(r) \subseteq {userLock[req[r].user]}
              /\ req[r].user \in Students
              /\ \A c \in Courses : courseLock[c] # r
           \/ /\ pc[r] # "LockStudent"
              /\ \E c \in Courses :
                    /\ WaitsFor(r) \subseteq {courseLock[c]}
                    /\ \A d \in Courses : courseLock[d] = r => d < c
  <1> USE DEF IInv, TransactionInv, DecisionInv, DecisionValid
  <1>1. Op(r) \in {"enroll", "drop", "swap", "quota"}
    BY InputFacts
  <1>2. pc[r] \in {"LockStudent", "LockCourses", "IncrementEnrolled", "DecrementEnrolled",
                   "UpdateQuota"}
    BY DEF WaitsFor, At
  <1>3. CASE pc[r] = "LockStudent"
    <2>1. WaitsFor(r) \subseteq {userLock[req[r].user]}
      BY <1>3 DEF WaitsFor, At
    <2>2. Op(r) # "quota"
      BY <1>3, ScriptFacts DEF OnScript
    <2>3. \A c \in Courses : courseLock[c] # r
      BY <1>3 DEF OwnsOnly, Touches, HasIncremented, HasRequoted, HasDecremented
    <2>4. QED
      BY <1>3, <2>1, <2>2, <2>3, InputFacts
  <1>4. CASE pc[r] = "LockCourses"
    <2>1. Op(r) = "swap"
      BY <1>1, <1>4, ScriptFacts DEF OnScript
    <2>2. Unlocked(r) # {} /\ WaitsFor(r) \subseteq {courseLock[NextToLock(r)]}
      BY <1>4 DEF WaitsFor, At
    <2>3. NextToLock(r) \in Unlocked(r) /\ NextToLock(r) \in Courses
      BY <2>1, <2>2, NextIsLeast DEF Unlocked
    <2>4. \A d \in Courses : ~ Touches(r, d)
      BY <1>4 DEF Touches, HasIncremented, HasRequoted, HasDecremented
    <2>5. \A d \in Courses : courseLock[d] = r => d < NextToLock(r)
      BY <1>4, <2>3, <2>4 DEF OwnsOnly
    <2>6. QED
      BY <1>4, <2>2, <2>3, <2>5
  <1>5. CASE pc[r] = "IncrementEnrolled"
    <2>1. Op(r) \in {"enroll", "swap"}
      BY <1>1, <1>5, ScriptFacts DEF OnScript
    <2>2. WaitsFor(r) \subseteq {courseLock[req[r].course]} /\ r \notin WaitsFor(r)
      BY <1>5 DEF WaitsFor, At
    <2>3. req[r].course \in Courses
      BY <1>5, <2>1 DEF Effects, CourseFound
    <2>4. CASE Op(r) = "swap"
      <3>1. courseLock[req[r].course] = r
        BY <1>5, <2>3, <2>4 DEF OwnsOnly, Unlocked
      <3>2. QED
        BY <2>2, <3>1
    <2>5. CASE Op(r) = "enroll"
      <3>1. \A d \in Courses : courseLock[d] # r
        BY <1>5, <2>5 DEF OwnsOnly, Touches, HasIncremented, HasRequoted, HasDecremented
      <3>2. QED
        BY <1>5, <2>2, <2>3, <3>1
    <2>6. QED
      BY <2>1, <2>4, <2>5
  <1>6. CASE pc[r] = "DecrementEnrolled"
    <2>1. Op(r) \in {"drop", "swap"}
      BY <1>1, <1>6, ScriptFacts DEF OnScript
    <2>2. WaitsFor(r) \subseteq {courseLock[Leaving(r)]} /\ r \notin WaitsFor(r)
      BY <1>6 DEF WaitsFor, At
    <2>3. Leaving(r) \in Courses
      BY <1>6, <2>1 DEF Effects, HasDeleted, TypeOK, Left, Pairs
    <2>4. CASE Op(r) = "swap"
      <3>1. courseLock[Leaving(r)] = r
        BY <1>6, <2>3, <2>4 DEF OwnsOnly, Unlocked, Leaving
      <3>2. QED
        BY <2>2, <3>1
    <2>5. CASE Op(r) = "drop"
      <3>1. \A d \in Courses : courseLock[d] # r
        BY <1>6, <2>5 DEF OwnsOnly, Touches, HasIncremented, HasRequoted, HasDecremented
      <3>2. QED
        BY <1>6, <2>2, <2>3, <3>1
    <2>6. QED
      BY <2>1, <2>4, <2>5
  <1>7. CASE pc[r] = "UpdateQuota"
    <2>1. Op(r) = "quota"
      BY <1>1, <1>7, ScriptFacts DEF OnScript
    <2>2. WaitsFor(r) \subseteq {courseLock[req[r].course]} /\ req[r].course \in Courses
      BY <1>7 DEF WaitsFor, At, QuotaMatches
    <2>3. \A d \in Courses : courseLock[d] # r
      BY <1>7, <2>1 DEF OwnsOnly, Touches, HasIncremented, HasRequoted, HasDecremented
    <2>4. QED
      BY <1>7, <2>2, <2>3
  <1>8. QED
    BY <1>2, <1>3, <1>4, <1>5, <1>6, <1>7

\* The requests of a waiting cycle would hold locks of ever greater classes:
\* users are locked before courses and courses in ascending id, so no set of
\* requests, however large, waits for itself.
THEOREM NoDeadlock == Spec => []NoWaitCycle
  <1>1. ASSUME IInv PROVE NoWaitCycle
    <2> SUFFICES ASSUME NEW S \in SUBSET Requests, S # {},
                        \A r \in S : WaitsFor(r) \cap S # {}
                 PROVE  FALSE
      BY DEF NoWaitCycle
    <2> DEFINE Contended == {c \in Courses : courseLock[c] \in S}
    <2>1. \A r \in S : pc[r] # "LockStudent" =>
            \E c \in Contended : \A d \in Courses : courseLock[d] = r => d < c
      <3> SUFFICES ASSUME NEW r \in S, pc[r] # "LockStudent"
                   PROVE  \E c \in Contended : \A d \in Courses : courseLock[d] = r => d < c
        OBVIOUS
      <3>1. PICK c \in Courses : /\ WaitsFor(r) \subseteq {courseLock[c]}
                                 /\ \A d \in Courses : courseLock[d] = r => d < c
        BY <1>1, WaitFacts
      <3>2. courseLock[c] \in S
        BY <3>1
      <3>3. QED
        BY <3>1, <3>2
    <2>2. \A r \in S : pc[r] = "LockStudent" =>
            /\ \A d \in Courses : courseLock[d] # r
            /\ \E q \in S : pc[q] # "LockStudent"
      <3> SUFFICES ASSUME NEW r \in S, pc[r] = "LockStudent"
                   PROVE  /\ \A d \in Courses : courseLock[d] # r
                          /\ \E q \in S : pc[q] # "LockStudent"
        OBVIOUS
      <3>1. /\ WaitsFor(r) \subseteq {userLock[req[r].user]}
            /\ req[r].user \in Students
            /\ \A c \in Courses : courseLock[c] # r
        BY <1>1, WaitFacts
      <3>2. PICK q \in S : q = userLock[req[r].user]
        BY <3>1
      <3>3. HoldsStudent(q)
        BY <1>1, <3>1, <3>2 DEF IInv, DecisionInv, DecisionValid, OwnsOnly
      <3>4. QED
        BY <3>1, <3>2, <3>3 DEF HoldsStudent
    <2>3. Contended # {}
      <3>1. PICK r \in S : pc[r] # "LockStudent"
        <4>1. PICK r \in S : TRUE
          OBVIOUS
        <4>2. QED
          BY <2>2, <4>1
      <3>2. QED
        BY <2>1, <3>1
    <2>4. Contended \subseteq Nat /\ IsFiniteSet(Contended)
      BY CoursesOrdered, FS_Subset
    <2>5. PICK c \in Contended : \A d \in Contended : d <= c
      <3> HIDE DEF Contended
      <3>1. QED
        BY <2>3, <2>4, GreatestNatural
    <2>6. PICK r \in S : courseLock[c] = r
      OBVIOUS
    <2>7. PICK d \in Contended : c < d
      BY <2>1, <2>2, <2>6
    <2>8. QED
      BY <2>4, <2>5, <2>7
  <1>2. QED
    BY <1>1, DecisionsHold, PTL

-----------------------------------------------------------------------------
(* The refinement.                                                          *)

\* Krs counts the students of a class and the credits of a student as the code
\* does.  An instance has its own copies of the library's operators.
LEMMA SameMeasures ==
    ASSUME NEW s, NEW c
    PROVE  /\ Abstract!Load(s) = CreditSum(s, enrollments)
           /\ Abstract!Class(c) = Class(c)
           /\ Abstract!Cardinality(Class(c)) = Cardinality(Class(c))
  <1>1. Abstract!Plan(s) = CoursesOf(s, enrollments)
    BY DEF Abstract!Plan, CoursesOf
  <1>2. Abstract!Load(s) = CreditSum(s, enrollments)
    BY <1>1
    DEF Abstract!Load, CreditSum, MapThenSumSet, MapThenFoldSet,
        Abstract!MapThenSumSet, Abstract!MapThenFoldSet
  <1>3. Abstract!Class(c) = Class(c)
    BY DEF Abstract!Class, Class
  <1>4. Abstract!Cardinality(Class(c)) = Cardinality(Class(c))
    BY DEF Abstract!Cardinality, Cardinality
  <1>5. QED
    BY <1>2, <1>3, <1>4

\* The migration's tables are an initial state of Krs.
LEMMA InitRefines == Init => Abstract!Init
  <1> SUFFICES ASSUME Init PROVE Abstract!Init
    OBVIOUS
  <1>1. [c \in Courses |-> course[c].quota] = SeedQuota
    BY QuotasPositive DEF Init
  <1>2. [c \in Courses |-> course[c].version] = [c \in Courses |-> 1]
    BY DEF Init
  <1>3. \A c \in Courses : Abstract!Cardinality(Abstract!Class(c)) <= SeedQuota[c]
    BY SameMeasures DEF Init, LegalTables
  <1>4. \A s \in Students : Abstract!Load(s) <= MaxCredits
    BY SameMeasures DEF Init, LegalTables
  <1>5. users = Students /\ enrollments \in SUBSET (Courses \X Students) /\ outbox = {}
    BY DEF Init
  <1>6. QED
    BY <1>1, <1>2, <1>3, <1>4, <1>5 DEF Abstract!Init

\* Every statement before COMMIT, every rollback and every retry is invisible.
LEMMA TablesStay ==
    ASSUME NEW r \in Requests, Statement(r) \/ Interrupt(r) \/ DeadlockVictim(r), ~ Commit(r)
    PROVE  UNCHANGED tables
  BY DEF Statement, LockStudent, LockCourses, SumCredits, IncrementEnrolled,
     DecrementEnrolled, WriteCourse, DeleteEnrollment, InsertEnrollment, InsertOutbox,
     UpdateQuota, ExplainQuota, Interrupt, DeadlockVictim, Refuse

\* The outbox row that Commit publishes announces what the request did.
LEMMA CommitAnnounces ==
    ASSUME IInv, NEW r \in Requests, Commit(r)
    PROVE  Abstract!Announce(EventBody(req[r]))
  <1>1. HasAnnounced(r)
    BY DEF Commit, At, HasAnnounced
  <1>2. PICK e \in Event :
          /\ staged[r] = {e}
          /\ e.body = EventBody(req[r])
          /\ \A f \in outbox : f.id # e.id /\ (Abstract!SameSubject(f.body, e.body)
                                                 => f.id < e.id)
    BY <1>1 DEF IInv, DecisionInv, DecisionValid, EventStaged
  <1>3. e.id \in EventIds /\ e = [id |-> e.id, body |-> EventBody(req[r])]
    BY <1>2 DEF Event
  <1>4. outbox' = outbox \cup {e}
    BY <1>2 DEF Commit
  <1>5. QED
    BY <1>2, <1>3, <1>4 DEF Abstract!Announce

\* Only UpdateQuota changes a quota, and it moves the version of that row on.
LEMMA CommitColumns ==
    ASSUME IInv, NEW r \in Requests, Commit(r)
    PROVE  /\ Op(r) # "quota" =>
                /\ [c \in Courses |-> course'[c].quota] = [c \in Courses |-> course[c].quota]
                /\ [c \in Courses |-> course'[c].version] = [c \in Courses |-> course[c].version]
           /\ Op(r) = "quota" =>
                /\ [c \in Courses |-> course'[c].quota] =
                     [[c \in Courses |-> course[c].quota] EXCEPT ![req[r].course] = req[r].quota]
                /\ [c \in Courses |-> course'[c].version] =
                     [[c \in Courses |-> course[c].version] EXCEPT ![req[r].course] = @ + 1]
  <1> USE DEF IInv, TransactionInv
  <1>1. \A c \in Courses : course[c] \in Row
    BY DEF TypeOK
  <1>2. \A c \in Courses : Op(r) # "quota" =>
          course'[c].quota = course[c].quota /\ course'[c].version = course[c].version
    <2> SUFFICES ASSUME NEW c \in Courses, Op(r) # "quota"
                 PROVE  course'[c].quota = course[c].quota /\ course'[c].version = course[c].version
      OBVIOUS
    <2>1. ~ HasRequoted(r)
      BY DEF HasRequoted
    <2>2. QED
      BY <1>1, <2>1, CommitEffect DEF Row
  <1>3. \A c \in Courses : Op(r) = "quota" =>
          /\ course'[c].quota = IF c = req[r].course THEN req[r].quota ELSE course[c].quota
          /\ course'[c].version = IF c = req[r].course THEN course[c].version + 1
                                                       ELSE course[c].version
    <2> SUFFICES ASSUME NEW c \in Courses, Op(r) = "quota"
                 PROVE  /\ course'[c].quota = IF c = req[r].course THEN req[r].quota
                                                                  ELSE course[c].quota
                        /\ course'[c].version = IF c = req[r].course THEN course[c].version + 1
                                                                    ELSE course[c].version
      OBVIOUS
    <2>1. /\ ~ HasIncremented(r) /\ ~ HasDecremented(r)
          /\ pc[r] = "Commit" /\ HasRequoted(r)
      BY DEF HasIncremented, HasDecremented, HasRequoted, Commit, At
    <2>2. QED
      BY <1>1, <2>1, CommitEffect DEF Row, Touches
  <1>4. QED
    BY <1>2, <1>3

\* What the student's lock and the private row guarantee at COMMIT.
LEMMA CommitDecided ==
    ASSUME IInv, NEW r \in Requests, Commit(r)
    PROVE  /\ Op(r) # "quota" => req[r].user \in users /\ req[r].user \in Students
           /\ Op(r) \in {"enroll", "swap"} =>
                 Cardinality(Class(req[r].course)) < course[req[r].course].quota
           /\ Op(r) = "enroll" =>
                 CreditSum(req[r].user, enrollments) + Credits[req[r].course] <= MaxCredits
           /\ Op(r) = "swap" =>
                 CreditSum(req[r].user, enrollments) - Credits[req[r].from]
                   + Credits[req[r].course] <= MaxCredits
           /\ Op(r) = "quota" => Cardinality(Class(req[r].course)) <= req[r].quota
  <1> USE DEF IInv, TransactionInv, DecisionInv, DecisionValid
  <1>1. pc[r] = "Commit" /\ Op(r) \in {"enroll", "drop", "swap", "quota"}
    BY InputFacts DEF Commit, At
  <1>2. Op(r) # "quota" => req[r].user \in users /\ req[r].user \in Students
    BY <1>1, InputFacts DEF AccountKept, HoldsStudent
  <1>3. ASSUME NEW c \in Courses
        PROVE  /\ Cardinality(Class(c)) \in Nat /\ course[c] \in Row
               /\ Cardinality(Class(c)) <= course[c].count
    BY ClassFinite DEF Counters, NeverOversold, TypeOK
  <1>4. Op(r) \in {"enroll", "swap"} =>
          Cardinality(Class(req[r].course)) < course[req[r].course].quota
    <2> SUFFICES ASSUME Op(r) \in {"enroll", "swap"}
                 PROVE  Cardinality(Class(req[r].course)) < course[req[r].course].quota
      OBVIOUS
    <2>1. HasIncremented(r)
      BY <1>1 DEF HasIncremented
    <2>2. /\ req[r].course \in Courses
          /\ course[req[r].course].count < course[req[r].course].quota
      BY <2>1 DEF Effects
    <2>3. QED
      BY <1>3, <2>2 DEF Row
  <1>5. /\ Op(r) = "enroll" =>
             CreditSum(req[r].user, enrollments) + Credits[req[r].course] <= MaxCredits
        /\ Op(r) = "swap" =>
             CreditSum(req[r].user, enrollments) - Credits[req[r].from]
               + Credits[req[r].course] <= MaxCredits
    BY <1>1 DEF LimitKept
  <1>6. Op(r) = "quota" => Cardinality(Class(req[r].course)) <= req[r].quota
    <2> SUFFICES ASSUME Op(r) = "quota" PROVE Cardinality(Class(req[r].course)) <= req[r].quota
      OBVIOUS
    <2>1. req[r].course \in Courses /\ course[req[r].course].count <= req[r].quota
      BY <1>1 DEF Effects, HasRequoted
    <2>2. req[r].quota \in Nat
      BY InputFacts
    <2>3. QED
      BY <1>3, <2>1, <2>2 DEF Row
  <1>7. QED
    BY <1>2, <1>4, <1>5, <1>6

\* An administrator asks for a quota of the range.
LEMMA QuotaRange ==
    ASSUME TypeOK, NEW r \in Requests, Op(r) = "quota"
    PROVE  req[r].quota \in Quotas
  <1>1. req[r] \in Input
    BY InputsValid DEF TypeOK
  <1>2. req[r] \in [op : {"quota"}, course : CourseIds, quota : Quotas, version : Nat \ {0}]
    BY <1>1 DEF Input, Op
  <1>3. QED
    BY <1>2

\* A committed request is one step of Krs: the registration, the quota and the
\* feed change together, under the guards of that step.
LEMMA CommitRefines ==
    ASSUME IInv, NEW r \in Requests, Commit(r)
    PROVE  Abstract!Next
  <1> DEFINE s == req[r].user
             c == req[r].course
             quotas == [d \in Courses |-> course[d].quota]
             versions == [d \in Courses |-> course[d].version]
  <1>1. Op(r) \in {"enroll", "drop", "swap", "quota"}
    BY CommitPlan
  <1>2. users' = users
    BY DEF Commit
  <1>3. Op(r) # "quota" => quotas' = quotas /\ versions' = versions
    BY CommitColumns
  <1>4. \A d \in Courses : quotas[d] = course[d].quota
    OBVIOUS
  <1>5. CASE Op(r) = "enroll"
    <2>1. s \in Students /\ c \in Courses
      BY <1>5, CommitPlan, CommitDecided
    <2>2. s \in users /\ <<c, s>> \notin enrollments /\ enrollments' = enrollments \cup {<<c, s>>}
      BY <1>5, CommitPlan, CommitDecided DEF Joined
    <2>3. Abstract!Cardinality(Abstract!Class(c)) < quotas[c]
      BY <1>4, <1>5, <2>1, CommitDecided, SameMeasures
    <2>4. Abstract!Load(s) + Credits[c] <= MaxCredits
      BY <1>5, CommitDecided, SameMeasures
    <2>5. Abstract!Announce([type |-> "enrollment.created", user |-> s, course |-> c])
      BY <1>5, CommitAnnounces DEF EventBody, Op
    <2>6. Abstract!Enroll(s, c)
      BY <1>2, <1>3, <1>5, <2>2, <2>3, <2>4, <2>5 DEF Abstract!Enroll
    <2>7. QED
      BY <2>1, <2>6 DEF Abstract!Next
  <1>6. CASE Op(r) = "drop"
    <2>1. s \in Students /\ c \in Courses /\ s \in users
      BY <1>6, CommitPlan, CommitDecided DEF Leaving
    <2>2. <<c, s>> \in enrollments /\ enrollments' = enrollments \ {<<c, s>>}
      BY <1>6, CommitPlan DEF Left, Leaving
    <2>3. Abstract!Announce([type |-> "enrollment.dropped", user |-> s, course |-> c])
      BY <1>6, CommitAnnounces DEF EventBody, Op
    <2>4. Abstract!Drop(s, c)
      BY <1>2, <1>3, <1>6, <2>1, <2>2, <2>3 DEF Abstract!Drop
    <2>5. QED
      BY <2>1, <2>4 DEF Abstract!Next
  <1>7. CASE Op(r) = "swap"
    <2> DEFINE from == req[r].from
    <2>1. s \in Students /\ s \in users /\ c \in Courses /\ from \in Courses
      BY <1>7, CommitPlan, CommitDecided DEF Leaving
    <2>2. /\ <<from, s>> \in enrollments /\ <<c, s>> \notin enrollments
          /\ enrollments' = (enrollments \ {<<from, s>>}) \cup {<<c, s>>}
      BY <1>7, CommitPlan DEF Left, Leaving, Joined
    <2>3. Abstract!Cardinality(Abstract!Class(c)) < quotas[c]
      BY <1>4, <1>7, <2>1, CommitDecided, SameMeasures
    <2>4. Abstract!Load(s) - Credits[from] + Credits[c] <= MaxCredits
      BY <1>7, CommitDecided, SameMeasures
    <2>5. Abstract!Announce([type |-> "enrollment.swapped", user |-> s, course |-> c,
                             from |-> from])
      BY <1>7, CommitAnnounces DEF EventBody, Op
    <2>6. Abstract!Swap(s, from, c)
      BY <1>2, <1>3, <1>7, <2>1, <2>2, <2>3, <2>4, <2>5 DEF Abstract!Swap
    <2>7. QED
      BY <2>1, <2>6 DEF Abstract!Next
  <1>8. CASE Op(r) = "quota"
    <2>1. c \in Courses /\ enrollments' = enrollments
      BY <1>8, CommitPlan
    <2>2. req[r].quota \in Quotas
      BY <1>8, QuotaRange DEF IInv, TransactionInv
    <2>3. PICK d \in Courses, q \in Quotas : d = c /\ q = req[r].quota
      BY <2>1, <2>2
    <2>4. Abstract!Cardinality(Abstract!Class(d)) <= q
      BY <1>8, <2>3, CommitDecided, SameMeasures
    <2>5. quotas' = [quotas EXCEPT ![d] = q] /\ versions' = [versions EXCEPT ![d] = @ + 1]
      BY <1>8, <2>3, CommitColumns
    <2>6. EventBody(req[r]) = [type |-> "course.quota_changed", course |-> d, quota |-> q]
      BY <1>8, <2>3 DEF EventBody, Op
    <2>7. Abstract!Announce([type |-> "course.quota_changed", course |-> d, quota |-> q])
      BY <2>6, CommitAnnounces
    <2>8. Abstract!ChangeQuota(d, q)
      BY <1>2, <2>1, <2>4, <2>5, <2>7 DEF Abstract!ChangeQuota
    <2>9. QED
      BY <2>8 DEF Abstract!Next
  <1>9. QED
    BY <1>1, <1>5, <1>6, <1>7, <1>8

\* The deletion of a user is the closing of an account.
LEMMA DeleteUserRefines ==
    ASSUME NEW s \in Students, DeleteUser(s)
    PROVE  Abstract!Next
  <1>1. Abstract!CloseAccount(s)
    BY DEF DeleteUser, Abstract!CloseAccount
  <1>2. QED
    BY <1>1 DEF Abstract!Next

\* Enrollment implements Krs: whatever the statements of concurrent requests
\* interleave, fail, deadlock or retry, the tables change one accepted request
\* at a time, each with its event, and refused requests change nothing.
THEOREM Refinement == Spec => ImplementsKrs
  <1>1. IInv /\ [Next]_vars => [Abstract!Next]_(Abstract!vars)
    <2> SUFFICES ASSUME IInv, [Next]_vars PROVE [Abstract!Next]_(Abstract!vars)
      OBVIOUS
    <2>1. ASSUME UNCHANGED tables PROVE UNCHANGED Abstract!vars
      BY <2>1 DEF tables, Abstract!vars
    <2>2. ASSUME NEW r \in Requests, Statement(r) \/ Interrupt(r) \/ DeadlockVictim(r)
          PROVE  [Abstract!Next]_(Abstract!vars)
      BY <2>1, <2>2, CommitRefines, TablesStay
    <2>3. ASSUME NEW s \in Students, DeleteUser(s)
          PROVE  [Abstract!Next]_(Abstract!vars)
      BY <2>3, DeleteUserRefines
    <2>4. ASSUME UNCHANGED vars PROVE UNCHANGED tables
      BY <2>4 DEF vars, tables
    <2>5. QED
      BY <2>1, <2>2, <2>3, <2>4 DEF Next, AllAnswered
  <1>2. QED
    BY <1>1, InitRefines, DecisionsHold, PTL DEF Spec, ImplementsKrs, Abstract!Spec

-----------------------------------------------------------------------------
(* The outbox as a history.                                                 *)

\* A step of Krs that announces nothing about a class of a student, and leaves
\* the registration for it alone, changes nothing in what the feed tells of it;
\* a step that announces something is told of by its own event.
LEMMA NewsTells ==
    ASSUME TypeOK, Abstract!FeedTells, NEW e \in Event, outbox' = outbox \cup {e},
           \A f \in outbox : Abstract!SameSubject(f.body, e.body) => f.id < e.id,
           users' = users,
           \A s \in users, c \in Courses :
               /\ Abstract!Concerns(e.body, s, c) =>
                     (<<c, s>> \in enrollments' <=> Abstract!Joins(e.body, c))
               /\ ~ Abstract!Concerns(e.body, s, c) =>
                     (<<c, s>> \in enrollments' <=> <<c, s>> \in enrollments)
    PROVE  Abstract!FeedTells'
  <1> SUFFICES ASSUME NEW g \in outbox', NEW s \in users', NEW c \in Courses,
                      Abstract!Concerns(g.body, s, c),
                      \A f \in outbox' : Abstract!Concerns(f.body, s, c) => f.id <= g.id
               PROVE  <<c, s>> \in enrollments' <=> Abstract!Joins(g.body, c)
    BY DEF Abstract!FeedTells
  <1>1. e.id \in Nat /\ \A f \in outbox : f.id \in Nat
    BY BoundsNat DEF TypeOK, Event
  <1>2. CASE Abstract!Concerns(e.body, s, c)
    <2>1. ASSUME g \in outbox PROVE FALSE
      <3>1. Abstract!SameSubject(g.body, e.body)
        BY <1>2 DEF Abstract!Concerns, Abstract!SameSubject
      <3>2. g.id < e.id /\ e.id <= g.id
        BY <1>2, <2>1, <3>1
      <3>3. QED
        BY <1>1, <2>1, <3>2
    <2>2. QED
      BY <1>2, <2>1
  <1>3. CASE ~ Abstract!Concerns(e.body, s, c)
    <2>1. g \in outbox
      BY <1>3
    <2>2. <<c, s>> \in enrollments <=> Abstract!Joins(g.body, c)
      BY <2>1 DEF Abstract!FeedTells
    <2>3. QED
      BY <1>3, <2>2
  <1>4. QED
    BY <1>2, <1>3

\* The event of a committed request tells what the request did.
LEMMA CommitTells ==
    ASSUME IInv, Abstract!FeedTells, NEW r \in Requests, Commit(r)
    PROVE  Abstract!FeedTells'
  <1>1. HasAnnounced(r)
    BY DEF Commit, At, HasAnnounced
  <1>2. PICK e \in Event :
          /\ staged[r] = {e}
          /\ e.body = EventBody(req[r])
          /\ \A f \in outbox : f.id # e.id /\ (Abstract!SameSubject(f.body, e.body)
                                                 => f.id < e.id)
    BY <1>1 DEF IInv, DecisionInv, DecisionValid, EventStaged
  <1>3. outbox' = outbox \cup {e} /\ users' = users
    BY <1>2 DEF Commit
  <1>4. ASSUME NEW s \in users, NEW c \in Courses
        PROVE  /\ Abstract!Concerns(e.body, s, c) =>
                     (<<c, s>> \in enrollments' <=> Abstract!Joins(e.body, c))
               /\ ~ Abstract!Concerns(e.body, s, c) =>
                     (<<c, s>> \in enrollments' <=> <<c, s>> \in enrollments)
    <2>1. Op(r) \in {"enroll", "drop", "swap", "quota"}
      BY CommitPlan
    <2> USE DEF Abstract!Concerns, Abstract!Joins, Abstract!AboutQuota
    <2>2. CASE Op(r) = "enroll"
      <3>1. e.body = [type |-> "enrollment.created", user |-> req[r].user,
                      course |-> req[r].course]
        BY <1>2, <2>2 DEF EventBody, Op
      <3>2. enrollments' = enrollments \cup {<<req[r].course, req[r].user>>}
        BY <2>2, CommitPlan DEF Joined
      <3>3. QED
        BY <3>1, <3>2
    <2>3. CASE Op(r) = "drop"
      <3>1. e.body = [type |-> "enrollment.dropped", user |-> req[r].user,
                      course |-> req[r].course]
        BY <1>2, <2>3 DEF EventBody, Op
      <3>2. enrollments' = enrollments \ {<<req[r].course, req[r].user>>}
        BY <2>3, CommitPlan DEF Left, Leaving
      <3>3. QED
        BY <3>1, <3>2
    <2>4. CASE Op(r) = "swap"
      <3>1. e.body = [type |-> "enrollment.swapped", user |-> req[r].user,
                      course |-> req[r].course, from |-> req[r].from]
        BY <1>2, <2>4 DEF EventBody, Op
      <3>2. enrollments' = (enrollments \ {<<req[r].from, req[r].user>>})
                             \cup {<<req[r].course, req[r].user>>}
        BY <2>4, CommitPlan DEF Left, Leaving, Joined
      <3>3. QED
        BY <3>1, <3>2
    <2>5. CASE Op(r) = "quota"
      <3>1. e.body = [type |-> "course.quota_changed", course |-> req[r].course,
                      quota |-> req[r].quota]
        BY <1>2, <2>5 DEF EventBody, Op
      <3>2. enrollments' = enrollments
        BY <2>5, CommitPlan
      <3>3. QED
        BY <3>1, <3>2
    <2>6. QED
      BY <2>1, <2>2, <2>3, <2>4, <2>5
  <1>5. TypeOK
    BY DEF IInv, TransactionInv
  <1>6. QED
    BY <1>2, <1>3, <1>4, <1>5, NewsTells

\* Whoever reads the outbox by id knows the registrations of every student with
\* an account, as far as events name them.
THEOREM OutboxIsHistory == Spec => []OutboxTells
  <1>1. Init => OutboxTells
    BY DEF Init, OutboxTells, Abstract!FeedTells
  <1>2. IInv /\ OutboxTells /\ [Next]_vars => OutboxTells'
    <2> SUFFICES ASSUME IInv, OutboxTells, [Next]_vars PROVE OutboxTells'
      OBVIOUS
    <2>1. ASSUME UNCHANGED tables PROVE OutboxTells'
      BY <2>1 DEF tables, OutboxTells, Abstract!FeedTells
    <2>2. ASSUME NEW r \in Requests, Statement(r) \/ Interrupt(r) \/ DeadlockVictim(r)
          PROVE  OutboxTells'
      BY <2>1, <2>2, CommitTells, TablesStay DEF OutboxTells
    <2>3. ASSUME NEW s \in Students, DeleteUser(s) PROVE OutboxTells'
      BY <2>3 DEF DeleteUser, OutboxTells, Abstract!FeedTells
    <2>4. ASSUME UNCHANGED vars PROVE UNCHANGED tables
      BY <2>4 DEF vars, tables
    <2>5. QED
      BY <2>1, <2>2, <2>3, <2>4 DEF Next, AllAnswered
  <1>3. QED
    BY <1>1, <1>2, DecisionsHold, PTL DEF Spec

-----------------------------------------------------------------------------
(* The interface to the notification pipeline.                              *)

\* The outbox as module OutboxDelivery and its specification Notices see it:
\* ids that are announced, and users that have an account.  Nobody sends here.
Feed == INSTANCE Notices WITH
    Ids <- EventIds,
    Users <- Students,
    Senders <- {},
    stray <- {},
    announced <- {e.id : e \in outbox},
    members <- users,
    mails <- [p \in EventIds \X Students |-> 0],
    recorded <- {}

\* A committed request announces one id that was never announced before.
LEMMA CommitFeeds ==
    ASSUME IInv, NEW r \in Requests, Commit(r)
    PROVE  Feed!Next
  <1>1. HasAnnounced(r)
    BY DEF Commit, At, HasAnnounced
  <1>2. PICK e \in Event : staged[r] = {e} /\ \A f \in outbox : f.id # e.id
    BY <1>1 DEF IInv, DecisionInv, DecisionValid, EventStaged
  <1>3. PICK id \in EventIds : id = e.id
    BY DEF Event
  <1>4. outbox' = outbox \cup {e} /\ users' = users
    BY <1>2 DEF Commit
  <1>5. {f.id : f \in outbox'} = {f.id : f \in outbox} \cup {id}
    BY <1>3, <1>4
  <1>6. id \notin {f.id : f \in outbox}
    BY <1>2, <1>3
  <1>7. Feed!Announce(id)
    BY <1>3, <1>4, <1>5, <1>6 DEF Feed!Announce
  <1>8. QED
    BY <1>7 DEF Feed!Next

\* What registration does to the outbox and to the accounts is what Notices
\* lets happen to them: every accepted request is announced by one fresh id,
\* nothing else is announced, and an announcement is never taken back.
THEOREM FeedsNotices == Spec => Feed!Spec
  <1>1. Init => Feed!Init
    BY DEF Init, Feed!Init, Feed!Pairs
  <1>2. IInv /\ [Next]_vars => [Feed!Next]_(Feed!vars)
    <2> SUFFICES ASSUME IInv, [Next]_vars PROVE [Feed!Next]_(Feed!vars)
      OBVIOUS
    <2>1. ASSUME UNCHANGED tables PROVE UNCHANGED Feed!vars
      BY <2>1 DEF tables, Feed!vars
    <2>2. ASSUME NEW r \in Requests, Statement(r) \/ Interrupt(r) \/ DeadlockVictim(r)
          PROVE  [Feed!Next]_(Feed!vars)
      BY <2>1, <2>2, CommitFeeds, TablesStay
    <2>3. ASSUME NEW s \in Students, DeleteUser(s)
          PROVE  [Feed!Next]_(Feed!vars)
      <3>1. Feed!Forget(s)
        BY <2>3 DEF DeleteUser, Feed!Forget
      <3>2. QED
        BY <3>1 DEF Feed!Next
    <2>4. ASSUME UNCHANGED vars PROVE UNCHANGED tables
      BY <2>4 DEF vars, tables
    <2>5. QED
      BY <2>1, <2>2, <2>3, <2>4 DEF Next, AllAnswered
  <1>3. QED
    BY <1>1, <1>2, DecisionsHold, PTL DEF Spec, Feed!Spec
=============================================================================
