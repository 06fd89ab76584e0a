-------------------------- MODULE EnrollmentProofs --------------------------
(***************************************************************************)
(* Proofs about Enrollment, for every set of requests, students and        *)
(* courses: TransactionInv is inductive, hence the tables are well typed,  *)
(* no class is oversold, the counter is exact while nobody is deleted, the *)
(* CHECK constraint never fires and no quota change is lost.               *)
(***************************************************************************)
EXTENDS Enrollment, FiniteSetTheorems, TLAPS

\* What a request may ask, from the definition of Input.
LEMMA InputFacts ==
    ASSUME TypeOK, NEW r \in Requests
    PROVE  /\ Op(r) \in {"enroll", "drop", "swap", "quota"}
           /\ Op(r) # "quota" => req[r].user \in Students
           /\ req[r].course \in CourseIds
           /\ Op(r) = "swap" => req[r].from \in CourseIds /\ req[r].from # req[r].course
           /\ Op(r) = "quota" => /\ req[r].quota \in Nat \ {0}
                                 /\ req[r].version \in Nat \ {0}
  <1>1. req[r] \in Input
    BY InputsValid DEF TypeOK
  <1>2. CASE req[r] \in [op : {"enroll", "drop"}, user : Students, course : CourseIds]
    BY <1>2 DEF Op
  <1>3. CASE req[r] \in {i \in [op : {"swap"}, user : Students, from : CourseIds,
                                course : CourseIds] : i.from # i.course}
    BY <1>3 DEF Op
  <1>4. CASE req[r] \in [op : {"quota"}, course : CourseIds, quota : Quotas,
                         version : Nat \ {0}]
    BY <1>4, QuotasPositive DEF Op
  <1>5. QED
    BY <1>1, <1>2, <1>3, <1>4 DEF Input

\* The statement that follows a statement, read off the four scripts.
LEMMA ScriptFacts ==
    /\ Script("enroll") = EnrollScript /\ Script("drop") = DropScript
    /\ Script("swap") = SwapScript /\ Script("quota") = QuotaScript
    /\ DOMAIN EnrollScript = {"LockStudent", "SumCredits", "IncrementEnrolled",
                              "InsertOutbox", "InsertEnrollment"}
    /\ DOMAIN DropScript = {"LockStudent", "DeleteEnrollment", "DecrementEnrolled",
                            "InsertOutbox"}
    /\ DOMAIN SwapScript = {"LockStudent", "LockCourses", "SumCredits",
                            "DeleteEnrollment", "DecrementEnrolled",
                            "IncrementEnrolled", "InsertEnrollment", "InsertOutbox"}
    /\ DOMAIN QuotaScript = {"UpdateQuota", "InsertOutbox"}
  BY DEF Script, EnrollScript, DropScript, SwapScript, QuotaScript

\* A course id is a pair of a class and a student: the rows of a class.
LEMMA ClassFinite ==
    ASSUME TypeOK, NEW c \in Courses
    PROVE  IsFiniteSet(Class(c)) /\ Cardinality(Class(c)) \in Nat
  BY StudentsFinite, FS_Subset, FS_CardinalityType DEF Class

-----------------------------------------------------------------------------
(* Init.                                                                    *)

LEMMA InitInv == Init => TransactionInv
  <1> SUFFICES ASSUME Init PROVE TransactionInv
    OBVIOUS
  <1>1. \A c \in Courses : Cardinality(Class(c)) \in Nat /\ IsFiniteSet(Class(c))
    BY StudentsFinite, FS_Subset, FS_CardinalityType DEF Class
  <1>2. TypeOK
    BY <1>1, BoundsNat, QuotasPositive
    DEF Init, TypeOK, Row, Statements, Outcomes, FirstStatement, NoWrites, Pairs
  <1>3. \A r \in Requests : OnScript(r) /\ LocksHeld(r) /\ Effects(r)
    <2> SUFFICES ASSUME NEW r \in Requests
                 PROVE  OnScript(r) /\ LocksHeld(r) /\ Effects(r)
      OBVIOUS
    <2>1. Op(r) \in {"enroll", "drop", "swap", "quota"}
      BY <1>2, InputFacts
    <2>2. pc[r] = FirstStatement(Op(r))
      BY DEF Init, Op
    <2>3. OnScript(r)
      BY <2>1, <2>2, ScriptFacts DEF OnScript, FirstStatement
    <2>4. LocksHeld(r)
      BY <2>1, <2>2 DEF Init, LocksHeld, HoldsStudent, FirstStatement, NoWrites
    <2>5. Effects(r)
      BY <2>1, <2>2 DEF Init, CourseFound, Effects, RowEffect, HasDeleted, HasInserted,
         HasIncremented, HasDecremented, HasRequoted, FirstStatement, NoWrites
    <2>6. QED
      BY <2>3, <2>4, <2>5
  <1>4. Counters
    BY <1>1, QuotasPositive DEF Init, LegalTables, Counters, NeverOversold, CountMatchesRows
  <1>5. VersionsMoveOn /\ NoLostQuotaUpdate
    BY DEF Init, VersionsMoveOn, NoLostQuotaUpdate
  <1>6. QED
    BY <1>2, <1>3, <1>4, <1>5 DEF TransactionInv

-----------------------------------------------------------------------------
(* A statement of one request does not disturb what the invariant says of   *)
(* another request.                                                         *)

Private(r) == <<req[r], pc[r], row[r], added[r], removed[r]>>

\* As long as the classes q has written and the enrollments of q's student stay,
\* and q keeps its locks and its private state, q's part of the invariant stays.
LEMMA OthersKeep ==
    ASSUME TypeOK, NEW q \in Requests,
           OnScript(q), LocksHeld(q), Effects(q),
           \A c \in Courses : Touches(q, c) => course'[c] = course[c],
           HoldsStudent(q) => \A c \in CourseIds : <<c, req[q].user>> \in enrollments'
                                               <=> <<c, req[q].user>> \in enrollments,
           Private(q)' = Private(q),
           \A s \in Students : userLock[s] = q => userLock'[s] = q,
           \A c \in Courses : courseLock[c] = q => courseLock'[c] = q
    PROVE  OnScript(q)' /\ LocksHeld(q)' /\ Effects(q)'
  <1>1. Op(q)' = Op(q) /\ Leaving(q)' = Leaving(q) /\ Left(q)' = Left(q) /\ Joined(q)' = Joined(q)
    BY DEF Op, Leaving, Left, Joined, Private
  <1>2. OnScript(q)'
    BY <1>1 DEF OnScript, Private
  <1>3. LocksHeld(q)'
    BY <1>1, InputFacts DEF LocksHeld, HoldsStudent, Private
  <1>4. /\ HasIncremented(q)' = HasIncremented(q) /\ HasInserted(q)' = HasInserted(q)
        /\ HasDecremented(q)' = HasDecremented(q) /\ HasDeleted(q)' = HasDeleted(q)
        /\ HasRequoted(q)' = HasRequoted(q)
    BY <1>1 DEF HasIncremented, HasInserted, HasDecremented, HasDeleted, HasRequoted, Private
  <1>5. \A c \in Courses : RowEffect(q, c)' = RowEffect(q, c)
    BY <1>1, <1>4 DEF RowEffect, Touches, Private
  <1>6. /\ HasDeleted(q) => Left(q) \in enrollments'
        /\ HasInserted(q) => Joined(q) \notin enrollments'
    <2>1. Leaving(q) \in CourseIds /\ req[q].course \in CourseIds
      BY InputFacts DEF Leaving
    <2>2. HasDeleted(q) \/ HasInserted(q) => HoldsStudent(q)
      BY DEF HasDeleted, HasDecremented, HasInserted, HoldsStudent
    <2>3. QED
      BY <2>1, <2>2 DEF Effects, Left, Joined
  <1>7. HasIncremented(q) \/ HasRequoted(q) => course'[req[q].course] = course[req[q].course]
    BY DEF Touches, Effects
  <1>8. Effects(q)'
    BY <1>1, <1>4, <1>5, <1>6, <1>7 DEF Effects, CourseFound, Private
  <1>9. QED
    BY <1>2, <1>3, <1>8

-----------------------------------------------------------------------------
(* The end of a transaction without commit.                                 *)

\* Rollback keeps the invariant: the tables stay, the private writes and the
\* locks go, and the request is either done or back at its first statement.
LEMMA RollbackKeeps ==
    ASSUME TransactionInv, NEW r \in Requests, Running(r), Release(r),
           UNCHANGED <<tables, nextId, req>>,
           NEW statement \in {"Done", FirstStatement(Op(r))},
           pc' = [pc EXCEPT ![r] = statement],
           attempt' \in [Requests -> 1..MaxAttempts],
           result' \in [Requests -> Outcomes],
           \A q \in Requests : result'[q] = "ok" => result[q] = "ok"
    PROVE  TransactionInv'
  <1> USE DEF TransactionInv
  <1>1. Op(r) \in {"enroll", "drop", "swap", "quota"}
    BY InputFacts
  <1>2. statement \in Statements \cup {"Done"}
    BY DEF Statements, FirstStatement
  <1>3. TypeOK'
    BY <1>2, NoneIsFresh DEF TypeOK, Release, NoWrites, tables
  <1>4. OnScript(r)' /\ LocksHeld(r)' /\ Effects(r)'
    <2>1. Op(r)' = Op(r) /\ pc'[r] = statement
      BY DEF Op, TypeOK
    <2>2. OnScript(r)'
      BY <1>1, <2>1, ScriptFacts DEF OnScript, FirstStatement
    <2>3. row'[r] = NoWrites /\ added'[r] = {} /\ removed'[r] = {}
      BY DEF Release, TypeOK
    <2>4. LocksHeld(r)'
      BY <1>1, <2>1, <2>3 DEF LocksHeld, HoldsStudent, FirstStatement, NoWrites
    <2>5. Effects(r)'
      <3>1. ~HasDeleted(r)' /\ ~HasInserted(r)' /\ ~HasIncremented(r)' /\ ~HasDecremented(r)'
            /\ ~HasRequoted(r)'
        BY <1>1, <2>1 DEF HasDeleted, HasInserted, HasIncremented, HasDecremented,
           HasRequoted, FirstStatement
      <3>2. CourseFound(r)' /\ \A c \in Courses : RowEffect(r, c)' = None
        BY <1>1, <2>1, <3>1 DEF CourseFound, RowEffect, FirstStatement
      <3>3. QED
        BY <2>3, <3>1, <3>2 DEF Effects, NoWrites
    <2>6. QED
      BY <2>2, <2>4, <2>5
  <1>5. ASSUME NEW q \in Requests, q # r
        PROVE  OnScript(q)' /\ LocksHeld(q)' /\ Effects(q)'
    <2>1. Private(q)' = Private(q)
      BY <1>5 DEF Private, Release, TypeOK
    <2>2. /\ \A s \in Students : userLock[s] = q => userLock'[s] = q
          /\ \A c \in Courses : courseLock[c] = q => courseLock'[c] = q
      BY <1>5 DEF Release
    <2>3. QED
      BY <2>1, <2>2, OthersKeep DEF tables
  <1>6. Counters'
    BY DEF Counters, NeverOversold, CountMatchesRows, Class, tables
  <1>7. VersionsMoveOn' /\ NoLostQuotaUpdate'
    <2>1. \A q \in Requests : Op(q) = "quota" /\ result'[q] = "ok"
                                => q # r /\ result[q] = "ok" /\ pc'[q] = pc[q]
      BY DEF TypeOK, VersionsMoveOn, Running
    <2>2. QED
      BY <2>1 DEF VersionsMoveOn, NoLostQuotaUpdate, Op, tables
  <1>8. QED
    BY <1>3, <1>4, <1>5, <1>6, <1>7

\* A refused request leaves the invariant as it is.
LEMMA RefuseKeeps ==
    ASSUME TransactionInv, NEW r \in Requests, Running(r),
           NEW outcome \in Outcomes \ {"ok"}, Refuse(r, outcome)
    PROVE  TransactionInv'
  <1>1. attempt' \in [Requests -> 1..MaxAttempts]
    BY DEF TransactionInv, TypeOK, Refuse
  <1>2. result' \in [Requests -> Outcomes] /\ \A q \in Requests : result'[q] = "ok" => result[q] = "ok"
    BY DEF TransactionInv, TypeOK, Refuse, Answer
  <1>3. QED
    BY <1>1, <1>2, RollbackKeeps DEF Refuse, Answer

\* A deadlock victim starts its transaction again.
LEMMA DeadlockVictimKeeps ==
    ASSUME TransactionInv, NEW r \in Requests, DeadlockVictim(r)
    PROVE  TransactionInv'
  <1>1. Running(r)
    BY DEF DeadlockVictim, WaitsFor, Running, At
  <1>2. attempt' \in [Requests -> 1..MaxAttempts]
    BY BoundsNat DEF DeadlockVictim, TransactionInv, TypeOK
  <1>3. result' \in [Requests -> Outcomes] /\ \A q \in Requests : result'[q] = "ok" => result[q] = "ok"
    BY DEF DeadlockVictim, TransactionInv, TypeOK
  <1>4. QED
    BY <1>1, <1>2, <1>3, RollbackKeeps DEF DeadlockVictim

-----------------------------------------------------------------------------
(* A statement that succeeds: the tables stay, the request moves on.        *)

\* A statement other than Commit keeps the invariant when it keeps that of its
\* own request: what it shares with the others are locks that were free.
LEMMA StatementKeeps ==
    ASSUME TransactionInv, NEW r \in Requests, Running(r), TypeOK',
           UNCHANGED <<tables, req, attempt, result>>,
           \A q \in Requests \ {r} : Private(q)' = Private(q),
           \A s \in Students : userLock'[s] # userLock[s] => userLock[s] = None,
           \A c \in Courses : courseLock'[c] # courseLock[c] => courseLock[c] \in {None, r},
           OnScript(r)', LocksHeld(r)', Effects(r)'
    PROVE  TransactionInv'
  <1> USE DEF TransactionInv
  <1>1. ASSUME NEW q \in Requests, q # r
        PROVE  OnScript(q)' /\ LocksHeld(q)' /\ Effects(q)'
    <2>1. /\ \A s \in Students : userLock[s] = q => userLock'[s] = q
          /\ \A c \in Courses : courseLock[c] = q => courseLock'[c] = q
      BY <1>1, NoneIsFresh
    <2>2. QED
      BY <1>1, <2>1, OthersKeep DEF tables
  <1>2. Counters'
    BY DEF Counters, NeverOversold, CountMatchesRows, Class, tables
  <1>3. VersionsMoveOn' /\ NoLostQuotaUpdate'
    <2>1. \A q \in Requests : Op(q) = "quota" /\ result[q] = "ok" => pc'[q] = "Done"
      BY DEF VersionsMoveOn, Running, Private
    <2>2. QED
      BY <2>1 DEF VersionsMoveOn, NoLostQuotaUpdate, Op, tables
  <1>4. QED
    BY <1>1, <1>2, <1>3

LEMMA LockStudentKeeps ==
    ASSUME TransactionInv, NEW r \in Requests, LockStudent(r)
    PROVE  TransactionInv'
  <1> USE DEF TransactionInv
  <1>1. Op(r) \in {"enroll", "drop", "swap"} /\ req[r].user \in Students
    BY InputFacts, ScriptFacts DEF LockStudent, At, OnScript
  <1>2. Running(r)
    BY DEF LockStudent, At, Running
  <1>3. CASE Refuse(r, "not_found")
    BY <1>2, <1>3, RefuseKeeps DEF Outcomes
  <1>4. CASE /\ userLock[req[r].user] = None
             /\ userLock' = [userLock EXCEPT ![req[r].user] = r]
             /\ Proceed(r)
             /\ UNCHANGED <<tables, nextId, courseLock, req, attempt, row, added,
                            removed, staged, result>>
    <2>1. /\ Op(r)' = Op(r)
          /\ pc' = [pc EXCEPT ![r] = pc'[r]]
          /\ Op(r) = "enroll" => pc'[r] = "SumCredits"
          /\ Op(r) = "drop" => pc'[r] = "DeleteEnrollment"
          /\ Op(r) = "swap" => pc'[r] = "LockCourses"
      BY <1>1, <1>4, ScriptFacts
      DEF Op, Proceed, LockStudent, At, TypeOK, EnrollScript, DropScript, SwapScript
    <2>2. TypeOK'
      BY <1>1, <1>4, <2>1 DEF TypeOK, tables, Statements
    <2>3. OnScript(r)'
      BY <1>1, <2>1, ScriptFacts DEF OnScript
    <2>4. LocksHeld(r)'
      BY <1>1, <1>4, <2>1 DEF LocksHeld, HoldsStudent, TypeOK
    <2>5. Effects(r)'
      BY <1>1, <1>4, <2>1 DEF LockStudent, At, CourseFound, Effects, RowEffect, HasDeleted, HasInserted,
         HasIncremented, HasDecremented, HasRequoted, tables
    <2>6. QED
      BY <1>2, <1>4, <2>1, <2>2, <2>3, <2>4, <2>5, StatementKeeps DEF Private, TypeOK
  <1>5. QED
    BY <1>3, <1>4 DEF LockStudent

LEMMA LockCoursesKeeps ==
    ASSUME TransactionInv, NEW r \in Requests, LockCourses(r)
    PROVE  TransactionInv'
  <1> USE DEF TransactionInv
  <1>1. Op(r) = "swap" /\ pc[r] = "LockCourses" /\ Running(r)
    BY InputFacts, ScriptFacts DEF LockCourses, At, OnScript, Running
  <1>2. CASE /\ courseLock[NextToLock(r)] = None
             /\ courseLock' = [courseLock EXCEPT ![NextToLock(r)] = r]
             /\ UNCHANGED <<tables, nextId, userLock, req, pc, attempt, row, added,
                            removed, staged, result>>
    <2>1. TypeOK'
      BY <1>2 DEF TypeOK, tables
    <2>2. /\ \A s \in Students : userLock[s] = r => userLock'[s] = r
          /\ \A c \in Courses : courseLock[c] = r => courseLock'[c] = r
      BY <1>2 DEF TypeOK
    <2>3. OnScript(r)' /\ LocksHeld(r)' /\ Effects(r)'
      BY <1>2, <2>2, OthersKeep DEF Private, tables
    <2>4. QED
      BY <1>1, <1>2, <2>1, <2>3, StatementKeeps DEF Private, TypeOK
  <1>3. CASE /\ Proceed(r)
             /\ UNCHANGED <<tables, nextId, locks, req, attempt, row, added,
                            removed, staged, result>>
    <2>1. Op(r)' = Op(r) /\ pc' = [pc EXCEPT ![r] = pc'[r]] /\ pc'[r] = "SumCredits"
      BY <1>1, <1>3, ScriptFacts DEF Op, Proceed, TypeOK, SwapScript
    <2>2. TypeOK'
      BY <1>3, <2>1 DEF TypeOK, tables, locks, Statements
    <2>3. OnScript(r)'
      BY <1>1, <2>1, ScriptFacts DEF OnScript, TypeOK
    <2>4. LocksHeld(r)'
      BY <1>1, <1>3, <2>1 DEF LocksHeld, HoldsStudent, TypeOK, locks
    <2>5. Effects(r)'
      BY <1>1, <1>3, <2>1 DEF TypeOK, CourseFound, Effects, RowEffect, HasDeleted, HasInserted,
         HasIncremented, HasDecremented, HasRequoted, tables
    <2>6. QED
      BY <1>1, <1>3, <2>1, <2>2, <2>3, <2>4, <2>5, StatementKeeps DEF Private, TypeOK, locks
  <1>4. CASE Refuse(r, "not_found")
    BY <1>1, <1>4, RefuseKeeps DEF Outcomes
  <1>5. QED
    BY <1>2, <1>3, <1>4 DEF LockCourses

LEMMA SumCreditsKeeps ==
    ASSUME TransactionInv, NEW r \in Requests, SumCredits(r)
    PROVE  TransactionInv'
  <1> USE DEF TransactionInv
  <1>1. Op(r) \in {"enroll", "swap"} /\ pc[r] = "SumCredits" /\ Running(r)
    BY InputFacts, ScriptFacts DEF SumCredits, At, OnScript, Running
  <1>2. CASE /\ req[r].course \in Courses
             /\ Proceed(r)
             /\ UNCHANGED <<tables, nextId, locks, req, attempt, row, added,
                            removed, staged, result>>
    <2>1. /\ Op(r)' = Op(r)
          /\ pc' = [pc EXCEPT ![r] = pc'[r]]
          /\ Op(r) = "enroll" => pc'[r] = "IncrementEnrolled"
          /\ Op(r) = "swap" => pc'[r] = "DeleteEnrollment"
      BY <1>1, <1>2, ScriptFacts DEF Op, Proceed, TypeOK, EnrollScript, SwapScript
    <2>2. TypeOK'
      BY <1>1, <1>2, <2>1 DEF TypeOK, tables, locks, Statements
    <2>3. OnScript(r)'
      BY <1>1, <2>1, ScriptFacts DEF OnScript
    <2>4. LocksHeld(r)'
      BY <1>1, <1>2, <2>1 DEF LocksHeld, HoldsStudent, locks
    <2>5. Effects(r)'
      BY <1>1, <1>2, <2>1 DEF Effects, CourseFound, RowEffect, HasDeleted, HasInserted,
         HasIncremented, HasDecremented, HasRequoted, tables
    <2>6. QED
      BY <1>1, <1>2, <2>1, <2>2, <2>3, <2>4, <2>5, StatementKeeps DEF Private, TypeOK, locks
  <1>3. CASE Refuse(r, "credit_limit") \/ Refuse(r, "not_found")
    BY <1>1, <1>3, RefuseKeeps DEF Outcomes
  <1>4. QED
    BY <1>2, <1>3 DEF SumCredits

LEMMA DeleteEnrollmentKeeps ==
    ASSUME TransactionInv, NEW r \in Requests, DeleteEnrollment(r)
    PROVE  TransactionInv'
  <1> USE DEF TransactionInv
  <1>1. Op(r) \in {"drop", "swap"} /\ pc[r] = "DeleteEnrollment" /\ Running(r)
    BY InputFacts, ScriptFacts DEF DeleteEnrollment, At, OnScript, Running
  <1>2. CASE /\ Left(r) \in VisibleEnrollments(r)
             /\ removed' = [removed EXCEPT ![r] = @ \cup {Left(r)}]
             /\ Proceed(r)
             /\ UNCHANGED <<tables, nextId, locks, req, attempt, row, added,
                            staged, result>>
    <2>1. Op(r)' = Op(r) /\ pc' = [pc EXCEPT ![r] = pc'[r]] /\ pc'[r] = "DecrementEnrolled"
      BY <1>1, <1>2, ScriptFacts DEF Op, Proceed, TypeOK, DropScript, SwapScript
    <2>2. removed[r] = {} /\ added[r] = {} /\ Left(r) \in enrollments
      BY <1>1, <1>2 DEF Effects, HasDeleted, HasDecremented, HasInserted, VisibleEnrollments
    <2>3. TypeOK'
      <3>1. pc' \in [Requests -> Statements \cup {"Done"}]
        BY <2>1 DEF TypeOK, Statements
      <3>2. Left(r) \in Pairs
        BY <2>2 DEF TypeOK
      <3>3. removed' \in [Requests -> SUBSET Pairs]
        BY <1>2, <3>2 DEF TypeOK
      <3>4. QED
        BY <1>2, <3>1, <3>3 DEF TypeOK, tables, locks
    <2>4. OnScript(r)'
      BY <1>1, <2>1, ScriptFacts DEF OnScript, TypeOK
    <2>5. LocksHeld(r)'
      BY <1>1, <1>2, <2>1 DEF LocksHeld, HoldsStudent, locks, TypeOK
    <2>6. Effects(r)'
      <3>1. /\ HasDeleted(r)' /\ ~HasInserted(r)' /\ ~HasIncremented(r)'
            /\ ~HasDecremented(r)' /\ ~HasRequoted(r)'
            /\ ~HasIncremented(r) /\ ~HasDecremented(r) /\ ~HasRequoted(r)
        BY <1>1, <2>1 DEF HasDeleted, HasInserted, HasIncremented, HasDecremented, HasRequoted
      <3>2. Left(r)' = Left(r) /\ removed'[r] = {Left(r)} /\ added'[r] = {}
        <4>1. Left(r)' = Left(r)
          BY <1>2, <2>1 DEF Left, Leaving
        <4>2. removed' = [removed EXCEPT ![r] = {Left(r)}]
          BY <1>2, <2>2
        <4>3. QED
          BY <1>2, <2>2, <4>1, <4>2 DEF TypeOK
      <3>3. \A c \in Courses : row'[r][c] = RowEffect(r, c)'
        BY <1>2, <3>1 DEF Effects, RowEffect
      <3>4. CourseFound(r)'
        BY <1>1, <1>2, <2>1 DEF Effects, CourseFound
      <3>5. QED
        BY <1>2, <2>2, <3>1, <3>2, <3>3, <3>4 DEF Effects, tables
    <2>7. QED
      BY <1>1, <1>2, <2>1, <2>3, <2>4, <2>5, <2>6, StatementKeeps DEF Private, TypeOK, locks
  <1>3. CASE Refuse(r, "not_enrolled")
    BY <1>1, <1>3, RefuseKeeps DEF Outcomes
  <1>4. QED
    BY <1>2, <1>3 DEF DeleteEnrollment, Left

LEMMA InsertEnrollmentKeeps ==
    ASSUME TransactionInv, NEW r \in Requests, InsertEnrollment(r)
    PROVE  TransactionInv'
  <1> USE DEF TransactionInv
  <1>1. Op(r) \in {"enroll", "swap"} /\ pc[r] = "InsertEnrollment" /\ Running(r)
    BY InputFacts, ScriptFacts DEF InsertEnrollment, At, OnScript, Running
  <1>2. CASE /\ Joined(r) \notin VisibleEnrollments(r)
             /\ added' = [added EXCEPT ![r] = @ \cup {Joined(r)}]
             /\ Proceed(r)
             /\ UNCHANGED <<tables, nextId, locks, req, attempt, row, removed,
                            staged, result>>
    <2>1. /\ Op(r)' = Op(r)
          /\ pc' = [pc EXCEPT ![r] = pc'[r]]
          /\ Op(r) = "enroll" => pc'[r] = "Commit"
          /\ Op(r) = "swap" => pc'[r] = "InsertOutbox"
      BY <1>1, <1>2, ScriptFacts DEF Op, Proceed, TypeOK, EnrollScript, SwapScript
    <2>2. /\ added[r] = {} /\ Joined(r) \notin enrollments
          /\ req[r].course \in Courses /\ req[r].user \in Students
      <3>1. added[r] = {} /\ req[r].course \in Courses /\ req[r].user \in Students
        BY <1>1, InputFacts DEF Effects, HasInserted, HasIncremented
      <3>2. Joined(r) \notin removed[r]
        <4>1. CASE Op(r) = "enroll"
          BY <1>1, <4>1 DEF Effects, HasDeleted, HasDecremented
        <4>2. CASE Op(r) = "swap"
          <5>1. Joined(r) # Left(r)
            BY <4>2, InputFacts DEF Joined, Left, Leaving
          <5>2. QED
            BY <5>1 DEF Effects
        <4>3. QED
          BY <1>1, <4>1, <4>2
      <3>3. QED
        BY <1>2, <3>1, <3>2 DEF VisibleEnrollments
    <2>3. TypeOK'
      <3>1. Joined(r) \in Pairs
        BY <2>2 DEF Joined, Pairs
      <3>2. added' \in [Requests -> SUBSET Pairs]
        BY <1>2, <3>1 DEF TypeOK
      <3>3. pc' \in [Requests -> Statements \cup {"Done"}]
        BY <1>1, <2>1 DEF TypeOK, Statements
      <3>4. QED
        BY <1>2, <3>2, <3>3 DEF TypeOK, tables, locks
    <2>4. OnScript(r)'
      BY <1>1, <2>1, ScriptFacts DEF OnScript
    <2>5. LocksHeld(r)'
      BY <1>1, <1>2, <2>1 DEF LocksHeld, HoldsStudent, locks
    <2>6. Effects(r)'
      <3>1. /\ HasIncremented(r) /\ HasIncremented(r)' /\ ~HasInserted(r) /\ HasInserted(r)'
            /\ HasDecremented(r)' = HasDecremented(r) /\ HasDeleted(r)' = HasDeleted(r)
            /\ ~HasRequoted(r) /\ ~HasRequoted(r)'
        BY <1>1, <2>1 DEF HasIncremented, HasInserted, HasDecremented, HasDeleted, HasRequoted
      <3>2. Left(r)' = Left(r) /\ Joined(r)' = Joined(r) /\ Leaving(r)' = Leaving(r)
        BY <1>2, <2>1 DEF Left, Joined, Leaving
      <3>3. added'[r] = {Joined(r)} /\ removed' = removed /\ row' = row
        BY <1>2, <2>2 DEF TypeOK
      <3>4. \A c \in Courses : RowEffect(r, c)' = RowEffect(r, c)
        BY <1>2, <3>1, <3>2 DEF RowEffect, tables
      <3>5. QED
        BY <1>2, <2>1, <2>2, <3>1, <3>2, <3>3, <3>4 DEF Effects, CourseFound, tables
    <2>7. QED
      BY <1>1, <1>2, <2>1, <2>3, <2>4, <2>5, <2>6, StatementKeeps DEF Private, TypeOK, locks
  <1>3. CASE Refuse(r, "already_enrolled")
    BY <1>1, <1>3, RefuseKeeps DEF Outcomes
  <1>4. QED
    BY <1>2, <1>3 DEF InsertEnrollment, Joined

\* An UPDATE of a class by r: the row lock is free or r's own, and r's copy of
\* the row becomes new.
LEMMA WriteCourseKeeps ==
    ASSUME TransactionInv, NEW r \in Requests, Running(r), NEW c \in Courses, NEW new \in Row,
           WriteCourse(r, c, new),
           Op(r) # "quota" => userLock[req[r].user] = r,
           pc'[r] \in Statements \cup {"Done"},
           OnScript(r)', Effects(r)'
    PROVE  TransactionInv'
  <1> USE DEF TransactionInv, WriteCourse
  <1>1. TypeOK'
    BY DEF TypeOK, tables, Proceed
  <1>2. LocksHeld(r)'
    <2>1. HoldsStudent(r)' => userLock'[req'[r].user] = r
      BY DEF HoldsStudent, Op
    <2>2. \A d \in Courses : row'[r][d] # None => courseLock'[d] = r
      BY DEF LocksHeld, TypeOK
    <2>3. QED
      BY <2>1, <2>2 DEF LocksHeld
  <1>3. /\ \A q \in Requests \ {r} : Private(q)' = Private(q)
        /\ \A d \in Courses : courseLock'[d] # courseLock[d] => courseLock[d] \in {None, r}
    BY DEF Private, TypeOK, Proceed, Free
  <1>4. QED
    BY <1>1, <1>2, <1>3, StatementKeeps

LEMMA IncrementEnrolledKeeps ==
    ASSUME TransactionInv, NEW r \in Requests, IncrementEnrolled(r)
    PROVE  TransactionInv'
  <1> USE DEF TransactionInv
  <1>0. PICK c : c = req[r].course
    OBVIOUS
  <1> DEFINE new == [Visible(r, c) EXCEPT !.count = @ + 1]
  <1>1. Op(r) \in {"enroll", "swap"} /\ pc[r] = "IncrementEnrolled" /\ Running(r)
    BY InputFacts, ScriptFacts DEF IncrementEnrolled, At, OnScript, Running
  <1>2. CASE Visible(r, c).count < Visible(r, c).quota /\ WriteCourse(r, c, new)
    <2>1. /\ Op(r)' = Op(r)
          /\ Op(r) = "enroll" => pc'[r] = "InsertOutbox"
          /\ Op(r) = "swap" => pc'[r] = "InsertEnrollment"
      BY <1>1, <1>2, ScriptFacts
      DEF Op, Proceed, WriteCourse, TypeOK, EnrollScript, SwapScript
    <2>2. OnScript(r)'
      BY <1>1, <2>1, ScriptFacts DEF OnScript
    <2>3. c \in Courses /\ course[c] \in Row
      BY <1>0, <1>1 DEF Effects, CourseFound, TypeOK
    <2>4. row[r][c] = None /\ Visible(r, c) = course[c]
      BY <1>0, <1>1, <2>3, InputFacts
      DEF Effects, CourseFound, RowEffect, HasIncremented, HasDecremented, HasRequoted, Visible, Leaving
    <2>5. new \in Row
      <3>1. new = [course[c] EXCEPT !.count = course[c].count + 1]
        BY <2>4
      <3>2. QED
        BY <2>3, <3>1 DEF Row
    <2>6. Effects(r)'
      <3>1. /\ HasIncremented(r)' /\ ~HasIncremented(r)
            /\ HasInserted(r)' = HasInserted(r)
            /\ HasDecremented(r)' = HasDecremented(r) /\ HasDeleted(r)' = HasDeleted(r)
            /\ ~HasRequoted(r) /\ ~HasRequoted(r)'
        BY <1>1, <2>1 DEF HasIncremented, HasInserted, HasDecremented, HasDeleted, HasRequoted
      <3>2. Left(r)' = Left(r) /\ Joined(r)' = Joined(r) /\ Leaving(r)' = Leaving(r)
        BY <1>2, <2>1 DEF Left, Joined, Leaving, WriteCourse
      <3>3. added' = added /\ removed' = removed /\ row'[r] = [row[r] EXCEPT ![c] = new]
        BY <1>2 DEF WriteCourse, TypeOK
      <3>4. \A d \in Courses : row'[r][d] = RowEffect(r, d)'
        <4>1. course' = course /\ req' = req
          BY <1>2 DEF WriteCourse, tables
        <4>2. row'[r][c] = new /\ \A d \in Courses \ {c} : row'[r][d] = row[r][d]
          BY <2>3, <3>3 DEF TypeOK
        <4>3. RowEffect(r, c)' = [course[c] EXCEPT !.count = @ + 1]
          BY <1>0, <3>1, <4>1 DEF RowEffect
        <4>4. \A d \in Courses \ {c} : RowEffect(r, d)' = RowEffect(r, d)
          BY <1>0, <3>1, <3>2, <4>1 DEF RowEffect
        <4>5. \A d \in Courses : row[r][d] = RowEffect(r, d)
          BY DEF Effects
        <4>6. QED
          BY <2>4, <4>2, <4>3, <4>4, <4>5
      <3>5. QED
        BY <1>0, <1>2, <2>1, <2>3, <2>4, <3>1, <3>2, <3>3, <3>4 DEF Effects, CourseFound, WriteCourse, tables
    <2>7. userLock[req[r].user] = r
      BY <1>1 DEF LocksHeld, HoldsStudent
    <2>8. QED
      BY <1>1, <1>2, <2>1, <2>2, <2>3, <2>5, <2>6, <2>7, WriteCourseKeeps DEF Statements
  <1>3. CASE Refuse(r, "course_full")
    BY <1>1, <1>3, RefuseKeeps DEF Outcomes
  <1>4. QED
    BY <1>0, <1>2, <1>3 DEF IncrementEnrolled

LEMMA DecrementEnrolledKeeps ==
    ASSUME TransactionInv, NEW r \in Requests, DecrementEnrolled(r)
    PROVE  TransactionInv'
  <1> USE DEF TransactionInv
  <1>0. PICK c : c = Leaving(r)
    OBVIOUS
  <1> DEFINE new == [Visible(r, c) EXCEPT !.count = @ - 1]
  <1>1. Op(r) \in {"drop", "swap"} /\ pc[r] = "DecrementEnrolled" /\ Running(r)
    BY InputFacts, ScriptFacts DEF DecrementEnrolled, At, OnScript, Running
  <1>2. WriteCourse(r, c, new)
    BY <1>0 DEF DecrementEnrolled
  <1>3. /\ Op(r)' = Op(r)
        /\ Op(r) = "drop" => pc'[r] = "InsertOutbox"
        /\ Op(r) = "swap" => pc'[r] = "IncrementEnrolled"
    BY <1>1, <1>2, ScriptFacts
    DEF Op, Proceed, WriteCourse, TypeOK, DropScript, SwapScript
  <1>4. OnScript(r)'
    BY <1>1, <1>3, ScriptFacts DEF OnScript
  <1>5. c \in Courses /\ course[c] \in Row /\ Left(r) \in enrollments
    BY <1>0, <1>1 DEF Effects, HasDeleted, TypeOK, Left, Pairs
  <1>6. row[r][c] = None /\ Visible(r, c) = course[c]
    <2>1. ~HasIncremented(r) /\ ~HasDecremented(r) /\ ~HasRequoted(r)
      BY <1>1 DEF HasIncremented, HasDecremented, HasRequoted
    <2>2. row[r][c] = RowEffect(r, c)
      BY <1>5 DEF Effects
    <2>3. RowEffect(r, c) = None
      BY <2>1 DEF RowEffect
    <2>4. QED
      BY <2>2, <2>3 DEF Visible
  <1>7. new \in Row
    <2>1. course[c].count > 0
      <3>1. req[r].user \in Class(c)
        BY <1>0, <1>1, <1>5, InputFacts DEF Class, Left
      <3>2. Cardinality(Class(c)) > 0
        BY <1>5, <3>1, ClassFinite, FS_EmptySet
      <3>3. QED
        BY <1>5, <3>2, ClassFinite DEF Counters, NeverOversold, Row
    <2>2. new = [course[c] EXCEPT !.count = course[c].count - 1]
      BY <1>6
    <2>3. QED
      BY <1>5, <2>1, <2>2 DEF Row
  <1>8. Effects(r)'
    <2>1. /\ HasDecremented(r)' /\ ~HasDecremented(r)
          /\ HasInserted(r)' = HasInserted(r) /\ HasDeleted(r)' = HasDeleted(r)
          /\ ~HasIncremented(r) /\ ~HasIncremented(r)'
          /\ ~HasRequoted(r) /\ ~HasRequoted(r)'
      BY <1>1, <1>3 DEF HasIncremented, HasInserted, HasDecremented, HasDeleted, HasRequoted
    <2>2. /\ Left(r)' = Left(r) /\ Joined(r)' = Joined(r) /\ Leaving(r)' = Leaving(r)
          /\ course' = course /\ req' = req /\ enrollments' = enrollments
      BY <1>2, <1>3 DEF Left, Joined, Leaving, WriteCourse, tables
    <2>3. added' = added /\ removed' = removed /\ row'[r] = [row[r] EXCEPT ![c] = new]
      BY <1>2 DEF WriteCourse, TypeOK
    <2>4. \A d \in Courses : row'[r][d] = RowEffect(r, d)'
      <3>1. row'[r][c] = new /\ \A d \in Courses \ {c} : row'[r][d] = row[r][d]
        BY <1>5, <2>3 DEF TypeOK
      <3>2. RowEffect(r, c)' = [course[c] EXCEPT !.count = @ - 1]
        BY <1>0, <2>1, <2>2 DEF RowEffect
      <3>3. \A d \in Courses \ {c} : RowEffect(r, d)' = RowEffect(r, d)
        BY <1>0, <2>1, <2>2 DEF RowEffect
      <3>4. \A d \in Courses : row[r][d] = RowEffect(r, d)
        BY DEF Effects
      <3>5. QED
        BY <1>6, <3>1, <3>2, <3>3, <3>4
    <2>5. CourseFound(r)'
      BY <1>1, <1>3, <2>2 DEF Effects, CourseFound
    <2>6. QED
      BY <1>1, <2>1, <2>2, <2>3, <2>4, <2>5 DEF Effects
  <1>9. userLock[req[r].user] = r
    BY <1>1 DEF LocksHeld, HoldsStudent
  <1>10. QED
    BY <1>1, <1>2, <1>3, <1>4, <1>5, <1>7, <1>8, <1>9, WriteCourseKeeps DEF Statements

LEMMA InsertOutboxKeeps ==
    ASSUME TransactionInv, NEW r \in Requests, InsertOutbox(r)
    PROVE  TransactionInv'
  <1> USE DEF TransactionInv
  <1>1. pc[r] = "InsertOutbox" /\ Running(r)
    BY DEF InsertOutbox, At, Running
  <1>2. Op(r) \in {"enroll", "drop", "swap", "quota"}
    BY InputFacts
  <1>3. /\ Op(r)' = Op(r)
        /\ pc' = [pc EXCEPT ![r] = pc'[r]]
        /\ Op(r) = "enroll" => pc'[r] = "InsertEnrollment"
        /\ Op(r) # "enroll" => pc'[r] = "Commit"
    BY <1>1, <1>2, ScriptFacts
    DEF Op, Proceed, InsertOutbox, TypeOK, EnrollScript, DropScript, SwapScript, QuotaScript
  <1>4. TypeOK'
    <2>1. [id |-> nextId, body |-> EventBody(req[r])] \in Event
      BY DEF Event, InsertOutbox, TypeOK
    <2>2. staged' \in [Requests -> SUBSET Event]
      BY <2>1 DEF InsertOutbox, TypeOK
    <2>3. pc' \in [Requests -> Statements \cup {"Done"}]
      BY <1>2, <1>3 DEF TypeOK, Statements
    <2>4. QED
      BY <2>2, <2>3 DEF InsertOutbox, TypeOK, tables, locks
  <1>5. OnScript(r)'
    BY <1>2, <1>3, ScriptFacts DEF OnScript
  <1>6. LocksHeld(r)'
    BY <1>1, <1>2, <1>3 DEF InsertOutbox, LocksHeld, HoldsStudent, locks
  <1>7. Effects(r)'
    <2>1. /\ HasIncremented(r)' = HasIncremented(r) /\ HasInserted(r)' = HasInserted(r)
          /\ HasDecremented(r)' = HasDecremented(r) /\ HasDeleted(r)' = HasDeleted(r)
          /\ HasRequoted(r)' = HasRequoted(r)
      BY <1>1, <1>2, <1>3 DEF HasIncremented, HasInserted, HasDecremented, HasDeleted, HasRequoted
    <2>2. Left(r)' = Left(r) /\ Joined(r)' = Joined(r) /\ Leaving(r)' = Leaving(r)
      BY <1>3 DEF InsertOutbox, Left, Joined, Leaving
    <2>3. \A d \in Courses : RowEffect(r, d)' = RowEffect(r, d)
      BY <2>1, <2>2 DEF InsertOutbox, RowEffect, tables
    <2>4. CourseFound(r)'
      BY <1>2, <1>3 DEF CourseFound
    <2>5. QED
      BY <2>1, <2>2, <2>3, <2>4 DEF InsertOutbox, Effects, tables
  <1>8. QED
    BY <1>1, <1>3, <1>4, <1>5, <1>6, <1>7, StatementKeeps DEF InsertOutbox, Private, TypeOK, locks

LEMMA UpdateQuotaKeeps ==
    ASSUME TransactionInv, NEW r \in Requests, UpdateQuota(r)
    PROVE  TransactionInv'
  <1> USE DEF TransactionInv
  <1>0. PICK c : c = req[r].course
    OBVIOUS
  <1> DEFINE new == [Visible(r, c) EXCEPT !.quota = req[r].quota, !.version = @ + 1]
  <1>1. Op(r) = "quota" /\ pc[r] = "UpdateQuota" /\ Running(r)
    BY InputFacts, ScriptFacts DEF UpdateQuota, At, OnScript, Running
  <1>2. CASE QuotaMatches(r) /\ WriteCourse(r, c, new)
    <2>1. Op(r)' = Op(r) /\ pc'[r] = "InsertOutbox"
      BY <1>1, <1>2, ScriptFacts DEF Op, Proceed, WriteCourse, TypeOK, QuotaScript
    <2>2. OnScript(r)'
      BY <1>1, <2>1, ScriptFacts DEF OnScript
    <2>3. c \in Courses /\ course[c] \in Row
      BY <1>0, <1>2 DEF QuotaMatches, TypeOK
    <2>4. row[r][c] = None /\ Visible(r, c) = course[c]
      <3>1. ~HasIncremented(r) /\ ~HasDecremented(r) /\ ~HasRequoted(r)
        BY <1>1 DEF HasIncremented, HasDecremented, HasRequoted
      <3>2. row[r][c] = RowEffect(r, c)
        BY <2>3 DEF Effects
      <3>3. RowEffect(r, c) = None
        BY <3>1 DEF RowEffect
      <3>4. QED
        BY <3>2, <3>3 DEF Visible
    <2>5. new \in Row
      <3>1. new = [course[c] EXCEPT !.quota = req[r].quota, !.version = course[c].version + 1]
        BY <2>4
      <3>2. req[r].quota \in Nat \ {0}
        BY <1>1, InputFacts
      <3> HIDE DEF new
      <3>3. new = [quota |-> req[r].quota, count |-> course[c].count,
                   version |-> course[c].version + 1]
        BY <2>3, <3>1 DEF Row
      <3>4. QED
        BY <2>3, <3>2, <3>3 DEF Row
    <2>6. Effects(r)'
      <3>1. /\ HasRequoted(r)' /\ ~HasRequoted(r)
            /\ ~HasDecremented(r) /\ ~HasDecremented(r)'
            /\ ~HasIncremented(r) /\ ~HasIncremented(r)'
            /\ HasInserted(r)' = HasInserted(r) /\ HasDeleted(r)' = HasDeleted(r)
        BY <1>1, <2>1 DEF HasIncremented, HasInserted, HasDecremented, HasDeleted, HasRequoted
      <3>2. /\ Left(r)' = Left(r) /\ Joined(r)' = Joined(r)
            /\ course' = course /\ req' = req /\ enrollments' = enrollments
        BY <1>2, <2>1 DEF Left, Joined, Leaving, WriteCourse, tables
      <3>3. added' = added /\ removed' = removed /\ row'[r] = [row[r] EXCEPT ![c] = new]
        BY <1>2 DEF WriteCourse, TypeOK
      <3>4. \A d \in Courses : row'[r][d] = RowEffect(r, d)'
        <4>1. row'[r][c] = new /\ \A d \in Courses \ {c} : row'[r][d] = row[r][d]
          BY <2>3, <3>3 DEF TypeOK
        <4>2. RowEffect(r, c)' = [course[c] EXCEPT !.quota = req[r].quota, !.version = @ + 1]
          BY <1>0, <3>1, <3>2 DEF RowEffect
        <4>3. \A d \in Courses \ {c} : RowEffect(r, d) = None /\ RowEffect(r, d)' = None
          BY <1>0, <3>1, <3>2 DEF RowEffect
        <4>4. \A d \in Courses : row[r][d] = RowEffect(r, d)
          BY DEF Effects
        <4>5. QED
          BY <2>4, <4>1, <4>2, <4>3, <4>4
      <3>5. CourseFound(r)'
        BY <2>1 DEF CourseFound
      <3>6. /\ req[r].course \in Courses
            /\ course[req[r].course].version = req[r].version
            /\ course[req[r].course].count <= req[r].quota
        BY <1>0, <1>2, <2>4 DEF QuotaMatches
      <3>7. QED
        BY <3>1, <3>2, <3>3, <3>4, <3>5, <3>6 DEF Effects
    <2>7. QED
      BY <1>1, <1>2, <2>1, <2>2, <2>3, <2>5, <2>6, WriteCourseKeeps DEF Statements
  <1>3. CASE /\ pc' = [pc EXCEPT ![r] = "ExplainQuota"]
             /\ UNCHANGED <<tables, nextId, locks, req, attempt, row, added,
                            removed, staged, result>>
    <2>1. TypeOK'
      BY <1>3 DEF TypeOK, tables, locks, Statements
    <2>2. Op(r)' = Op(r) /\ pc'[r] = "ExplainQuota"
      BY <1>3 DEF Op, TypeOK
    <2>3. OnScript(r)' /\ LocksHeld(r)'
      BY <1>1, <1>3, <2>2 DEF OnScript, LocksHeld, HoldsStudent, locks
    <2>4. Effects(r)'
      BY <1>1, <1>3, <2>2 DEF Effects, CourseFound, RowEffect, HasDeleted, HasInserted,
         HasIncremented, HasDecremented, HasRequoted, tables
    <2>5. QED
      BY <1>1, <1>3, <2>1, <2>3, <2>4, StatementKeeps DEF Private, TypeOK, locks
  <1>4. QED
    BY <1>0, <1>2, <1>3 DEF UpdateQuota

LEMMA ExplainQuotaKeeps ==
    ASSUME TransactionInv, NEW r \in Requests, ExplainQuota(r)
    PROVE  TransactionInv'
  <1>1. Running(r)
    BY DEF ExplainQuota, At, Running
  <1>2. QED
    BY <1>1, RefuseKeeps DEF ExplainQuota, Outcomes

-----------------------------------------------------------------------------
(* The two actions that change the tables.                                  *)

\* A class is one that r has written, and r's copy of the row is a row, exactly
\* if one of r's statements changed it.
LEMMA WrittenRows ==
    ASSUME TransactionInv, NEW r \in Requests, NEW c \in Courses
    PROVE  Touches(r, c) <=> row[r][c] # None
  <1> USE DEF TransactionInv
  <1>1. row[r][c] = RowEffect(r, c)
    BY DEF Effects
  <1>2. ASSUME ~Touches(r, c) PROVE row[r][c] = None
    BY <1>1, <1>2 DEF Touches, RowEffect
  <1>3. ASSUME Touches(r, c) PROVE row[r][c] # None
    <2>1. course[c] \in Row
      BY DEF TypeOK
    <2>2. CASE HasIncremented(r) /\ c = req[r].course
      <3>1. [course[c] EXCEPT !.count = course[c].count + 1] \in Row
        BY <2>1 DEF Row
      <3>2. QED
        BY <1>1, <2>2, <3>1, NoneIsFresh DEF RowEffect
    <2>3. CASE HasDecremented(r) /\ c = Leaving(r) /\ ~(HasIncremented(r) /\ c = req[r].course)
      <3>1. Op(r) # "quota" /\ Left(r) \in enrollments
        BY <2>3 DEF HasDecremented, HasDeleted, Effects
      <3>2. req[r].user \in Class(c)
        BY <2>3, <3>1, InputFacts DEF Class, Left
      <3>3. Cardinality(Class(c)) > 0
        BY <3>2, ClassFinite, FS_EmptySet
      <3>4. course[c].count > 0
        BY <2>1, <3>3, ClassFinite DEF Counters, NeverOversold, Row
      <3>5. [course[c] EXCEPT !.count = course[c].count - 1] \in Row
        BY <2>1, <3>4 DEF Row
      <3>6. QED
        BY <1>1, <2>3, <3>5, NoneIsFresh DEF RowEffect
    <2>4. CASE HasRequoted(r) /\ c = req[r].course
      <3>1. Op(r) = "quota" /\ ~HasIncremented(r) /\ ~HasDecremented(r)
        BY <2>4 DEF HasRequoted, HasIncremented, HasDecremented
      <3>2. req[r].quota \in Nat \ {0}
        BY <3>1, InputFacts
      <3>3. row[r][c] = [course[c] EXCEPT !.quota = req[r].quota, !.version = course[c].version + 1]
        BY <1>1, <2>4, <3>1 DEF RowEffect
      <3>4. row[r][c] = [quota |-> req[r].quota, count |-> course[c].count,
                         version |-> course[c].version + 1]
        BY <2>1, <3>3 DEF Row
      <3>5. row[r][c] \in Row
        BY <2>1, <3>2, <3>4 DEF Row
      <3>6. QED
        BY <3>5, NoneIsFresh
    <2>5. QED
      BY <1>3, <2>2, <2>3, <2>4 DEF Touches
  <1>4. QED
    BY <1>2, <1>3

\* The enrollments r has inserted and deleted.
LEMMA WrittenPairs ==
    ASSUME TransactionInv, NEW r \in Requests, NEW c, NEW s
    PROVE  /\ <<c, s>> \in added[r] => HasInserted(r) /\ c = req[r].course /\ s = req[r].user
           /\ <<c, s>> \in removed[r] => HasDeleted(r) /\ c = Leaving(r) /\ s = req[r].user
  <1>1. /\ removed[r] = IF HasDeleted(r) THEN {Left(r)} ELSE {}
        /\ added[r] = IF HasInserted(r) THEN {Joined(r)} ELSE {}
    BY DEF TransactionInv, Effects
  <1>2. <<c, s>> \in added[r] => HasInserted(r) /\ c = req[r].course /\ s = req[r].user
    BY <1>1 DEF Joined
  <1>3. <<c, s>> \in removed[r] => HasDeleted(r) /\ c = Leaving(r) /\ s = req[r].user
    BY <1>1 DEF Left
  <1>4. QED
    BY <1>2, <1>3

\* A class that grows or shrinks by one student, for the counters.
LEMMA ClassChange ==
    ASSUME TypeOK, NEW c \in Courses, NEW s \in Students
    PROVE  /\ s \notin Class(c) => Cardinality(Class(c) \cup {s}) = Cardinality(Class(c)) + 1
           /\ s \in Class(c) => Cardinality(Class(c) \ {s}) = Cardinality(Class(c)) - 1
  <1>1. s \notin Class(c) => Cardinality(Class(c) \cup {s}) = Cardinality(Class(c)) + 1
    BY ClassFinite, FS_AddElement
  <1>2. s \in Class(c) => Cardinality(Class(c) \ {s}) = Cardinality(Class(c)) - 1
    BY ClassFinite, FS_RemoveElement
  <1>3. QED
    BY <1>1, <1>2

\* What a committed transaction makes of a class: the row and the enrollments
\* change together, by the same student.
LEMMA CommitEffect ==
    ASSUME TransactionInv, NEW r \in Requests, Commit(r), NEW c \in Courses
    PROVE  \/ /\ HasIncremented(r) /\ c = req[r].course
              /\ req[r].user \in Students \ Class(c)
              /\ Class(c)' = Class(c) \cup {req[r].user}
              /\ course'[c] = [course[c] EXCEPT !.count = course[c].count + 1]
              /\ course[c].count < course[c].quota
           \/ /\ HasDecremented(r) /\ c = Leaving(r)
              /\ req[r].user \in Class(c)
              /\ Class(c)' = Class(c) \ {req[r].user}
              /\ course'[c] = [course[c] EXCEPT !.count = course[c].count - 1]
           \/ /\ HasRequoted(r) /\ c = req[r].course
              /\ Class(c)' = Class(c)
              /\ course'[c] = [course[c] EXCEPT !.quota = req[r].quota,
                                               !.version = course[c].version + 1]
              /\ course[c].count <= req[r].quota
           \/ /\ ~Touches(r, c)
              /\ Class(c)' = Class(c)
              /\ course'[c] = course[c]
  <1> USE DEF TransactionInv
  <1>1. pc[r] = "Commit" /\ Op(r) \in {"enroll", "drop", "swap", "quota"}
    BY InputFacts DEF Commit, At
  <1>2. /\ HasIncremented(r) <=> HasInserted(r)
        /\ HasDecremented(r) <=> HasDeleted(r)
    BY <1>1 DEF HasIncremented, HasInserted, HasDecremented, HasDeleted
  <1>3. /\ Op(r) = "quota" => ~HasInserted(r) /\ ~HasDeleted(r)
        /\ Op(r) # "quota" => ~HasRequoted(r) /\ req[r].user \in Students
        /\ HasIncremented(r) /\ HasDecremented(r) => req[r].course # Leaving(r)
    BY <1>1, InputFacts
    DEF HasIncremented, HasInserted, HasDecremented, HasDeleted, HasRequoted, Leaving
  <1>4. course'[c] = IF row[r][c] = None THEN course[c] ELSE row[r][c]
    BY DEF Commit, Visible
  <1>5. /\ Touches(r, c) => course'[c] = RowEffect(r, c)
        /\ ~Touches(r, c) => course'[c] = course[c]
    BY <1>4, WrittenRows DEF Effects
  <1>6. enrollments' = (enrollments \ removed[r]) \cup added[r]
    BY DEF Commit, VisibleEnrollments
  <1>7. CASE HasIncremented(r) /\ c = req[r].course
    <2>1. Joined(r) \notin enrollments /\ added[r] = {Joined(r)}
      BY <1>2, <1>7 DEF Effects
    <2>2. \A s \in Students : <<c, s>> \notin removed[r]
      BY <1>2, <1>3, <1>7, WrittenPairs
    <2>3. req[r].user \in Students \ Class(c)
      BY <1>2, <1>3, <1>7, <2>1 DEF Class, Joined
    <2>4. Class(c)' = Class(c) \cup {req[r].user}
      <3>1. \A s \in Students : <<c, s>> \in enrollments'
                                <=> <<c, s>> \in enrollments \/ s = req[r].user
        BY <1>6, <1>7, <2>1, <2>2 DEF Joined
      <3>2. QED
        BY <2>3, <3>1 DEF Class
    <2>5. course'[c] = [course[c] EXCEPT !.count = course[c].count + 1]
      <3>1. RowEffect(r, c) = [course[c] EXCEPT !.count = @ + 1]
        BY <1>7 DEF RowEffect
      <3>2. QED
        BY <1>5, <1>7, <3>1 DEF Touches
    <2>6. course[c].count < course[c].quota
      BY <1>7 DEF Effects
    <2>7. QED
      BY <1>7, <2>3, <2>4, <2>5, <2>6
  <1>8. CASE HasDecremented(r) /\ c = Leaving(r)
    <2>1. Left(r) \in enrollments /\ removed[r] = {Left(r)}
      BY <1>2, <1>8 DEF Effects
    <2>2. \A s \in Students : <<c, s>> \notin added[r]
      BY <1>2, <1>3, <1>8, WrittenPairs
    <2>3. req[r].user \in Class(c)
      BY <1>2, <1>3, <1>8, <2>1 DEF Class, Left
    <2>4. Class(c)' = Class(c) \ {req[r].user}
      <3>1. \A s \in Students : <<c, s>> \in enrollments'
                                <=> <<c, s>> \in enrollments /\ s # req[r].user
        BY <1>6, <1>8, <2>1, <2>2 DEF Left
      <3>2. QED
        BY <3>1 DEF Class
    <2>5. course'[c] = [course[c] EXCEPT !.count = course[c].count - 1]
      <3>1. RowEffect(r, c) = [course[c] EXCEPT !.count = @ - 1]
        BY <1>3, <1>8 DEF RowEffect
      <3>2. QED
        BY <1>5, <1>8, <3>1 DEF Touches
    <2>6. QED
      BY <1>8, <2>3, <2>4, <2>5
  <1>9. CASE ~(HasIncremented(r) /\ c = req[r].course) /\ ~(HasDecremented(r) /\ c = Leaving(r))
    <2>1. \A s \in Students : <<c, s>> \notin added[r] /\ <<c, s>> \notin removed[r]
      BY <1>2, <1>9, WrittenPairs
    <2>2. Class(c)' = Class(c)
      BY <1>6, <2>1 DEF Class
    <2>3. CASE HasRequoted(r) /\ c = req[r].course
      <3>1. course'[c] = [course[c] EXCEPT !.quota = req[r].quota,
                                           !.version = course[c].version + 1]
        <4>1. RowEffect(r, c) = [course[c] EXCEPT !.quota = req[r].quota, !.version = @ + 1]
          BY <1>9, <2>3 DEF RowEffect
        <4>2. QED
          BY <1>5, <2>3, <4>1 DEF Touches
      <3>2. course[c].count <= req[r].quota
        BY <2>3 DEF Effects
      <3>3. QED
        BY <2>2, <2>3, <3>1, <3>2
    <2>4. CASE ~(HasRequoted(r) /\ c = req[r].course)
      BY <1>5, <1>9, <2>2, <2>4 DEF Touches
    <2>5. QED
      BY <2>3, <2>4
  <1>10. QED
    BY <1>7, <1>8, <1>9

\* Another request is not disturbed by a commit: the committed classes and the
\* student's enrollments it relies on are locked by that request.
LEMMA CommitKeepsOthers ==
    ASSUME TransactionInv, NEW r \in Requests, Commit(r), NEW q \in Requests, q # r
    PROVE  OnScript(q)' /\ LocksHeld(q)' /\ Effects(q)'
  <1> USE DEF TransactionInv
  <1>1. Private(q)' = Private(q)
    BY DEF Commit, Answer, Release, Private, TypeOK
  <1>2. /\ \A s \in Students : userLock[s] = q => userLock'[s] = q
        /\ \A c \in Courses : courseLock[c] = q => courseLock'[c] = q
    BY DEF Commit, Release
  <1>3. ASSUME NEW c \in Courses, Touches(q, c)
        PROVE  course'[c] = course[c]
    <2>1. row[q][c] # None
      BY <1>3, WrittenRows
    <2>2. row[r][c] = None
      BY <2>1 DEF LocksHeld
    <2>3. QED
      BY <2>2 DEF Commit, Visible
  <1>4. ASSUME HoldsStudent(q), NEW c \in CourseIds
        PROVE  <<c, req[q].user>> \in enrollments' <=> <<c, req[q].user>> \in enrollments
    <2>1. userLock[req[q].user] = q
      BY <1>4 DEF LocksHeld
    <2>2. pc[r] = "Commit"
      BY DEF Commit, At
    <2>3. HasDeleted(r) \/ HasInserted(r) => req[r].user # req[q].user
      BY <2>1, <2>2
      DEF LocksHeld, HoldsStudent, HasDeleted, HasDecremented, HasInserted
    <2>4. <<c, req[q].user>> \notin added[r] /\ <<c, req[q].user>> \notin removed[r]
      BY <2>3, WrittenPairs
    <2>5. QED
      BY <2>4 DEF Commit, VisibleEnrollments
  <1>5. QED
    BY <1>1, <1>2, <1>3, <1>4, OthersKeep

LEMMA CommitKeeps ==
    ASSUME TransactionInv, NEW r \in Requests, Commit(r)
    PROVE  TransactionInv'
  <1> USE DEF TransactionInv
  <1>1. pc[r] = "Commit" /\ Op(r) \in {"enroll", "drop", "swap", "quota"}
    BY InputFacts DEF Commit, At
  <1>2. req' = req /\ pc' = [pc EXCEPT ![r] = "Done"] /\ result'[r] \in {"ok", "error"}
        /\ \A q \in Requests \ {r} : result'[q] = result[q]
    BY DEF Commit, Answer, TypeOK
  <1>3. TypeOK'
    <2>1. course' \in [Courses -> Row]
      BY DEF Commit, Visible, TypeOK
    <2>2. enrollments' \subseteq Pairs /\ outbox' \subseteq Event
      BY DEF Commit, VisibleEnrollments, TypeOK
    <2>3. /\ userLock' \in [Students -> Requests \cup {None}]
          /\ courseLock' \in [Courses -> Requests \cup {None}]
          /\ row' \in [Requests -> [Courses -> Row \cup {None}]]
          /\ added' \in [Requests -> SUBSET Pairs] /\ removed' \in [Requests -> SUBSET Pairs]
          /\ staged' \in [Requests -> SUBSET Event]
      BY DEF Commit, Release, NoWrites, TypeOK
    <2>4. result' \in [Requests -> Outcomes] /\ pc' \in [Requests -> Statements \cup {"Done"}]
      BY DEF Commit, Answer, Outcomes, TypeOK
    <2>5. QED
      BY <2>1, <2>2, <2>3, <2>4 DEF Commit, TypeOK
  <1>4. OnScript(r)' /\ LocksHeld(r)' /\ Effects(r)'
    <2>1. Op(r)' = Op(r) /\ pc'[r] = "Done"
      BY <1>2 DEF Op, TypeOK
    <2>2. row'[r] = NoWrites /\ added'[r] = {} /\ removed'[r] = {}
      BY DEF Commit, Release, TypeOK
    <2>3. Effects(r)'
      <3>1. /\ ~HasIncremented(r)' /\ ~HasInserted(r)' /\ ~HasDecremented(r)'
            /\ ~HasDeleted(r)' /\ ~HasRequoted(r)' /\ CourseFound(r)'
        BY <2>1 DEF HasDeleted, HasInserted, HasIncremented, HasDecremented, HasRequoted,
           CourseFound
      <3>2. \A c \in Courses : row'[r][c] = RowEffect(r, c)'
        BY <2>2, <3>1 DEF RowEffect, NoWrites
      <3>3. QED
        BY <2>2, <3>1, <3>2 DEF Effects
    <2>4. QED
      BY <2>1, <2>2, <2>3 DEF OnScript, LocksHeld, HoldsStudent, NoWrites
  <1>5. Counters'
    <2> SUFFICES ASSUME NEW c \in Courses
                 PROVE  /\ Cardinality(Class(c)') <= course'[c].count
                        /\ course'[c].count <= course'[c].quota
                        /\ Deletable = {} => course'[c].count = Cardinality(Class(c)')
      BY DEF Counters, NeverOversold, CountMatchesRows
    <2>1. /\ course[c] \in Row /\ Cardinality(Class(c)) \in Nat
          /\ Cardinality(Class(c)) <= course[c].count /\ course[c].count <= course[c].quota
          /\ Deletable = {} => course[c].count = Cardinality(Class(c))
      BY ClassFinite DEF TypeOK, Counters, NeverOversold, CountMatchesRows
    <2>2. CASE /\ req[r].user \in Students \ Class(c)
               /\ Class(c)' = Class(c) \cup {req[r].user}
               /\ course'[c] = [course[c] EXCEPT !.count = course[c].count + 1]
               /\ course[c].count < course[c].quota
      <3>1. Cardinality(Class(c)') = Cardinality(Class(c)) + 1
        BY <2>2, ClassChange
      <3>2. course'[c].count = course[c].count + 1 /\ course'[c].quota = course[c].quota
        BY <2>1, <2>2 DEF Row
      <3>3. QED
        BY <2>1, <2>2, <3>1, <3>2 DEF Row
    <2>3. CASE /\ req[r].user \in Class(c)
               /\ Class(c)' = Class(c) \ {req[r].user}
               /\ course'[c] = [course[c] EXCEPT !.count = course[c].count - 1]
      <3>1. Cardinality(Class(c)') = Cardinality(Class(c)) - 1
        BY <2>3, ClassChange DEF Class
      <3>2. course'[c].count = course[c].count - 1 /\ course'[c].quota = course[c].quota
        BY <2>1, <2>3 DEF Row
      <3>3. QED
        BY <2>1, <3>1, <3>2 DEF Row
    <2>4. CASE /\ Class(c)' = Class(c)
               /\ course'[c] = [course[c] EXCEPT !.quota = req[r].quota,
                                                !.version = course[c].version + 1]
               /\ course[c].count <= req[r].quota
      <3>1. course'[c].count = course[c].count /\ course'[c].quota = req[r].quota
        BY <2>1, <2>4 DEF Row
      <3>2. QED
        BY <2>1, <2>4, <3>1
    <2>5. CASE Class(c)' = Class(c) /\ course'[c] = course[c]
      BY <2>1, <2>5
    <2>6. QED
      BY <2>2, <2>3, <2>4, <2>5, CommitEffect
  <1>6. \A c \in Courses : course'[c].version >= course[c].version
    <2> SUFFICES ASSUME NEW c \in Courses PROVE course'[c].version >= course[c].version
      OBVIOUS
    <2>1. course[c] \in Row
      BY DEF TypeOK
    <2>2. \/ course'[c].version = course[c].version
          \/ course'[c].version = course[c].version + 1
      BY <2>1, CommitEffect DEF Row
    <2>3. QED
      BY <2>1, <2>2 DEF Row
  <1>7. Op(r) = "quota" => /\ HasRequoted(r)
                           /\ req[r].course \in Courses
                           /\ course[req[r].course].version = req[r].version
                           /\ course'[req[r].course].version = req[r].version + 1
    <2>1. Op(r) = "quota" => /\ HasRequoted(r)
                             /\ req[r].course \in Courses
                             /\ course[req[r].course].version = req[r].version
      BY <1>1 DEF HasRequoted, Effects
    <2>2. ASSUME Op(r) = "quota"
          PROVE  course'[req[r].course].version = req[r].version + 1
      <3>1. ~HasIncremented(r) /\ ~HasDecremented(r) /\ Touches(r, req[r].course)
        BY <2>1, <2>2 DEF HasIncremented, HasDecremented, Touches
      <3>2. course'[req[r].course] = [course[req[r].course] EXCEPT
                !.quota = req[r].quota, !.version = course[req[r].course].version + 1]
        BY <2>1, <2>2, <3>1, CommitEffect
      <3>3. course[req[r].course] \in Row
        BY <2>1, <2>2 DEF TypeOK
      <3>4. QED
        BY <2>1, <2>2, <3>2, <3>3 DEF Row
    <2>3. QED
      BY <2>1, <2>2
  <1>8. VersionsMoveOn'
    <2> SUFFICES ASSUME NEW q \in Requests, Op(q)' = "quota", result'[q] = "ok"
                 PROVE  /\ pc'[q] = "Done"
                        /\ req'[q].course \in Courses
                        /\ course'[req'[q].course].version > req'[q].version
      BY DEF VersionsMoveOn
    <2>1. Op(q) = "quota" /\ req[q].version \in Nat
      BY <1>2, InputFacts DEF Op
    <2>2. CASE q = r
      BY <1>2, <1>7, <2>1, <2>2 DEF TypeOK
    <2>3. CASE q # r
      <3>1. /\ pc[q] = "Done" /\ req[q].course \in Courses
            /\ course[req[q].course].version > req[q].version
        BY <1>2, <2>1, <2>3 DEF VersionsMoveOn
      <3>2. course[req[q].course].version \in Nat /\ course'[req[q].course].version \in Nat
        BY <1>3, <3>1 DEF TypeOK, Row
      <3>3. QED
        BY <1>2, <1>6, <2>1, <2>3, <3>1, <3>2 DEF TypeOK
    <2>4. QED
      BY <2>2, <2>3
  <1>9. NoLostQuotaUpdate'
    <2>1. \A q \in Requests \ {r} :
            /\ Op(r) = "quota" /\ Op(q) = "quota" /\ result'[q] = "ok"
            /\ req[r].course = req[q].course
            => req[r].version # req[q].version
      <3> SUFFICES ASSUME NEW q \in Requests \ {r}, Op(r) = "quota", Op(q) = "quota",
                          result'[q] = "ok", req[r].course = req[q].course
                   PROVE  req[r].version # req[q].version
        OBVIOUS
      <3>1. course[req[q].course].version > req[q].version
        BY <1>2 DEF VersionsMoveOn
      <3>2. course[req[q].course].version = req[r].version /\ req[q].version \in Nat
        BY <1>7, InputFacts
      <3>3. QED
        BY <3>1, <3>2
    <2>2. QED
      BY <1>2, <2>1 DEF NoLostQuotaUpdate, Op
  <1>10. QED
    BY <1>3, <1>4, <1>5, <1>8, <1>9, CommitKeepsOthers

LEMMA DeleteUserKeeps ==
    ASSUME TransactionInv, NEW s \in Students, DeleteUser(s)
    PROVE  TransactionInv'
  <1> USE DEF TransactionInv
  <1>1. TypeOK'
    BY DEF DeleteUser, TypeOK, locks
  <1>2. \A q \in Requests : OnScript(q)' /\ LocksHeld(q)' /\ Effects(q)'
    <2> SUFFICES ASSUME NEW q \in Requests
                 PROVE  OnScript(q)' /\ LocksHeld(q)' /\ Effects(q)'
      OBVIOUS
    <2>1. Private(q)' = Private(q) /\ course' = course /\ userLock' = userLock
          /\ courseLock' = courseLock
      BY DEF DeleteUser, Private, locks
    <2>2. ASSUME HoldsStudent(q), NEW c \in CourseIds
          PROVE  <<c, req[q].user>> \in enrollments' <=> <<c, req[q].user>> \in enrollments
      <3>1. req[q].user # s
        BY <2>2, NoneIsFresh DEF LocksHeld, DeleteUser
      <3>2. QED
        BY <3>1 DEF DeleteUser
    <2>3. QED
      BY <2>1, <2>2, OthersKeep
  <1>3. Counters'
    <2>1. Deletable # {} /\ course' = course
      BY DEF DeleteUser
    <2>2. ASSUME NEW c \in Courses
          PROVE  Cardinality(Class(c)') <= course'[c].count /\ course'[c].count <= course'[c].quota
      <3>1. Class(c)' \subseteq Class(c)
        BY DEF Class, DeleteUser
      <3>2. Cardinality(Class(c)') <= Cardinality(Class(c)) /\ Cardinality(Class(c)') \in Nat
        BY <3>1, ClassFinite, FS_Subset, FS_CardinalityType
      <3>3. course[c].count \in Nat /\ Cardinality(Class(c)) \in Nat
        BY ClassFinite DEF TypeOK, Row
      <3>4. QED
        BY <2>1, <3>2, <3>3 DEF Counters, NeverOversold
    <2>3. QED
      BY <2>1, <2>2 DEF Counters, NeverOversold
  <1>4. VersionsMoveOn' /\ NoLostQuotaUpdate'
    BY DEF DeleteUser, VersionsMoveOn, NoLostQuotaUpdate, Op
  <1>5. QED
    BY <1>1, <1>2, <1>3, <1>4

-----------------------------------------------------------------------------
(* The theorems.                                                            *)

\* TransactionInv is inductive: every statement of every transaction, every failure and
\* every deletion of a user preserves it.
THEOREM Inductive == TransactionInv /\ [Next]_vars => TransactionInv'
  <1> SUFFICES ASSUME TransactionInv, [Next]_vars PROVE TransactionInv'
    OBVIOUS
  <1>1. ASSUME NEW r \in Requests, Statement(r) PROVE TransactionInv'
    BY <1>1, LockStudentKeeps, LockCoursesKeeps, SumCreditsKeeps, IncrementEnrolledKeeps,
       DecrementEnrolledKeeps, DeleteEnrollmentKeeps, InsertEnrollmentKeeps,
       InsertOutboxKeeps, UpdateQuotaKeeps, ExplainQuotaKeeps, CommitKeeps
    DEF Statement
  <1>2. ASSUME NEW r \in Requests, Interrupt(r) PROVE TransactionInv'
    BY <1>2, RefuseKeeps DEF Interrupt, Outcomes
  <1>3. ASSUME NEW r \in Requests, DeadlockVictim(r) PROVE TransactionInv'
    BY <1>3, DeadlockVictimKeeps
  <1>4. ASSUME NEW s \in Students, DeleteUser(s) PROVE TransactionInv'
    BY <1>4, DeleteUserKeeps
  <1>5. ASSUME UNCHANGED vars PROVE TransactionInv'
    <2> USE DEF TransactionInv, vars
    <2>1. TypeOK'
      BY <1>5 DEF TypeOK
    <2>2. \A q \in Requests : OnScript(q)' /\ LocksHeld(q)' /\ Effects(q)'
      BY <1>5, OthersKeep DEF Private
    <2>3. Counters'
      BY <1>5 DEF Counters, NeverOversold, CountMatchesRows, Class
    <2>4. VersionsMoveOn' /\ NoLostQuotaUpdate'
      BY <1>5 DEF VersionsMoveOn, NoLostQuotaUpdate, Op
    <2>5. QED
      BY <2>1, <2>2, <2>3, <2>4
  <1>6. QED
    BY <1>1, <1>2, <1>3, <1>4, <1>5 DEF Next, AllAnswered

\* The inductive invariant holds in every reachable state of the registration
\* code, for every number of requests, students, classes and retries.
THEOREM InvariantHolds == Spec => []TransactionInv
  BY InitInv, Inductive, PTL DEF Spec

\* Type correctness: the tables, the locks and the private state of the
\* transactions stay well typed; in particular no counter becomes negative.
THEOREM TypeCorrect == Spec => []TypeOK
  <1>1. TransactionInv => TypeOK
    BY DEF TransactionInv
  <1>2. QED
    BY <1>1, InvariantHolds, PTL

\* No interleaving of Enroll, Drop, Swap, UpdateQuota, rollbacks, retries and
\* deletions of users gives a class more students than its quota.
THEOREM Capacity == Spec => []NeverOversold
  <1>1. TransactionInv => NeverOversold
    BY DEF TransactionInv, Counters
  <1>2. QED
    BY <1>1, InvariantHolds, PTL

\* While no user is deleted, courses.enrolled_count equals the number of
\* enrollments of the class, whatever the handlers of CourseService interleave.
THEOREM CountersExact == ASSUME Deletable = {} PROVE Spec => []CountMatchesRows
  <1>1. TransactionInv => CountMatchesRows
    BY DEF TransactionInv, Counters
  <1>2. QED
    BY <1>1, InvariantHolds, PTL

\* The CHECK constraint on enrolled_count never fires: no UPDATE of the code
\* writes a count below zero or above the quota, committed or not.
THEOREM ConstraintSilent == Spec => []ConstraintNeverFires
  <1>1. ASSUME TransactionInv PROVE ConstraintNeverFires
    <2> SUFFICES ASSUME NEW r \in Requests, NEW c \in Courses, row[r][c] # None
                 PROVE  row[r][c].count \in 0..row[r][c].quota
      BY DEF ConstraintNeverFires
    <2>1. course[c] \in Row /\ row[r][c] \in Row /\ course[c].count <= course[c].quota
      BY <1>1 DEF TransactionInv, TypeOK, Counters, NeverOversold
    <2>2. row[r][c] = RowEffect(r, c)
      BY <1>1 DEF TransactionInv, Effects
    <2>3. CASE HasIncremented(r) /\ c = req[r].course
      <3>1. row[r][c] = [course[c] EXCEPT !.count = course[c].count + 1]
        BY <2>2, <2>3 DEF RowEffect
      <3>2. course[c].count < course[c].quota
        BY <1>1, <2>3 DEF TransactionInv, Effects
      <3>3. QED
        BY <2>1, <3>1, <3>2 DEF Row
    <2>4. CASE HasDecremented(r) /\ c = Leaving(r) /\ ~(HasIncremented(r) /\ c = req[r].course)
      <3>1. row[r][c] = [course[c] EXCEPT !.count = course[c].count - 1]
        BY <2>2, <2>4 DEF RowEffect
      <3>2. QED
        BY <2>1, <3>1 DEF Row
    <2>5. CASE /\ HasRequoted(r) /\ c = req[r].course
               /\ ~(HasIncremented(r) /\ c = req[r].course)
               /\ ~(HasDecremented(r) /\ c = Leaving(r))
      <3>1. row[r][c] = [course[c] EXCEPT !.quota = req[r].quota,
                                          !.version = course[c].version + 1]
        BY <2>2, <2>5 DEF RowEffect
      <3>2. course[c].count <= req[r].quota
        BY <1>1, <2>5 DEF TransactionInv, Effects
      <3>3. row[r][c].count = course[c].count /\ row[r][c].quota = req[r].quota
        BY <2>1, <3>1 DEF Row
      <3>4. QED
        BY <2>1, <3>2, <3>3 DEF Row
    <2>6. QED
      BY <2>2, <2>3, <2>4, <2>5 DEF RowEffect
  <1>2. QED
    BY <1>1, InvariantHolds, PTL

\* Two administrators that start from the same version of a class never both
\* have their quota accepted (optimistic locking in UpdateQuota).
THEOREM QuotaUpdatesKept == Spec => []NoLostQuotaUpdate
  <1>1. TransactionInv => NoLostQuotaUpdate
    BY DEF TransactionInv
  <1>2. QED
    BY <1>1, InvariantHolds, PTL
=============================================================================
