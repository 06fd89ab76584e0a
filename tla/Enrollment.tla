----------------------------- MODULE Enrollment -----------------------------
(***************************************************************************)
(* Course registration (KRS) of api-students: the handlers Enroll, Drop,   *)
(* Swap and UpdateQuota of CourseService, and the deletion of a user, as   *)
(* concurrent PostgreSQL transactions at isolation level READ COMMITTED.   *)
(*                                                                         *)
(* Every request runs one transaction.  Each SQL statement of it is one    *)
(* action; what it writes stays private to the request until Commit.       *)
(* UPDATE and SELECT ... FOR UPDATE take the row lock, and an UPDATE whose *)
(* WHERE clause rejects the committed row returns at once, without waiting *)
(* for the lock.  Locks last until the transaction ends.                   *)
(***************************************************************************)
EXTENDS Integers, FiniteSets, FiniteSetsExt

CONSTANTS
    Requests,     \* the HTTP requests of a behaviour, each served once
    Students,     \* users that may register
    Deletable,    \* users an administrator may delete meanwhile
    Courses,      \* ids of the rows of table courses
    CourseIds,    \* ids a client may name, existing or not
    Credits,      \* column courses.credits
    SeedQuota,    \* column courses.quota as seeded by the migration
    Quotas,       \* quotas an administrator may ask for
    MaxCredits,   \* MaxCreditsPerSemester
    Inputs,       \* what the requests of a behaviour may ask
    MaxAttempts,  \* runs of a transaction before WithTx gives up
    EventIds,     \* bound on outbox.id
    None          \* no holder, no private row

Input ==
    [op : {"enroll", "drop"}, user : Students, course : CourseIds]
    \cup {i \in [op : {"swap"}, user : Students, from : CourseIds, course : CourseIds] :
            i.from # i.course}
    \cup [op : {"quota"}, course : CourseIds, quota : Quotas, version : Nat \ {0}]

Row == [quota : Nat \ {0}, count : Nat, version : Nat \ {0}]

ASSUME StudentsFinite == IsFiniteSet(Students) /\ Deletable \subseteq Students
ASSUME CoursesOrdered ==
    IsFiniteSet(Courses) /\ Courses \subseteq CourseIds /\ CourseIds \subseteq Nat
ASSUME CreditsPositive == Credits \in [Courses -> Nat \ {0}] /\ MaxCredits \in Nat
ASSUME QuotasPositive == SeedQuota \in [Courses -> Nat \ {0}] /\ Quotas \subseteq Nat \ {0}
ASSUME InputsValid == Inputs \subseteq Input
ASSUME BoundsNat == MaxAttempts \in Nat \ {0} /\ EventIds \subseteq Nat
ASSUME NoneIsFresh == None \notin Requests /\ None \notin Row

VARIABLES
    users,        \* committed tables: users
    course,       \* courses: quota, enrolled_count and version of every row
    enrollments,  \* enrollments: set of pairs <<course_id, user_id>>
    outbox,       \* outbox: set of [id, body]
    nextId,       \* sequence behind outbox.id, never rolled back
    userLock,     \* request that holds the row lock of a user, or None
    courseLock,   \* request that holds the row lock of a course, or None
    req,          \* the request's path, body and token
    pc,           \* next statement of the request's transaction
    attempt,      \* runs of the transaction so far
    row,          \* course rows the transaction has written, or None
    added,        \* enrollments it has inserted
    removed,      \* enrollments it has deleted
    staged,       \* outbox rows it has inserted
    result        \* answer to the client

tables == <<users, course, enrollments, outbox>>
locks == <<userLock, courseLock>>
vars == <<users, course, enrollments, outbox, nextId, userLock, courseLock,
          req, pc, attempt, row, added, removed, staged, result>>

-----------------------------------------------------------------------------
(* The statements of each handler's transaction, in order.                  *)

EnrollScript == [LockStudent |-> "SumCredits", SumCredits |-> "IncrementEnrolled",
    IncrementEnrolled |-> "InsertOutbox", InsertOutbox |-> "InsertEnrollment",
    InsertEnrollment |-> "Commit"]

DropScript == [LockStudent |-> "DeleteEnrollment", DeleteEnrollment |-> "DecrementEnrolled",
    DecrementEnrolled |-> "InsertOutbox", InsertOutbox |-> "Commit"]

\* Mutant: the class that is left keeps its seat.
SwapScriptNoDecrement == [LockStudent |-> "LockCourses", LockCourses |-> "SumCredits",
    SumCredits |-> "DeleteEnrollment", DeleteEnrollment |-> "IncrementEnrolled",
    IncrementEnrolled |-> "InsertEnrollment", InsertEnrollment |-> "InsertOutbox",
    InsertOutbox |-> "Commit"]

SwapScript == [LockStudent |-> "LockCourses", LockCourses |-> "SumCredits",
    SumCredits |-> "DeleteEnrollment", DeleteEnrollment |-> "DecrementEnrolled",
    DecrementEnrolled |-> "IncrementEnrolled", IncrementEnrolled |-> "InsertEnrollment",
    InsertEnrollment |-> "InsertOutbox", InsertOutbox |-> "Commit"]

QuotaScript == [UpdateQuota |-> "InsertOutbox", InsertOutbox |-> "Commit"]

Script(op) == CASE op = "enroll" -> EnrollScript [] op = "drop" -> DropScript
                [] op = "swap" -> SwapScript [] op = "quota" -> QuotaScript

\* Mutant: Enroll reads the credits without locking the student first.
FirstStatementUnlocked(op) ==
    CASE op = "quota" -> "UpdateQuota" [] op = "enroll" -> "SumCredits"
      [] OTHER -> "LockStudent"

FirstStatement(op) == IF op = "quota" THEN "UpdateQuota" ELSE "LockStudent"

At(r, statement) == pc[r] = statement
Op(r) == req[r].op
Proceed(r) == pc' = [pc EXCEPT ![r] = Script(Op(r))[pc[r]]]

\* The class a swap leaves and the class a drop leaves are both "from".
Leaving(r) == IF Op(r) = "swap" THEN req[r].from ELSE req[r].course

-----------------------------------------------------------------------------
(* What a statement of request r sees: committed rows and its own writes.   *)

Visible(r, c) == IF row[r][c] = None THEN course[c] ELSE row[r][c]
VisibleEnrollments(r) == (enrollments \ removed[r]) \cup added[r]
CoursesOf(s, pairs) == {c \in Courses : <<c, s>> \in pairs}
CreditSum(s, pairs) == MapThenSumSet(LAMBDA c : Credits[c], CoursesOf(s, pairs))
Class(c) == {s \in Students : <<c, s>> \in enrollments}

Free(lock, r) == lock \in {None, r}

NoWrites == [c \in Courses |-> None]

\* Mutant: the deferred rollback is missing, the row locks are never released.
ReleaseNothing(r) ==
    /\ UNCHANGED locks
    /\ row' = [row EXCEPT ![r] = NoWrites]
    /\ added' = [added EXCEPT ![r] = {}]
    /\ removed' = [removed EXCEPT ![r] = {}]
    /\ staged' = [staged EXCEPT ![r] = {}]

Release(r) ==
    /\ userLock' = [s \in Students |-> IF userLock[s] = r THEN None ELSE userLock[s]]
    /\ courseLock' = [c \in Courses |-> IF courseLock[c] = r THEN None ELSE courseLock[c]]
    /\ row' = [row EXCEPT ![r] = NoWrites]
    /\ added' = [added EXCEPT ![r] = {}]
    /\ removed' = [removed EXCEPT ![r] = {}]
    /\ staged' = [staged EXCEPT ![r] = {}]

Answer(r, outcome) ==
    /\ pc' = [pc EXCEPT ![r] = "Done"]
    /\ result' = [result EXCEPT ![r] = outcome]

\* The statement or a check failed: rollback, and the error is the answer.
Refuse(r, outcome) ==
    /\ Release(r)
    /\ Answer(r, outcome)
    /\ UNCHANGED <<tables, nextId, req, attempt>>

-----------------------------------------------------------------------------
LegalTables ==
    /\ \A c \in Courses : Cardinality(Class(c)) <= SeedQuota[c]
    /\ \A s \in Students : CreditSum(s, enrollments) <= MaxCredits

Init ==
    /\ users = Students
    /\ enrollments \in SUBSET (Courses \X Students)
    /\ LegalTables
    /\ course = [c \in Courses |->
                   [quota |-> SeedQuota[c], count |-> Cardinality(Class(c)), version |-> 1]]
    /\ outbox = {}
    /\ nextId = 1
    /\ userLock = [s \in Students |-> None]
    /\ courseLock = [c \in Courses |-> None]
    /\ req \in [Requests -> Inputs]
    /\ pc = [r \in Requests |-> FirstStatement(req[r].op)]
    /\ attempt = [r \in Requests |-> 1]
    /\ row = [r \in Requests |-> NoWrites]
    /\ added = [r \in Requests |-> {}]
    /\ removed = [r \in Requests |-> {}]
    /\ staged = [r \in Requests |-> {}]
    /\ result = [r \in Requests |-> "none"]

-----------------------------------------------------------------------------
LockStudent(r) ==
    /\ At(r, "LockStudent")
    /\ \/ /\ req[r].user \in users
          /\ userLock[req[r].user] = None
          /\ userLock' = [userLock EXCEPT ![req[r].user] = r]
          /\ Proceed(r)
          /\ UNCHANGED <<tables, nextId, courseLock, req, attempt, row, added,
                         removed, staged, result>>
       \/ /\ req[r].user \notin users
          /\ Refuse(r, "not_found")

\* Rows still to be locked by LockCourses.
Unlocked(r) == {c \in {req[r].from, req[r].course} \cap Courses : courseLock[c] # r}

\* Mutant: the classes are locked in the order in which the client names them.
NextToLockAsNamed(r) == IF req[r].from \in Unlocked(r) THEN req[r].from ELSE req[r].course

\* ORDER BY id FOR UPDATE locks one row after the other, in ascending id.
NextToLock(r) == CHOOSE c \in Unlocked(r) : \A d \in Unlocked(r) : c <= d

LockCourses(r) ==
    /\ At(r, "LockCourses")
    /\ \/ /\ Unlocked(r) # {}
          /\ courseLock[NextToLock(r)] = None
          /\ courseLock' = [courseLock EXCEPT ![NextToLock(r)] = r]
          /\ UNCHANGED <<tables, nextId, userLock, req, pc, attempt, row, added,
                         removed, staged, result>>
       \/ /\ Unlocked(r) = {}
          /\ {req[r].from, req[r].course} \subseteq Courses
          /\ Proceed(r)
          /\ UNCHANGED <<tables, nextId, locks, req, attempt, row, added,
                         removed, staged, result>>
       \/ /\ Unlocked(r) = {}
          /\ ~({req[r].from, req[r].course} \subseteq Courses)
          /\ Refuse(r, "not_found")

CreditsAfter(r) ==
    LET taken == CreditSum(req[r].user, VisibleEnrollments(r))
    IN  IF Op(r) = "enroll" THEN taken + Credits[req[r].course]
        ELSE taken - Credits[req[r].from] + Credits[req[r].course]

\* FindByID, SumCredits and the limit: courses.credits never changes, so the
\* only read that matters is that of the student's enrollments.
SumCredits(r) ==
    /\ At(r, "SumCredits")
    /\ \/ /\ req[r].course \in Courses
          /\ CreditsAfter(r) <= MaxCredits
          /\ Proceed(r)
          /\ UNCHANGED <<tables, nextId, locks, req, attempt, row, added,
                         removed, staged, result>>
       \/ /\ req[r].course \in Courses
          /\ CreditsAfter(r) > MaxCredits
          /\ Refuse(r, "credit_limit")
       \/ /\ req[r].course \notin Courses
          /\ Refuse(r, "not_found")

\* UPDATE courses: lock the row and write a private copy of it.
WriteCourse(r, c, new) ==
    /\ Free(courseLock[c], r)
    /\ courseLock' = [courseLock EXCEPT ![c] = r]
    /\ row' = [row EXCEPT ![r][c] = new]
    /\ Proceed(r)
    /\ UNCHANGED <<tables, nextId, userLock, req, attempt, added, removed,
                   staged, result>>

\* Mutant: the UPDATE has no enrolled_count < quota.
IncrementUnconditionally(r) ==
    /\ At(r, "IncrementEnrolled")
    /\ WriteCourse(r, req[r].course,
                   [Visible(r, req[r].course) EXCEPT !.count = @ + 1])

IncrementEnrolled(r) ==
    LET c == req[r].course
        seen == Visible(r, c)
    IN  /\ At(r, "IncrementEnrolled")
        /\ \/ /\ seen.count < seen.quota
              /\ WriteCourse(r, c, [seen EXCEPT !.count = @ + 1])
           \/ /\ seen.count >= seen.quota
              /\ Refuse(r, "course_full")

DecrementEnrolled(r) ==
    /\ At(r, "DecrementEnrolled")
    /\ WriteCourse(r, Leaving(r), [Visible(r, Leaving(r)) EXCEPT !.count = @ - 1])

\* A row somebody else is deleting is waited for; a row that is not there
\* means that the student is not in the class.
DeleteEnrollment(r) ==
    LET pair == <<Leaving(r), req[r].user>>
    IN  /\ At(r, "DeleteEnrollment")
        /\ \/ /\ pair \in VisibleEnrollments(r)
              /\ \A q \in Requests : pair \notin removed[q]
              /\ removed' = [removed EXCEPT ![r] = @ \cup {pair}]
              /\ Proceed(r)
              /\ UNCHANGED <<tables, nextId, locks, req, attempt, row, added,
                             staged, result>>
           \/ /\ pair \notin VisibleEnrollments(r)
              /\ Refuse(r, "not_enrolled")

\* UNIQUE (course_id, user_id): a pair somebody else is inserting is waited
\* for; a pair that is there is a duplicate.
InsertEnrollment(r) ==
    LET pair == <<req[r].course, req[r].user>>
    IN  /\ At(r, "InsertEnrollment")
        /\ \/ /\ pair \notin VisibleEnrollments(r)
              /\ \A q \in Requests : pair \notin added[q]
              /\ added' = [added EXCEPT ![r] = @ \cup {pair}]
              /\ Proceed(r)
              /\ UNCHANGED <<tables, nextId, locks, req, attempt, row, removed,
                             staged, result>>
           \/ /\ pair \in VisibleEnrollments(r)
              /\ Refuse(r, "already_enrolled")

\* Mutant: Drop announces a registration.
EventBodyDropAsCreated(i) ==
    CASE i.op \in {"enroll", "drop"} ->
           [type |-> "enrollment.created", user |-> i.user, course |-> i.course]
      [] i.op = "swap" ->
           [type |-> "enrollment.swapped", user |-> i.user, course |-> i.course,
            from |-> i.from]
      [] i.op = "quota" ->
           [type |-> "course.quota_changed", course |-> i.course, quota |-> i.quota]

EventBody(i) ==
    CASE i.op = "enroll" ->
           [type |-> "enrollment.created", user |-> i.user, course |-> i.course]
      [] i.op = "drop" ->
           [type |-> "enrollment.dropped", user |-> i.user, course |-> i.course]
      [] i.op = "swap" ->
           [type |-> "enrollment.swapped", user |-> i.user, course |-> i.course,
            from |-> i.from]
      [] i.op = "quota" ->
           [type |-> "course.quota_changed", course |-> i.course, quota |-> i.quota]

\* The id is drawn here, at the INSERT; the row is visible only after Commit.
InsertOutbox(r) ==
    /\ At(r, "InsertOutbox")
    /\ nextId \in EventIds
    /\ staged' = [staged EXCEPT ![r] = @ \cup {[id |-> nextId, body |-> EventBody(req[r])]}]
    /\ nextId' = nextId + 1
    /\ Proceed(r)
    /\ UNCHANGED <<tables, locks, req, attempt, row, added, removed, result>>

\* Mutant: the UPDATE does not compare the version.
QuotaMatchesAnyVersion(r) ==
    /\ req[r].course \in Courses
    /\ Visible(r, req[r].course).count <= req[r].quota

\* Mutant: the UPDATE does not compare the quota with the seats taken.
QuotaMatchesAnyQuota(r) ==
    /\ req[r].course \in Courses
    /\ Visible(r, req[r].course).version = req[r].version

\* WHERE id = $2 AND version = $3 AND $1 >= enrolled_count
QuotaMatches(r) ==
    /\ req[r].course \in Courses
    /\ Visible(r, req[r].course).version = req[r].version
    /\ Visible(r, req[r].course).count <= req[r].quota

UpdateQuota(r) ==
    LET c == req[r].course
    IN  /\ At(r, "UpdateQuota")
        /\ \/ /\ QuotaMatches(r)
              /\ WriteCourse(r, c, [Visible(r, c) EXCEPT !.quota = req[r].quota,
                                                         !.version = @ + 1])
           \/ /\ ~QuotaMatches(r)
              /\ pc' = [pc EXCEPT ![r] = "ExplainQuota"]
              /\ UNCHANGED <<tables, nextId, locks, req, attempt, row, added,
                             removed, staged, result>>

\* No row was updated: a second, later read decides which error it was.
ExplainQuota(r) ==
    LET c == req[r].course
    IN  /\ At(r, "ExplainQuota")
        /\ \/ c \notin Courses /\ Refuse(r, "not_found")
           \/ /\ c \in Courses
              /\ Visible(r, c).version # req[r].version
              /\ Refuse(r, "version_conflict")
           \/ /\ c \in Courses
              /\ Visible(r, c).version = req[r].version
              /\ Refuse(r, "quota_below_enrolled")

\* Mutant: the outbox row is written before the transaction and is not in it.
CommitWithoutOutbox(r) ==
    /\ At(r, "Commit")
    /\ course' = [c \in Courses |-> Visible(r, c)]
    /\ enrollments' = VisibleEnrollments(r)
    /\ Release(r)
    /\ \E outcome \in {"ok", "error"} : Answer(r, outcome)
    /\ UNCHANGED <<users, outbox, nextId, req, attempt>>

\* The reply to COMMIT may get lost: the change is there, the answer an error.
Commit(r) ==
    /\ At(r, "Commit")
    /\ course' = [c \in Courses |-> Visible(r, c)]
    /\ enrollments' = VisibleEnrollments(r)
    /\ outbox' = outbox \cup staged[r]
    /\ Release(r)
    /\ \E outcome \in {"ok", "error"} : Answer(r, outcome)
    /\ UNCHANGED <<users, nextId, req, attempt>>

-----------------------------------------------------------------------------
(* Failures.                                                                *)

Running(r) == pc[r] # "Done"

\* The process, the connection or the request's deadline ends the transaction.
Interrupt(r) == Running(r) /\ Refuse(r, "error")

\* The requests r waits for: holders of the row lock its next statement needs.
WaitsFor(r) ==
    LET holders ==
          CASE At(r, "LockStudent") -> {userLock[req[r].user]}
            [] At(r, "LockCourses") /\ Unlocked(r) # {} -> {courseLock[NextToLock(r)]}
            [] At(r, "IncrementEnrolled")
               /\ Visible(r, req[r].course).count < Visible(r, req[r].course).quota
                 -> {courseLock[req[r].course]}
            [] At(r, "DecrementEnrolled") -> {courseLock[Leaving(r)]}
            [] At(r, "UpdateQuota") /\ QuotaMatches(r) ->
                 {courseLock[req[r].course]}
            [] OTHER -> {}
    IN  holders \ {None, r}

\* The server cancels a waiting transaction with 40P01 (a deadlock with some
\* other session): WithTx runs the closure again, a bounded number of times.
DeadlockVictim(r) ==
    /\ WaitsFor(r) # {}
    /\ attempt[r] < MaxAttempts
    /\ Release(r)
    /\ pc' = [pc EXCEPT ![r] = FirstStatement(Op(r))]
    /\ attempt' = [attempt EXCEPT ![r] = @ + 1]
    /\ UNCHANGED <<tables, nextId, req, result>>

\* DELETE FROM users takes the row lock; the rows of enrollments cascade and
\* no counter is told.
DeleteUser(s) ==
    /\ s \in users \cap Deletable
    /\ userLock[s] = None
    /\ users' = users \ {s}
    /\ enrollments' = {p \in enrollments : p[2] # s}
    /\ UNCHANGED <<course, outbox, nextId, locks, req, pc, attempt, row, added,
                   removed, staged, result>>

-----------------------------------------------------------------------------
Statement(r) ==
    \/ LockStudent(r) \/ LockCourses(r) \/ SumCredits(r) \/ IncrementEnrolled(r)
    \/ DecrementEnrolled(r) \/ DeleteEnrollment(r) \/ InsertEnrollment(r)
    \/ InsertOutbox(r) \/ UpdateQuota(r) \/ ExplainQuota(r) \/ Commit(r)

AllAnswered == (\A r \in Requests : ~Running(r)) /\ UNCHANGED vars

Next ==
    \/ \E r \in Requests : Statement(r) \/ Interrupt(r) \/ DeadlockVictim(r)
    \/ \E s \in Students : DeleteUser(s)
    \/ AllAnswered

Spec == Init /\ [][Next]_vars

\* A handler's goroutine issues its next statement, and the server grants a
\* row lock that is free.  No failure is fair.
Fairness == \A r \in Requests : WF_vars(Statement(r))
LiveSpec == Spec /\ Fairness
-----------------------------------------------------------------------------
(* Properties.                                                              *)

Statements == {"LockStudent", "LockCourses", "SumCredits", "IncrementEnrolled",
    "DecrementEnrolled", "DeleteEnrollment", "InsertEnrollment", "InsertOutbox",
    "UpdateQuota", "ExplainQuota", "Commit"}

Outcomes == {"none", "ok", "error", "not_found", "credit_limit", "course_full",
    "already_enrolled", "not_enrolled", "version_conflict", "quota_below_enrolled"}

Pairs == Courses \X Students
Event == [id : EventIds, body : {EventBody(i) : i \in Inputs}]

\* Type invariant of the tables, the locks and the transactions' private state.
TypeOK ==
    /\ users \subseteq Students
    /\ course \in [Courses -> Row]
    /\ enrollments \subseteq Pairs
    /\ outbox \subseteq Event
    /\ nextId \in Nat
    /\ userLock \in [Students -> Requests \cup {None}]
    /\ courseLock \in [Courses -> Requests \cup {None}]
    /\ req \in [Requests -> Inputs]
    /\ pc \in [Requests -> Statements \cup {"Done"}]
    /\ attempt \in [Requests -> 1..MaxAttempts]
    /\ row \in [Requests -> [Courses -> Row \cup {None}]]
    /\ added \in [Requests -> SUBSET Pairs]
    /\ removed \in [Requests -> SUBSET Pairs]
    /\ staged \in [Requests -> SUBSET Event]
    /\ result \in [Requests -> Outcomes]

\* Whatever the requests interleave, fail or retry, and whoever is deleted
\* meanwhile, no class holds more students than seats are counted, and no more
\* seats are counted than the quota has (IncrementEnrolled, UpdateQuota).
NeverOversold ==
    \A c \in Courses : /\ Cardinality(Class(c)) <= course[c].count
                       /\ course[c].count <= course[c].quota

\* courses.enrolled_count is the number of rows of enrollments for the class:
\* the counter and the rows are changed by different statements of Enroll, Drop
\* and Swap, and a rollback undoes both.
CountMatchesRows ==
    \A c \in Courses : course[c].count = Cardinality(Class(c))

\* No student ever holds more than the limit of credits, although Enroll and
\* Swap decide on a sum they read several statements before they insert.
CreditLimitHolds ==
    \A s \in Students : CreditSum(s, enrollments) <= MaxCredits

\* The CHECK constraint of table courses, which "never fires if the application
\* is right": not even a row that is written and not yet committed breaks it.
ConstraintNeverFires ==
    \A r \in Requests, c \in Courses :
        row[r][c] # None => row[r][c].count \in 0..row[r][c].quota

\* No set of requests waits for each other: users before courses, and courses
\* in ascending id (LockStudent, LockCourses).
NoWaitCycle ==
    \A S \in (SUBSET Requests) \ {{}} : \E r \in S : WaitsFor(r) \cap S = {}

\* Of all administrators that saw the same version of a class, at most one
\* changes the quota: no accepted change is based on a row already replaced.
NoLostQuotaUpdate ==
    \A r, q \in Requests :
        /\ r # q
        /\ Op(r) = "quota" /\ Op(q) = "quota"
        /\ result[r] = "ok" /\ result[q] = "ok"
        /\ req[r].course = req[q].course
        => req[r].version # req[q].version

-----------------------------------------------------------------------------
(* The inductive invariant: what each transaction has done by the time it   *)
(* reaches a statement, relative to the committed tables, which its row     *)
(* locks keep from changing underneath it.                                  *)

OnScript(r) == pc[r] \in DOMAIN Script(Op(r)) \cup {"Commit", "Done"}
                         \cup IF Op(r) = "quota" THEN {"ExplainQuota"} ELSE {}

HoldsStudent(r) == Op(r) # "quota" /\ pc[r] \notin {"LockStudent", "Done"}

HasIncremented(r) == /\ Op(r) \in {"enroll", "swap"}
                     /\ pc[r] \in {"InsertOutbox", "InsertEnrollment", "Commit"}
HasInserted(r) == \/ Op(r) = "enroll" /\ pc[r] = "Commit"
                  \/ Op(r) = "swap" /\ pc[r] \in {"InsertOutbox", "Commit"}
HasDecremented(r) == \/ Op(r) = "drop" /\ pc[r] \in {"InsertOutbox", "Commit"}
                     \/ /\ Op(r) = "swap"
                        /\ pc[r] \in {"IncrementEnrolled", "InsertEnrollment",
                                      "InsertOutbox", "Commit"}
HasDeleted(r) == \/ HasDecremented(r)
                 \/ Op(r) \in {"drop", "swap"} /\ pc[r] = "DecrementEnrolled"
HasRequoted(r) == Op(r) = "quota" /\ pc[r] \in {"InsertOutbox", "Commit"}

Joined(r) == <<req[r].course, req[r].user>>
Left(r) == <<Leaving(r), req[r].user>>

\* The classes whose rows request r has written.
Touches(r, c) == \/ (HasIncremented(r) \/ HasRequoted(r)) /\ c = req[r].course
                 \/ HasDecremented(r) /\ c = Leaving(r)

RowEffect(r, c) ==
    IF HasIncremented(r) /\ c = req[r].course
    THEN [course[c] EXCEPT !.count = @ + 1]
    ELSE IF HasDecremented(r) /\ c = Leaving(r)
    THEN [course[c] EXCEPT !.count = @ - 1]
    ELSE IF HasRequoted(r) /\ c = req[r].course
    THEN [course[c] EXCEPT !.quota = req[r].quota, !.version = @ + 1]
    ELSE None

CourseFound(r) ==
    Op(r) # "drop" /\ pc[r] \in {"DeleteEnrollment", "DecrementEnrolled", "IncrementEnrolled"}
        => req[r].course \in Courses

Effects(r) ==
    /\ CourseFound(r)
    /\ removed[r] = IF HasDeleted(r) THEN {Left(r)} ELSE {}
    /\ added[r] = IF HasInserted(r) THEN {Joined(r)} ELSE {}
    /\ \A c \in Courses : row[r][c] = RowEffect(r, c)
    /\ HasDeleted(r) => Left(r) \in enrollments
    /\ HasInserted(r) => Joined(r) \notin enrollments
    /\ HasIncremented(r) => /\ req[r].course \in Courses
                            /\ course[req[r].course].count < course[req[r].course].quota
    /\ HasRequoted(r) => /\ req[r].course \in Courses
                         /\ course[req[r].course].version = req[r].version
                         /\ course[req[r].course].count <= req[r].quota

LocksHeld(r) ==
    /\ HoldsStudent(r) => userLock[req[r].user] = r
    /\ \A c \in Courses : row[r][c] # None => courseLock[c] = r

\* The seat counters, with equality as long as nobody is deleted.
Counters ==
    /\ NeverOversold
    /\ Deletable = {} => CountMatchesRows

\* A quota change that was accepted has left its version behind.
VersionsMoveOn ==
    \A r \in Requests :
        Op(r) = "quota" /\ result[r] = "ok" =>
            /\ pc[r] = "Done"
            /\ req[r].course \in Courses
            /\ course[req[r].course].version > req[r].version

\* What the tables and the counters need: the private writes and the locks of
\* every transaction match the statements it has run.
TransactionInv ==
    /\ TypeOK
    /\ \A r \in Requests : OnScript(r) /\ LocksHeld(r) /\ Effects(r)
    /\ Counters
    /\ VersionsMoveOn
    /\ NoLostQuotaUpdate

-----------------------------------------------------------------------------
(* Refinement.                                                              *)

\* The tables, seen without counters and locks, change exactly as Krs allows:
\* each committed request is one atomic registration change whose event is in
\* the outbox, with ids in the order in which things happened to a student.
Abstract == INSTANCE Krs WITH
    students <- users,
    quota <- [c \in Courses |-> course[c].quota],
    version <- [c \in Courses |-> course[c].version],
    registered <- enrollments,
    feed <- outbox

ImplementsKrs == Abstract!Spec

\* Whoever reads the outbox by id, as the relay does, knows for every student
\* and class named in it whether the student is registered: the id is drawn
\* while the student is locked, so no later change gets a smaller one.
OutboxTells == Abstract!FeedTells

\* The account of a locked student stays: DeleteUser waits for the row.
AccountKept(r) == HoldsStudent(r) => req[r].user \in users

\* What SumCredits has checked stays true while the student is locked.
LimitKept(r) ==
    LET held == CreditSum(req[r].user, enrollments)
        checked == pc[r] \notin {"LockStudent", "LockCourses", "SumCredits", "Done"}
    IN  /\ Op(r) = "enroll" /\ checked =>
              held + Credits[req[r].course] <= MaxCredits
        /\ Op(r) = "swap" /\ checked =>
              held - Credits[req[r].from] + Credits[req[r].course] <= MaxCredits

\* A transaction holds no lock that its statements did not take, and a swap
\* that still locks its classes holds only classes before the next one.
OwnsOnly(r) ==
    /\ \A s \in Students : userLock[s] = r => HoldsStudent(r) /\ s = req[r].user
    /\ \A c \in Courses : courseLock[c] = r =>
          \/ Touches(r, c)
          \/ /\ Op(r) = "swap"
             /\ c \in {req[r].from, req[r].course}
             /\ pc[r] \notin {"LockStudent", "Done"}
             /\ pc[r] = "LockCourses" => \A d \in Unlocked(r) : c < d
    /\ Op(r) = "swap" /\ pc[r] \notin {"LockStudent", "LockCourses", "Done"} =>
          Unlocked(r) = {} /\ {req[r].from, req[r].course} \subseteq Courses

HasAnnounced(r) == \/ pc[r] = "Commit"
                   \/ Op(r) = "enroll" /\ pc[r] = "InsertEnrollment"

\* The staged event is the request's, with an id above those of all committed
\* events of its subject.
EventStaged(r) ==
    /\ ~ HasAnnounced(r) => staged[r] = {}
    /\ HasAnnounced(r) => \E e \in Event :
          /\ staged[r] = {e}
          /\ e.body = EventBody(req[r])
          /\ e.id < nextId
          /\ \A f \in outbox : f.id # e.id /\ (Abstract!SameSubject(f.body, e.body)
                                                 => f.id < e.id)

\* Every id was drawn, and drawn once.
IdsDrawn ==
    /\ \A e \in outbox : e.id < nextId
    /\ \A r, q \in Requests : r # q =>
          \A e \in staged[r], f \in staged[q] : e.id # f.id

DecisionValid(r) == AccountKept(r) /\ LimitKept(r) /\ OwnsOnly(r) /\ EventStaged(r)

\* What a transaction has decided on is still true when it commits.
DecisionInv ==
    /\ \A r \in Requests : DecisionValid(r)
    /\ CreditLimitHolds
    /\ IdsDrawn

\* The inductive invariant behind the theorems about Enrollment.
IInv == TransactionInv /\ DecisionInv

-----------------------------------------------------------------------------
(* Liveness.                                                                *)

\* Every request is answered, without the help of timeouts or of the server's
\* deadlock detection: locks are released and waited for in a common order.
EveryRequestAnswered == \A r \in Requests : <>(pc[r] = "Done")
=============================================================================
