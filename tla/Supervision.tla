----------------------------- MODULE Supervision -----------------------------
(***************************************************************************)
(* Thesis supervision in api-students: Assign, Switch and UpdateQuota of   *)
(* SupervisorService, and the deletion of a student, as concurrent         *)
(* PostgreSQL transactions at isolation level READ COMMITTED.  One action  *)
(* is one SQL statement; its writes stay private to the request (delta,    *)
(* deleted, inserted) until Commit.                                        *)
(***************************************************************************)
EXTENDS Integers, FiniteSets

CONSTANTS
    Requests,       \* the HTTP requests of a behaviour, each served once
    Students,
    Deletable,      \* students that may be deleted meanwhile
    Supervisors,    \* ids of the rows of table supervisors
    SupervisorIds,  \* ids a client may name, existing or not
    SeedQuota,      \* column supervisors.quota as seeded by the migration
    Inputs,         \* what the requests of a behaviour may ask
    MaxAttempts,    \* runs of a transaction before WithTx gives up
    None            \* no supervisor, no holder of a lock

Input ==
    [op : {"assign", "switch"}, student : Students, to : SupervisorIds]
    \cup [op : {"quota"}, to : SupervisorIds, quota : Nat \ {0}, version : Nat \ {0}]

ASSUME StudentsFinite == IsFiniteSet(Students) /\ Deletable \subseteq Students
ASSUME SupervisorsOrdered == Supervisors \subseteq SupervisorIds /\ SupervisorIds \subseteq Nat
ASSUME SeedPositive == SeedQuota \in [Supervisors -> Nat \ {0}]
ASSUME InputsValid == Inputs \subseteq Input /\ MaxAttempts \in Nat \ {0}
ASSUME NoneIsFresh == None \notin Requests \cup Supervisors

VARIABLES
    students,        \* committed tables: students
    supervisor,      \* supervisions: the supervisor of every student, or None
    row,             \* supervisors: quota, supervised_count and version
    vacated,         \* rows of supervisions gone by cascade, for every supervisor
    studentLock,     \* request that holds the row lock of a student, or None
    supervisorLock,  \* request that holds the row lock of a supervisor, or None
    req,             \* the request's path and body
    pc,              \* next statement of the request
    attempt,         \* runs of the transaction so far
    from,            \* supervisor that Switch has read
    delta,           \* uncommitted change of every supervised_count
    deleted,         \* requests with an uncommitted DELETE FROM supervisions
    inserted,        \* requests with an uncommitted INSERT INTO supervisions
    result           \* answer to the client

tables == <<students, supervisor, row, vacated>>
locks == <<studentLock, supervisorLock>>
writes == <<delta, deleted, inserted>>
vars == <<tables, locks, req, pc, attempt, from, writes, result>>

-----------------------------------------------------------------------------
AssignScript == [LockStudent |-> "IncrementSupervised",
    IncrementSupervised |-> "InsertSupervision", InsertSupervision |-> "Commit"]

SwitchScript == [LockStudent |-> "GetSupervision", GetSupervision |-> "LockSupervisors",
    LockSupervisors |-> "DeleteSupervision", DeleteSupervision |-> "DecrementSupervised",
    DecrementSupervised |-> "IncrementSupervised",
    IncrementSupervised |-> "InsertSupervision", InsertSupervision |-> "Commit"]

\* Mutant: Switch reads the old supervisor without locking the student.
FirstStatementUnlocked(op) ==
    CASE op = "assign" -> "LockStudent" [] op = "switch" -> "GetSupervision"
      [] op = "quota" -> "UpdateQuota"

FirstStatement(op) == IF op = "quota" THEN "UpdateQuota" ELSE "LockStudent"

At(r, statement) == pc[r] = statement
Op(r) == req[r].op
Student(r) == req[r].student
To(r) == req[r].to
Proceed(r) ==
    pc' = [pc EXCEPT ![r] = (IF Op(r) = "assign" THEN AssignScript ELSE SwitchScript)[pc[r]]]

Group(p) == {s \in Students : supervisor[s] = p}
NoChange == [p \in Supervisors |-> 0]

\* What a statement of request r sees: committed rows and its own writes.
VisibleCount(r, p) == row[p].count + delta[r][p]
VisibleSupervisor(r) ==
    IF r \in inserted THEN To(r) ELSE IF r \in deleted THEN None ELSE supervisor[Student(r)]

\* Mutant: the deferred rollback is missing.
ReleaseNothing(r) ==
    /\ UNCHANGED locks
    /\ delta' = [delta EXCEPT ![r] = NoChange]
    /\ deleted' = deleted \ {r}
    /\ inserted' = inserted \ {r}

Release(r) ==
    /\ studentLock' = [s \in Students |-> IF studentLock[s] = r THEN None ELSE studentLock[s]]
    /\ supervisorLock' = [p \in Supervisors |->
                            IF supervisorLock[p] = r THEN None ELSE supervisorLock[p]]
    /\ delta' = [delta EXCEPT ![r] = NoChange]
    /\ deleted' = deleted \ {r}
    /\ inserted' = inserted \ {r}

Answer(r, outcome) ==
    /\ pc' = [pc EXCEPT ![r] = "Done"]
    /\ result' = [result EXCEPT ![r] = outcome]

\* The statement or a check failed: rollback, and the error is the answer.
Refuse(r, outcome) ==
    /\ Release(r)
    /\ Answer(r, outcome)
    /\ UNCHANGED <<tables, req, attempt, from>>

Init ==
    /\ students = Students
    /\ supervisor \in [Students -> Supervisors \cup {None}]
    /\ \A p \in Supervisors : Cardinality(Group(p)) <= SeedQuota[p]
    /\ row = [p \in Supervisors |->
                [quota |-> SeedQuota[p], count |-> Cardinality(Group(p)), version |-> 1]]
    /\ vacated = [p \in Supervisors |-> 0]
    /\ studentLock = [s \in Students |-> None]
    /\ supervisorLock = [p \in Supervisors |-> None]
    /\ req \in [Requests -> Inputs]
    /\ pc = [r \in Requests |-> FirstStatement(req[r].op)]
    /\ attempt = [r \in Requests |-> 1]
    /\ from = [r \in Requests |-> None]
    /\ delta = [r \in Requests |-> NoChange]
    /\ deleted = {}
    /\ inserted = {}
    /\ result = [r \in Requests |-> "none"]

-----------------------------------------------------------------------------
(* Statements.                                                              *)

LockStudent(r) ==
    /\ At(r, "LockStudent")
    /\ \/ Student(r) \notin students /\ Refuse(r, "not_found")
       \/ /\ Student(r) \in students
          /\ studentLock[Student(r)] = None
          /\ studentLock' = [studentLock EXCEPT ![Student(r)] = r]
          /\ Proceed(r)
          /\ UNCHANGED <<tables, supervisorLock, req, attempt, from, writes, result>>

GetSupervision(r) ==
    LET old == supervisor[Student(r)]
    IN  /\ At(r, "GetSupervision")
        /\ \/ old = None /\ Refuse(r, "no_supervision")
           \/ old = To(r) /\ Refuse(r, "same_supervisor")
           \/ /\ old \notin {None, To(r)}
              /\ from' = [from EXCEPT ![r] = old]
              /\ Proceed(r)
              /\ UNCHANGED <<tables, locks, req, attempt, writes, result>>

Unlocked(r) == {p \in {from[r], To(r)} \cap Supervisors : supervisorLock[p] # r}

\* Mutant: the rows are locked in the order of the arguments.
NextToLockAsNamed(r, p) == p \in Unlocked(r) /\ (from[r] \in Unlocked(r) => p = from[r])

\* ORDER BY id FOR UPDATE
NextToLock(r, p) == p \in Unlocked(r) /\ \A q \in Unlocked(r) : p <= q

LockSupervisors(r) ==
    /\ At(r, "LockSupervisors")
    /\ \/ \E p \in Unlocked(r) :
             /\ NextToLock(r, p)
             /\ supervisorLock[p] = None
             /\ supervisorLock' = [supervisorLock EXCEPT ![p] = r]
             /\ UNCHANGED <<tables, studentLock, req, pc, attempt, from, writes, result>>
       \/ /\ Unlocked(r) = {} /\ To(r) \in Supervisors
          /\ Proceed(r)
          /\ UNCHANGED <<tables, locks, req, attempt, from, writes, result>>
       \/ /\ Unlocked(r) = {} /\ To(r) \notin Supervisors
          /\ Refuse(r, "not_found")

\* Mutant: the DELETE runs on the pool and is committed at once.
DeleteOutsideTx(r) ==
    /\ At(r, "DeleteSupervision")
    /\ supervisor' = [supervisor EXCEPT ![Student(r)] = None]
    /\ Proceed(r)
    /\ UNCHANGED <<students, row, vacated, locks, req, attempt, from, writes, result>>

DeleteSupervision(r) ==
    /\ At(r, "DeleteSupervision")
    /\ \/ VisibleSupervisor(r) = None /\ Refuse(r, "no_supervision")
       \/ /\ VisibleSupervisor(r) # None
          /\ deleted' = deleted \cup {r}
          /\ Proceed(r)
          /\ UNCHANGED <<tables, locks, req, attempt, from, delta, inserted, result>>

\* UPDATE supervisors: lock the row and change the count.
AddToCount(r, p, n) ==
    /\ supervisorLock[p] \in {None, r}
    /\ supervisorLock' = [supervisorLock EXCEPT ![p] = r]
    /\ delta' = [delta EXCEPT ![r][p] = @ + n]
    /\ Proceed(r)
    /\ UNCHANGED <<tables, studentLock, req, attempt, from, deleted, inserted, result>>

DecrementSupervised(r) ==
    /\ At(r, "DecrementSupervised")
    /\ AddToCount(r, from[r], -1)

\* Mutant: the UPDATE has no supervised_count < quota.
IncrementUnconditionally(r) ==
    /\ At(r, "IncrementSupervised")
    /\ IF To(r) \in Supervisors THEN AddToCount(r, To(r), 1) ELSE Refuse(r, "not_found")

\* WHERE supervised_count < quota: a full supervisor is refused at once, even
\* if another request holds the row.
IncrementSupervised(r) ==
    /\ At(r, "IncrementSupervised")
    /\ \/ To(r) \notin Supervisors /\ Refuse(r, "not_found")
       \/ /\ To(r) \in Supervisors
          /\ VisibleCount(r, To(r)) >= row[To(r)].quota
          /\ Refuse(r, "full")
       \/ /\ To(r) \in Supervisors
          /\ VisibleCount(r, To(r)) < row[To(r)].quota
          /\ AddToCount(r, To(r), 1)

\* UNIQUE (student_id): an uncommitted row of the same student is waited for.
InsertSupervision(r) ==
    /\ At(r, "InsertSupervision")
    /\ \/ VisibleSupervisor(r) # None /\ Refuse(r, "already_supervised")
       \/ /\ VisibleSupervisor(r) = None
          /\ \A q \in inserted : Student(q) # Student(r)
          /\ inserted' = inserted \cup {r}
          /\ Proceed(r)
          /\ UNCHANGED <<tables, locks, req, attempt, from, delta, deleted, result>>

\* The reply to COMMIT may get lost: the change is there, the answer an error.
Commit(r) ==
    /\ At(r, "Commit")
    /\ supervisor' = [supervisor EXCEPT ![Student(r)] = VisibleSupervisor(r)]
    /\ row' = [p \in Supervisors |-> [row[p] EXCEPT !.count = VisibleCount(r, p)]]
    /\ Release(r)
    /\ \E outcome \in {"ok", "error"} : Answer(r, outcome)
    /\ UNCHANGED <<students, vacated, req, attempt, from>>

\* Mutant: the UPDATE does not compare the version.
QuotaMatchesAnyVersion(r) ==
    To(r) \in Supervisors /\ row[To(r)].count <= req[r].quota

\* WHERE id = $2 AND version = $3 AND $1 >= supervised_count
QuotaMatches(r) ==
    /\ To(r) \in Supervisors
    /\ row[To(r)].version = req[r].version
    /\ row[To(r)].count <= req[r].quota

\* One UPDATE on the pool: it waits for the row lock and commits by itself.
UpdateQuota(r) ==
    /\ At(r, "UpdateQuota")
    /\ \/ /\ QuotaMatches(r)
          /\ supervisorLock[To(r)] = None
          /\ row' = [row EXCEPT ![To(r)].quota = req[r].quota, ![To(r)].version = @ + 1]
          /\ \E outcome \in {"ok", "error"} : Answer(r, outcome)
          /\ UNCHANGED <<students, supervisor, vacated, locks, req, attempt, from, writes>>
       \/ /\ ~QuotaMatches(r)
          /\ pc' = [pc EXCEPT ![r] = "ExplainQuota"]
          /\ UNCHANGED <<tables, locks, req, attempt, from, writes, result>>

\* No row was updated: a second, later read decides which error it was.
ExplainQuota(r) ==
    /\ At(r, "ExplainQuota")
    /\ Refuse(r, IF To(r) \notin Supervisors THEN "not_found"
                 ELSE IF row[To(r)].version # req[r].version THEN "version_conflict"
                 ELSE "quota_below_filled")

-----------------------------------------------------------------------------
(* Failures and the administrator.                                          *)

Running(r) == pc[r] # "Done"

\* The process, the connection or the request's deadline ends the transaction.
Interrupt(r) == Running(r) /\ Refuse(r, "error")

\* Supervisor rows the next statement of r locks: the statement blocks while
\* another request holds one of them.
Wants(r, p) ==
    \/ At(r, "LockSupervisors") /\ NextToLock(r, p)
    \/ At(r, "DecrementSupervised") /\ p = from[r]
    \/ /\ At(r, "IncrementSupervised") /\ p = To(r) /\ p \in Supervisors
       /\ VisibleCount(r, p) < row[p].quota
    \/ At(r, "UpdateQuota") /\ p = To(r) /\ QuotaMatches(r)

Waits(r) ==
    \/ At(r, "LockStudent") /\ studentLock[Student(r)] \notin {None, r}
    \/ \E p \in Supervisors : Wants(r, p) /\ supervisorLock[p] \notin {None, r}

\* 40P01, from a deadlock with some other session: WithTx runs the closure again.
Retry(r) ==
    /\ Waits(r) /\ Op(r) # "quota"
    /\ attempt[r] < MaxAttempts
    /\ Release(r)
    /\ pc' = [pc EXCEPT ![r] = FirstStatement(Op(r))]
    /\ attempt' = [attempt EXCEPT ![r] = @ + 1]
    /\ from' = [from EXCEPT ![r] = None]
    /\ UNCHANGED <<tables, req, result>>

\* DELETE FROM students waits for the row lock; the row of supervisions goes by
\* cascade, and supervised_count is not told.
DeleteStudent(s) ==
    /\ s \in students \cap Deletable
    /\ studentLock[s] = None
    /\ students' = students \ {s}
    /\ supervisor' = [supervisor EXCEPT ![s] = None]
    /\ vacated' = [p \in Supervisors |-> vacated[p] + IF supervisor[s] = p THEN 1 ELSE 0]
    /\ UNCHANGED <<row, locks, req, pc, attempt, from, writes, result>>

Statement(r) ==
    \/ LockStudent(r) \/ GetSupervision(r) \/ LockSupervisors(r) \/ DeleteSupervision(r)
    \/ DecrementSupervised(r) \/ IncrementSupervised(r) \/ InsertSupervision(r)
    \/ Commit(r) \/ UpdateQuota(r) \/ ExplainQuota(r)

AllAnswered == (\A r \in Requests : ~Running(r)) /\ UNCHANGED vars

Next ==
    \/ \E r \in Requests : Statement(r) \/ Interrupt(r) \/ Retry(r)
    \/ \E s \in Students : DeleteStudent(s)
    \/ AllAnswered

Spec == Init /\ [][Next]_vars

\* A handler's goroutine issues its next statement, and the server grants a
\* row lock that is free.
LiveSpec == Spec /\ \A r \in Requests : WF_vars(Statement(r))

-----------------------------------------------------------------------------
(* Properties.                                                              *)

Outcomes == {"none", "ok", "error", "not_found", "no_supervision", "same_supervisor",
    "full", "already_supervised", "version_conflict", "quota_below_filled"}

Statements == DOMAIN SwitchScript \cup {"Commit", "UpdateQuota", "ExplainQuota"}

\* Type invariant of the tables, the locks and the transactions' private state.
TypeOK ==
    /\ students \subseteq Students
    /\ supervisor \in [Students -> Supervisors \cup {None}]
    /\ row \in [Supervisors -> [quota : Nat \ {0}, count : Nat, version : Nat \ {0}]]
    /\ vacated \in [Supervisors -> Nat]
    /\ studentLock \in [Students -> Requests \cup {None}]
    /\ supervisorLock \in [Supervisors -> Requests \cup {None}]
    /\ req \in [Requests -> Inputs]
    /\ pc \in [Requests -> Statements \cup {"Done"}]
    /\ attempt \in [Requests -> 1..MaxAttempts]
    /\ from \in [Requests -> Supervisors \cup {None}]
    /\ delta \in [Requests -> [Supervisors -> -1..1]]
    /\ deleted \subseteq Requests /\ inserted \subseteq Requests
    /\ result \in [Requests -> Outcomes]

\* Exactly those rows are counted that exist or went by cascade with their
\* student: what Switch decrements and increments is what it deletes and
\* inserts, although it reads the old supervisor before it locks his row.
CountsExact ==
    \A p \in Supervisors : row[p].count = Cardinality(Group(p)) + vacated[p]

\* No supervisor is overbooked, not even on a row that is written and not yet
\* committed, so the CHECK constraint of the table never fires.
WithinQuota ==
    \A p \in Supervisors :
        /\ row[p].count <= row[p].quota
        /\ \A r \in Requests : delta[r][p] # 0 => VisibleCount(r, p) \in 0..row[p].quota

\* A student who has a supervisor keeps one: a Switch that fails, at whatever
\* statement, leaves the student with the old supervisor.
SupervisorKept ==
    [][\A s \in students' : supervisor[s] # None => supervisor'[s] # None]_vars

\* Of all administrators that saw the same version of a supervisor, at most one
\* changes the quota.
NoLostQuotaUpdate ==
    \A r, q \in Requests :
        /\ Op(r) = "quota" /\ Op(q) = "quota"
        /\ result[r] = "ok" /\ result[q] = "ok"
        /\ To(r) = To(q) /\ req[r].version = req[q].version
        => r = q

\* A request that waits for a student holds nothing, and one that waits for a
\* supervisor holds only supervisors with smaller ids: every wait leads upwards,
\* so none leads back ("bebas deadlock", LockSupervisors).
WaitsLeadUp ==
    \A r \in Requests :
        /\ At(r, "LockStudent") => \A p \in Supervisors : supervisorLock[p] # r
        /\ \A p, q \in Supervisors :
              Wants(r, p) /\ supervisorLock[p] # r /\ supervisorLock[q] = r => q < p

-----------------------------------------------------------------------------
(* The inductive invariant: what a transaction has read and written by the  *)
(* time it reaches a statement, relative to the committed tables.           *)

OnScript(r) ==
    /\ Op(r) = "assign" => pc[r] \in DOMAIN AssignScript \cup {"Commit", "Done"}
    /\ Op(r) = "switch" => pc[r] \in DOMAIN SwitchScript \cup {"Commit", "Done"}
    /\ Op(r) = "quota" => pc[r] \in {"UpdateQuota", "ExplainQuota", "Done"}

HoldsStudent(r) == Op(r) # "quota" /\ pc[r] \notin {"LockStudent", "Done"}
HasRead(r) == Op(r) = "switch" /\ pc[r] \notin {"LockStudent", "GetSupervision", "Done"}
HoldsBoth(r) == HasRead(r) /\ pc[r] # "LockSupervisors"
HasDeleted(r) == HoldsBoth(r) /\ pc[r] # "DeleteSupervision"
HasDecremented(r) == HasDeleted(r) /\ pc[r] # "DecrementSupervised"
HasIncremented(r) == pc[r] \in {"InsertSupervision", "Commit"}

LocksHeld(r) ==
    /\ HoldsStudent(r) => studentLock[Student(r)] = r
    /\ HoldsBoth(r) => supervisorLock[from[r]] = r /\ supervisorLock[To(r)] = r
    /\ HasIncremented(r) => supervisorLock[To(r)] = r
    /\ \A p \in Supervisors : supervisorLock[p] = r =>
          \/ HasRead(r) /\ p \in {from[r], To(r)}
          \/ HasIncremented(r) /\ p = To(r)
    /\ At(r, "LockSupervisors") =>
          \A p \in Unlocked(r), q \in Supervisors : supervisorLock[q] = r => q < p

\* What was read is still there, and every write is accounted for.
Effects(r) ==
    /\ HasRead(r) => from[r] \in Supervisors \ {To(r)} /\ supervisor[Student(r)] = from[r]
    /\ HoldsBoth(r) \/ HasIncremented(r) => To(r) \in Supervisors
    /\ r \in deleted <=> HasDeleted(r)
    /\ r \in inserted <=> pc[r] = "Commit"
    /\ Op(r) = "assign" /\ pc[r] = "Commit" => supervisor[Student(r)] = None
    /\ \A p \in Supervisors :
          delta[r][p] = (IF HasIncremented(r) /\ p = To(r) THEN 1 ELSE 0)
                        - (IF HasDecremented(r) /\ p = from[r] THEN 1 ELSE 0)
    /\ HasIncremented(r) => row[To(r)].count < row[To(r)].quota

\* A quota change that was accepted has left its version behind.
VersionsMoveOn ==
    \A r \in Requests : Op(r) = "quota" /\ result[r] = "ok" =>
        pc[r] = "Done" /\ To(r) \in Supervisors /\ row[To(r)].version > req[r].version

\* The inductive invariant behind the theorems of SupervisionProofs: locks and
\* private writes of every request match the statements it has run.
IInv ==
    /\ TypeOK
    /\ \A r \in Requests : OnScript(r) /\ LocksHeld(r) /\ Effects(r)
    /\ CountsExact
    /\ \A p \in Supervisors : row[p].count <= row[p].quota
    /\ VersionsMoveOn /\ NoLostQuotaUpdate

-----------------------------------------------------------------------------
(* Refinement.                                                              *)

\* Quotas that some request may ask for.
Quotas == {i.quota : i \in {j \in Inputs : j.op = "quota"}}

Abstract == INSTANCE Placements WITH
    quota <- [p \in Supervisors |-> row[p].quota],
    version <- [p \in Supervisors |-> row[p].version]

\* The tables, seen without counters and locks, change exactly as Placements
\* allows: a committed Assign or Switch is one placement of a student who still
\* has an account with a supervisor who still has room, a refused one nothing.
ImplementsPlacements == Abstract!Spec

\* The account of a locked student stays: DeleteStudent waits for the row.
AccountsKept == \A r \in Requests : HoldsStudent(r) => Student(r) \in students

-----------------------------------------------------------------------------
\* Every request is answered, without the help of timeouts or of the server's
\* deadlock detection.
EveryRequestAnswered == \A r \in Requests : <>(pc[r] = "Done")
=============================================================================
