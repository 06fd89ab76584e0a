------------------------------- MODULE Siakad -------------------------------
(***************************************************************************)
(* SIAKAD Mini (latihan-fiber/UTS): login with a failure limiter, the      *)
(* students an administrator keeps, and course registration under a row    *)
(* lock on the class.  One action is one SQL statement or one call of the  *)
(* limiter; other requests run between any two of them.                    *)
(***************************************************************************)
EXTENDS Integers, FiniteSets, Sequences, Folds

CONSTANTS
    Requests,       \* the HTTP requests of a behaviour, each served once
    SeedStudents,   \* students that are there, and logged in, at the start
    SeedRow,        \* their rows
    Admin,          \* the administrator, and his email address
    Emails, Nims, Classes, Years,
    SKS, Kuota,     \* credits and seats of every class; no route changes them
    Limit,          \* failures a key may have in a minute (5 in the code)
    Inputs,         \* what the requests of a behaviour may ask
    None            \* no row, no value

\* SERIAL never issues an id twice: the row a request inserts is named after it.
Students == SeedStudents \cup Requests
Ipk == 0 .. 400 \cup {None}     \* NUMERIC(3,2), in hundredths

\* deleted_at: the requests that had arrived by then, nobody while it is NULL.
Row == [email : Emails, nim : Nims, ipk : Ipk, deletedAt : SUBSET Requests]
Snapshot == [id : Students \cup {Admin}, ipk : Ipk, enrolled : SUBSET Requests]

Input ==
    [op : {"login"}, email : Emails \cup {Admin}, password : BOOLEAN]
    \cup [op : {"me"}, by : Students \cup {Admin}]
    \cup [op : {"create"}, by : Students \cup {Admin}, email : Emails, nim : Nims, ipk : Ipk]
    \cup [op : {"get", "delete"}, by : Students \cup {Admin}, student : Students]
    \cup [op : {"update"}, by : Students \cup {Admin}, student : Students, ipk : Ipk]
    \cup [op : {"enroll"}, by : Students \cup {Admin}, class : Classes, year : Years]
    \cup [op : {"drop"}, by : Students \cup {Admin}, enrollment : Requests]

ASSUME NamesApart == SeedStudents \cap Requests = {} /\ Admin \notin Students \cup Emails
ASSUME NoneIsFresh ==
    None \notin Students \cup {Admin} \cup 0 .. 400 \cup Row \cup Snapshot
ASSUME RequestsFinite == IsFiniteSet(Requests)
ASSUME SeedValid ==
    /\ SeedRow \in [SeedStudents -> {row \in Row : row.deletedAt = {}}]
    /\ \A s, t \in SeedStudents : SeedRow[s].email = SeedRow[t].email => s = t
ASSUME ClassesValid == SKS \in [Classes -> Nat] /\ Kuota \in [Classes -> Nat]
ASSUME LimitValid == Limit \in Nat
ASSUME InputsValid == Inputs \subseteq Input

VARIABLES
    students,       \* tables users and students: their rows come in pairs
    enrollments,    \* table enrollments, its committed rows, each named after the
                    \* request whose student, class and year it has
    attempts,       \* LoginRateLimiter.attempts: failures of the last minute, by key
    tokens,         \* accounts whose access token a client has
    req,            \* the request's route, token and body
    pc,             \* next statement of the request
    seen,           \* what the handler has read
    answer          \* answer to the client

vars == <<students, enrollments, attempts, tokens, req, pc, seen, answer>>

-----------------------------------------------------------------------------
(* The statements of the handlers, each with the one that follows it.       *)

LoginScript == [Arrive |-> "FindByEmail", FindByEmail |-> "FindByUserID", FindByUserID |-> "Reset"]
MeScript == [Arrive |-> "FindProfile"]
CreateScript == [Arrive |-> "ExistsByNIM", ExistsByNIM |-> "ExistsByEmail",
    ExistsByEmail |-> "CreateUser", CreateUser |-> "CreateStudent", CreateStudent |-> "CommitStudent"]
GetDetailScript == [Arrive |-> "FindByID", FindByID |-> "FindEnrolledCourses"]
UpdateScript == [Arrive |-> "FindByID", FindByID |-> "Update"]
SoftDeleteScript == [Arrive |-> "FindByID", FindByID |-> "SoftDelete"]
EnrollScript == [Arrive |-> "FindByID", FindByID |-> "IsAlreadyEnrolled",
    IsAlreadyEnrolled |-> "FindForUpdate", FindForUpdate |-> "CountSeats",
    CountSeats |-> "SumCredits", SumCredits |-> "CreateEnrollment",
    CreateEnrollment |-> "CommitEnrollment"]
DropScript == [Arrive |-> "FindEnrollment", FindEnrollment |-> "DeleteEnrollment"]

Script(op) ==
    CASE op = "login" -> LoginScript [] op = "me" -> MeScript [] op = "create" -> CreateScript
      [] op = "get" -> GetDetailScript [] op = "update" -> UpdateScript
      [] op = "delete" -> SoftDeleteScript [] op = "enroll" -> EnrollScript
      [] op = "drop" -> DropScript

Op(r) == req[r].op
At(r, statement) == pc[r] = statement
Running(r) == pc[r] # "Done"

Answer(r, outcome) ==
    /\ pc' = [pc EXCEPT ![r] = "Done"]
    /\ answer' = [answer EXCEPT ![r] = outcome]

\* The deferred Rollback releases what the transaction holds.
Refuse(r, outcome) ==
    Answer(r, outcome) /\ UNCHANGED <<students, enrollments, attempts, tokens, req, seen>>

\* A statement that was executed and its reply, which may get lost on the way.
Reply(r) == \E outcome \in {"ok", "error"} : Answer(r, outcome)

Goto(r, statement) == pc' = [pc EXCEPT ![r] = statement] /\ UNCHANGED answer
Proceed(r) == Goto(r, Script(Op(r))[pc[r]])

\* A statement that only reads and is passed.
Pass(r) == Proceed(r) /\ UNCHANGED <<students, enrollments, attempts, tokens, req, seen>>

See(r, snapshot) ==
    /\ seen' = [seen EXCEPT ![r] = snapshot]
    /\ UNCHANGED <<students, enrollments, attempts, tokens, req>>

Stored(s) == students[s] # None
Live(s) == Stored(s) /\ students[s].deletedAt = {}
HasEmail(s, email) == Stored(s) /\ students[s].email = email

\* Rows of open transactions: UNIQUE makes others wait for them.
HoldsEmail(r, email) == pc[r] \in {"CreateStudent", "CommitStudent"} /\ req[r].email = email
HoldsNim(r, nim) == At(r, "CommitStudent") /\ req[r].nim = nim

InClass == {"CountSeats", "SumCredits", "CreateEnrollment", "CommitEnrollment"}
HoldsClass(r, c) == pc[r] \in InClass /\ req[r].class = c

Seats(c) == {e \in enrollments : req[e].class = c}
Enrolled(s, y) == {e \in enrollments : req[e].by = s /\ req[e].year = y}

CreditsOf(requested, E) == MapThenFoldSet(LAMBDA a, b : a + b, 0,
    LAMBDA e : SKS[requested[e].class], LAMBDA F : CHOOSE e \in F : TRUE, E)
Credits(E) == CreditsOf(req, E)

BatasSKS(ipk) ==
    CASE ipk = None -> 18 [] ipk # None /\ ipk >= 300 -> 24
      [] ipk # None /\ ipk >= 250 /\ ipk < 300 -> 21 [] OTHER -> 18

Init ==
    /\ students = [s \in Students |-> IF s \in SeedStudents THEN SeedRow[s] ELSE None]
    /\ enrollments = {}
    /\ attempts = [k \in Emails \cup {Admin} |-> <<>>]
    /\ tokens = SeedStudents \cup {Admin}
    /\ req \in [Requests -> Inputs]
    /\ pc = [r \in Requests |-> "Arrive"]
    /\ seen = [r \in Requests |-> None]
    /\ answer = [r \in Requests |-> "none"]

-----------------------------------------------------------------------------
(* Middleware and login.                                                    *)

\* Mutant: the token of a student is not checked against his row.
AuthenticateByToken(u) == u \in tokens

\* A valid token, and for a student a row that is not soft-deleted.
Authenticate(u) == u \in tokens /\ (u # Admin => Live(u))

\* RequireAdmin, RequireMahasiswa, and a student's look at himself only.
Allowed(u, in) ==
    CASE in.op = "me" -> TRUE
      [] in.op \in {"create", "update", "delete"} -> u = Admin
      [] in.op = "get" -> u \in {Admin, in.student}
      [] in.op \in {"enroll", "drop"} -> u # Admin

IsRateLimited(key) == Len(attempts[key]) > Limit

Arrive(r) ==
    /\ At(r, "Arrive")
    /\ \/ /\ Op(r) = "login"
          /\ IF IsRateLimited(req[r].email) THEN Refuse(r, "blocked") ELSE Pass(r)
       \/ /\ Op(r) # "login"
          /\ \/ ~Authenticate(req[r].by) /\ Refuse(r, "unauthorized")
             \/ /\ Authenticate(req[r].by) /\ ~Allowed(req[r].by, req[r])
                /\ Refuse(r, "forbidden")
             \/ Authenticate(req[r].by) /\ Allowed(req[r].by, req[r]) /\ Pass(r)

Fail(r) ==
    /\ Goto(r, "RecordFailure")
    /\ UNCHANGED <<students, enrollments, attempts, tokens, req, seen>>

\* The address and the password are right, or a failure is to be recorded.
FindByEmail(r) ==
    LET Found(u) == IF u = Admin THEN req[r].email = Admin ELSE HasEmail(u, req[r].email)
    IN  /\ At(r, "FindByEmail")
        /\ \/ \E u \in Students \cup {Admin} :
                /\ req[r].password /\ Found(u)
                /\ See(r, [id |-> u, ipk |-> None, enrolled |-> {}])
                /\ IF u = Admin THEN Goto(r, "Reset") ELSE Proceed(r)
           \/ /\ \A u \in Students \cup {Admin} : req[r].password => ~Found(u)
              /\ Fail(r)

FindByUserID(r) ==
    /\ At(r, "FindByUserID")
    /\ IF Live(seen[r].id) THEN Pass(r) ELSE Fail(r)

\* Mutant: what RecordFailure returns is not looked at.
RecordFailureOnly(r) ==
    /\ At(r, "RecordFailure")
    /\ attempts' = [attempts EXCEPT ![req[r].email] = Append(@, r)]
    /\ Answer(r, "unauthorized")
    /\ UNCHANGED <<students, enrollments, tokens, req, seen>>

\* Many logins can have passed IsRateLimited before one of them gets here.
RecordFailure(r) ==
    LET key == req[r].email
    IN  /\ At(r, "RecordFailure")
        /\ attempts' = [attempts EXCEPT ![key] = Append(@, r)]
        /\ Answer(r, IF Len(attempts[key]) + 1 > Limit THEN "blocked" ELSE "unauthorized")
        /\ UNCHANGED <<students, enrollments, tokens, req, seen>>

\* Reset, and the token, which is signed without a further statement.
Reset(r) ==
    /\ At(r, "Reset")
    /\ attempts' = [attempts EXCEPT ![req[r].email] = <<>>]
    /\ tokens' = tokens \cup {seen[r].id}
    /\ Answer(r, "ok")
    /\ UNCHANGED <<students, enrollments, req, seen>>

\* Errors of the profile are left out of the answer.
FindProfile(r) == At(r, "FindProfile") /\ Refuse(r, "ok")

-----------------------------------------------------------------------------
(* Students.                                                                *)

\* A soft-deleted student's NIM passes here; UNIQUE refuses it later.
ExistsByNIM(r) ==
    /\ At(r, "ExistsByNIM")
    /\ IF \E s \in Students : Live(s) /\ students[s].nim = req[r].nim
       THEN Refuse(r, "invalid") ELSE Pass(r)

ExistsByEmail(r) ==
    /\ At(r, "ExistsByEmail")
    /\ IF \E s \in Students : HasEmail(s, req[r].email) THEN Refuse(r, "invalid") ELSE Pass(r)

CreateUser(r) ==
    /\ At(r, "CreateUser")
    /\ \A q \in Requests : ~HoldsEmail(q, req[r].email)
    /\ IF \E s \in Students : HasEmail(s, req[r].email) THEN Refuse(r, "invalid") ELSE Pass(r)

CreateStudent(r) ==
    /\ At(r, "CreateStudent")
    /\ \A q \in Requests : ~HoldsNim(q, req[r].nim)
    /\ IF \E s \in Students : Stored(s) /\ students[s].nim = req[r].nim
       THEN Refuse(r, "invalid") ELSE Pass(r)

CommitStudent(r) ==
    /\ At(r, "CommitStudent")
    /\ students' = [students EXCEPT ![r] =
            [email |-> req[r].email, nim |-> req[r].nim, ipk |-> req[r].ipk, deletedAt |-> {}]]
    /\ Reply(r)
    /\ UNCHANGED <<enrollments, attempts, tokens, req, seen>>

Target(r) == IF Op(r) = "enroll" THEN req[r].by ELSE req[r].student

FindByID(r) ==
    LET s == Target(r)
    IN  /\ At(r, "FindByID")
        /\ \/ ~Live(s) /\ Refuse(r, "not_found")
           \/ /\ Live(s)
              /\ See(r, [id |-> s, ipk |-> students[s].ipk, enrolled |-> {}])
              /\ Proceed(r)

FindEnrolledCourses(r) == At(r, "FindEnrolledCourses") /\ Refuse(r, "ok")

Update(r) ==
    LET s == req[r].student
    IN  /\ At(r, "Update")
        /\ \/ ~Live(s) /\ Refuse(r, "not_found")
           \/ /\ Live(s)
              /\ students' = [students EXCEPT ![s].ipk = req[r].ipk]
              /\ Reply(r)
              /\ UNCHANGED <<enrollments, attempts, tokens, req, seen>>

\* The account and the enrollments stay; only the student row is marked.
SoftDelete(r) ==
    LET s == req[r].student
    IN  /\ At(r, "SoftDelete")
        /\ \/ ~Live(s) /\ Refuse(r, "not_found")
           \/ /\ Live(s)
              /\ students' = [students EXCEPT
                    ![s].deletedAt = {q \in Requests : ~At(q, "Arrive")}]
              /\ Reply(r)
              /\ UNCHANGED <<enrollments, attempts, tokens, req, seen>>

-----------------------------------------------------------------------------
(* Course registration.                                                     *)

AlreadyEnrolled(r) ==
    \E e \in Enrolled(req[r].by, req[r].year) : req[e].class = req[r].class

IsAlreadyEnrolled(r) ==
    /\ At(r, "IsAlreadyEnrolled")
    /\ IF AlreadyEnrolled(r) THEN Refuse(r, "conflict") ELSE Pass(r)

\* Mutant: SELECT without FOR UPDATE.
FindWithoutLock(r) == At(r, "FindForUpdate") /\ Pass(r)

FindForUpdate(r) ==
    /\ At(r, "FindForUpdate")
    /\ \A q \in Requests : ~HoldsClass(q, req[r].class)
    /\ Pass(r)

\* Enrollments of every year take a seat.
CountSeats(r) ==
    /\ At(r, "CountSeats")
    /\ IF Cardinality(Seats(req[r].class)) >= Kuota[req[r].class]
       THEN Refuse(r, "full") ELSE Pass(r)

\* Mutant: the credits of the new class are not counted.
SumWithoutClass(r) ==
    LET E == Enrolled(req[r].by, req[r].year)
    IN  /\ At(r, "SumCredits")
        /\ \/ Credits(E) > BatasSKS(seen[r].ipk) /\ Refuse(r, "over_limit")
           \/ /\ Credits(E) <= BatasSKS(seen[r].ipk)
              /\ See(r, [seen[r] EXCEPT !.enrolled = E])
              /\ Proceed(r)

\* Nothing locks the student: enrollments in other classes go on meanwhile.
SumCredits(r) ==
    LET E == Enrolled(req[r].by, req[r].year)
        total == Credits(E) + SKS[req[r].class]
    IN  /\ At(r, "SumCredits")
        /\ \/ total > BatasSKS(seen[r].ipk) /\ Refuse(r, "over_limit")
           \/ /\ total <= BatasSKS(seen[r].ipk)
              /\ See(r, [seen[r] EXCEPT !.enrolled = E])
              /\ Proceed(r)

\* Who inserts the same row holds the same class: UNIQUE has nobody to wait for.
CreateEnrollment(r) ==
    /\ At(r, "CreateEnrollment")
    /\ IF AlreadyEnrolled(r) THEN Refuse(r, "conflict") ELSE Pass(r)

CommitEnrollment(r) ==
    /\ At(r, "CommitEnrollment")
    /\ enrollments' = enrollments \cup {r}
    /\ Reply(r)
    /\ UNCHANGED <<students, attempts, tokens, req, seen>>

FindEnrollment(r) ==
    LET e == req[r].enrollment
    IN  /\ At(r, "FindEnrollment")
        /\ \/ e \notin enrollments /\ Refuse(r, "not_found")
           \/ e \in enrollments /\ req[e].by # req[r].by /\ Refuse(r, "forbidden")
           \/ e \in enrollments /\ req[e].by = req[r].by /\ Pass(r)

DeleteEnrollment(r) ==
    LET e == req[r].enrollment
    IN  /\ At(r, "DeleteEnrollment")
        /\ \/ e \notin enrollments /\ Refuse(r, "not_found")
           \/ /\ e \in enrollments
              /\ enrollments' = enrollments \ {e}
              /\ Reply(r)
              /\ UNCHANGED <<students, attempts, tokens, req, seen>>

-----------------------------------------------------------------------------
\* A statement that fails; the limiter is in memory.
Interrupt(r) ==
    /\ Running(r) /\ pc[r] \notin {"Arrive", "RecordFailure", "Reset", "FindProfile"}
    /\ Refuse(r, "error")

\* The oldest failure leaves the window.
Slide(k) ==
    /\ attempts[k] # <<>>
    /\ attempts' = [attempts EXCEPT ![k] = Tail(@)]
    /\ UNCHANGED <<students, enrollments, tokens, req, pc, seen, answer>>

Statement(r) ==
    \/ Arrive(r) \/ FindByEmail(r) \/ FindByUserID(r) \/ RecordFailure(r) \/ Reset(r)
    \/ FindProfile(r) \/ ExistsByNIM(r) \/ ExistsByEmail(r) \/ CreateUser(r)
    \/ CreateStudent(r) \/ CommitStudent(r) \/ FindByID(r) \/ FindEnrolledCourses(r)
    \/ Update(r) \/ SoftDelete(r) \/ IsAlreadyEnrolled(r) \/ FindForUpdate(r) \/ CountSeats(r)
    \/ SumCredits(r) \/ CreateEnrollment(r) \/ CommitEnrollment(r) \/ FindEnrollment(r)
    \/ DeleteEnrollment(r)

AllAnswered == (\A r \in Requests : ~Running(r)) /\ UNCHANGED vars

Next ==
    \/ \E r \in Requests : Statement(r) \/ Interrupt(r)
    \/ \E k \in Emails \cup {Admin} : Slide(k)
    \/ AllAnswered

Spec == Init /\ [][Next]_vars

-----------------------------------------------------------------------------
(* Properties.                                                              *)

\* No class gets more students than it has seats, whatever registrations and
\* drops overlap: the row lock covers the count, the insert and the commit.
QuotaHolds == \A c \in Classes : Cardinality(Seats(c)) <= Kuota[c]

WithinCredits(s, y, c) == Credits(Enrolled(s, y)) + SKS[c] <= BatasSKS(students[s].ipk)

\* A registration takes a student over his credit limit only when his other
\* registrations, or his IPK, have changed since they were read: the row lock
\* is on the class, and two classes can be taken at a time.
CreditExcessOnlyByOverlap ==
    [][\A r \in enrollments' \ enrollments :
          \/ WithinCredits(req[r].by, req[r].year, req[r].class)
          \/ seen[r].ipk # students[req[r].by].ipk
          \/ seen[r].enrolled # Enrolled(req[r].by, req[r].year)]_vars

\* Of the failures of one minute (since the last success) only the first Limit
\* were told that the password is wrong: logins that had passed the check
\* before the others failed are blocked all the same.
RefusalsWithinLimit ==
    \A k \in Emails \cup {Admin} : \A i \in 1 .. Len(attempts[k]) :
        answer[attempts[k][i]] = "unauthorized" => i <= Limit

\* The student a request acts as: the owner of its token or of its address.
ActsAs(r, s) == IF Op(r) = "login" THEN HasEmail(s, req[r].email) ELSE req[r].by = s

\* Nothing that reaches the server after a student was soft-deleted succeeds in
\* his name: no login, and no request on a token issued before.
DeletedStudentsStayOut ==
    \A r \in Requests, s \in Students :
        Stored(s) /\ ~Live(s) /\ ActsAs(r, s) /\ answer[r] = "ok" => r \in students[s].deletedAt

-----------------------------------------------------------------------------
(* The inductive invariant behind the theorems of SiakadProofs.             *)

Path(op) ==
    CASE op = "login" -> {"FindByEmail", "FindByUserID", "RecordFailure", "Reset"}
      [] op = "me" -> {"FindProfile"}
      [] op = "create" ->
            {"ExistsByNIM", "ExistsByEmail", "CreateUser", "CreateStudent", "CommitStudent"}
      [] op = "get" -> {"FindByID", "FindEnrolledCourses"}
      [] op = "update" -> {"FindByID", "Update"}
      [] op = "delete" -> {"FindByID", "SoftDelete"}
      [] op = "enroll" -> {"FindByID", "IsAlreadyEnrolled", "FindForUpdate"} \cup InClass
      [] op = "drop" -> {"FindEnrollment", "DeleteEnrollment"}

Outcomes == {"none", "ok", "error", "unauthorized", "forbidden", "blocked", "invalid",
    "not_found", "conflict", "full", "over_limit"}

\* Type invariant of the tables, the limiter and the requests.
TypeOK ==
    /\ students \in [Students -> Row \cup {None}]
    /\ enrollments \subseteq Requests
    /\ attempts \in [Emails \cup {Admin} -> Seq(Requests)]
    /\ req \in [Requests -> Inputs]
    /\ \A r \in Requests : pc[r] \in {"Arrive", "Done"} \cup Path(Op(r))
    /\ pc = [r \in Requests |-> pc[r]]
    /\ seen \in [Requests -> Snapshot \cup {None}]
    /\ answer \in [Requests -> Outcomes]

\* What a request has shown, and read, by the time it reaches a statement.
Prepared(r) ==
    /\ pc[r] # "Done" => answer[r] = "none" /\ students[r] = None /\ r \notin enrollments
    /\ Op(r) # "login" /\ pc[r] \notin {"Arrive", "Done"} => Allowed(req[r].by, req[r])
    /\ At(r, "FindByUserID") =>
          seen[r] # None /\ seen[r].id \in Students /\ HasEmail(seen[r].id, req[r].email)
    /\ At(r, "Reset") => seen[r] # None
    /\ pc[r] \in {"IsAlreadyEnrolled", "FindForUpdate"} \cup InClass => seen[r] # None
    /\ pc[r] \in {"CreateEnrollment", "CommitEnrollment"} =>
          Credits(seen[r].enrolled) + SKS[req[r].class] <= BatasSKS(seen[r].ipk)

\* The class a registration has locked is its own, and has a seat once counted.
Room(r) ==
    /\ r \in enrollments => Op(r) = "enroll"
    /\ pc[r] \in InClass => \A q \in Requests : HoldsClass(q, req[r].class) => q = r
    /\ pc[r] \in InClass \ {"CountSeats"} =>
          Cardinality(Seats(req[r].class)) < Kuota[req[r].class]

\* The address a new account has inserted is its own.
Mail(r) ==
    pc[r] \in {"CreateStudent", "CommitStudent"} =>
        /\ \A s \in Students : ~HasEmail(s, req[r].email)
        /\ \A q \in Requests : HoldsEmail(q, req[r].email) => q = r

StaysOut(r) ==
    \A s \in Students :
        Stored(s) /\ ~Live(s) /\ ActsAs(r, s) /\ r \notin students[s].deletedAt =>
            /\ answer[r] # "ok" /\ ~At(r, "Reset")
            /\ Op(r) # "login" => pc[r] \in {"Arrive", "Done"}

Limiter ==
    /\ RefusalsWithinLimit
    /\ \A k \in Emails \cup {Admin} : \A i \in 1 .. Len(attempts[k]) : pc[attempts[k][i]] = "Done"

EmailsUnique ==
    \A s, t \in Students :
        Stored(s) /\ Stored(t) /\ students[s].email = students[t].email => s = t

IInv ==
    /\ TypeOK /\ QuotaHolds /\ Limiter /\ EmailsUnique
    /\ \A r \in Requests : Prepared(r) /\ Room(r) /\ Mail(r) /\ StaysOut(r)
=============================================================================
