------------------------------- MODULE Students -------------------------------
(***************************************************************************)
(* Students of api-students: the list, and the five operations on one of   *)
(* them.  A student belongs to the user who created him; the owner, or who *)
(* may act on anybody's data, can read and change him.                     *)
(***************************************************************************)
EXTENDS Service

CONSTANTS
    NIMs,           \* student numbers
    Times,          \* values of created_at
    SeedStudents    \* rows that are there at the start

Student == [id : Nat, nim : NIMs, active : BOOLEAN, owner : Users \cup {None}, at : Times]

StudentInput ==
    [op : {"list_students"}, by : Users]
    \cup [op : {"get_student", "delete_student"}, by : Users, id : Nat]
    \cup [op : {"create_student"}, by : Users, nim : NIMs, active : BOOLEAN]
    \cup [op : {"replace_student"}, by : Users, id : Nat, nim : NIMs, active : BOOLEAN]
    \cup [op : {"patch_student"}, by : Users, id : Nat,
          nim : NIMs \cup {None}, active : BOOLEAN \cup {None}]

ASSUME NoStudentIsNone == None \notin Student /\ None \notin NIMs \cup BOOLEAN
ASSUME TimesValid == Times \subseteq Nat
ASSUME SeedStudentsValid ==
    /\ SeedStudents \subseteq Student /\ IsFiniteSet(SeedStudents)
    /\ \A s \in SeedStudents : s.id \in 1 .. Cardinality(SeedStudents)
    /\ \A s, t \in SeedStudents : s.id = t.id => s = t

VARIABLES
    students,       \* table students
    nextStudent,    \* next value of its sequence
    row             \* student a request has read

studentVars == <<students, nextStudent, row>>

StudentInit ==
    /\ students = SeedStudents
    /\ nextStudent = Cardinality(SeedStudents) + 1
    /\ row = [r \in Requests |-> None]

WithId(id) == {s \in students : s.id = id}

Put(s) == students' = {t \in students : t.id # s.id} \cup {s}

PassStudent(r, next) == Goto(r, next) /\ UNCHANGED studentVars
RefuseStudent(r, outcome) == Answer(r, outcome) /\ UNCHANGED studentVars

-----------------------------------------------------------------------------
(* What RequirePermission can decide without looking at the student.        *)

Needed(op) ==
    CASE op = "list_students" -> "student:list"
      [] op = "create_student" -> "student:create"
      [] op = "delete_student" -> "student:delete"

ArriveStudent(r) ==
    LET in == req[r]
    IN  /\ At(r, "Arrive")
        /\ \/ /\ in.op \in {"list_students", "create_student", "delete_student"}
              /\ ~Can(in.by, Needed(in.op))
              /\ RefuseStudent(r, "forbidden")
           \/ /\ in.op = "list_students" /\ Can(in.by, "student:list")
              /\ Begin(r, "FindAfterCursor", nextStudent)
              /\ UNCHANGED studentVars
           \/ /\ in.op = "create_student" /\ Can(in.by, "student:create")
              /\ PassStudent(r, "InsertStudent")
           \/ /\ in.op = "delete_student" /\ Can(in.by, "student:delete")
              /\ PassStudent(r, "DeleteStudent")
           \/ /\ in.op \in {"get_student", "replace_student", "patch_student"}
              /\ PassStudent(r, "FindStudent")

StudentKeys == {[id |-> s.id, at |-> s.at] : s \in students}

FindAfterCursor(r) ==
    /\ At(r, "FindAfterCursor")
    /\ ReadPage(r, StudentKeys)
    /\ UNCHANGED studentVars

CanAccessStudent(u, owner, permission) == u = owner \/ Can(u, permission)

\* Reading is the whole of a GET; PUT and PATCH go on to write.
FindStudent(r) ==
    LET in == req[r]
        permission == IF in.op = "get_student" THEN "student:read:any" ELSE "student:update:any"
    IN  /\ At(r, "FindStudent")
        /\ \/ WithId(in.id) = {} /\ RefuseStudent(r, "not_found")
           \/ \E s \in WithId(in.id) :
                /\ ~CanAccessStudent(in.by, s.owner, permission)
                /\ RefuseStudent(r, "forbidden")
           \/ \E s \in WithId(in.id) :
                /\ CanAccessStudent(in.by, s.owner, permission)
                /\ IF in.op = "get_student" THEN Answer(r, "ok") ELSE Goto(r, "UpdateStudent")
                /\ row' = [row EXCEPT ![r] = s]
                /\ UNCHANGED <<students, nextStudent>>

ApplyPatchStudent(s, in) ==
    [s EXCEPT !.nim = IF in.nim = None THEN @ ELSE in.nim,
              !.active = IF in.active = None THEN @ ELSE in.active]

Written(r) == IF req[r].op = "patch_student" THEN ApplyPatchStudent(row[r], req[r]) ELSE req[r]

\* The statement sets the columns of the body, all of them, and never the owner.
UpdateStudent(r) ==
    LET in == req[r]
    IN  /\ At(r, "UpdateStudent")
        /\ \/ WithId(in.id) = {} /\ RefuseStudent(r, "not_found")
           \/ /\ WithId(in.id) # {}
              /\ \E t \in students : t.id # in.id /\ t.nim = Written(r).nim
              /\ RefuseStudent(r, "conflict")
           \/ \E s \in WithId(in.id) :
                /\ \A t \in students : t.id # in.id => t.nim # Written(r).nim
                /\ Put([s EXCEPT !.nim = Written(r).nim, !.active = Written(r).active])
                /\ Reply(r)
                /\ UNCHANGED <<nextStudent, row>>

\* NOW() was taken when the statement began: rows become visible in any order
\* of created_at.  The owner is a foreign key, and his account may be gone.
InsertStudent(r) ==
    LET in == req[r]
    IN  /\ At(r, "InsertStudent")
        /\ \/ (\E t \in students : t.nim = in.nim) /\ RefuseStudent(r, "conflict")
           \/ /\ in.by \notin users /\ (\A t \in students : t.nim # in.nim)
              /\ RefuseStudent(r, "error")
           \/ /\ in.by \in users /\ (\A t \in students : t.nim # in.nim)
              /\ \E t \in Times :
                    students' = students \cup {[id |-> nextStudent, nim |-> in.nim,
                        active |-> in.active, owner |-> in.by, at |-> t]}
              /\ nextStudent' = nextStudent + 1
              /\ Reply(r)
              /\ UNCHANGED row

DeleteStudent(r) ==
    LET id == req[r].id
    IN  /\ At(r, "DeleteStudent")
        /\ \/ WithId(id) = {} /\ RefuseStudent(r, "not_found")
           \/ /\ WithId(id) # {}
              /\ students' = students \ WithId(id)
              /\ Reply(r)
              /\ UNCHANGED <<nextStudent, row>>

\* ON DELETE SET NULL.
Disown(u) ==
    /\ students' = {IF s.owner = u THEN [s EXCEPT !.owner = None] ELSE s : s \in students}
    /\ UNCHANGED <<nextStudent, row>>

StudentStatement(r) ==
    \/ ArriveStudent(r) \/ FindAfterCursor(r) \/ FindStudent(r)
    \/ UpdateStudent(r) \/ InsertStudent(r) \/ DeleteStudent(r)
=============================================================================
