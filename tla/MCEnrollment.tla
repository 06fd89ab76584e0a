---------------------------- MODULE MCEnrollment ----------------------------
(***************************************************************************)
(* Small instances of Enrollment.                                          *)
(***************************************************************************)
EXTENDS Enrollment, TLC

\* Course 3 weighs twice as much: 1 and 2 together fill the limit of 2
\* credits, so does 3 alone, and a swap from 1 to 3 may exceed it.
MCCredits == [c \in Courses |-> IF c = 3 THEN 2 ELSE 1]

OneSeat == [c \in Courses |-> 1]
TwoSeats == [c \in Courses |-> 2]

EnrollInputs == [op : {"enroll"}, user : Students, course : CourseIds]
DropInputs == [op : {"drop"}, user : Students, course : CourseIds]
SwapInputs == {i \in [op : {"swap"}, user : Students, from : CourseIds, course : CourseIds] :
                 i.from # i.course}
QuotaInputs == [op : {"quota"}, course : CourseIds, quota : Quotas, version : 1..2]

StudentInputs == EnrollInputs \cup DropInputs \cup SwapInputs

\* Course 2 does not exist in the instance that uses these inputs: one request
\* of each kind names it.
AdminInputs ==
    {i \in EnrollInputs \cup DropInputs \cup QuotaInputs : i.course \in Courses}
    \cup {CHOOSE i \in EnrollInputs : i.course \notin Courses,
          CHOOSE i \in QuotaInputs : i.course \notin Courses,
          CHOOSE i \in SwapInputs : i.course \notin Courses}

Symmetry == Permutations(Requests) \cup Permutations(Students)
RequestSymmetry == Permutations(Requests)
=============================================================================
