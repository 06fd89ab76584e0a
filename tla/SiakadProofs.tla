---------------------------- MODULE SiakadProofs ----------------------------
(***************************************************************************)
(* Proofs about Siakad, for every set of requests, students and classes,   *)
(* every quota and every limit.                                            *)
(***************************************************************************)
EXTENDS Siakad, FiniteSetTheorems, TLAPS

-----------------------------------------------------------------------------
(* Operators.                                                               *)

Ops == {"login", "me", "create", "get", "update", "delete", "enroll", "drop"}

LEMMA OpOf ==
    ASSUME TypeOK, NEW r \in Requests
    PROVE  req[r] \in Input /\ Op(r) \in Ops
<1>1. req[r] \in Input BY InputsValid DEF TypeOK
<1> QED BY <1>1 DEF Input, Op, Ops

\* The statement after the one a request has reached.
LEMMA NextAt ==
    ASSUME TypeOK, NEW r \in Requests
    PROVE  LET next == Script(Op(r))[pc[r]] IN
           /\ pc[r] = "Arrive" => next \in {"FindByEmail", "FindProfile", "ExistsByNIM", "FindByID",
                                            "FindEnrollment"} \cap Path(Op(r))
           /\ pc[r] = "FindByEmail" => next = "FindByUserID" /\ Op(r) = "login"
           /\ pc[r] = "FindByUserID" => next = "Reset" /\ Op(r) = "login"
           /\ pc[r] = "ExistsByNIM" => next = "ExistsByEmail" /\ Op(r) = "create"
           /\ pc[r] = "ExistsByEmail" => next = "CreateUser" /\ Op(r) = "create"
           /\ pc[r] = "CreateUser" => next = "CreateStudent" /\ Op(r) = "create"
           /\ pc[r] = "CreateStudent" => next = "CommitStudent" /\ Op(r) = "create"
           /\ pc[r] = "FindByID" =>
                 next = (CASE Op(r) = "get" -> "FindEnrolledCourses" [] Op(r) = "update" -> "Update"
                           [] Op(r) = "delete" -> "SoftDelete" [] Op(r) = "enroll" -> "IsAlreadyEnrolled")
                 /\ Op(r) \in {"get", "update", "delete", "enroll"}
           /\ pc[r] = "IsAlreadyEnrolled" => next = "FindForUpdate" /\ Op(r) = "enroll"
           /\ pc[r] = "FindForUpdate" => next = "CountSeats" /\ Op(r) = "enroll"
           /\ pc[r] = "CountSeats" => next = "SumCredits" /\ Op(r) = "enroll"
           /\ pc[r] = "SumCredits" => next = "CreateEnrollment" /\ Op(r) = "enroll"
           /\ pc[r] = "CreateEnrollment" => next = "CommitEnrollment" /\ Op(r) = "enroll"
           /\ pc[r] = "FindEnrollment" => next = "DeleteEnrollment" /\ Op(r) = "drop"
<1>1. Op(r) \in Ops /\ pc[r] \in {"Arrive", "Done"} \cup Path(Op(r)) BY OpOf DEF TypeOK
<1>2. CASE Op(r) = "login" BY <1>1, <1>2 DEF Path, Script, LoginScript
<1>3. CASE Op(r) = "me" BY <1>1, <1>3 DEF Path, Script, MeScript
<1>4. CASE Op(r) = "create" BY <1>1, <1>4 DEF Path, Script, CreateScript
<1>5. CASE Op(r) = "get" BY <1>1, <1>5 DEF Path, Script, GetDetailScript
<1>6. CASE Op(r) = "update" BY <1>1, <1>6 DEF Path, Script, UpdateScript
<1>7. CASE Op(r) = "delete" BY <1>1, <1>7 DEF Path, Script, SoftDeleteScript
<1>8. CASE Op(r) = "enroll" BY <1>1, <1>8 DEF Path, Script, EnrollScript, InClass
<1>9. CASE Op(r) = "drop" BY <1>1, <1>9 DEF Path, Script, DropScript
<1> QED BY <1>1, <1>2, <1>3, <1>4, <1>5, <1>6, <1>7, <1>8, <1>9 DEF Ops

\* Which requests reach which statement.
LEMMA OpAt ==
    ASSUME TypeOK, NEW r \in Requests
    PROVE  /\ pc[r] \in {"FindByEmail", "FindByUserID", "RecordFailure", "Reset"} => Op(r) = "login"
           /\ pc[r] = "FindProfile" => Op(r) = "me"
           /\ pc[r] \in {"ExistsByNIM", "ExistsByEmail", "CreateUser", "CreateStudent", "CommitStudent"}
                => Op(r) = "create"
           /\ pc[r] = "FindEnrolledCourses" => Op(r) = "get"
           /\ pc[r] = "Update" => Op(r) = "update"
           /\ pc[r] = "SoftDelete" => Op(r) = "delete"
           /\ pc[r] \in {"IsAlreadyEnrolled", "FindForUpdate"} \cup InClass => Op(r) = "enroll"
           /\ pc[r] \in {"FindEnrollment", "DeleteEnrollment"} => Op(r) = "drop"
BY OpOf DEF TypeOK, Path, Ops, InClass

-----------------------------------------------------------------------------
(* Steps that change no table.                                              *)

Mine(r) == Prepared(r) /\ Room(r) /\ Mail(r) /\ StaysOut(r)

\* A request that reads, waits or gives up: only its own part of the invariant
\* is at stake.
LEMMA QuietKeeps ==
    ASSUME IInv, NEW r \in Requests, pc[r] # "Done",
           TypeOK', Mine(r)',
           UNCHANGED <<students, enrollments, attempts, req>>,
           \A q \in Requests \ {r} :
              pc'[q] = pc[q] /\ seen'[q] = seen[q] /\ answer'[q] = answer[q]
    PROVE  IInv'
<1>1. QuotaHolds' /\ EmailsUnique'
  BY DEF IInv, QuotaHolds, Seats, EmailsUnique, Stored
<1>2. Limiter'
  <2>1. ASSUME NEW k \in Emails \cup {Admin}, NEW i \in 1 .. Len(attempts[k])
        PROVE  attempts[k][i] \in Requests \ {r}
    BY <2>1 DEF IInv, TypeOK, Limiter
  <2> QED BY <2>1 DEF IInv, Limiter, RefusalsWithinLimit
<1>3. ASSUME NEW q \in Requests \ {r}
      PROVE  Mine(q)'
  <2>1. Prepared(q)'
    BY DEF IInv, Prepared, At, Op, HasEmail, Stored, Credits
  <2>2. Room(q)'
    BY DEF IInv, Mine, Room, HoldsClass, Seats, Op
  <2>3. Mail(q)'
    BY DEF IInv, Mine, Mail, HoldsEmail, HasEmail, Stored
  <2>4. StaysOut(q)'
    BY DEF IInv, StaysOut, Stored, Live, ActsAs, HasEmail, At, Op
  <2> QED BY <2>1, <2>2, <2>3, <2>4 DEF Mine
<1> QED BY <1>1, <1>2, <1>3 DEF IInv, Mine

\* A request that is refused, or answered by a statement that only reads.
LEMMA RefuseKeeps ==
    ASSUME IInv, NEW r \in Requests, NEW o \in Outcomes, pc[r] # "Done", Refuse(r, o),
           o = "ok" => pc[r] # "Arrive" /\ Op(r) # "login"
    PROVE  IInv'
<1> USE DEF Refuse, Answer
<1>1. TypeOK'
  BY DEF IInv, TypeOK, Op
<1>2. /\ pc'[r] = "Done" /\ answer'[r] = o
      /\ \A q \in Requests \ {r} : pc'[q] = pc[q] /\ answer'[q] = answer[q]
  BY DEF IInv, TypeOK
<1>3. Prepared(r)' /\ Mail(r)' /\ Room(r)'
  BY <1>2 DEF IInv, Prepared, Mail, Room, At, Op, InClass
<1>4. StaysOut(r)'
  BY <1>2 DEF IInv, StaysOut, Stored, Live, ActsAs, HasEmail, At, Op
<1> QED BY <1>1, <1>2, <1>3, <1>4, QuietKeeps DEF Mine

\* A request that goes on, with what it has read.
LEMMA MoveKeeps ==
    ASSUME IInv, NEW r \in Requests, pc[r] # "Done",
           NEW next \in Path(Op(r)), Goto(r, next),
           NEW x \in Snapshot \cup {None}, seen' = [seen EXCEPT ![r] = x],
           UNCHANGED <<students, enrollments, attempts, req>>,
           pc[r] = "Arrive" /\ Op(r) # "login" =>
              Authenticate(req[r].by) /\ Allowed(req[r].by, req[r]),
           next = "FindByUserID" => x # None /\ x.id \in Students /\ HasEmail(x.id, req[r].email),
           next = "Reset" => x # None /\ \A s \in Students : HasEmail(s, req[r].email) => Live(s),
           next \in {"IsAlreadyEnrolled", "FindForUpdate"} \cup InClass => x # None,
           next \in {"CreateEnrollment", "CommitEnrollment"} =>
              Credits(x.enrolled) + SKS[req[r].class] <= BatasSKS(x.ipk),
           next \in InClass => \A q \in Requests \ {r} : ~HoldsClass(q, req[r].class),
           next \in InClass \ {"CountSeats"} => Cardinality(Seats(req[r].class)) < Kuota[req[r].class],
           next \in {"CreateStudent", "CommitStudent"} =>
              /\ \A s \in Students : ~HasEmail(s, req[r].email)
              /\ \A q \in Requests \ {r} : ~HoldsEmail(q, req[r].email)
    PROVE  IInv'
<1> USE DEF Goto
<1>1. TypeOK'
  BY DEF IInv, TypeOK, Op
<1>2. /\ pc'[r] = next /\ seen'[r] = x /\ answer'[r] = answer[r]
      /\ \A q \in Requests \ {r} :
            pc'[q] = pc[q] /\ seen'[q] = seen[q] /\ answer'[q] = answer[q]
  BY DEF IInv, TypeOK
<1>3. next # "Done" /\ next # "Arrive"
  BY OpOf DEF IInv, Path, InClass, Ops
<1>4. Prepared(r)'
  BY <1>2, <1>3 DEF IInv, Prepared, At, Op, Credits, HasEmail, Stored, Allowed
<1>5. Room(r)'
  BY <1>2 DEF IInv, Room, HoldsClass, Seats, Op
<1>6. Mail(r)'
  BY <1>2 DEF Mail, HoldsEmail, HasEmail, Stored
<1>7. StaysOut(r)'
  <2> SUFFICES ASSUME NEW s \in Students, Stored(s), ~Live(s), ActsAs(r, s),
                      r \notin students[s].deletedAt
               PROVE  answer[r] # "ok" /\ next # "Reset" /\ Op(r) = "login"
    BY <1>2 DEF StaysOut, Stored, Live, ActsAs, HasEmail, At, Op
  <2>1. answer[r] = "none" /\ StaysOut(r) BY DEF IInv, Prepared
  <2>2. CASE Op(r) = "login" BY <2>1, <2>2 DEF ActsAs
  <2>3. CASE Op(r) # "login"
    <3>1. pc[r] = "Arrive" BY <2>1, <2>3 DEF StaysOut
    <3>2. Live(s) BY <2>3, <3>1, NamesApart DEF Authenticate, ActsAs
    <3> QED BY <3>2
  <2> QED BY <2>2, <2>3
<1> QED BY <1>1, <1>2, <1>4, <1>5, <1>6, <1>7, QuietKeeps DEF Mine

\* A statement that only reads and is passed, into a statement without claims.
LEMMA PassKeeps ==
    ASSUME IInv, NEW r \in Requests, pc[r] # "Done", Pass(r),
           Script(Op(r))[pc[r]] \in {"FindByEmail", "FindProfile", "ExistsByNIM", "FindByID",
               "FindEnrollment", "ExistsByEmail", "CreateUser", "DeleteEnrollment"} \cap Path(Op(r)),
           pc[r] = "Arrive" /\ Op(r) # "login" =>
              Authenticate(req[r].by) /\ Allowed(req[r].by, req[r])
    PROVE  IInv'
<1> DEFINE next == Script(Op(r))[pc[r]]
<1>1. Goto(r, next) BY DEF Pass, Proceed
<1>2. seen' = [seen EXCEPT ![r] = seen[r]] /\ seen[r] \in Snapshot \cup {None}
  BY DEF Pass, IInv, TypeOK
<1>3. UNCHANGED <<students, enrollments, attempts, req>> BY DEF Pass
<1>4. next \in Path(Op(r)) OBVIOUS
<1>5. next \notin {"FindByUserID", "Reset", "IsAlreadyEnrolled", "FindForUpdate", "CreateStudent",
                   "CommitStudent"} \cup InClass
  BY DEF InClass
<1> HIDE DEF next
<1> QED BY <1>1, <1>2, <1>3, <1>4, <1>5, MoveKeeps DEF InClass

LEMMA ArriveKeeps ==
    ASSUME IInv, NEW r \in Requests, Arrive(r)
    PROVE  IInv'
<1>0. pc[r] = "Arrive" BY DEF Arrive, At
<1>1. ASSUME NEW o \in {"blocked", "unauthorized", "forbidden"}, Refuse(r, o) PROVE IInv'
  BY <1>0, <1>1, RefuseKeeps DEF Outcomes
<1>2. CASE Pass(r) /\ (Op(r) # "login" => Authenticate(req[r].by) /\ Allowed(req[r].by, req[r]))
  <2>1. Script(Op(r))[pc[r]] \in {"FindByEmail", "FindProfile", "ExistsByNIM", "FindByID",
            "FindEnrollment", "ExistsByEmail", "CreateUser", "DeleteEnrollment"} \cap Path(Op(r))
    BY <1>0, NextAt DEF IInv
  <2> QED BY <1>0, <1>2, <2>1, PassKeeps
<1> QED BY <1>1, <1>2 DEF Arrive

LEMMA FailKeeps ==
    ASSUME IInv, NEW r \in Requests, pc[r] \in {"FindByEmail", "FindByUserID"}, Fail(r)
    PROVE  IInv'
<1>1. Op(r) = "login" BY OpAt DEF IInv
<1>2. "RecordFailure" \in Path(Op(r)) BY <1>1 DEF Path
<1>3. seen' = [seen EXCEPT ![r] = seen[r]] /\ seen[r] \in Snapshot \cup {None}
  BY DEF Fail, IInv, TypeOK
<1>4. Goto(r, "RecordFailure") /\ UNCHANGED <<students, enrollments, attempts, req>> BY DEF Fail
<1> QED BY <1>1, <1>2, <1>3, <1>4, MoveKeeps DEF InClass

LEMMA FindByEmailKeeps ==
    ASSUME IInv, NEW r \in Requests, FindByEmail(r)
    PROVE  IInv'
<1>0. pc[r] = "FindByEmail" BY DEF FindByEmail, At
<1>1. Op(r) = "login" /\ req[r] \in Input BY <1>0, OpAt, OpOf DEF IInv
<1>2. CASE Fail(r) BY <1>0, <1>2, FailKeeps
<1>3. ASSUME NEW u \in Students \cup {Admin},
             IF u = Admin THEN req[r].email = Admin ELSE HasEmail(u, req[r].email),
             See(r, [id |-> u, ipk |-> None, enrolled |-> {}]),
             IF u = Admin THEN Goto(r, "Reset") ELSE Proceed(r)
      PROVE  IInv'
  <2> DEFINE x == [id |-> u, ipk |-> None, enrolled |-> {}]
  <2>1. x \in Snapshot /\ x # None /\ x.id = u
    BY NoneIsFresh DEF Snapshot, Ipk
  <2>2. seen' = [seen EXCEPT ![r] = x] /\ UNCHANGED <<students, enrollments, attempts, req>>
    BY <1>3 DEF See
  <2> HIDE DEF x
  <2>3. CASE u = Admin
    <3>1. \A s \in Students : ~HasEmail(s, req[r].email)
      <4> SUFFICES ASSUME NEW s \in Students, Stored(s) PROVE students[s].email # Admin
        BY <1>3, <2>3 DEF HasEmail
      <4>1. students[s] \in Row BY DEF Stored, IInv, TypeOK
      <4> QED BY <4>1, NamesApart DEF Row
    <3>2. "Reset" \in Path(Op(r)) BY <1>1 DEF Path
    <3>3. Goto(r, "Reset") BY <1>3, <2>3
    <3> QED BY <1>0, <1>1, <2>1, <2>2, <3>1, <3>2, <3>3, MoveKeeps DEF InClass
  <2>4. CASE u # Admin
    <3>1. Script(Op(r))[pc[r]] = "FindByUserID" BY <1>0, NextAt DEF IInv
    <3>2. "FindByUserID" \in Path(Op(r)) BY <1>1 DEF Path
    <3>3. Goto(r, "FindByUserID") BY <1>3, <2>4, <3>1 DEF Proceed
    <3>4. u \in Students /\ HasEmail(u, req[r].email) BY <1>3, <2>4
    <3> QED BY <1>0, <1>1, <2>1, <2>2, <3>2, <3>3, <3>4, MoveKeeps DEF InClass
  <2> QED BY <2>3, <2>4
<1> QED BY <1>2, <1>3 DEF FindByEmail

\* Only one student has the address, and he is not soft-deleted.
LEMMA FindByUserIDKeeps ==
    ASSUME IInv, NEW r \in Requests, FindByUserID(r)
    PROVE  IInv'
<1>0. pc[r] = "FindByUserID" BY DEF FindByUserID, At
<1>1. Op(r) = "login" BY <1>0, OpAt DEF IInv
<1>2. CASE Fail(r) BY <1>0, <1>2, FailKeeps
<1>3. CASE Live(seen[r].id) /\ Pass(r)
  <2>1. seen[r] # None /\ seen[r].id \in Students /\ HasEmail(seen[r].id, req[r].email)
    BY <1>0 DEF IInv, Prepared, At
  <2>2. \A s \in Students : HasEmail(s, req[r].email) => Live(s)
    BY <1>3, <2>1 DEF IInv, EmailsUnique, HasEmail, Live
  <2>3. Script(Op(r))[pc[r]] = "Reset" BY <1>0, NextAt DEF IInv
  <2>4. Goto(r, "Reset") BY <1>3, <2>3 DEF Pass, Proceed
  <2>5. seen' = [seen EXCEPT ![r] = seen[r]] /\ seen[r] \in Snapshot \cup {None}
    BY <1>3 DEF Pass, IInv, TypeOK
  <2>6. UNCHANGED <<students, enrollments, attempts, req>> BY <1>3 DEF Pass
  <2>7. "Reset" \in Path(Op(r)) BY <1>1 DEF Path
  <2> QED BY <1>0, <1>1, <2>1, <2>2, <2>4, <2>5, <2>6, <2>7, MoveKeeps DEF InClass
<1> QED BY <1>2, <1>3 DEF FindByUserID

LEMMA ReadOnlyKeeps ==
    ASSUME IInv, NEW r \in Requests, FindProfile(r) \/ FindEnrolledCourses(r)
    PROVE  IInv'
<1>1. pc[r] \in {"FindProfile", "FindEnrolledCourses"} /\ Refuse(r, "ok")
  BY DEF FindProfile, FindEnrolledCourses, At
<1>2. Op(r) # "login" BY <1>1, OpAt DEF IInv
<1> QED BY <1>1, <1>2, RefuseKeeps DEF Outcomes

LEMMA InterruptKeeps ==
    ASSUME IInv, NEW r \in Requests, Interrupt(r)
    PROVE  IInv'
BY RefuseKeeps DEF Interrupt, Running, Outcomes

LEMMA ExistsKeeps ==
    ASSUME IInv, NEW r \in Requests, ExistsByNIM(r) \/ ExistsByEmail(r)
    PROVE  IInv'
<1>0. pc[r] \in {"ExistsByNIM", "ExistsByEmail"} BY DEF ExistsByNIM, ExistsByEmail, At
<1>1. CASE Refuse(r, "invalid") BY <1>0, <1>1, RefuseKeeps DEF Outcomes
<1>2. CASE Pass(r)
  <2>1. Script(Op(r))[pc[r]] \in {"ExistsByEmail", "CreateUser"} /\ Op(r) = "create"
    BY <1>0, NextAt DEF IInv
  <2>2. Script(Op(r))[pc[r]] \in Path(Op(r)) BY <2>1 DEF Path
  <2> QED BY <1>0, <1>2, <2>1, <2>2, PassKeeps
<1> QED BY <1>1, <1>2 DEF ExistsByNIM, ExistsByEmail

\* UNIQUE: nobody has the address, nobody else is about to.
LEMMA CreateKeeps ==
    ASSUME IInv, NEW r \in Requests, CreateUser(r) \/ CreateStudent(r)
    PROVE  IInv'
<1>0. pc[r] \in {"CreateUser", "CreateStudent"} BY DEF CreateUser, CreateStudent, At
<1>1. CASE Refuse(r, "invalid") BY <1>0, <1>1, RefuseKeeps DEF Outcomes
<1>2. CASE /\ Pass(r)
           /\ pc[r] = "CreateUser" =>
                /\ \A s \in Students : ~HasEmail(s, req[r].email)
                /\ \A q \in Requests : ~HoldsEmail(q, req[r].email)
  <2> DEFINE next == Script(Op(r))[pc[r]]
  <2>1. next \in {"CreateStudent", "CommitStudent"} /\ Op(r) = "create"
    BY <1>0, NextAt DEF IInv
  <2>2. next \in Path(Op(r)) BY <2>1 DEF Path
  <2>3. /\ \A s \in Students : ~HasEmail(s, req[r].email)
        /\ \A q \in Requests \ {r} : ~HoldsEmail(q, req[r].email)
    BY <1>0, <1>2 DEF IInv, Mail
  <2>4. Goto(r, next) /\ UNCHANGED <<students, enrollments, attempts, req>>
    BY <1>2 DEF Pass, Proceed
  <2>5. seen' = [seen EXCEPT ![r] = seen[r]] /\ seen[r] \in Snapshot \cup {None}
    BY <1>2 DEF Pass, IInv, TypeOK
  <2> HIDE DEF next
  <2> QED BY <1>0, <2>1, <2>2, <2>3, <2>4, <2>5, MoveKeeps DEF InClass
<1> QED BY <1>0, <1>1, <1>2 DEF CreateUser, CreateStudent, At

LEMMA FindByIDKeeps ==
    ASSUME IInv, NEW r \in Requests, FindByID(r)
    PROVE  IInv'
<1>0. pc[r] = "FindByID" BY DEF FindByID, At
<1>1. CASE Refuse(r, "not_found") BY <1>0, <1>1, RefuseKeeps DEF Outcomes
<1>2. CASE /\ Live(Target(r))
           /\ See(r, [id |-> Target(r), ipk |-> students[Target(r)].ipk, enrolled |-> {}])
           /\ Proceed(r)
  <2> DEFINE x == [id |-> Target(r), ipk |-> students[Target(r)].ipk, enrolled |-> {}]
             next == Script(Op(r))[pc[r]]
  <2>1. Op(r) \in {"get", "update", "delete", "enroll"}
        /\ next \in {"FindEnrolledCourses", "Update", "SoftDelete", "IsAlreadyEnrolled"}
        /\ next \in Path(Op(r))
    BY <1>0, NextAt DEF IInv, Path
  <2>2. Target(r) \in Students
    <3>1. Allowed(req[r].by, req[r]) BY <1>0, <2>1 DEF IInv, Prepared
    <3> QED BY <2>1, <3>1, OpOf DEF IInv, Allowed, Target, Op, Input
  <2>3. x \in Snapshot /\ x # None
    <3>1. students[Target(r)] \in Row BY <1>2, <2>2 DEF IInv, TypeOK, Live, Stored
    <3>2. x \in Snapshot BY <2>2, <3>1 DEF Row, Snapshot
    <3> QED BY <3>2, NoneIsFresh
  <2>4. /\ seen' = [seen EXCEPT ![r] = x] /\ Goto(r, next)
        /\ UNCHANGED <<students, enrollments, attempts, req>>
    BY <1>2 DEF See, Proceed
  <2> HIDE DEF x, next
  <2> QED BY <1>0, <2>1, <2>3, <2>4, MoveKeeps DEF InClass
<1> QED BY <1>1, <1>2 DEF FindByID

\* From one statement of a registration to the next one.
LEMMA EnrollMoveKeeps ==
    ASSUME IInv, NEW r \in Requests,
           pc[r] \in {"IsAlreadyEnrolled", "FindForUpdate"} \cup (InClass \ {"CommitEnrollment"}),
           Proceed(r),
           NEW x \in Snapshot, seen' = [seen EXCEPT ![r] = x], x # None,
           UNCHANGED <<students, enrollments, attempts, req>>,
           pc[r] = "FindForUpdate" => \A q \in Requests : ~HoldsClass(q, req[r].class),
           pc[r] = "CountSeats" => Cardinality(Seats(req[r].class)) < Kuota[req[r].class],
           pc[r] \in {"SumCredits", "CreateEnrollment"} =>
              Credits(x.enrolled) + SKS[req[r].class] <= BatasSKS(x.ipk)
    PROVE  IInv'
<1> DEFINE next == Script(Op(r))[pc[r]]
<1>1. Op(r) = "enroll" BY OpAt DEF IInv
<1>2. next \in {"FindForUpdate"} \cup InClass
  BY NextAt DEF IInv, InClass
<1>3. next \in Path(Op(r)) BY <1>1, <1>2 DEF Path
<1>4. Goto(r, next) BY DEF Proceed
<1>5. next \in InClass => \A q \in Requests \ {r} : ~HoldsClass(q, req[r].class)
  BY NextAt DEF IInv, Room, InClass
<1>6. next \in InClass \ {"CountSeats"} => Cardinality(Seats(req[r].class)) < Kuota[req[r].class]
  BY NextAt DEF IInv, Room, InClass
<1>7. next \in {"CreateEnrollment", "CommitEnrollment"} =>
         Credits(x.enrolled) + SKS[req[r].class] <= BatasSKS(x.ipk)
  BY NextAt DEF IInv, InClass
<1>8. next \notin {"FindByUserID", "Reset", "CreateStudent", "CommitStudent"} BY <1>2 DEF InClass
<1>9. pc[r] \notin {"Done", "Arrive"} BY DEF InClass
<1> HIDE DEF next
<1> QED BY <1>3, <1>4, <1>5, <1>6, <1>7, <1>8, <1>9, MoveKeeps

LEMMA EnrollPassKeeps ==
    ASSUME IInv, NEW r \in Requests, Pass(r),
           pc[r] \in {"IsAlreadyEnrolled", "FindForUpdate", "CountSeats", "CreateEnrollment"},
           pc[r] = "FindForUpdate" => \A q \in Requests : ~HoldsClass(q, req[r].class),
           pc[r] = "CountSeats" => Cardinality(Seats(req[r].class)) < Kuota[req[r].class]
    PROVE  IInv'
<1>1. seen[r] \in Snapshot /\ seen[r] # None BY DEF IInv, TypeOK, Prepared, InClass
<1>2. seen' = [seen EXCEPT ![r] = seen[r]] BY DEF Pass, IInv, TypeOK
<1>3. Proceed(r) /\ UNCHANGED <<students, enrollments, attempts, req>> BY DEF Pass
<1>4. pc[r] = "CreateEnrollment" =>
         Credits(seen[r].enrolled) + SKS[req[r].class] <= BatasSKS(seen[r].ipk)
  BY DEF IInv, Prepared
<1> QED BY <1>1, <1>2, <1>3, <1>4, EnrollMoveKeeps DEF InClass

LEMMA SeatsFinite ==
    ASSUME TypeOK, NEW c
    PROVE  IsFiniteSet(Seats(c)) /\ Cardinality(Seats(c)) \in Nat
<1>1. Seats(c) \subseteq Requests BY DEF Seats, TypeOK
<1> QED BY <1>1, RequestsFinite, FS_Subset, FS_CardinalityType

LEMMA ClassOf ==
    ASSUME TypeOK, NEW r \in Requests, Op(r) = "enroll"
    PROVE  req[r].class \in Classes /\ req[r].year \in Years /\ req[r].by \in Students \cup {Admin}
BY OpOf DEF Input, Op

LEMMA EnrollReadsKeep ==
    ASSUME IInv, NEW r \in Requests,
           \/ IsAlreadyEnrolled(r) \/ FindForUpdate(r) \/ CountSeats(r) \/ CreateEnrollment(r)
    PROVE  IInv'
<1>0. pc[r] \in {"IsAlreadyEnrolled", "FindForUpdate", "CountSeats", "CreateEnrollment"}
  BY DEF IsAlreadyEnrolled, FindForUpdate, CountSeats, CreateEnrollment, At
<1>1. ASSUME NEW o \in {"conflict", "full"}, Refuse(r, o) PROVE IInv'
  BY <1>0, <1>1, RefuseKeeps DEF Outcomes
<1>2. Op(r) = "enroll" BY <1>0, OpAt DEF IInv, InClass
<1>3. req[r].class \in Classes BY <1>2, ClassOf DEF IInv
<1>4. Cardinality(Seats(req[r].class)) \in Nat /\ Kuota[req[r].class] \in Nat
  BY <1>3, SeatsFinite, ClassesValid DEF IInv
<1>5. CASE IsAlreadyEnrolled(r) \/ CreateEnrollment(r)
  BY <1>1, <1>5, EnrollPassKeeps DEF IsAlreadyEnrolled, CreateEnrollment, At
<1>6. CASE FindForUpdate(r)
  BY <1>6, EnrollPassKeeps DEF FindForUpdate, At
<1>7. CASE CountSeats(r)
  BY <1>1, <1>4, <1>7, EnrollPassKeeps DEF CountSeats, At
<1> QED BY <1>5, <1>6, <1>7

LEMMA SumCreditsKeeps ==
    ASSUME IInv, NEW r \in Requests, SumCredits(r)
    PROVE  IInv'
<1> DEFINE E == Enrolled(req[r].by, req[r].year)
           x == [seen[r] EXCEPT !.enrolled = E]
<1>0. pc[r] = "SumCredits" BY DEF SumCredits, At
<1>1. CASE Refuse(r, "over_limit") BY <1>0, <1>1, RefuseKeeps DEF Outcomes
<1>2. CASE /\ Credits(E) + SKS[req[r].class] <= BatasSKS(seen[r].ipk)
           /\ See(r, x) /\ Proceed(r)
  <2>1. seen[r] \in Snapshot BY <1>0 DEF IInv, TypeOK, Prepared, InClass
  <2>2. E \in SUBSET Requests BY DEF Enrolled, IInv, TypeOK
  <2>3. x \in Snapshot /\ x.enrolled = E /\ x.ipk = seen[r].ipk BY <2>1, <2>2 DEF Snapshot
  <2>4. x # None BY <2>3, NoneIsFresh
  <2>5. seen' = [seen EXCEPT ![r] = x] /\ UNCHANGED <<students, enrollments, attempts, req>>
    BY <1>2 DEF See
  <2>6. Credits(x.enrolled) + SKS[req[r].class] <= BatasSKS(x.ipk) BY <1>2, <2>3
  <2>7. Proceed(r) BY <1>2
  <2> HIDE DEF x
  <2> QED BY <1>0, <2>3, <2>4, <2>5, <2>6, <2>7, EnrollMoveKeeps DEF InClass
<1> QED BY <1>1, <1>2 DEF SumCredits

LEMMA FindEnrollmentKeeps ==
    ASSUME IInv, NEW r \in Requests, FindEnrollment(r)
    PROVE  IInv'
<1>0. pc[r] = "FindEnrollment" BY DEF FindEnrollment, At
<1>1. ASSUME NEW o \in {"not_found", "forbidden"}, Refuse(r, o) PROVE IInv'
  BY <1>0, <1>1, RefuseKeeps DEF Outcomes
<1>2. CASE Pass(r)
  <2>1. Script(Op(r))[pc[r]] = "DeleteEnrollment" /\ Op(r) = "drop" BY <1>0, NextAt DEF IInv
  <2>2. Script(Op(r))[pc[r]] \in Path(Op(r)) BY <2>1 DEF Path
  <2> QED BY <1>0, <1>2, <2>1, <2>2, PassKeeps
<1> QED BY <1>1, <1>2 DEF FindEnrollment

-----------------------------------------------------------------------------
(* Steps that write.                                                        *)

\* What a request that has executed its last statement leaves to be shown.
LEMMA DoneKeeps ==
    ASSUME IInv, NEW r \in Requests, NEW o \in Outcomes, pc[r] # "Done", Answer(r, o),
           UNCHANGED <<req, seen>>
    PROVE  /\ pc'[r] = "Done" /\ answer'[r] = o
           /\ \A q \in Requests \ {r} :
                 pc'[q] = pc[q] /\ answer'[q] = answer[q] /\ seen'[q] = seen[q]
           /\ \A q \in Requests : pc'[q] \in {"Arrive", "Done"} \cup Path(Op(q))'
           /\ pc' = [q \in Requests |-> pc'[q]] /\ answer' \in [Requests -> Outcomes]
           /\ attempts' = attempts => Limiter'
<1> USE DEF Answer
<1>1. /\ pc'[r] = "Done" /\ answer'[r] = o
      /\ \A q \in Requests \ {r} :
            pc'[q] = pc[q] /\ answer'[q] = answer[q] /\ seen'[q] = seen[q]
      /\ pc' = [q \in Requests |-> pc'[q]] /\ answer' \in [Requests -> Outcomes]
  BY DEF IInv, TypeOK
<1>2. \A q \in Requests : pc'[q] \in {"Arrive", "Done"} \cup Path(Op(q))'
  BY <1>1 DEF IInv, TypeOK, Op
<1>3. ASSUME attempts' = attempts PROVE Limiter'
  <2>1. ASSUME NEW k \in Emails \cup {Admin}, NEW i \in 1 .. Len(attempts[k])
        PROVE  attempts[k][i] \in Requests \ {r}
    BY <2>1 DEF IInv, TypeOK, Limiter
  <2> QED BY <1>1, <1>3, <2>1 DEF IInv, Limiter, RefusalsWithinLimit
<1> QED BY <1>1, <1>2, <1>3

\* A step of r that ends with an answer: seats and the students' addresses are
\* what the others go by.
LEMMA WriteKeeps ==
    ASSUME IInv, NEW r \in Requests, NEW o \in Outcomes, pc[r] # "Done", Answer(r, o),
           UNCHANGED <<req, seen>>, TypeOK', Limiter', QuotaHolds', EmailsUnique',
           \A q \in Requests \ {r} : students[q] = None => students'[q] = None,
           r \in enrollments' => Op(r) = "enroll",
           enrollments' \subseteq enrollments \cup {r},
           \A q \in Requests \ {r} : pc[q] \in InClass =>
              Cardinality(Seats(req[q].class))' <= Cardinality(Seats(req[q].class)),
           \A s \in Students, e \in Emails \cup {Admin} : HasEmail(s, e) => HasEmail(s, e)',
           \A s \in Students, e \in Emails \cup {Admin} :
              HasEmail(s, e)' => HasEmail(s, e) \/ HoldsEmail(r, e),
           \A q \in Requests : StaysOut(q)'
    PROVE  IInv'
<1> DEFINE Others == Requests \ {r}
<1>1. /\ pc'[r] = "Done"
      /\ \A q \in Others : pc'[q] = pc[q] /\ answer'[q] = answer[q] /\ seen'[q] = seen[q]
  BY DoneKeeps
<1>2. Mine(r)'
  BY <1>1 DEF Mine, Prepared, Room, Mail, At, Op, InClass
<1>3. ASSUME NEW q \in Others PROVE Prepared(q)'
  <2>1. pc[q] = "FindByUserID" => req[q].email \in Emails \cup {Admin}
    BY OpAt, OpOf DEF IInv, Op, Input
  <2>2. Prepared(q) BY DEF IInv
  <2>3. pc[q] = "FindByUserID" => HasEmail(seen[q].id, req[q].email)'
    BY <1>1, <2>1, <2>2 DEF Prepared, At
  <2> QED BY <1>1, <2>2, <2>3 DEF Prepared, At, Op, Credits
<1>4. ASSUME NEW q \in Others PROVE Room(q)'
  <2>1. Room(q) BY DEF IInv
  <2>2. pc[q] \in InClass => Kuota[req[q].class] \in Nat
    BY OpAt, ClassOf, ClassesValid DEF IInv
  <2>4. Cardinality(Seats(req[q].class)) \in Nat
    BY SeatsFinite DEF IInv
  <2>5. Cardinality(Seats(req[q].class))' \in Nat
    <3>1. Seats(req[q].class)' \subseteq Requests BY DEF Seats, TypeOK
    <3> QED BY <3>1, RequestsFinite, FS_Subset, FS_CardinalityType
  <2>3. ASSUME NEW p \in Requests, HoldsClass(p, req[q].class)'
        PROVE  HoldsClass(p, req[q].class)
    BY <1>1, <2>3 DEF HoldsClass, InClass
  <2> QED BY <1>1, <2>1, <2>2, <2>3, <2>4, <2>5 DEF Room, Op
<1>5. ASSUME NEW q \in Others PROVE Mail(q)'
  <2>1. Mail(q) BY DEF IInv
  <2>2. pc[q] \in {"CreateStudent", "CommitStudent"} => req[q].email \in Emails
    BY OpAt, OpOf DEF IInv, Op, Input
  <2>3. ASSUME NEW p \in Requests, HoldsEmail(p, req[q].email)'
        PROVE  HoldsEmail(p, req[q].email)
    BY <1>1, <2>3 DEF HoldsEmail
  <2> QED BY <1>1, <2>1, <2>2, <2>3 DEF Mail
<1> QED BY <1>1, <1>2, <1>3, <1>4, <1>5 DEF IInv, Mine

\* No student is soft-deleted or added: who stays out goes on to do so.
LEMMA OutKept ==
    ASSUME IInv, NEW r \in Requests, NEW o \in Outcomes, Answer(r, o), UNCHANGED <<req, seen>>,
           pc[r] \notin {"Arrive", "Done", "FindByEmail", "FindByUserID", "RecordFailure"} \/ o # "ok",
           pc[r] # "Done",
           \A s \in Students : Stored(s)' /\ ~Live(s)' =>
              /\ Stored(s) /\ ~Live(s)
              /\ students'[s].email = students[s].email /\ students'[s].deletedAt = students[s].deletedAt
    PROVE  \A q \in Requests : StaysOut(q)'
<1>1. /\ pc'[r] = "Done" /\ answer'[r] = o
      /\ \A q \in Requests \ {r} : pc'[q] = pc[q] /\ answer'[q] = answer[q]
  BY DoneKeeps
<1> SUFFICES ASSUME NEW q \in Requests, NEW s \in Students, Stored(s)', ~Live(s)', ActsAs(q, s)',
                    q \notin students'[s].deletedAt
             PROVE  /\ answer'[q] # "ok" /\ pc'[q] # "Reset"
                    /\ Op(q) # "login" => pc'[q] \in {"Arrive", "Done"}
  BY DEF StaysOut, At, Op
<1>2. Stored(s) /\ ~Live(s) /\ ActsAs(q, s) /\ q \notin students[s].deletedAt
  BY DEF ActsAs, HasEmail, Op
<1>3. /\ answer[q] # "ok" /\ pc[q] # "Reset"
      /\ Op(q) # "login" => pc[q] \in {"Arrive", "Done"}
  BY <1>2 DEF IInv, StaysOut, At
<1>4. Op(q) = "login" => pc[q] \in {"Arrive", "Done", "FindByEmail", "FindByUserID", "RecordFailure", "Reset"}
  BY OpOf DEF IInv, TypeOK, Path
<1> QED BY <1>1, <1>3, <1>4

LEMMA SameSeats ==
    ASSUME TypeOK, UNCHANGED <<enrollments, req>>, NEW q \in Requests
    PROVE  Cardinality(Seats(req[q].class))' <= Cardinality(Seats(req[q].class))
<1>1. Seats(req[q].class)' = Seats(req[q].class) BY DEF Seats
<1>2. Cardinality(Seats(req[q].class)) \in Nat BY SeatsFinite
<1> QED BY <1>1, <1>2

\* Only the failures of others are in the window; the new one is told the
\* password is wrong only when it is among the first Limit.
LEMMA RecordFailureKeeps ==
    ASSUME IInv, NEW r \in Requests, RecordFailure(r)
    PROVE  IInv'
<1> DEFINE key == req[r].email
           o == IF Len(attempts[key]) + 1 > Limit THEN "blocked" ELSE "unauthorized"
<1>0. pc[r] = "RecordFailure" /\ Answer(r, o) /\ UNCHANGED <<students, enrollments, req, seen>>
  BY DEF RecordFailure, At
<1>1. Op(r) = "login" /\ key \in Emails \cup {Admin} BY <1>0, OpAt, OpOf DEF IInv, Op, Input
<1>2. o \in Outcomes /\ o # "ok" BY DEF Outcomes
<1> HIDE DEF o
<1>3. attempts' = [attempts EXCEPT ![key] = Append(attempts[key], r)]
  BY DEF RecordFailure
<1>4. /\ pc'[r] = "Done" /\ answer'[r] = o
      /\ \A q \in Requests \ {r} : pc'[q] = pc[q] /\ answer'[q] = answer[q]
  BY <1>0, <1>2, DoneKeeps
<1>5. TypeOK'
  <2>1. attempts' \in [Emails \cup {Admin} -> Seq(Requests)] BY <1>1, <1>3 DEF IInv, TypeOK
  <2> QED BY <1>0, <1>2, <2>1, DoneKeeps DEF IInv, TypeOK
<1>6. Limiter'
  <2> SUFFICES ASSUME NEW k \in Emails \cup {Admin}, NEW i \in 1 .. Len(attempts'[k])
               PROVE  /\ pc'[attempts'[k][i]] = "Done"
                      /\ answer'[attempts'[k][i]] = "unauthorized" => i <= Limit
    BY DEF Limiter, RefusalsWithinLimit
  <2>1. attempts[k] \in Seq(Requests) BY DEF IInv, TypeOK
  <2>2. ASSUME i \in 1 .. Len(attempts[k]), attempts'[k][i] = attempts[k][i]
        PROVE  /\ pc'[attempts'[k][i]] = "Done"
               /\ answer'[attempts'[k][i]] = "unauthorized" => i <= Limit
    <3>1. attempts[k][i] \in Requests BY <2>1, <2>2
    <3>2. pc[attempts[k][i]] = "Done" /\ (answer[attempts[k][i]] = "unauthorized" => i <= Limit)
      BY <2>2 DEF IInv, Limiter, RefusalsWithinLimit
    <3>3. attempts[k][i] # r BY <1>0, <3>2
    <3> QED BY <1>4, <2>2, <3>1, <3>2, <3>3
  <2>3. CASE k # key BY <1>1, <1>3, <2>2, <2>3 DEF IInv, TypeOK
  <2>4. CASE k = key
    <3>1. attempts'[k] = Append(attempts[k], r) BY <1>1, <1>3, <2>4 DEF IInv, TypeOK
    <3>2. CASE i <= Len(attempts[k]) BY <2>1, <2>2, <3>1, <3>2
    <3>3. CASE i > Len(attempts[k])
      <4>1. i = Len(attempts[k]) + 1 /\ attempts'[k][i] = r BY <2>1, <3>1, <3>3
      <4>2. o = "unauthorized" => i <= Limit BY <2>1, <2>4, <4>1, LimitValid DEF o
      <4> QED BY <1>4, <4>1, <4>2
    <3> QED BY <3>2, <3>3
  <2> QED BY <2>3, <2>4
<1>7. \A q \in Requests : StaysOut(q)'
  BY <1>0, <1>2, OutKept DEF Stored, Live
<1>8. QuotaHolds' /\ EmailsUnique' /\ r \notin enrollments'
  BY <1>0 DEF IInv, QuotaHolds, Seats, EmailsUnique, Stored, Prepared
<1>9. /\ \A c : Seats(c)' = Seats(c)
      /\ \A s, e : HasEmail(s, e)' <=> HasEmail(s, e)
  BY <1>0 DEF Seats, HasEmail, Stored
<1>10. \A q \in Requests : Cardinality(Seats(req[q].class))' <= Cardinality(Seats(req[q].class))
  BY <1>0, SameSeats DEF IInv
<1>11. pc[r] # "Done" BY <1>0
<1> HIDE DEF key
<1> QED BY <1>0, <1>2, <1>5, <1>6, <1>7, <1>8, <1>9, <1>10, <1>11, WriteKeeps

\* The frame of a step that touches neither students nor enrollments.
LEMMA ResetKeeps ==
    ASSUME IInv, NEW r \in Requests, Reset(r)
    PROVE  IInv'
<1>0. /\ pc[r] = "Reset" /\ Answer(r, "ok") /\ UNCHANGED <<students, enrollments, req, seen>>
      /\ attempts' = [attempts EXCEPT ![req[r].email] = <<>>]
  BY DEF Reset, At
<1>1. "ok" \in Outcomes BY DEF Outcomes
<1>2. TypeOK'
  <2>1. <<>> \in Seq(Requests) OBVIOUS
  <2>2. attempts' \in [Emails \cup {Admin} -> Seq(Requests)] BY <1>0, <2>1 DEF IInv, TypeOK
  <2> QED BY <1>0, <1>1, <2>2, DoneKeeps DEF IInv, TypeOK
<1>3. Limiter'
  <2> SUFFICES ASSUME NEW k \in Emails \cup {Admin}, NEW i \in 1 .. Len(attempts'[k])
               PROVE  /\ pc'[attempts'[k][i]] = "Done"
                      /\ answer'[attempts'[k][i]] = "unauthorized" => i <= Limit
    BY DEF Limiter, RefusalsWithinLimit
  <2>1. attempts[k] \in Seq(Requests) /\ attempts'[k] = attempts[k] BY <1>0 DEF IInv, TypeOK
  <2>2. attempts[k][i] \in Requests BY <2>1
  <2>3. pc[attempts[k][i]] = "Done" /\ (answer[attempts[k][i]] = "unauthorized" => i <= Limit)
    BY <2>1 DEF IInv, Limiter, RefusalsWithinLimit
  <2>4. attempts[k][i] # r BY <1>0, <2>3
  <2> QED BY <1>0, <1>1, <2>1, <2>2, <2>3, <2>4, DoneKeeps
<1>4. \A q \in Requests : StaysOut(q)'
  BY <1>0, <1>1, OutKept DEF Stored, Live
<1>5. QuotaHolds' /\ EmailsUnique' /\ r \notin enrollments'
  BY <1>0 DEF IInv, QuotaHolds, Seats, EmailsUnique, Stored, Prepared
<1>6. \A s, e : HasEmail(s, e)' <=> HasEmail(s, e)
  BY <1>0 DEF HasEmail, Stored
<1>7. \A q \in Requests : Cardinality(Seats(req[q].class))' <= Cardinality(Seats(req[q].class))
  BY <1>0, SameSeats DEF IInv
<1>8. pc[r] # "Done" BY <1>0
<1> QED BY <1>0, <1>1, <1>2, <1>3, <1>4, <1>5, <1>6, <1>7, <1>8, WriteKeeps

LEMMA SlideKeeps ==
    ASSUME IInv, NEW k \in Emails \cup {Admin}, Slide(k)
    PROVE  IInv'
<1> USE DEF Slide
<1>1. attempts[k] \in Seq(Requests) /\ attempts[k] # <<>> BY DEF IInv, TypeOK
<1>2. TypeOK' BY <1>1 DEF IInv, TypeOK, Op
<1>3. Limiter'
  <2> SUFFICES ASSUME NEW j \in Emails \cup {Admin}, NEW i \in 1 .. Len(attempts'[j])
               PROVE  /\ pc[attempts'[j][i]] = "Done"
                      /\ answer[attempts'[j][i]] = "unauthorized" => i <= Limit
    BY DEF Limiter, RefusalsWithinLimit
  <2>1. CASE j # k BY <2>1 DEF IInv, TypeOK, Limiter, RefusalsWithinLimit
  <2>2. CASE j = k
    <3>1. attempts'[j] = Tail(attempts[k]) BY <2>2 DEF IInv, TypeOK
    <3>2. i + 1 \in 1 .. Len(attempts[k]) /\ attempts'[j][i] = attempts[k][i + 1] /\ i \in Nat
      <4> DEFINE a == attempts[k]
                 b == attempts'[j]
      <4>1. a \in Seq(Requests) /\ a # <<>> /\ b = Tail(a) /\ i \in 1 .. Len(b) BY <1>1, <3>1
      <4> HIDE DEF a, b
      <4>2. i + 1 \in 1 .. Len(a) /\ b[i] = a[i + 1] /\ i \in Nat BY <4>1
      <4> QED BY <4>2 DEF a, b
    <3>3. pc[attempts[k][i + 1]] = "Done"
          /\ (answer[attempts[k][i + 1]] = "unauthorized" => i + 1 <= Limit)
      BY <3>2 DEF IInv, Limiter, RefusalsWithinLimit
    <3> QED BY <3>2, <3>3, LimitValid
  <2> QED BY <2>1, <2>2
<1>4. QuotaHolds' /\ EmailsUnique' BY DEF IInv, QuotaHolds, Seats, EmailsUnique, Stored
<1>5. ASSUME NEW q \in Requests PROVE Mine(q)'
  <2>1. Prepared(q)' BY DEF IInv, Prepared, At, Op, Credits, HasEmail, Stored
  <2>2. Room(q)' BY DEF IInv, Room, Op, HoldsClass, Seats
  <2>3. Mail(q)' BY DEF IInv, Mail, HasEmail, Stored, HoldsEmail
  <2>4. StaysOut(q)' BY DEF IInv, StaysOut, At, Op, HasEmail, Stored, Live, ActsAs
  <2> QED BY <2>1, <2>2, <2>3, <2>4 DEF Mine
<1> QED BY <1>2, <1>3, <1>4, <1>5 DEF IInv, Mine

\* The rows of another table than enrollments.
LEMMA SameQuota ==
    ASSUME IInv, UNCHANGED <<enrollments, req>>
    PROVE  QuotaHolds'
BY DEF IInv, QuotaHolds, Seats

LEMMA CommitStudentKeeps ==
    ASSUME IInv, NEW r \in Requests, CommitStudent(r)
    PROVE  IInv'
<1> DEFINE row == [email |-> req[r].email, nim |-> req[r].nim, ipk |-> req[r].ipk, deletedAt |-> {}]
<1>1. PICK o \in {"ok", "error"} : Answer(r, o) BY DEF CommitStudent, Reply
<1>2. /\ pc[r] = "CommitStudent" /\ students' = [students EXCEPT ![r] = row]
      /\ UNCHANGED <<enrollments, attempts, req, seen>>
  BY DEF CommitStudent, At
<1>3. o \in Outcomes /\ pc[r] # "Done" BY <1>2 DEF Outcomes
<1>4. row \in Row /\ row # None /\ row.email \in Emails
  <2>1. Op(r) = "create" /\ req[r] \in Input BY <1>2, OpAt, OpOf DEF IInv
  <2>2. row \in Row BY <2>1 DEF Input, Op, Row
  <2> QED BY <2>2, NoneIsFresh DEF Row
<1>5. /\ students'[r] = row /\ students[r] = None
      /\ \A s \in Students \ {r} : students'[s] = students[s]
  BY <1>2, <1>3 DEF IInv, TypeOK, Students, Prepared
<1>6. row.email = req[r].email /\ row.deletedAt = {} OBVIOUS
<1> HIDE DEF row
<1>7. TypeOK'
  <2>1. students' \in [Students -> Row \cup {None}] BY <1>2, <1>4 DEF IInv, TypeOK
  <2> QED BY <1>1, <1>2, <1>3, <2>1, DoneKeeps DEF IInv, TypeOK
<1>8. Limiter' BY <1>1, <1>2, <1>3, DoneKeeps
<1>9. EmailsUnique'
  <2>1. \A s \in Students : ~HasEmail(s, row.email) BY <1>2, <1>6 DEF IInv, Mail
  <2> QED BY <1>5, <2>1 DEF IInv, EmailsUnique, Stored, HasEmail
<1>10. \A q \in Requests : StaysOut(q)'
  <2>1. \A s \in Students : Stored(s)' /\ ~Live(s)' =>
           /\ Stored(s) /\ ~Live(s)
           /\ students'[s].email = students[s].email /\ students'[s].deletedAt = students[s].deletedAt
    BY <1>4, <1>5, <1>6 DEF Stored, Live
  <2> QED BY <1>1, <1>2, <1>3, <2>1, OutKept
<1>11. /\ \A s \in Students, e \in Emails \cup {Admin} : HasEmail(s, e) => HasEmail(s, e)'
       /\ \A s \in Students, e \in Emails \cup {Admin} :
              HasEmail(s, e)' => HasEmail(s, e) \/ HoldsEmail(r, e)
  BY <1>2, <1>5, <1>6 DEF HasEmail, Stored, HoldsEmail
<1>12. \A q \in Requests \ {r} : students[q] = None => students'[q] = None
  BY <1>5 DEF Students
<1>13. \A q \in Requests : Cardinality(Seats(req[q].class))' <= Cardinality(Seats(req[q].class))
  BY <1>2, SameSeats DEF IInv
<1>14. QuotaHolds' /\ r \notin enrollments' BY <1>2, <1>3, SameQuota DEF IInv, Prepared
<1> QED BY <1>1, <1>2, <1>3, <1>7, <1>8, <1>9, <1>10, <1>11, <1>12, <1>13, <1>14, WriteKeeps

LEMMA UpdateKeeps ==
    ASSUME IInv, NEW r \in Requests, Update(r)
    PROVE  IInv'
<1> DEFINE s0 == req[r].student
<1>0. pc[r] = "Update" BY DEF Update, At
<1>1. CASE Refuse(r, "not_found") BY <1>0, <1>1, RefuseKeeps DEF Outcomes
<1>2. CASE /\ Live(s0) /\ students' = [students EXCEPT ![s0].ipk = req[r].ipk] /\ Reply(r)
           /\ UNCHANGED <<enrollments, attempts, req, seen>>
  <2>1. PICK o \in {"ok", "error"} : Answer(r, o) BY <1>2 DEF Reply
  <2>2. o \in Outcomes /\ pc[r] # "Done" BY <1>0 DEF Outcomes
  <2>3. s0 \in Students /\ req[r].ipk \in Ipk
    BY <1>0, OpAt, OpOf DEF IInv, Op, Input
  <2>4. students[s0] \in Row /\ students[s0] # None BY <1>2, <2>3 DEF Live, Stored, IInv, TypeOK
  <2>5. PICK w : w = [students[s0] EXCEPT !.ipk = req[r].ipk] OBVIOUS
  <2>6. /\ w \in Row /\ w # None
        /\ w.email = students[s0].email /\ w.deletedAt = students[s0].deletedAt
    <3>1. w \in Row /\ w.email = students[s0].email /\ w.deletedAt = students[s0].deletedAt
      BY <2>3, <2>4, <2>5 DEF Row
    <3> QED BY <3>1, NoneIsFresh
  <2>7. /\ students' = [students EXCEPT ![s0] = w] /\ students'[s0] = w
        /\ \A s \in Students \ {s0} : students'[s] = students[s]
    BY <1>2, <2>3, <2>5 DEF IInv, TypeOK
  <2>8. TypeOK'
    <3>1. students' \in [Students -> Row \cup {None}] BY <2>6, <2>7 DEF IInv, TypeOK
    <3> QED BY <1>2, <2>1, <2>2, <3>1, DoneKeeps DEF IInv, TypeOK
  <2>9. Limiter' BY <1>2, <2>1, <2>2, DoneKeeps
  <2>10. \A s \in Students : /\ Stored(s)' <=> Stored(s)
                             /\ Live(s)' <=> Live(s)
                             /\ students[s] # None => students'[s].email = students[s].email
                                  /\ students'[s].deletedAt = students[s].deletedAt
    BY <2>4, <2>6, <2>7 DEF Stored, Live
  <2>11. EmailsUnique' BY <2>10 DEF IInv, EmailsUnique, Stored
  <2>12. \A q \in Requests : StaysOut(q)'
    BY <1>0, <1>2, <2>1, <2>2, <2>10, OutKept DEF Stored
  <2>13. \A s \in Students, e \in Emails \cup {Admin} : HasEmail(s, e)' <=> HasEmail(s, e)
    BY <2>10 DEF HasEmail, Stored
  <2>14. \A q \in Requests : students[q] = None => students'[q] = None
    BY <2>4, <2>7 DEF Students
  <2>15. \A q \in Requests : Cardinality(Seats(req[q].class))' <= Cardinality(Seats(req[q].class))
    BY <1>2, SameSeats DEF IInv
  <2>16. QuotaHolds' /\ r \notin enrollments' BY <1>2, <2>2, SameQuota DEF IInv, Prepared
  <2> QED BY <1>2, <2>1, <2>2, <2>8, <2>9, <2>11, <2>12, <2>13, <2>14, <2>15, <2>16, WriteKeeps
<1> QED BY <1>1, <1>2 DEF Update

\* Only requests that have not arrived are left to be kept out.
LEMMA SoftDeleteKeeps ==
    ASSUME IInv, NEW r \in Requests, SoftDelete(r)
    PROVE  IInv'
<1> DEFINE s0 == req[r].student
           arrived == {q \in Requests : ~At(q, "Arrive")}
<1>0. pc[r] = "SoftDelete" BY DEF SoftDelete, At
<1>1. CASE Refuse(r, "not_found") BY <1>0, <1>1, RefuseKeeps DEF Outcomes
<1>2. CASE /\ Live(s0) /\ students' = [students EXCEPT ![s0].deletedAt = arrived] /\ Reply(r)
           /\ UNCHANGED <<enrollments, attempts, req, seen>>
  <2>1. PICK o \in {"ok", "error"} : Answer(r, o) BY <1>2 DEF Reply
  <2>2. o \in Outcomes /\ pc[r] # "Done" BY <1>0 DEF Outcomes
  <2>3. s0 \in Students BY <1>0, OpAt, OpOf DEF IInv, Op, Input
  <2>4. students[s0] \in Row /\ students[s0] # None BY <1>2, <2>3 DEF Live, Stored, IInv, TypeOK
  <2>5. PICK w : w = [students[s0] EXCEPT !.deletedAt = arrived] OBVIOUS
  <2>6. w \in Row /\ w # None /\ w.email = students[s0].email /\ w.deletedAt = arrived
    <3>1. w \in Row /\ w.email = students[s0].email /\ w.deletedAt = arrived
      BY <2>4, <2>5 DEF Row
    <3> QED BY <3>1, NoneIsFresh
  <2>7. /\ students' = [students EXCEPT ![s0] = w] /\ students'[s0] = w
        /\ \A s \in Students \ {s0} : students'[s] = students[s]
    BY <1>2, <2>3, <2>5 DEF IInv, TypeOK
  <2>8. TypeOK'
    <3>1. students' \in [Students -> Row \cup {None}] BY <2>6, <2>7 DEF IInv, TypeOK
    <3> QED BY <1>2, <2>1, <2>2, <3>1, DoneKeeps DEF IInv, TypeOK
  <2>9. Limiter' BY <1>2, <2>1, <2>2, DoneKeeps
  <2>10. \A s \in Students : /\ Stored(s)' <=> Stored(s)
                             /\ students[s] # None => students'[s].email = students[s].email
    BY <2>4, <2>6, <2>7 DEF Stored
  <2>11. EmailsUnique' BY <2>10 DEF IInv, EmailsUnique, Stored
  <2>12. \A q \in Requests : StaysOut(q)'
    <3>1. /\ pc'[r] = "Done" /\ answer'[r] = o
          /\ \A q \in Requests \ {r} : pc'[q] = pc[q] /\ answer'[q] = answer[q]
      BY <1>2, <2>1, <2>2, DoneKeeps
    <3> SUFFICES ASSUME NEW q \in Requests, NEW s \in Students, Stored(s)', ~Live(s)',
                        ActsAs(q, s)', q \notin students'[s].deletedAt
                 PROVE  /\ answer'[q] # "ok" /\ pc'[q] # "Reset"
                        /\ Op(q) # "login" => pc'[q] \in {"Arrive", "Done"}
      BY <1>2 DEF StaysOut, At, Op
    <3>2. CASE s = s0
      <4>1. pc[q] = "Arrive" /\ q # r BY <1>0, <2>6, <2>7, <3>2 DEF At
      <4>2. answer[q] = "none" BY <4>1 DEF IInv, Prepared
      <4> QED BY <3>1, <4>1, <4>2
    <3>3. CASE s # s0
      <4>1. Stored(s) /\ ~Live(s) /\ ActsAs(q, s) /\ q \notin students[s].deletedAt
        BY <1>2, <2>7, <3>3 DEF Stored, Live, ActsAs, HasEmail, Op
      <4>2. /\ answer[q] # "ok" /\ pc[q] # "Reset"
            /\ Op(q) # "login" => pc[q] \in {"Arrive", "Done"}
        BY <4>1 DEF IInv, StaysOut, At
      <4>3. pc[r] = "SoftDelete" => Op(r) = "delete" BY OpAt DEF IInv
      <4> QED BY <1>0, <3>1, <4>2, <4>3
    <3> QED BY <3>2, <3>3
  <2>13. \A s \in Students, e \in Emails \cup {Admin} : HasEmail(s, e)' <=> HasEmail(s, e)
    BY <2>10 DEF HasEmail, Stored
  <2>14. \A q \in Requests : students[q] = None => students'[q] = None
    BY <2>4, <2>7 DEF Students
  <2>15. \A q \in Requests : Cardinality(Seats(req[q].class))' <= Cardinality(Seats(req[q].class))
    BY <1>2, SameSeats DEF IInv
  <2>16. QuotaHolds' /\ r \notin enrollments' BY <1>2, <2>2, SameQuota DEF IInv, Prepared
  <2> QED BY <1>2, <2>1, <2>2, <2>8, <2>9, <2>11, <2>12, <2>13, <2>14, <2>15, <2>16, WriteKeeps
<1> QED BY <1>1, <1>2 DEF SoftDelete

\* The students' side of a step that only changes enrollments.
LEMMA SameStudents ==
    ASSUME IInv, NEW r \in Requests, NEW o \in Outcomes, Answer(r, o),
           UNCHANGED <<students, attempts, req, seen>>,
           pc[r] \in {"CommitEnrollment", "DeleteEnrollment"}, enrollments' \subseteq Requests
    PROVE  /\ TypeOK' /\ Limiter' /\ EmailsUnique' /\ (\A q \in Requests : StaysOut(q)')
           /\ \A s, e : HasEmail(s, e)' <=> HasEmail(s, e)
<1>1. TypeOK' /\ Limiter' BY DoneKeeps DEF IInv, TypeOK
<1>2. EmailsUnique' BY DEF IInv, EmailsUnique, Stored
<1>3. \A q \in Requests : StaysOut(q)' BY OutKept DEF Stored, Live
<1>4. \A s, e : HasEmail(s, e)' <=> HasEmail(s, e) BY DEF HasEmail, Stored
<1> QED BY <1>1, <1>2, <1>3, <1>4

\* The class has a seat, and nobody else is in it.
LEMMA CommitEnrollmentKeeps ==
    ASSUME IInv, NEW r \in Requests, CommitEnrollment(r)
    PROVE  IInv'
<1>0. PICK c0 : c0 = req[r].class OBVIOUS
<1>1. PICK o \in {"ok", "error"} : Answer(r, o) BY DEF CommitEnrollment, Reply
<1>2. /\ pc[r] = "CommitEnrollment" /\ enrollments' = enrollments \cup {r}
      /\ UNCHANGED <<students, attempts, req, seen>>
  BY DEF CommitEnrollment, At
<1>3. o \in Outcomes /\ pc[r] # "Done" BY <1>2 DEF Outcomes
<1>4. enrollments' \subseteq Requests BY <1>2 DEF IInv, TypeOK
<1>5. Op(r) = "enroll" /\ c0 \in Classes BY <1>0, <1>2, OpAt, ClassOf DEF IInv, InClass
<1>6. \A c \in Classes : c # c0 => Seats(c)' = Seats(c) BY <1>0, <1>2 DEF Seats
<1>7. Seats(c0)' = Seats(c0) \cup {r} /\ r \notin Seats(c0)
  BY <1>0, <1>2 DEF Seats, IInv, Prepared
<1>8. Cardinality(Seats(c0))' = Cardinality(Seats(c0)) + 1
  BY <1>7, SeatsFinite, FS_AddElement DEF IInv
<1>9. QuotaHolds'
  <2>1. Cardinality(Seats(c0)) < Kuota[c0] BY <1>0, <1>2 DEF IInv, Room, InClass
  <2>2. Kuota[c0] \in Nat /\ Cardinality(Seats(c0)) \in Nat
    BY <1>5, ClassesValid, SeatsFinite DEF IInv
  <2>3. Cardinality(Seats(c0))' <= Kuota[c0] BY <1>8, <2>1, <2>2
  <2> QED BY <1>6, <2>3 DEF IInv, QuotaHolds
<1>10. ASSUME NEW q \in Requests \ {r}, pc[q] \in InClass
       PROVE  Cardinality(Seats(req[q].class))' <= Cardinality(Seats(req[q].class))
  <2>1. req[q].class # c0
    BY <1>0, <1>2, <1>10 DEF IInv, Room, HoldsClass, InClass
  <2>2. req[q].class \in Classes BY <1>10, OpAt, ClassOf DEF IInv
  <2>3. PICK c : c = req[q].class OBVIOUS
  <2>4. Seats(req[q].class)' = Seats(c)' BY <1>2, <2>3 DEF Seats
  <2>5. Cardinality(Seats(c)) \in Nat BY SeatsFinite DEF IInv
  <2> QED BY <1>6, <2>1, <2>2, <2>3, <2>4, <2>5
<1> QED BY <1>1, <1>2, <1>3, <1>4, <1>5, <1>9, <1>10, SameStudents, WriteKeeps

LEMMA DeleteEnrollmentKeeps ==
    ASSUME IInv, NEW r \in Requests, DeleteEnrollment(r)
    PROVE  IInv'
<1>0. pc[r] = "DeleteEnrollment" BY DEF DeleteEnrollment, At
<1>1. CASE Refuse(r, "not_found") BY <1>0, <1>1, RefuseKeeps DEF Outcomes
<1>2. CASE /\ enrollments' = enrollments \ {req[r].enrollment} /\ Reply(r)
           /\ UNCHANGED <<students, attempts, req, seen>>
  <2>1. PICK o \in {"ok", "error"} : Answer(r, o) BY <1>2 DEF Reply
  <2>2. o \in Outcomes /\ pc[r] # "Done" BY <1>0 DEF Outcomes
  <2>3. enrollments' \subseteq enrollments /\ enrollments' \subseteq Requests /\ r \notin enrollments'
    BY <1>2, <2>2 DEF IInv, TypeOK, Prepared
  <2>4. \A c : Cardinality(Seats(c))' <= Cardinality(Seats(c))
    <3> TAKE c
    <3>1. Seats(c)' \subseteq Seats(c) BY <1>2, <2>3 DEF Seats
    <3> QED BY <3>1, SeatsFinite, FS_Subset DEF IInv
  <2>5. QuotaHolds'
    <3> SUFFICES ASSUME NEW c \in Classes PROVE Cardinality(Seats(c))' <= Kuota[c]
      BY DEF QuotaHolds
    <3>1. Cardinality(Seats(c)) <= Kuota[c] /\ Kuota[c] \in Nat /\ Cardinality(Seats(c)) \in Nat
      BY ClassesValid, SeatsFinite DEF IInv, QuotaHolds
    <3>2. Cardinality(Seats(c))' \in Nat
      <4>1. Seats(c)' \subseteq Requests BY <2>3 DEF Seats
      <4> QED BY <4>1, RequestsFinite, FS_Subset, FS_CardinalityType
    <3> QED BY <2>4, <3>1, <3>2
  <2> QED BY <1>0, <1>2, <2>1, <2>2, <2>3, <2>4, <2>5, SameStudents, WriteKeeps
<1> QED BY <1>1, <1>2 DEF DeleteEnrollment

-----------------------------------------------------------------------------
(* Theorems.                                                                *)

LEMMA InitEstablishes == Init => IInv
<1> SUFFICES ASSUME Init PROVE IInv OBVIOUS
<1> USE DEF Init
<1>1. TypeOK
  <2>1. students \in [Students -> Row \cup {None}] BY SeedValid DEF Students
  <2>2. <<>> \in Seq(Requests) OBVIOUS
  <2> QED BY <2>1, <2>2 DEF TypeOK, Outcomes
<1>2. QuotaHolds
  <2>1. \A c \in Classes : Seats(c) = {} BY DEF Seats
  <2>2. Cardinality({}) = 0 BY FS_EmptySet
  <2>3. ASSUME NEW c \in Classes PROVE Cardinality(Seats(c)) <= Kuota[c]
    <3>1. Seats(c) = {} BY <2>1
    <3>2. Cardinality(Seats(c)) = 0 BY <2>2, <3>1
    <3>3. Kuota[c] \in Nat BY ClassesValid
    <3> HIDE DEF Init
    <3> QED BY <3>2, <3>3
  <2> QED BY <2>3 DEF QuotaHolds
<1>3. Limiter BY DEF Limiter, RefusalsWithinLimit
<1>4. EmailsUnique
  <2>1. \A s \in Students : Stored(s) => s \in SeedStudents /\ students[s] = SeedRow[s]
    BY DEF Stored, Students
  <2> QED BY <2>1, SeedValid DEF EmailsUnique
<1>5. ASSUME NEW r \in Requests PROVE Prepared(r) /\ Room(r) /\ Mail(r)
  <2>1. r \notin SeedStudents BY NamesApart
  <2> QED BY <2>1 DEF Prepared, Room, Mail, At, InClass, Students
<1>6. ASSUME NEW r \in Requests PROVE StaysOut(r)
  BY DEF StaysOut, At
<1> QED BY <1>1, <1>2, <1>3, <1>4, <1>5, <1>6 DEF IInv

LEMMA StutterKeeps ==
    ASSUME IInv, UNCHANGED vars
    PROVE  IInv'
<1> USE DEF vars
<1>1. TypeOK' BY DEF IInv, TypeOK, Op
<1>2. QuotaHolds' BY DEF IInv, QuotaHolds, Seats
<1>3. Limiter' /\ EmailsUnique'
  BY DEF IInv, Limiter, RefusalsWithinLimit, EmailsUnique, Stored
<1>4. ASSUME NEW r \in Requests PROVE Mine(r)'
  BY DEF IInv, Mine, Prepared, Room, Mail, StaysOut, At, Op, Credits, HasEmail, Stored, Live,
         HoldsClass, HoldsEmail, Seats, ActsAs
<1> QED BY <1>1, <1>2, <1>3, <1>4 DEF IInv, Mine

LEMMA NextKeeps ==
    ASSUME IInv, [Next]_vars
    PROVE  IInv'
<1>1. ASSUME NEW r \in Requests, Statement(r) PROVE IInv'
  BY <1>1, ArriveKeeps, FindByEmailKeeps, FindByUserIDKeeps, RecordFailureKeeps, ResetKeeps,
     ReadOnlyKeeps, ExistsKeeps, CreateKeeps, CommitStudentKeeps, FindByIDKeeps, UpdateKeeps,
     SoftDeleteKeeps, EnrollReadsKeep, SumCreditsKeeps, CommitEnrollmentKeeps,
     FindEnrollmentKeeps, DeleteEnrollmentKeeps DEF Statement
<1>2. ASSUME NEW r \in Requests, Interrupt(r) PROVE IInv'
  BY <1>2, InterruptKeeps
<1>3. ASSUME NEW k \in Emails \cup {Admin}, Slide(k) PROVE IInv'
  BY <1>3, SlideKeeps
<1>4. CASE AllAnswered \/ UNCHANGED vars BY <1>4, StutterKeeps DEF AllAnswered
<1> QED BY <1>1, <1>2, <1>3, <1>4 DEF Next

\* The inductive invariant, types included, for every instance.
THEOREM InvariantHolds == Spec => []IInv
<1>1. IInv /\ [Next]_vars => IInv' BY NextKeeps
<1> QED BY <1>1, InitEstablishes, PTL DEF Spec

\* No class gets more students than it has seats.
THEOREM Quota == Spec => []QuotaHolds
<1>1. IInv => QuotaHolds BY DEF IInv
<1> QED BY <1>1, InvariantHolds, PTL

\* At most Limit logins of a minute are told that the password is wrong.
THEOREM Refusals == Spec => []RefusalsWithinLimit
<1>1. IInv => RefusalsWithinLimit BY DEF IInv, Limiter
<1> QED BY <1>1, InvariantHolds, PTL

\* What reaches the server after a soft delete does not succeed in the
\* student's name.
THEOREM DeletedOut == Spec => []DeletedStudentsStayOut
<1>1. IInv => DeletedStudentsStayOut BY DEF IInv, StaysOut, DeletedStudentsStayOut
<1> QED BY <1>1, InvariantHolds, PTL

\* Who is taken over his limit was read before his other registrations, or his
\* IPK, changed.
THEOREM CreditExcess == Spec => CreditExcessOnlyByOverlap
<1> DEFINE Explained(r) ==
        \/ WithinCredits(req[r].by, req[r].year, req[r].class)
        \/ seen[r].ipk # students[req[r].by].ipk
        \/ seen[r].enrolled # Enrolled(req[r].by, req[r].year)
<1>1. ASSUME IInv, [Next]_vars, NEW r \in enrollments' \ enrollments
      PROVE  Explained(r)
  <2>1. r \in Requests /\ CommitEnrollment(r)
    <3>1. PICK q \in Requests : Statement(q)
      BY <1>1 DEF Next, AllAnswered, vars, Interrupt, Refuse, Slide
    <3>2. CASE CommitEnrollment(q)
      BY <1>1, <3>1, <3>2 DEF CommitEnrollment
    <3>3. CASE DeleteEnrollment(q)
      BY <1>1, <3>3 DEF DeleteEnrollment, Refuse
    <3>4. CASE ~CommitEnrollment(q) /\ ~DeleteEnrollment(q)
      BY <1>1, <3>1, <3>4 DEF Statement, Arrive, Refuse, Pass, FindByEmail, See, Fail,
         FindByUserID, RecordFailure, Reset, FindProfile, ExistsByNIM, ExistsByEmail, CreateUser,
         CreateStudent, CommitStudent, FindByID, FindEnrolledCourses, Update, SoftDelete,
         IsAlreadyEnrolled, FindForUpdate, CountSeats, SumCredits, CreateEnrollment,
         FindEnrollment
    <3> QED BY <3>2, <3>3, <3>4
  <2>2. Credits(seen[r].enrolled) + SKS[req[r].class] <= BatasSKS(seen[r].ipk)
    BY <1>1, <2>1 DEF IInv, Prepared, CommitEnrollment, At
  <2> QED BY <2>2 DEF WithinCredits
<1>2. IInv /\ [Next]_vars => \A r \in enrollments' \ enrollments : Explained(r)
  BY <1>1
<1> QED BY <1>2, InvariantHolds, PTL DEF Spec, CreditExcessOnlyByOverlap
=============================================================================
