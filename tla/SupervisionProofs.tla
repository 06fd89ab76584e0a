-------------------------- MODULE SupervisionProofs --------------------------
(***************************************************************************)
(* Proofs about Supervision, for every set of requests, students and       *)
(* supervisors: IInv is inductive, hence the counters are exact, nobody is *)
(* overbooked, a student keeps a supervisor, no quota change is lost,      *)
(* every wait for a row lock leads upwards, and Supervision implements     *)
(* Placements.                                                             *)
(***************************************************************************)
EXTENDS Supervision, FiniteSetTheorems, TLAPS

Part(r) == OnScript(r) /\ LocksHeld(r) /\ Effects(r)

\* What a request may ask, from the definition of Input.
LEMMA InputFacts ==
    ASSUME TypeOK, NEW r \in Requests
    PROVE  /\ Op(r) \in {"assign", "switch", "quota"}
           /\ Op(r) # "quota" => Student(r) \in Students
           /\ To(r) \in SupervisorIds
           /\ Op(r) = "quota" => req[r].quota \in Nat \ {0} /\ req[r].version \in Nat \ {0}
  <1>1. req[r] \in Input
    BY InputsValid DEF TypeOK
  <1>2. CASE req[r] \in [op : {"assign", "switch"}, student : Students, to : SupervisorIds]
    BY <1>2 DEF Op, Student, To
  <1>3. CASE req[r] \in [op : {"quota"}, to : SupervisorIds, quota : Nat \ {0}, version : Nat \ {0}]
    BY <1>3 DEF Op, Student, To
  <1> QED BY <1>1, <1>2, <1>3 DEF Input

\* The statement that follows a statement.
LEMMA ScriptFacts ==
    /\ DOMAIN AssignScript = {"LockStudent", "IncrementSupervised", "InsertSupervision"}
    /\ DOMAIN SwitchScript = {"LockStudent", "GetSupervision", "LockSupervisors",
           "DeleteSupervision", "DecrementSupervised", "IncrementSupervised", "InsertSupervision"}
    /\ Statements = DOMAIN SwitchScript \cup {"Commit", "UpdateQuota", "ExplainQuota"}
  BY DEF AssignScript, SwitchScript, Statements

\* One student more, one less, or the same.
LEMMA MoveOne ==
    ASSUME supervisor \in [Students -> Supervisors \cup {None}], NEW s \in Students,
           NEW new \in Supervisors \cup {None},
           supervisor' = [supervisor EXCEPT ![s] = new], NEW p \in Supervisors
    PROVE  /\ Cardinality(Group(p)) \in Nat
           /\ supervisor[s] = p => Cardinality(Group(p)) > 0
           /\ Cardinality(Group(p)') = Cardinality(Group(p)) + (IF new = p THEN 1 ELSE 0)
                                       - (IF supervisor[s] = p THEN 1 ELSE 0)
  <1>1. IsFiniteSet(Group(p)) /\ Cardinality(Group(p)) \in Nat
    BY StudentsFinite, FS_Subset, FS_CardinalityType DEF Group
  <1>2. supervisor[s] = p => Cardinality(Group(p)) > 0
    BY <1>1, FS_EmptySet DEF Group
  <1>3. CASE new = p /\ supervisor[s] # p
    <2>1. Group(p)' = Group(p) \cup {s} /\ s \notin Group(p)
      BY <1>3 DEF Group
    <2>2. Cardinality(Group(p)') = Cardinality(Group(p)) + 1
      BY <1>1, <2>1, FS_AddElement
    <2> QED BY <1>1, <1>3, <2>2
  <1>4. CASE new # p /\ supervisor[s] = p
    <2>1. Group(p)' = Group(p) \ {s} /\ s \in Group(p)
      BY <1>4 DEF Group
    <2>2. Cardinality(Group(p)') = Cardinality(Group(p)) - 1
      BY <1>1, <2>1, FS_RemoveElement
    <2> QED BY <1>1, <1>2, <1>4, <2>2
  <1>5. CASE new = p <=> supervisor[s] = p
    <2>1. Group(p)' = Group(p)
      BY <1>5 DEF Group
    <2> QED BY <1>1, <1>2, <1>5, <2>1
  <1> QED BY <1>3, <1>4, <1>5, <1>1, <1>2

-----------------------------------------------------------------------------
(* Requests that do not act.                                                *)

\* Private state and locks of q stay.
Untouched(q) ==
    /\ pc'[q] = pc[q] /\ from'[q] = from[q] /\ delta'[q] = delta[q] /\ result'[q] = result[q]
    /\ (q \in deleted' <=> q \in deleted) /\ (q \in inserted' <=> q \in inserted)
    /\ \A s \in Students : studentLock'[s] = q <=> studentLock[s] = q
    /\ \A p \in Supervisors : supervisorLock'[p] = q <=> supervisorLock[p] = q

LEMMA SameRequest ==
    ASSUME NEW q \in Requests, req' = req, pc'[q] = pc[q]
    PROVE  /\ Op(q)' = Op(q) /\ Student(q)' = Student(q) /\ To(q)' = To(q)
           /\ OnScript(q)' = OnScript(q) /\ HoldsStudent(q)' = HoldsStudent(q)
           /\ HasRead(q)' = HasRead(q) /\ HoldsBoth(q)' = HoldsBoth(q)
           /\ HasDeleted(q)' = HasDeleted(q) /\ HasDecremented(q)' = HasDecremented(q)
           /\ HasIncremented(q)' = HasIncremented(q) /\ At(q, "LockSupervisors")' = At(q, "LockSupervisors")
  BY DEF Op, Student, To, OnScript, HoldsStudent, HasRead, HoldsBoth, HasDeleted,
         HasDecremented, HasIncremented, At

\* The locks of q keep what q has read and written from changing.
LEMMA OthersKeep ==
    ASSUME IInv, NEW q \in Requests, req' = req, Untouched(q),
           HoldsStudent(q) => supervisor'[Student(q)] = supervisor[Student(q)],
           HasIncremented(q) => row'[To(q)] = row[To(q)]
    PROVE  Part(q)'
  <1>1. Part(q)
    BY DEF IInv, Part
  <1>2. pc'[q] = pc[q]
    BY DEF Untouched
  <1> USE <1>2, SameRequest
  <1>3. OnScript(q)'
    BY <1>1 DEF Part
  <1>4. from'[q] = from[q] /\ delta'[q] = delta[q]
    BY DEF Untouched
  <1>5. LocksHeld(q)'
    <2>1. (HoldsStudent(q) => studentLock[Student(q)] = q)'
      BY <1>1, InputFacts DEF Part, LocksHeld, Untouched, IInv, HoldsStudent
    <2>2. (HoldsBoth(q) => supervisorLock[from[q]] = q /\ supervisorLock[To(q)] = q)'
      BY <1>1, <1>4 DEF Part, LocksHeld, Effects, Untouched, HoldsBoth
    <2>3. (HasIncremented(q) => supervisorLock[To(q)] = q)'
      BY <1>1 DEF Part, LocksHeld, Effects, Untouched
    <2>4. (\A p \in Supervisors : supervisorLock[p] = q =>
              \/ HasRead(q) /\ p \in {from[q], To(q)}
              \/ HasIncremented(q) /\ p = To(q))'
      BY <1>1, <1>4 DEF Part, LocksHeld, Untouched
    <2>5. Unlocked(q)' = Unlocked(q)
      BY <1>4 DEF Unlocked, Untouched
    <2>6. (At(q, "LockSupervisors") =>
              \A p \in Unlocked(q), x \in Supervisors : supervisorLock[x] = q => x < p)'
      BY <1>1, <2>5 DEF Part, LocksHeld, Untouched
    <2> QED BY <2>1, <2>2, <2>3, <2>4, <2>6 DEF LocksHeld
  <1>6. Effects(q)'
    <2>1. HasRead(q) => HoldsStudent(q)
      BY DEF HasRead, HoldsStudent
    <2>2. Op(q) = "assign" /\ pc[q] = "Commit" => HoldsStudent(q)
      BY DEF HoldsStudent
    <2> QED BY <1>1, <1>4, <2>1, <2>2 DEF Part, Effects, Untouched
  <1> QED BY <1>3, <1>5, <1>6 DEF Part

\* A statement that changes no table.
LEMMA PrivateKeeps ==
    ASSUME IInv, TypeOK', NEW r \in Requests, UNCHANGED <<tables, req>>,
           \A q \in Requests \ {r} : Untouched(q), Part(r)',
           pc[r] # "Done", Op(r) = "quota" => result'[r] # "ok"
    PROVE  IInv'
  <1>1. UNCHANGED <<supervisor, row, vacated>>
    BY DEF tables
  <1>2. \A q \in Requests : Part(q)'
    BY <1>1, OthersKeep
  <1>3. CountsExact' /\ (\A p \in Supervisors : row[p].count <= row[p].quota)'
    BY <1>1 DEF IInv, CountsExact, Group
  <1>4. \A x \in Requests : /\ Op(x)' = Op(x) /\ To(x)' = To(x)
                            /\ Op(x) = "quota" /\ result'[x] = "ok" => x # r
    BY DEF Op, To
  <1>5. \A x \in Requests : Op(x) = "quota" /\ result'[x] = "ok" => result[x] = "ok" /\ pc'[x] = pc[x]
    BY <1>4 DEF Untouched
  <1>6. VersionsMoveOn'
    BY <1>1, <1>4, <1>5 DEF IInv, VersionsMoveOn
  <1>7. NoLostQuotaUpdate'
    BY <1>4, <1>5 DEF IInv, NoLostQuotaUpdate
  <1> QED BY <1>2, <1>3, <1>6, <1>7 DEF IInv, Part

-----------------------------------------------------------------------------
(* The end of a transaction.                                                *)

\* Release gives back the locks and writes of r and of nobody else.
LEMMA ReleaseFacts ==
    ASSUME TypeOK, NEW r \in Requests, Release(r)
    PROVE  /\ studentLock' \in [Students -> Requests \cup {None}]
           /\ supervisorLock' \in [Supervisors -> Requests \cup {None}]
           /\ delta' \in [Requests -> [Supervisors -> -1..1]] /\ delta'[r] = NoChange
           /\ deleted' \subseteq Requests \ {r} /\ inserted' \subseteq Requests \ {r}
           /\ \A s \in Students : studentLock'[s] # r
           /\ \A p \in Supervisors : supervisorLock'[p] # r
           /\ \A q \in Requests \ {r} :
                 /\ delta'[q] = delta[q]
                 /\ (q \in deleted' <=> q \in deleted) /\ (q \in inserted' <=> q \in inserted)
                 /\ \A s \in Students : studentLock'[s] = q <=> studentLock[s] = q
                 /\ \A p \in Supervisors : supervisorLock'[p] = q <=> supervisorLock[p] = q
  <1>1. r # None
    BY NoneIsFresh
  <1>2. NoChange \in [Supervisors -> -1..1]
    BY DEF NoChange
  <1>3. delta' \in [Requests -> [Supervisors -> -1..1]] /\ delta'[r] = NoChange
    BY <1>2 DEF Release, TypeOK
  <1> QED BY <1>1, <1>3, NoneIsFresh DEF Release, TypeOK

\* A request that has ended, or has not begun, is on its script and holds nothing.
LEMMA ReleasedPart ==
    ASSUME IInv, NEW r \in Requests, Release(r), req' = req,
           \/ pc'[r] = "Done"
           \/ Op(r) # "quota" /\ pc'[r] = "LockStudent"
    PROVE  Part(r)'
  <1>1. TypeOK
    BY DEF IInv
  <1>2. Op(r)' = Op(r) /\ To(r)' = To(r) /\ Op(r) \in {"assign", "switch", "quota"}
    BY <1>1, InputFacts DEF Op, To
  <1>3. /\ ~HoldsStudent(r)' /\ ~HasRead(r)' /\ ~HoldsBoth(r)' /\ ~HasDeleted(r)'
        /\ ~HasDecremented(r)' /\ ~HasIncremented(r)' /\ ~At(r, "LockSupervisors")'
    BY DEF HoldsStudent, HasRead, HoldsBoth, HasDeleted, HasDecremented, HasIncremented, At
  <1>4. OnScript(r)'
    BY <1>2, ScriptFacts DEF OnScript
  <1>5. LocksHeld(r)'
    BY <1>1, <1>3, ReleaseFacts DEF LocksHeld
  <1>6. \A p \in Supervisors : delta'[r][p] = 0
    BY <1>1, ReleaseFacts DEF NoChange
  <1>7. Effects(r)'
    BY <1>1, <1>3, <1>6, ReleaseFacts DEF Effects
  <1> QED BY <1>4, <1>5, <1>7 DEF Part

\* A refused or interrupted request leaves no trace.
LEMMA RefuseKeeps ==
    ASSUME IInv, NEW r \in Requests, pc[r] # "Done",
           NEW outcome \in Outcomes \ {"ok"}, Refuse(r, outcome)
    PROVE  IInv'
  <1>1. TypeOK /\ Release(r) /\ UNCHANGED <<tables, req, attempt, from>>
    BY DEF IInv, Refuse
  <1>2. /\ pc' \in [Requests -> Statements \cup {"Done"}] /\ pc'[r] = "Done"
        /\ result' \in [Requests -> Outcomes] /\ result'[r] = outcome
        /\ \A q \in Requests \ {r} : pc'[q] = pc[q] /\ result'[q] = result[q]
    BY <1>1 DEF Refuse, Answer, TypeOK
  <1>3. TypeOK'
    BY <1>1, <1>2, ReleaseFacts DEF TypeOK, tables
  <1>4. \A q \in Requests \ {r} : Untouched(q)
    BY <1>1, <1>2, ReleaseFacts DEF Untouched
  <1>5. Part(r)'
    BY <1>1, <1>2, ReleasedPart
  <1> QED BY <1>1, <1>2, <1>3, <1>4, <1>5, PrivateKeeps

LEMMA RetryKeeps ==
    ASSUME IInv, NEW r \in Requests, Retry(r)
    PROVE  IInv'
  <1>1. TypeOK /\ Release(r) /\ UNCHANGED <<tables, req, result>> /\ Op(r) # "quota"
    BY DEF IInv, Retry
  <1>2. /\ pc' \in [Requests -> Statements \cup {"Done"}] /\ pc'[r] = "LockStudent"
        /\ \A q \in Requests \ {r} : pc'[q] = pc[q]
    BY <1>1, ScriptFacts DEF Retry, FirstStatement, TypeOK
  <1>3. attempt' \in [Requests -> 1..MaxAttempts]
    BY <1>1, InputsValid DEF Retry, TypeOK
  <1>4. /\ from' \in [Requests -> Supervisors \cup {None}]
        /\ \A q \in Requests \ {r} : from'[q] = from[q]
    BY <1>1 DEF Retry, TypeOK
  <1>5. TypeOK'
    BY <1>1, <1>2, <1>3, <1>4, ReleaseFacts DEF TypeOK, tables
  <1>6. \A q \in Requests \ {r} : Untouched(q)
    BY <1>1, <1>2, <1>4, ReleaseFacts DEF Untouched
  <1>7. Part(r)'
    BY <1>1, <1>2, ReleasedPart
  <1>8. pc[r] # "Done"
    BY DEF Retry, Waits, Wants, At
  <1> QED BY <1>1, <1>5, <1>6, <1>7, <1>8, PrivateKeeps

-----------------------------------------------------------------------------
(* Statements on the way to the commit.                                     *)

\* Statements of a transaction, as operations that go on or are refused.
LEMMA ProceedFacts ==
    ASSUME IInv, NEW r \in Requests, Op(r) # "quota", Proceed(r),
           pc[r] \notin {"Commit", "Done"}
    PROVE  /\ pc' \in [Requests -> Statements \cup {"Done"}]
           /\ \A q \in Requests \ {r} : pc'[q] = pc[q]
           /\ Op(r) = "assign" => pc'[r] = AssignScript[pc[r]] /\ pc[r] \in DOMAIN AssignScript
           /\ Op(r) = "switch" => pc'[r] = SwitchScript[pc[r]] /\ pc[r] \in DOMAIN SwitchScript
           /\ pc'[r] # "Done"
  <1>1. Op(r) \in {"assign", "switch"} /\ TypeOK /\ OnScript(r)
    BY InputFacts DEF IInv
  <1>2. /\ Op(r) = "assign" => pc[r] \in DOMAIN AssignScript
        /\ Op(r) = "switch" => pc[r] \in DOMAIN SwitchScript
    BY <1>1 DEF OnScript
  <1>3. /\ \A x \in DOMAIN AssignScript : AssignScript[x] \in Statements
        /\ \A x \in DOMAIN SwitchScript : SwitchScript[x] \in Statements
    BY ScriptFacts DEF AssignScript, SwitchScript
  <1>4. "Done" \notin Statements
    BY ScriptFacts
  <1>5. pc'[r] = (IF Op(r) = "assign" THEN AssignScript ELSE SwitchScript)[pc[r]]
    BY <1>1 DEF Proceed, TypeOK
  <1> QED BY <1>1, <1>2, <1>3, <1>4, <1>5 DEF Proceed, TypeOK

LEMMA LockStudentKeeps ==
    ASSUME IInv, NEW r \in Requests, LockStudent(r)
    PROVE  IInv'
  <1>1. CASE Refuse(r, "not_found")
    BY <1>1, RefuseKeeps DEF LockStudent, At, Outcomes
  <1>2. CASE /\ studentLock[Student(r)] = None
             /\ studentLock' = [studentLock EXCEPT ![Student(r)] = r]
             /\ Proceed(r)
             /\ UNCHANGED <<tables, supervisorLock, req, attempt, from, writes, result>>
    <2>1. pc[r] = "LockStudent" /\ TypeOK /\ Op(r) # "quota" /\ Op(r) \in {"assign", "switch"}
      BY InputFacts DEF LockStudent, At, IInv, OnScript
    <2>2. Student(r) \in Students /\ r # None
      BY <2>1, InputFacts, NoneIsFresh
    <2>3. /\ pc' \in [Requests -> Statements \cup {"Done"}]
          /\ \A q \in Requests \ {r} : pc'[q] = pc[q]
          /\ Op(r) = "assign" => pc'[r] = "IncrementSupervised"
          /\ Op(r) = "switch" => pc'[r] = "GetSupervision"
      BY <1>2, <2>1, ProceedFacts DEF AssignScript, SwitchScript
    <2>4. TypeOK'
      BY <1>2, <2>1, <2>2, <2>3 DEF TypeOK, tables, writes
    <2>5. \A q \in Requests \ {r} : Untouched(q)
      BY <1>2, <2>1, <2>2, <2>3, NoneIsFresh DEF Untouched, TypeOK, writes
    <2>6. Op(r)' = Op(r) /\ Student(r)' = Student(r) /\ To(r)' = To(r)
      BY <1>2 DEF Op, Student, To
    <2>7. /\ ~HasRead(r)' /\ ~HoldsBoth(r)' /\ ~HasDeleted(r)' /\ ~HasDecremented(r)'
          /\ ~HasIncremented(r)' /\ ~At(r, "LockSupervisors")' /\ pc'[r] # "Commit"
          /\ ~HasRead(r) /\ ~HoldsBoth(r) /\ ~HasDeleted(r) /\ ~HasDecremented(r) /\ ~HasIncremented(r)
      BY <2>1, <2>3, <2>6 DEF HasRead, HoldsBoth, HasDeleted, HasDecremented, HasIncremented, At
    <2>8. Part(r)'
      <3>1. OnScript(r)'
        BY <2>1, <2>3, <2>6, ScriptFacts DEF OnScript
      <3>2. LocksHeld(r)'
        BY <1>2, <2>1, <2>2, <2>6, <2>7 DEF LocksHeld, IInv, TypeOK
      <3>3. Effects(r)'
        BY <1>2, <2>1, <2>7 DEF Effects, IInv, writes
      <3> QED BY <3>1, <3>2, <3>3 DEF Part
    <2> QED BY <1>2, <2>1, <2>4, <2>5, <2>8, PrivateKeeps
  <1> QED BY <1>1, <1>2 DEF LockStudent

LEMMA GetSupervisionKeeps ==
    ASSUME IInv, NEW r \in Requests, GetSupervision(r)
    PROVE  IInv'
  <1>1. CASE Refuse(r, "no_supervision") \/ Refuse(r, "same_supervisor")
    BY <1>1, RefuseKeeps DEF GetSupervision, At, Outcomes
  <1>2. CASE /\ supervisor[Student(r)] \notin {None, To(r)}
             /\ from' = [from EXCEPT ![r] = supervisor[Student(r)]]
             /\ Proceed(r)
             /\ UNCHANGED <<tables, locks, req, attempt, writes, result>>
    <2>1. pc[r] = "GetSupervision" /\ TypeOK /\ Op(r) = "switch"
      BY InputFacts, ScriptFacts DEF GetSupervision, At, IInv, OnScript
    <2>2. Student(r) \in Students /\ supervisor[Student(r)] \in Supervisors \ {To(r)}
      BY <1>2, <2>1, InputFacts DEF TypeOK
    <2>3. /\ pc' \in [Requests -> Statements \cup {"Done"}]
          /\ \A q \in Requests \ {r} : pc'[q] = pc[q]
          /\ pc'[r] = "LockSupervisors"
      BY <1>2, <2>1, ProceedFacts DEF SwitchScript
    <2>4. /\ from' \in [Requests -> Supervisors \cup {None}] /\ from'[r] = supervisor[Student(r)]
          /\ \A q \in Requests \ {r} : from'[q] = from[q]
      BY <1>2, <2>1, <2>2 DEF TypeOK
    <2>5. TypeOK'
      BY <1>2, <2>1, <2>3, <2>4 DEF TypeOK, tables, locks, writes
    <2>6. \A q \in Requests \ {r} : Untouched(q)
      BY <1>2, <2>3, <2>4 DEF Untouched, locks, writes
    <2>7. Op(r)' = Op(r) /\ Student(r)' = Student(r) /\ To(r)' = To(r)
      BY <1>2 DEF Op, Student, To
    <2>8. /\ ~HoldsBoth(r)' /\ ~HasDeleted(r)' /\ ~HasDecremented(r)' /\ ~HasIncremented(r)'
          /\ ~HasRead(r) /\ ~HoldsBoth(r) /\ ~HasDeleted(r) /\ ~HasDecremented(r)
          /\ ~HasIncremented(r) /\ HoldsStudent(r)
      BY <2>1, <2>3 DEF HasRead, HoldsBoth, HasDeleted, HasDecremented, HasIncremented, HoldsStudent
    <2>9. \A p \in Supervisors : supervisorLock'[p] # r
      BY <1>2, <2>8 DEF IInv, LocksHeld, locks
    <2>10. Part(r)'
      <3>1. OnScript(r)'
        BY <2>1, <2>3, <2>7, ScriptFacts DEF OnScript
      <3>2. LocksHeld(r)'
        BY <1>2, <2>7, <2>8, <2>9 DEF LocksHeld, IInv, locks
      <3>3. Effects(r)'
        BY <1>2, <2>1, <2>2, <2>3, <2>4, <2>7, <2>8 DEF Effects, IInv, writes, tables
      <3> QED BY <3>1, <3>2, <3>3 DEF Part
    <2> QED BY <1>2, <2>1, <2>5, <2>6, <2>10, PrivateKeeps
  <1> QED BY <1>1, <1>2 DEF GetSupervision

LEMMA LockSupervisorsKeeps ==
    ASSUME IInv, NEW r \in Requests, LockSupervisors(r)
    PROVE  IInv'
  <1>1. /\ pc[r] = "LockSupervisors" /\ TypeOK /\ Op(r) = "switch"
        /\ HasRead(r) /\ ~HoldsBoth(r) /\ ~HasDeleted(r) /\ ~HasDecremented(r)
        /\ ~HasIncremented(r) /\ HoldsStudent(r)
    <2>1. pc[r] = "LockSupervisors" /\ TypeOK /\ Op(r) = "switch"
      BY InputFacts, ScriptFacts DEF LockSupervisors, At, IInv, OnScript
    <2> QED BY <2>1 DEF HasRead, HoldsBoth, HasDeleted, HasDecremented, HasIncremented, HoldsStudent
  <1>2. /\ from[r] \in Supervisors \ {To(r)} /\ supervisor[Student(r)] = from[r]
        /\ \A p \in Supervisors : supervisorLock[p] = r => p \in {from[r], To(r)}
    BY <1>1 DEF IInv, Effects, LocksHeld
  <1>3. CASE Refuse(r, "not_found")
    BY <1>1, <1>3, RefuseKeeps DEF Outcomes
  <1>4. CASE \E p \in Unlocked(r) :
               /\ NextToLock(r, p)
               /\ supervisorLock[p] = None
               /\ supervisorLock' = [supervisorLock EXCEPT ![p] = r]
               /\ UNCHANGED <<tables, studentLock, req, pc, attempt, from, writes, result>>
    <2>1. PICK p \in Unlocked(r) :
               /\ NextToLock(r, p)
               /\ supervisorLock[p] = None
               /\ supervisorLock' = [supervisorLock EXCEPT ![p] = r]
               /\ UNCHANGED <<tables, studentLock, req, pc, attempt, from, writes, result>>
      BY <1>4
    <2>2. p \in Supervisors /\ p \in {from[r], To(r)} /\ r # None
      BY NoneIsFresh DEF Unlocked
    <2>3. TypeOK'
      BY <1>1, <2>1, <2>2 DEF TypeOK, tables, writes
    <2>4. \A q \in Requests \ {r} : Untouched(q)
      BY <1>1, <2>1, <2>2, NoneIsFresh DEF Untouched, TypeOK, writes
    <2>5. Unlocked(r)' = Unlocked(r) \ {p} /\ Unlocked(r) \subseteq Supervisors
      BY <1>1, <2>1, <2>2 DEF Unlocked, To, TypeOK
    <2>6. \A x \in Unlocked(r)' : p < x
      <3>1. \A x \in Unlocked(r) : p <= x /\ x \in Nat /\ p \in Nat
        BY <2>1, <2>2, <2>5, SupervisorsOrdered DEF NextToLock
      <3>2. \A x \in Unlocked(r) \ {p} : p < x
        BY <3>1
      <3> QED BY <2>5, <3>2
    <2>7. Part(r)'
      <3>1. OnScript(r)'
        BY <1>1, <2>1, SameRequest DEF IInv
      <3>2. LocksHeld(r)'
        <4>1. \A x \in Supervisors : supervisorLock'[x] = r => supervisorLock[x] = r \/ x = p
          BY <1>1, <2>1, <2>2 DEF TypeOK
        <4>2. \A x \in Unlocked(r)' : \A q \in Supervisors : supervisorLock'[q] = r => q < x
          BY <1>1, <2>5, <2>6, <4>1 DEF IInv, LocksHeld, At
        <4>3. (HoldsStudent(r) => studentLock[Student(r)] = r)'
          BY <1>1, <2>1, SameRequest DEF IInv, LocksHeld
        <4> QED BY <1>1, <1>2, <2>1, <2>2, <4>1, <4>2, <4>3, SameRequest DEF LocksHeld
      <3>3. Effects(r)'
        BY <1>1, <2>1, SameRequest DEF Effects, IInv, writes, tables
      <3> QED BY <3>1, <3>2, <3>3 DEF Part
    <2> QED BY <1>1, <2>1, <2>3, <2>4, <2>7, PrivateKeeps
  <1>5. CASE /\ Unlocked(r) = {} /\ To(r) \in Supervisors
             /\ Proceed(r)
             /\ UNCHANGED <<tables, locks, req, attempt, from, writes, result>>
    <2>1. supervisorLock[from[r]] = r /\ supervisorLock[To(r)] = r
      BY <1>2, <1>5 DEF Unlocked
    <2>2. /\ pc' \in [Requests -> Statements \cup {"Done"}]
          /\ \A q \in Requests \ {r} : pc'[q] = pc[q]
          /\ pc'[r] = "DeleteSupervision"
      BY <1>1, <1>5, ProceedFacts DEF SwitchScript
    <2>3. TypeOK'
      BY <1>1, <1>5, <2>2 DEF TypeOK, tables, locks, writes
    <2>4. \A q \in Requests \ {r} : Untouched(q)
      BY <1>5, <2>2 DEF Untouched, locks, writes
    <2>5. Op(r)' = Op(r) /\ Student(r)' = Student(r) /\ To(r)' = To(r)
      BY <1>5 DEF Op, Student, To
    <2>6. /\ ~HasDeleted(r)' /\ ~HasDecremented(r)' /\ ~HasIncremented(r)' /\ HasRead(r)'
      BY <1>1, <2>2, <2>5 DEF HasRead, HoldsBoth, HasDeleted, HasDecremented, HasIncremented
    <2>7. Part(r)'
      <3>1. OnScript(r)'
        BY <1>1, <2>2, <2>5, ScriptFacts DEF OnScript
      <3>2. LocksHeld(r)'
        BY <1>1, <1>2, <1>5, <2>1, <2>2, <2>5, <2>6 DEF LocksHeld, IInv, locks, At
      <3>3. Effects(r)'
        BY <1>1, <1>2, <1>5, <2>2, <2>5, <2>6 DEF Effects, IInv, writes, tables
      <3> QED BY <3>1, <3>2, <3>3 DEF Part
    <2> QED BY <1>1, <1>5, <2>3, <2>4, <2>7, PrivateKeeps
  <1> QED BY <1>3, <1>4, <1>5 DEF LockSupervisors

LEMMA DeleteSupervisionKeeps ==
    ASSUME IInv, NEW r \in Requests, DeleteSupervision(r)
    PROVE  IInv'
  <1>1. pc[r] = "DeleteSupervision" /\ TypeOK /\ Op(r) = "switch"
    BY InputFacts, ScriptFacts DEF DeleteSupervision, At, IInv, OnScript
  <1>2. CASE Refuse(r, "no_supervision")
    BY <1>1, <1>2, RefuseKeeps DEF Outcomes
  <1>3. CASE /\ deleted' = deleted \cup {r}
             /\ Proceed(r)
             /\ UNCHANGED <<tables, locks, req, attempt, from, delta, inserted, result>>
    <2>1. /\ pc' \in [Requests -> Statements \cup {"Done"}]
          /\ \A q \in Requests \ {r} : pc'[q] = pc[q]
          /\ pc'[r] = "DecrementSupervised"
      BY <1>1, <1>3, ProceedFacts DEF SwitchScript
    <2>2. TypeOK'
      BY <1>1, <1>3, <2>1 DEF TypeOK, tables, locks
    <2>3. \A q \in Requests \ {r} : Untouched(q)
      BY <1>3, <2>1 DEF Untouched, locks
    <2>4. Op(r)' = Op(r) /\ Student(r)' = Student(r) /\ To(r)' = To(r)
      BY <1>3 DEF Op, Student, To
    <2>5. /\ HasDeleted(r)' /\ HoldsBoth(r)' /\ ~HasDecremented(r)' /\ ~HasIncremented(r)' /\ HasRead(r)'
          /\ HasRead(r) /\ HoldsBoth(r) /\ ~HasDecremented(r) /\ ~HasIncremented(r) /\ HoldsStudent(r)
      BY <1>1, <2>1, <2>4 DEF HasRead, HoldsBoth, HasDeleted, HasDecremented, HasIncremented, HoldsStudent
    <2>6. Part(r)'
      <3>1. OnScript(r)'
        BY <1>1, <2>1, <2>4, ScriptFacts DEF OnScript
      <3>2. LocksHeld(r)'
        BY <1>1, <1>3, <2>1, <2>4, <2>5 DEF LocksHeld, IInv, locks, At
      <3>3. Effects(r)'
        BY <1>1, <1>3, <2>1, <2>4, <2>5 DEF Effects, IInv, tables
      <3> QED BY <3>1, <3>2, <3>3 DEF Part
    <2> QED BY <1>1, <1>3, <2>2, <2>3, <2>6, PrivateKeeps
  <1> QED BY <1>2, <1>3 DEF DeleteSupervision

\* The two UPDATEs of a counter take its row lock.
LEMMA AddFacts ==
    ASSUME IInv, NEW r \in Requests, Op(r) # "quota", pc[r] \notin {"Commit", "Done"},
           NEW p \in Supervisors, NEW n \in {-1, 1}, delta[r][p] = 0, AddToCount(r, p, n)
    PROVE  /\ TypeOK' /\ \A q \in Requests \ {r} : Untouched(q)
           /\ supervisorLock'[p] = r
           /\ \A x \in Supervisors \ {p} : supervisorLock'[x] = supervisorLock[x]
           /\ \A x \in Supervisors : delta'[r][x] = delta[r][x] + IF x = p THEN n ELSE 0
           /\ UNCHANGED <<tables, studentLock, req, from, deleted, inserted, result>>
  <1>1. TypeOK /\ r # None
    BY NoneIsFresh DEF IInv
  <1>2. UNCHANGED <<tables, studentLock, req, attempt, from, deleted, inserted, result>>
    BY DEF AddToCount
  <1>3. /\ pc' \in [Requests -> Statements \cup {"Done"}]
        /\ \A q \in Requests \ {r} : pc'[q] = pc[q]
    BY ProceedFacts DEF AddToCount
  <1>4. /\ supervisorLock' \in [Supervisors -> Requests \cup {None}] /\ supervisorLock'[p] = r
        /\ \A x \in Supervisors \ {p} : supervisorLock'[x] = supervisorLock[x]
        /\ supervisorLock[p] \in {None, r}
    BY <1>1 DEF AddToCount, TypeOK
  <1>5. PICK d : d = [delta[r] EXCEPT ![p] = @ + n]
    OBVIOUS
  <1>6. d \in [Supervisors -> -1..1] /\ \A x \in Supervisors : d[x] = delta[r][x] + IF x = p THEN n ELSE 0
    <2>1. delta[r] \in [Supervisors -> -1..1]
      BY <1>1 DEF TypeOK
    <2> QED BY <1>5, <2>1
  <1>7. /\ delta' \in [Requests -> [Supervisors -> -1..1]] /\ delta'[r] = d
        /\ \A q \in Requests \ {r} : delta'[q] = delta[q]
    BY <1>1, <1>5, <1>6 DEF AddToCount, TypeOK
  <1>8. TypeOK'
    BY <1>1, <1>2, <1>3, <1>4, <1>7 DEF TypeOK, tables
  <1>9. \A q \in Requests \ {r} : Untouched(q)
    BY <1>1, <1>2, <1>3, <1>4, <1>7, NoneIsFresh DEF Untouched
  <1> QED BY <1>2, <1>4, <1>6, <1>7, <1>8, <1>9

LEMMA DecrementKeeps ==
    ASSUME IInv, NEW r \in Requests, DecrementSupervised(r)
    PROVE  IInv'
  <1>1. pc[r] = "DecrementSupervised" /\ TypeOK /\ Op(r) = "switch" /\ AddToCount(r, from[r], -1)
    BY InputFacts, ScriptFacts DEF DecrementSupervised, At, IInv, OnScript
  <1>2. /\ HasDeleted(r) /\ HoldsBoth(r) /\ ~HasDecremented(r) /\ ~HasIncremented(r)
        /\ HasRead(r) /\ HoldsStudent(r)
    BY <1>1 DEF HasRead, HoldsBoth, HasDeleted, HasDecremented, HasIncremented, HoldsStudent
  <1>3. from[r] \in Supervisors /\ delta[r][from[r]] = 0
    BY <1>2 DEF IInv, Effects
  <1>4. PICK p \in Supervisors : p = from[r]
    BY <1>3
  <1>5. /\ TypeOK' /\ \A q \in Requests \ {r} : Untouched(q)
        /\ supervisorLock'[p] = r
        /\ \A x \in Supervisors \ {p} : supervisorLock'[x] = supervisorLock[x]
        /\ \A x \in Supervisors : delta'[r][x] = delta[r][x] + IF x = p THEN -1 ELSE 0
        /\ UNCHANGED <<tables, studentLock, req, from, deleted, inserted, result>>
    BY <1>1, <1>3, <1>4, AddFacts
  <1>6. pc'[r] = "IncrementSupervised"
    BY <1>1, ProceedFacts DEF SwitchScript, AddToCount
  <1>7. Op(r)' = Op(r) /\ Student(r)' = Student(r) /\ To(r)' = To(r)
    BY <1>5 DEF Op, Student, To
  <1>8. /\ HasDeleted(r)' /\ HoldsBoth(r)' /\ HasDecremented(r)' /\ ~HasIncremented(r)' /\ HasRead(r)'
    BY <1>1, <1>6, <1>7 DEF HasRead, HoldsBoth, HasDeleted, HasDecremented, HasIncremented
  <1>9. Part(r)'
    <2>1. OnScript(r)'
      BY <1>1, <1>6, <1>7, ScriptFacts DEF OnScript
    <2>2. LocksHeld(r)'
      BY <1>2, <1>4, <1>5, <1>6, <1>7, <1>8 DEF LocksHeld, IInv, At, Effects
    <2>3. Effects(r)'
      BY <1>1, <1>2, <1>4, <1>5, <1>6, <1>7, <1>8 DEF Effects, IInv, tables
    <2> QED BY <2>1, <2>2, <2>3 DEF Part
  <1> QED BY <1>1, <1>5, <1>9, PrivateKeeps DEF IInv, VersionsMoveOn

LEMMA IncrementKeeps ==
    ASSUME IInv, NEW r \in Requests, IncrementSupervised(r)
    PROVE  IInv'
  <1>1. /\ pc[r] = "IncrementSupervised" /\ TypeOK /\ Op(r) \in {"assign", "switch"}
    BY InputFacts, ScriptFacts DEF IncrementSupervised, At, IInv, OnScript
  <1>2. CASE Refuse(r, "not_found") \/ Refuse(r, "full")
    BY <1>1, <1>2, RefuseKeeps DEF Outcomes
  <1>3. CASE /\ To(r) \in Supervisors
             /\ VisibleCount(r, To(r)) < row[To(r)].quota
             /\ AddToCount(r, To(r), 1)
    <2>1. /\ ~HasIncremented(r) /\ HoldsStudent(r)
          /\ Op(r) = "switch" => HasRead(r) /\ HoldsBoth(r) /\ HasDeleted(r) /\ HasDecremented(r)
          /\ Op(r) = "assign" => ~HasRead(r) /\ ~HoldsBoth(r) /\ ~HasDeleted(r) /\ ~HasDecremented(r)
      BY <1>1 DEF HasRead, HoldsBoth, HasDeleted, HasDecremented, HasIncremented, HoldsStudent
    <2>2. PICK p \in Supervisors : p = To(r)
      BY <1>3
    <2>3. delta[r][p] = 0 /\ row[p].count < row[p].quota
      <3>1. HasDecremented(r) => p # from[r]
        BY <1>1, <2>1, <2>2 DEF IInv, Effects
      <3>2. delta[r][p] = 0
        BY <2>1, <2>2, <3>1 DEF IInv, Effects
      <3> QED BY <1>1, <1>3, <2>2, <3>2 DEF VisibleCount, TypeOK
    <2>4. /\ TypeOK' /\ \A q \in Requests \ {r} : Untouched(q)
          /\ supervisorLock'[p] = r
          /\ \A x \in Supervisors \ {p} : supervisorLock'[x] = supervisorLock[x]
          /\ \A x \in Supervisors : delta'[r][x] = delta[r][x] + IF x = p THEN 1 ELSE 0
          /\ UNCHANGED <<tables, studentLock, req, from, deleted, inserted, result>>
      BY <1>1, <1>3, <2>2, <2>3, AddFacts
    <2>5. pc'[r] = "InsertSupervision"
      BY <1>1, <1>3, ProceedFacts DEF SwitchScript, AssignScript, AddToCount
    <2>6. Op(r)' = Op(r) /\ Student(r)' = Student(r) /\ To(r)' = To(r)
      BY <2>4 DEF Op, Student, To
    <2>7. /\ HasIncremented(r)'
          /\ Op(r) = "switch" => HasRead(r)' /\ HoldsBoth(r)' /\ HasDeleted(r)' /\ HasDecremented(r)'
          /\ Op(r) = "assign" => ~HasRead(r)' /\ ~HoldsBoth(r)' /\ ~HasDeleted(r)' /\ ~HasDecremented(r)'
      BY <1>1, <2>5, <2>6 DEF HasRead, HoldsBoth, HasDeleted, HasDecremented, HasIncremented
    <2>8. Part(r)'
      <3>1. OnScript(r)'
        BY <1>1, <2>5, <2>6, ScriptFacts DEF OnScript
      <3>2. LocksHeld(r)'
        BY <1>1, <2>1, <2>2, <2>4, <2>5, <2>6, <2>7 DEF LocksHeld, IInv, At, Effects
      <3>3. Effects(r)'
        <4>1. CASE Op(r) = "switch"
          BY <1>1, <2>1, <2>2, <2>3, <2>4, <2>5, <2>6, <2>7, <4>1 DEF Effects, IInv, tables
        <4>2. CASE Op(r) = "assign"
          BY <1>1, <2>1, <2>2, <2>3, <2>4, <2>5, <2>6, <2>7, <4>2 DEF Effects, IInv, tables
        <4> QED BY <1>1, <4>1, <4>2
      <3> QED BY <3>1, <3>2, <3>3 DEF Part
    <2> QED BY <1>1, <2>4, <2>8, PrivateKeeps
  <1> QED BY <1>2, <1>3 DEF IncrementSupervised

LEMMA InsertKeeps ==
    ASSUME IInv, NEW r \in Requests, InsertSupervision(r)
    PROVE  IInv'
  <1>1. /\ pc[r] = "InsertSupervision" /\ TypeOK /\ Op(r) \in {"assign", "switch"}
    BY InputFacts, ScriptFacts DEF InsertSupervision, At, IInv, OnScript
  <1>2. CASE Refuse(r, "already_supervised")
    BY <1>1, <1>2, RefuseKeeps DEF Outcomes
  <1>3. CASE /\ VisibleSupervisor(r) = None
             /\ inserted' = inserted \cup {r}
             /\ Proceed(r)
             /\ UNCHANGED <<tables, locks, req, attempt, from, delta, deleted, result>>
    <2>1. /\ HasIncremented(r) /\ HoldsStudent(r) /\ r \notin inserted
          /\ Op(r) = "switch" => HasRead(r) /\ HoldsBoth(r) /\ HasDeleted(r) /\ HasDecremented(r)
          /\ Op(r) = "assign" => ~HasRead(r) /\ ~HoldsBoth(r) /\ ~HasDeleted(r) /\ ~HasDecremented(r)
      BY <1>1 DEF HasRead, HoldsBoth, HasDeleted, HasDecremented, HasIncremented, HoldsStudent, IInv, Effects
    <2>2. Op(r) = "assign" => supervisor[Student(r)] = None
      BY <1>1, <1>3, <2>1 DEF IInv, Effects, VisibleSupervisor
    <2>3. /\ pc' \in [Requests -> Statements \cup {"Done"}]
          /\ \A q \in Requests \ {r} : pc'[q] = pc[q]
          /\ pc'[r] = "Commit"
      BY <1>1, <1>3, ProceedFacts DEF SwitchScript, AssignScript
    <2>4. TypeOK'
      BY <1>1, <1>3, <2>3 DEF TypeOK, tables, locks
    <2>5. \A q \in Requests \ {r} : Untouched(q)
      BY <1>3, <2>3 DEF Untouched, locks
    <2>6. Op(r)' = Op(r) /\ Student(r)' = Student(r) /\ To(r)' = To(r)
      BY <1>3 DEF Op, Student, To
    <2>7. /\ HasIncremented(r)'
          /\ Op(r) = "switch" => HasRead(r)' /\ HoldsBoth(r)' /\ HasDeleted(r)' /\ HasDecremented(r)'
          /\ Op(r) = "assign" => ~HasRead(r)' /\ ~HoldsBoth(r)' /\ ~HasDeleted(r)' /\ ~HasDecremented(r)'
      BY <1>1, <2>3, <2>6 DEF HasRead, HoldsBoth, HasDeleted, HasDecremented, HasIncremented
    <2>8. Part(r)'
      <3>1. OnScript(r)'
        BY <1>1, <2>3, <2>6 DEF OnScript
      <3>2. LocksHeld(r)'
        BY <1>1, <1>3, <2>1, <2>3, <2>6, <2>7 DEF LocksHeld, IInv, locks, At
      <3>3. Effects(r)'
        <4>1. CASE Op(r) = "switch"
          BY <1>1, <1>3, <2>1, <2>3, <2>6, <2>7, <4>1 DEF Effects, IInv, tables
        <4>2. CASE Op(r) = "assign"
          BY <1>1, <1>3, <2>1, <2>2, <2>3, <2>6, <2>7, <4>2 DEF Effects, IInv, tables
        <4> QED BY <1>1, <4>1, <4>2
      <3> QED BY <3>1, <3>2, <3>3 DEF Part
    <2> QED BY <1>1, <1>3, <2>4, <2>5, <2>8, PrivateKeeps
  <1> QED BY <1>2, <1>3 DEF InsertSupervision

-----------------------------------------------------------------------------
(* Steps that change the committed tables.                                  *)

\* What a commit does to the student.
LEMMA CommitMoves ==
    ASSUME IInv, NEW r \in Requests, Commit(r)
    PROVE  /\ supervisor' = [supervisor EXCEPT ![Student(r)] = To(r)]
           /\ Student(r) \in Students /\ To(r) \in Supervisors
           /\ pc[r] = "Commit" /\ Op(r) \in {"assign", "switch"}
  <1>1. pc[r] = "Commit" /\ TypeOK /\ Op(r) \in {"assign", "switch"}
    BY InputFacts, ScriptFacts DEF Commit, At, IInv, OnScript
  <1>2. HasIncremented(r)
    BY <1>1 DEF HasIncremented
  <1>3. Student(r) \in Students /\ To(r) \in Supervisors /\ r \in inserted
    BY <1>1, <1>2, InputFacts DEF IInv, Effects
  <1>4. supervisor' = [supervisor EXCEPT ![Student(r)] = To(r)]
    BY <1>3 DEF Commit, VisibleSupervisor
  <1> QED BY <1>1, <1>3, <1>4

\* What a commit does to one supervisor: as much as the row of the student says.
LEMMA CommitEffect ==
    ASSUME IInv, NEW r \in Requests, Commit(r), NEW p \in Supervisors
    PROVE  /\ row'[p] \in [quota : Nat \ {0}, count : Nat, version : Nat \ {0}]
           /\ row'[p].quota = row[p].quota /\ row'[p].version = row[p].version
           /\ row'[p].count = row[p].count + delta[r][p]
           /\ row'[p].count <= row[p].quota
           /\ delta[r][p] = 0 => row'[p] = row[p]
           /\ Cardinality(Group(p)) \in Nat
           /\ Cardinality(Group(p)') = Cardinality(Group(p)) + delta[r][p]
           /\ delta[r][p] # 0 => supervisorLock[p] = r
  <1>1. /\ supervisor' = [supervisor EXCEPT ![Student(r)] = To(r)]
        /\ Student(r) \in Students /\ To(r) \in Supervisors
        /\ pc[r] = "Commit" /\ Op(r) \in {"assign", "switch"} /\ TypeOK
    BY CommitMoves DEF IInv
  <1>2. /\ HasIncremented(r)
        /\ Op(r) = "switch" => HasRead(r) /\ HoldsBoth(r) /\ HasDecremented(r)
        /\ Op(r) = "assign" => ~HasDecremented(r)
    BY <1>1 DEF HasRead, HoldsBoth, HasDeleted, HasDecremented, HasIncremented
  <1>3. /\ Cardinality(Group(p)) \in Nat
        /\ supervisor[Student(r)] = p => Cardinality(Group(p)) > 0
        /\ Cardinality(Group(p)') = Cardinality(Group(p)) + (IF To(r) = p THEN 1 ELSE 0)
                                    - (IF supervisor[Student(r)] = p THEN 1 ELSE 0)
    <2>1. PICK s \in Students, new \in Supervisors : s = Student(r) /\ new = To(r)
      BY <1>1
    <2>2. /\ supervisor \in [Students -> Supervisors \cup {None}]
          /\ supervisor' = [supervisor EXCEPT ![s] = new]
      BY <1>1, <2>1 DEF TypeOK
    <2>3. /\ Cardinality(Group(p)) \in Nat
          /\ supervisor[s] = p => Cardinality(Group(p)) > 0
          /\ Cardinality(Group(p)') = Cardinality(Group(p)) + (IF new = p THEN 1 ELSE 0)
                                      - (IF supervisor[s] = p THEN 1 ELSE 0)
      BY <2>2, MoveOne
    <2> QED BY <2>1, <2>3
  <1>4. delta[r][p] = (IF To(r) = p THEN 1 ELSE 0) - (IF supervisor[Student(r)] = p THEN 1 ELSE 0)
    <2>1. CASE Op(r) = "assign"
      BY <1>1, <1>2, <2>1, NoneIsFresh DEF IInv, Effects
    <2>2. CASE Op(r) = "switch"
      BY <1>1, <1>2, <2>2 DEF IInv, Effects
    <2> QED BY <1>1, <2>1, <2>2
  <1>5. delta[r][p] # 0 => supervisorLock[p] = r
    BY <1>1, <1>2 DEF IInv, Effects, LocksHeld
  <1>6. PICK c : c = row[p].count + delta[r][p]
    OBVIOUS
  <1>7. c \in Nat /\ c <= row[p].quota
    <2>1. /\ row[p].count = Cardinality(Group(p)) + vacated[p] /\ vacated[p] \in Nat
          /\ row[p].count <= row[p].quota
      BY <1>1 DEF IInv, CountsExact, TypeOK
    <2>2. row[p].count \in Nat /\ row[p].quota \in Nat
      BY <1>1 DEF TypeOK
    <2>3. To(r) = p => row[p].count < row[p].quota
      BY <1>2 DEF IInv, Effects
    <2>4. CASE delta[r][p] = 0
      BY <1>6, <2>1, <2>2, <2>4
    <2>5. CASE delta[r][p] = 1
      <3>1. To(r) = p
        BY <1>4, <2>5
      <3> QED BY <1>6, <2>2, <2>3, <2>5, <3>1
    <2>6. CASE delta[r][p] = -1
      <3>1. supervisor[Student(r)] = p
        BY <1>4, <2>6
      <3> QED BY <1>3, <1>6, <2>1, <2>2, <2>6, <3>1
    <2>7. delta[r][p] \in {-1, 0, 1}
      BY <1>4
    <2> QED BY <2>4, <2>5, <2>6, <2>7
  <1>8. row'[p] = [row[p] EXCEPT !.count = c]
    BY <1>6 DEF Commit, VisibleCount
  <1>9. row[p] \in [quota : Nat \ {0}, count : Nat, version : Nat \ {0}]
    BY <1>1 DEF TypeOK
  <1>10. /\ row'[p] \in [quota : Nat \ {0}, count : Nat, version : Nat \ {0}]
         /\ row'[p].quota = row[p].quota /\ row'[p].version = row[p].version /\ row'[p].count = c
    BY <1>7, <1>8, <1>9
  <1>11. delta[r][p] = 0 => row'[p] = row[p]
    <2>1. delta[r][p] = 0 => c = row[p].count
      BY <1>6, <1>9
    <2> QED BY <1>8, <1>9, <2>1
  <1> QED BY <1>3, <1>4, <1>5, <1>6, <1>7, <1>10, <1>11

LEMMA CommitKeeps ==
    ASSUME IInv, NEW r \in Requests, Commit(r)
    PROVE  IInv'
  <1>1. /\ pc[r] = "Commit" /\ TypeOK /\ Op(r) \in {"assign", "switch"}
        /\ Release(r) /\ UNCHANGED <<students, vacated, req, attempt, from>>
    BY CommitMoves DEF Commit, IInv
  <1>2. /\ pc' \in [Requests -> Statements \cup {"Done"}] /\ pc'[r] = "Done"
        /\ result' \in [Requests -> Outcomes]
        /\ \A q \in Requests \ {r} : pc'[q] = pc[q] /\ result'[q] = result[q]
    BY <1>1 DEF Commit, Answer, TypeOK, Outcomes
  <1>3. /\ supervisor' \in [Students -> Supervisors \cup {None}]
        /\ \A s \in Students \ {Student(r)} : supervisor'[s] = supervisor[s]
    <2>1. PICK s \in Students, new \in Supervisors : s = Student(r) /\ new = To(r)
      BY CommitMoves
    <2>2. supervisor' = [supervisor EXCEPT ![s] = new]
      BY <2>1, CommitMoves
    <2> QED BY <1>1, <2>1, <2>2 DEF TypeOK
  <1>4. row' \in [Supervisors -> [quota : Nat \ {0}, count : Nat, version : Nat \ {0}]]
    <2>1. \A p \in Supervisors : row'[p] \in [quota : Nat \ {0}, count : Nat, version : Nat \ {0}]
      BY CommitEffect
    <2>2. row' = [p \in Supervisors |-> [row[p] EXCEPT !.count = VisibleCount(r, p)]]
      BY DEF Commit
    <2>3. row' = [p \in Supervisors |-> row'[p]]
      BY <2>2, Zenon
    <2> QED BY <2>1, <2>3, Zenon
  <1>5. TypeOK'
    BY <1>1, <1>2, <1>3, <1>4, ReleaseFacts DEF TypeOK
  <1>6. \A q \in Requests \ {r} : Untouched(q)
    BY <1>1, <1>2, ReleaseFacts DEF Untouched
  <1>7. Part(r)'
    BY <1>1, <1>2, ReleasedPart
  <1>8. ASSUME NEW q \in Requests \ {r}
        PROVE  Part(q)'
    <2>1. HoldsStudent(q) => Student(q) \in Students /\ Student(q) # Student(r)
      <3>1. HoldsStudent(r)
        BY <1>1 DEF HoldsStudent
      <3>2. HoldsStudent(q) => Student(q) \in Students
        BY <1>1, InputFacts DEF HoldsStudent
      <3> QED BY <3>1, <3>2 DEF IInv, LocksHeld
    <2>2. HasIncremented(q) => row'[To(q)] = row[To(q)]
      <3> SUFFICES ASSUME HasIncremented(q) PROVE row'[To(q)] = row[To(q)]
        OBVIOUS
      <3>1. To(q) \in Supervisors /\ supervisorLock[To(q)] # r
        BY DEF IInv, Effects, LocksHeld
      <3> QED BY <3>1, CommitEffect
    <2> QED BY <1>1, <1>3, <1>6, <2>1, <2>2, OthersKeep
  <1>9. CountsExact'
    <2> SUFFICES ASSUME NEW p \in Supervisors
                 PROVE  row'[p].count = Cardinality(Group(p)') + vacated'[p]
      BY DEF CountsExact
    <2>1. /\ row'[p].count = row[p].count + delta[r][p]
          /\ Cardinality(Group(p)') = Cardinality(Group(p)) + delta[r][p]
          /\ Cardinality(Group(p)) \in Nat
      BY CommitEffect
    <2>2. row[p].count = Cardinality(Group(p)) + vacated[p] /\ vacated'[p] = vacated[p]
      BY <1>1 DEF IInv, CountsExact
    <2>3. delta[r][p] \in Int /\ vacated[p] \in Nat
      BY <1>1 DEF TypeOK
    <2> QED BY <2>1, <2>2, <2>3
  <1>10. \A p \in Supervisors : /\ row'[p].count <= row'[p].quota
                                /\ row'[p].version = row[p].version
    BY CommitEffect
  <1>11. \A x \in Requests : /\ Op(x)' = Op(x) /\ To(x)' = To(x)
                             /\ Op(x) = "quota" => x # r
    BY <1>1 DEF Op, To
  <1>12. VersionsMoveOn'
    BY <1>1, <1>2, <1>10, <1>11 DEF IInv, VersionsMoveOn
  <1>13. NoLostQuotaUpdate'
    BY <1>1, <1>2, <1>11 DEF IInv, NoLostQuotaUpdate
  <1> QED BY <1>5, <1>7, <1>8, <1>9, <1>10, <1>12, <1>13 DEF IInv, Part

\* A request for a quota holds and writes nothing beside the row it updates.
LEMMA QuotaPart ==
    ASSUME IInv, NEW r \in Requests, pc[r] = "UpdateQuota", UNCHANGED <<locks, req, writes>>,
           pc'[r] \in {"ExplainQuota", "Done"}
    PROVE  Op(r) = "quota" /\ Part(r)'
  <1>1. Op(r) = "quota" /\ Op(r)' = Op(r) /\ TypeOK
    BY InputFacts, ScriptFacts DEF IInv, OnScript, Op
  <1>2. /\ ~HoldsStudent(r)' /\ ~HasRead(r)' /\ ~HoldsBoth(r)' /\ ~HasDeleted(r)'
        /\ ~HasDecremented(r)' /\ ~HasIncremented(r)' /\ ~At(r, "LockSupervisors")'
        /\ ~HasRead(r) /\ ~HasDeleted(r) /\ ~HasDecremented(r) /\ ~HasIncremented(r)
    BY <1>1 DEF HoldsStudent, HasRead, HoldsBoth, HasDeleted, HasDecremented, HasIncremented, At
  <1>3. OnScript(r)'
    BY <1>1 DEF OnScript
  <1>4. LocksHeld(r)'
    BY <1>2 DEF LocksHeld, IInv, locks
  <1>5. Effects(r)'
    BY <1>1, <1>2 DEF Effects, IInv, writes
  <1> QED BY <1>1, <1>3, <1>4, <1>5 DEF Part

LEMMA UpdateQuotaKeeps ==
    ASSUME IInv, NEW r \in Requests, UpdateQuota(r)
    PROVE  IInv'
  <1>1. TypeOK /\ pc[r] = "UpdateQuota" /\ UNCHANGED <<students, supervisor, vacated, locks, req, attempt, from, writes>>
    BY DEF UpdateQuota, At, IInv, tables
  <1>2. /\ pc' \in [Requests -> Statements \cup {"Done"}] /\ pc'[r] \in {"ExplainQuota", "Done"}
        /\ \A q \in Requests \ {r} : pc'[q] = pc[q]
    BY <1>1, ScriptFacts DEF UpdateQuota, Answer, TypeOK
  <1>3. /\ result' \in [Requests -> Outcomes]
        /\ \A q \in Requests \ {r} : result'[q] = result[q]
    BY <1>1 DEF UpdateQuota, Answer, TypeOK, Outcomes
  <1>4. Op(r) = "quota" /\ Part(r)'
    BY <1>1, <1>2, QuotaPart
  <1>5. \A q \in Requests \ {r} : Untouched(q)
    BY <1>1, <1>2, <1>3 DEF Untouched, locks, writes
  <1>6. CASE ~QuotaMatches(r) /\ UNCHANGED <<tables, result>>
    <2>1. TypeOK'
      BY <1>1, <1>2, <1>6 DEF TypeOK, tables, locks, writes
    <2>2. result'[r] # "ok"
      BY <1>1, <1>4, <1>6 DEF IInv, VersionsMoveOn
    <2> QED BY <1>1, <1>4, <1>5, <1>6, <2>1, <2>2, PrivateKeeps
  <1>7. CASE /\ QuotaMatches(r)
             /\ supervisorLock[To(r)] = None
             /\ row' = [row EXCEPT ![To(r)].quota = req[r].quota, ![To(r)].version = @ + 1]
             /\ \E outcome \in {"ok", "error"} : Answer(r, outcome)
    <2>1. PICK p \in Supervisors : p = To(r)
      BY <1>7 DEF QuotaMatches
    <2>2. PICK n \in Nat \ {0}, v \in Nat \ {0} : n = req[r].quota /\ v = row[p].version + 1
      <3>1. row[p].version \in Nat \ {0} /\ row[p].version + 1 \in Nat \ {0}
        BY <1>1, <2>1 DEF TypeOK
      <3> QED BY <1>1, <1>4, <3>1, InputFacts
    <2>3. /\ v = req[r].version + 1 /\ row[p].count <= n /\ req[r].version \in Nat
          /\ row[p].version = req[r].version
      BY <1>1, <1>4, <1>7, <2>1, <2>2, InputFacts DEF QuotaMatches
    <2>4. row' = [row EXCEPT ![p] = [row[p] EXCEPT !.quota = n, !.version = v]]
      BY <1>7, <2>1, <2>2
    <2>5. row[p] \in [quota : Nat \ {0}, count : Nat, version : Nat \ {0}]
      BY <1>1, <2>1 DEF TypeOK
    <2>6. PICK w \in [quota : Nat \ {0}, count : Nat, version : Nat \ {0}] :
             /\ w = [row[p] EXCEPT !.quota = n, !.version = v]
             /\ w.quota = n /\ w.count = row[p].count /\ w.version = v
      <3>1. PICK o \in [quota : Nat \ {0}, count : Nat, version : Nat \ {0}] : o = row[p]
        BY <2>5
      <3>2. PICK w : w = [o EXCEPT !.quota = n, !.version = v]
        OBVIOUS
      <3>3. w = [quota |-> n, count |-> o.count, version |-> v]
        BY <3>2
      <3>4. w \in [quota : Nat \ {0}, count : Nat, version : Nat \ {0}]
        BY <3>3
      <3> QED BY <3>1, <3>2, <3>3, <3>4
    <2>7. /\ row' \in [Supervisors -> [quota : Nat \ {0}, count : Nat, version : Nat \ {0}]]
          /\ row'[p] = w /\ \A x \in Supervisors \ {p} : row'[x] = row[x]
      BY <1>1, <2>4, <2>6 DEF TypeOK
    <2>8. TypeOK'
      BY <1>1, <1>2, <1>3, <2>7 DEF TypeOK, locks, writes
    <2>9. ASSUME NEW q \in Requests \ {r}
          PROVE  Part(q)'
      <3>1. HasIncremented(q) => To(q) \in Supervisors /\ To(q) # p
        BY <1>7, <2>1, NoneIsFresh DEF IInv, LocksHeld, Effects
      <3>2. HoldsStudent(q) => supervisor'[Student(q)] = supervisor[Student(q)]
        BY <1>1
      <3> QED BY <1>1, <1>5, <2>7, <3>1, <3>2, OthersKeep
    <2>10. \A x \in Supervisors : row'[x].count = row[x].count
      <3> TAKE x \in Supervisors
      <3>1. CASE x = p
        BY <2>6, <2>7, <3>1
      <3>2. CASE x # p
        BY <2>7, <3>2
      <3> QED BY <3>1, <3>2
    <2>11. CountsExact'
      BY <1>1, <2>10 DEF IInv, CountsExact, Group
    <2>12. \A x \in Supervisors : row'[x].count <= row'[x].quota
      <3> TAKE x \in Supervisors
      <3>1. CASE x = p
        <4>1. w.count <= w.quota
          BY <2>3, <2>6
        <4> QED BY <2>7, <3>1, <4>1
      <3>2. CASE x # p
        BY <2>7, <3>2 DEF IInv
      <3> QED BY <3>1, <3>2
    <2>13. \A x \in Supervisors : row[x].version \in Nat /\ row'[x].version \in Nat
                                  /\ row'[x].version >= row[x].version
      <3> TAKE x \in Supervisors
      <3>1. row[x].version \in Nat
        BY <1>1 DEF TypeOK
      <3>2. CASE x = p
        <4>1. row'[x].version = row[x].version + 1
          BY <2>2, <2>6, <2>7, <3>2
        <4> QED BY <3>1, <4>1
      <3>3. CASE x # p
        BY <2>7, <3>1, <3>3
      <3> QED BY <3>2, <3>3
    <2>14. \A x \in Requests : Op(x)' = Op(x) /\ To(x)' = To(x) /\ req'[x] = req[x]
      BY <1>1 DEF Op, To
    <2>15. pc'[r] = "Done"
      BY <1>1, <1>7 DEF Answer, TypeOK
    <2>16. ASSUME NEW x \in Requests, Op(x) = "quota", result'[x] = "ok"
           PROVE  pc'[x] = "Done" /\ To(x) \in Supervisors /\ row'[To(x)].version > req[x].version
      <3>1. CASE x = r
        <4>1. row'[p].version = req[r].version + 1 /\ req[r].version \in Nat
          BY <2>3, <2>6, <2>7
        <4> QED BY <2>1, <2>15, <3>1, <4>1
      <3>2. CASE x # r
        <4>1. /\ pc[x] = "Done" /\ To(x) \in Supervisors /\ row[To(x)].version > req[x].version
              /\ pc'[x] = pc[x] /\ req[x].version \in Nat
          BY <1>1, <1>2, <1>3, <2>16, <3>2, InputFacts DEF IInv, VersionsMoveOn
        <4>2. PICK y \in Supervisors : y = To(x)
          BY <4>1
        <4>3. row'[y].version > req[x].version
          BY <2>13, <4>1, <4>2
        <4> QED BY <4>1, <4>2, <4>3
      <3> QED BY <3>1, <3>2
    <2>17. VersionsMoveOn'
      BY <2>14, <2>16 DEF VersionsMoveOn
    <2>18. ASSUME NEW x \in Requests \ {r}, Op(x) = "quota", result'[x] = "ok", To(x) = To(r)
           PROVE  req[x].version # req[r].version
      <3>1. row[p].version > req[x].version
        BY <1>3, <2>1, <2>18 DEF IInv, VersionsMoveOn
      <3>2. req[x].version \in Nat
        BY <1>1, <2>18, InputFacts
      <3> QED BY <2>3, <3>1, <3>2
    <2>19. NoLostQuotaUpdate'
      BY <1>3, <2>14, <2>18 DEF IInv, NoLostQuotaUpdate
    <2> QED BY <1>4, <2>8, <2>9, <2>11, <2>12, <2>17, <2>19 DEF IInv, Part
  <1> QED BY <1>6, <1>7 DEF UpdateQuota

LEMMA DeleteStudentKeeps ==
    ASSUME IInv, NEW s \in Students, DeleteStudent(s)
    PROVE  IInv'
  <1>1. /\ TypeOK /\ studentLock[s] = None /\ students' = students \ {s}
        /\ supervisor' = [supervisor EXCEPT ![s] = None]
        /\ vacated' = [p \in Supervisors |-> vacated[p] + IF supervisor[s] = p THEN 1 ELSE 0]
        /\ UNCHANGED <<row, locks, req, pc, attempt, from, writes, result>>
    BY DEF DeleteStudent, IInv
  <1>2. /\ supervisor' \in [Students -> Supervisors \cup {None}]
        /\ \A x \in Students \ {s} : supervisor'[x] = supervisor[x]
    BY <1>1 DEF TypeOK
  <1>3. vacated' \in [Supervisors -> Nat]
    BY <1>1 DEF TypeOK
  <1>4. TypeOK'
    BY <1>1, <1>2, <1>3 DEF TypeOK, locks, writes
  <1>5. ASSUME NEW q \in Requests
        PROVE  Part(q)'
    <2>1. HoldsStudent(q) => Student(q) \in Students /\ Student(q) # s
      <3>1. HoldsStudent(q) => Student(q) \in Students
        BY <1>1, InputFacts DEF HoldsStudent
      <3> QED BY <1>1, <3>1, NoneIsFresh DEF IInv, LocksHeld
    <2>2. Untouched(q)
      BY <1>1 DEF Untouched, locks, writes
    <2> QED BY <1>1, <1>2, <2>1, <2>2, OthersKeep
  <1>6. CountsExact'
    <2> SUFFICES ASSUME NEW p \in Supervisors
                 PROVE  row'[p].count = Cardinality(Group(p)') + vacated'[p]
      BY DEF CountsExact
    <2>1. PICK new \in Supervisors \cup {None} : new = None
      OBVIOUS
    <2>2. /\ Cardinality(Group(p)) \in Nat
          /\ Cardinality(Group(p)') = Cardinality(Group(p)) + (IF new = p THEN 1 ELSE 0)
                                      - (IF supervisor[s] = p THEN 1 ELSE 0)
      <3>1. supervisor \in [Students -> Supervisors \cup {None}]
        BY <1>1 DEF TypeOK
      <3>2. supervisor' = [supervisor EXCEPT ![s] = new]
        BY <1>1, <2>1
      <3> QED BY <3>1, <3>2, MoveOne
    <2>3. new # p
      BY <2>1, NoneIsFresh
    <2>4. vacated'[p] = vacated[p] + IF supervisor[s] = p THEN 1 ELSE 0
      BY <1>1
    <2>5. row'[p].count = Cardinality(Group(p)) + vacated[p] /\ vacated[p] \in Nat
      BY <1>1 DEF IInv, CountsExact, TypeOK
    <2> QED BY <2>2, <2>3, <2>4, <2>5
  <1>7. /\ (\A p \in Supervisors : row[p].count <= row[p].quota)'
        /\ VersionsMoveOn' /\ NoLostQuotaUpdate'
    BY <1>1 DEF IInv, VersionsMoveOn, NoLostQuotaUpdate, Op, To
  <1> QED BY <1>4, <1>5, <1>6, <1>7 DEF IInv, Part

-----------------------------------------------------------------------------
(* The inductive invariant.                                                 *)

LEMMA InitIInv == Init => IInv
  <1> SUFFICES ASSUME Init PROVE IInv
    OBVIOUS
  <1>1. supervisor \in [Students -> Supervisors \cup {None}] /\ req \in [Requests -> Inputs]
    BY DEF Init
  <1>2. \A r \in Requests : req[r] \in Input
    BY <1>1, InputsValid
  <1>3. ASSUME NEW r \in Requests
        PROVE  /\ pc[r] = FirstStatement(Op(r)) /\ delta[r] = NoChange
               /\ Op(r) \in {"assign", "switch", "quota"}
    BY <1>2 DEF Init, Op, Input
  <1>4. \A r \in Requests : /\ Op(r) = "quota" => pc[r] = "UpdateQuota"
                            /\ Op(r) # "quota" => pc[r] = "LockStudent"
    BY <1>3 DEF FirstStatement
  <1>5. \A p \in Supervisors : Cardinality(Group(p)) \in Nat
    BY StudentsFinite, FS_Subset, FS_CardinalityType DEF Group
  <1>6. ASSUME NEW p \in Supervisors
        PROVE  /\ row[p] \in [quota : Nat \ {0}, count : Nat, version : Nat \ {0}]
               /\ row[p].quota = SeedQuota[p] /\ row[p].count = Cardinality(Group(p))
    BY <1>5, SeedPositive DEF Init
  <1>7. row \in [Supervisors -> [quota : Nat \ {0}, count : Nat, version : Nat \ {0}]]
    <2>1. row = [p \in Supervisors |-> row[p]]
      BY Zenon DEF Init
    <2> QED BY <1>6, <2>1, Zenon
  <1>8. TypeOK
    <2>1. pc \in [Requests -> Statements \cup {"Done"}]
      <3>1. \A r \in Requests : pc[r] \in Statements
        BY <1>4, ScriptFacts
      <3> QED BY <3>1 DEF Init
    <2>2. NoChange \in [Supervisors -> -1..1]
      BY DEF NoChange
    <2>3. vacated \in [Supervisors -> Nat] /\ attempt \in [Requests -> 1..MaxAttempts]
      BY InputsValid DEF Init
    <2> QED BY <1>1, <1>7, <2>1, <2>2, <2>3 DEF TypeOK, Init, Outcomes
  <1>9. ASSUME NEW r \in Requests
        PROVE  Part(r)
    <2>1. /\ ~HoldsStudent(r) \/ Op(r) = "quota"
          /\ ~HasRead(r) /\ ~HoldsBoth(r) /\ ~HasDeleted(r) /\ ~HasDecremented(r)
          /\ ~HasIncremented(r) /\ ~At(r, "LockSupervisors") /\ pc[r] # "Commit"
      BY <1>4 DEF HoldsStudent, HasRead, HoldsBoth, HasDeleted, HasDecremented, HasIncremented, At
    <2>2. OnScript(r)
      BY <1>3, <1>4, ScriptFacts DEF OnScript
    <2>3. LocksHeld(r)
      BY <2>1, NoneIsFresh DEF LocksHeld, Init, HoldsStudent
    <2>4. \A p \in Supervisors : delta[r][p] = 0
      BY <1>3 DEF NoChange
    <2>5. Effects(r)
      BY <2>1, <2>4 DEF Effects, Init
    <2> QED BY <2>2, <2>3, <2>5 DEF Part
  <1>10. CountsExact
    BY <1>5, <1>6 DEF CountsExact, Init
  <1>11. \A p \in Supervisors : row[p].count <= row[p].quota
    BY <1>6 DEF Init
  <1>12. VersionsMoveOn /\ NoLostQuotaUpdate
    BY DEF VersionsMoveOn, NoLostQuotaUpdate, Init
  <1> QED BY <1>8, <1>9, <1>10, <1>11, <1>12 DEF IInv, Part

\* Every step of the program keeps the invariant.
LEMMA Inductive == IInv /\ [Next]_vars => IInv'
  <1> SUFFICES ASSUME IInv, [Next]_vars PROVE IInv'
    OBVIOUS
  <1>1. ASSUME NEW r \in Requests, Statement(r)
        PROVE  IInv'
    <2>1. CASE ExplainQuota(r)
      BY <2>1, RefuseKeeps DEF ExplainQuota, At, Outcomes
    <2> QED BY <1>1, <2>1, LockStudentKeeps, GetSupervisionKeeps, LockSupervisorsKeeps,
               DeleteSupervisionKeeps, DecrementKeeps, IncrementKeeps, InsertKeeps,
               CommitKeeps, UpdateQuotaKeeps DEF Statement
  <1>2. ASSUME NEW r \in Requests, Interrupt(r)
        PROVE  IInv'
    BY <1>2, RefuseKeeps DEF Interrupt, Running, Outcomes
  <1>3. CASE UNCHANGED vars
    BY <1>3 DEF IInv, TypeOK, OnScript, LocksHeld, Effects, CountsExact, VersionsMoveOn,
                NoLostQuotaUpdate, HoldsStudent, HasRead, HoldsBoth, HasDeleted, HasDecremented,
                HasIncremented, Unlocked, Group, At, Op, Student, To, vars, tables, locks, writes
  <1> QED BY <1>1, <1>2, <1>3, RetryKeeps, DeleteStudentKeeps DEF Next, AllAnswered

\* Theorem: in every reachable state locks and private writes of every request
\* match the statements it has run, whatever the requests, students and rows.
THEOREM InvariantHolds == Spec => []IInv
  <1> QED BY InitIInv, Inductive, PTL DEF Spec

-----------------------------------------------------------------------------
(* What follows from it.                                                    *)

\* Theorem: in every reachable state a supervisor's counter is the number of his
\* rows in supervisions and of those that went by cascade (property CountsExact).
THEOREM CountsAlwaysExact == Spec => []CountsExact
  <1>1. IInv => CountsExact
    BY DEF IInv
  <1> QED BY <1>1, InvariantHolds, PTL

LEMMA IInvWithinQuota == IInv => WithinQuota
  <1> SUFFICES ASSUME IInv, NEW p \in Supervisors, NEW r \in Requests, delta[r][p] # 0
               PROVE  VisibleCount(r, p) \in 0..row[p].quota
    BY DEF WithinQuota, IInv
  <1>1. TypeOK /\ Effects(r)
    BY DEF IInv
  <1>2. row[p].count \in Nat /\ row[p].quota \in Nat /\ row[p].count <= row[p].quota
    BY <1>1 DEF TypeOK, IInv
  <1>3. CASE HasIncremented(r) /\ p = To(r)
    <2>1. delta[r][p] \in {0, 1} /\ row[p].count < row[p].quota
      BY <1>1, <1>3 DEF Effects
    <2> QED BY <1>2, <2>1 DEF VisibleCount
  <1>4. CASE HasDecremented(r) /\ p = from[r] /\ ~(HasIncremented(r) /\ p = To(r))
    <2>1. delta[r][p] = -1
      BY <1>1, <1>4 DEF Effects
    <2>2. HasRead(r) /\ Op(r) # "quota"
      BY <1>4 DEF HasDecremented, HasDeleted, HoldsBoth, HasRead
    <2>3. Student(r) \in Students /\ supervisor[Student(r)] = p
      BY <1>1, <1>4, <2>2, InputFacts DEF Effects
    <2>4. Student(r) \in Group(p) /\ IsFiniteSet(Group(p))
      BY <2>3, StudentsFinite, FS_Subset DEF Group
    <2>5. Cardinality(Group(p)) \in Nat /\ Cardinality(Group(p)) # 0
      BY <2>4, FS_CardinalityType, FS_EmptySet
    <2>6. row[p].count = Cardinality(Group(p)) + vacated[p] /\ vacated[p] \in Nat
      BY <1>1 DEF IInv, CountsExact, TypeOK
    <2> QED BY <1>2, <2>1, <2>5, <2>6 DEF VisibleCount
  <1> QED BY <1>1, <1>3, <1>4 DEF Effects

\* Theorem: no supervisor is ever overbooked, and no statement writes a count
\* that the CHECK constraint refuses (property WithinQuota).
THEOREM NeverOverbooked == Spec => []WithinQuota
  <1> QED BY IInvWithinQuota, InvariantHolds, PTL

\* Theorem: of all administrators that saw one version of a supervisor, at most
\* one changes the quota (property NoLostQuotaUpdate).
THEOREM NoQuotaUpdateIsLost == Spec => []NoLostQuotaUpdate
  <1>1. IInv => NoLostQuotaUpdate
    BY DEF IInv
  <1> QED BY <1>1, InvariantHolds, PTL

LEMMA IInvWaitsLeadUp == IInv => WaitsLeadUp
  <1> SUFFICES ASSUME IInv, NEW r \in Requests
               PROVE  /\ At(r, "LockStudent") => \A p \in Supervisors : supervisorLock[p] # r
                      /\ \A p, q \in Supervisors :
                            Wants(r, p) /\ supervisorLock[p] # r /\ supervisorLock[q] = r => q < p
    BY DEF WaitsLeadUp
  <1>1. TypeOK /\ OnScript(r) /\ LocksHeld(r) /\ Op(r) \in {"assign", "switch", "quota"}
    BY InputFacts DEF IInv
  <1>2. At(r, "LockStudent") => \A p \in Supervisors : supervisorLock[p] # r
    BY <1>1 DEF LocksHeld, At, HasRead, HasIncremented
  <1>3. ASSUME NEW p \in Supervisors, NEW q \in Supervisors,
               Wants(r, p), supervisorLock[p] # r, supervisorLock[q] = r
        PROVE  q < p
    <2>1. CASE At(r, "LockSupervisors") /\ NextToLock(r, p)
      BY <1>1, <1>3, <2>1 DEF LocksHeld, NextToLock
    <2>2. CASE At(r, "DecrementSupervised") /\ p = from[r]
      <3>1. HoldsBoth(r)
        BY <1>1, <2>2, ScriptFacts DEF OnScript, At, HoldsBoth, HasRead
      <3> QED BY <1>1, <1>3, <2>2, <3>1 DEF LocksHeld
    <2>3. CASE At(r, "IncrementSupervised") /\ p = To(r)
      <3>1. CASE Op(r) = "switch"
        <4>1. HoldsBoth(r)
          BY <2>3, <3>1 DEF At, HoldsBoth, HasRead
        <4> QED BY <1>1, <1>3, <2>3, <4>1 DEF LocksHeld
      <3>2. CASE Op(r) # "switch"
        BY <1>1, <1>3, <2>3, <3>2 DEF LocksHeld, At, HasRead, HasIncremented
      <3> QED BY <3>1, <3>2
    <2>4. CASE At(r, "UpdateQuota")
      BY <1>1, <1>3, <2>4, ScriptFacts DEF LocksHeld, OnScript, At, HasRead, HasIncremented
    <2> QED BY <1>3, <2>1, <2>2, <2>3, <2>4 DEF Wants
  <1> QED BY <1>2, <1>3

\* Theorem: whoever waits for a row of supervisors holds only rows with smaller
\* ids, so no set of requests waits in a circle (property WaitsLeadUp).
THEOREM WaitsAlwaysLeadUp == Spec => []WaitsLeadUp
  <1> QED BY IInvWaitsLeadUp, InvariantHolds, PTL

LEMMA StepKeepsSupervisor ==
    ASSUME IInv, [Next]_vars, NEW s \in students', supervisor[s] # None
    PROVE  supervisor'[s] # None
  <1>1. CASE UNCHANGED supervisor
    BY <1>1
  <1>2. ASSUME NEW r \in Requests, Commit(r)
        PROVE  supervisor'[s] # None
    <2>1. s \in Students
      BY <1>2 DEF IInv, TypeOK, Commit
    <2> QED BY <1>2, <2>1, CommitMoves, NoneIsFresh DEF IInv, TypeOK
  <1>3. ASSUME NEW x \in Students, DeleteStudent(x)
        PROVE  supervisor'[s] # None
    BY <1>3 DEF DeleteStudent, IInv, TypeOK
  <1>4. ASSUME NEW r \in Requests, Statement(r) \/ Interrupt(r) \/ Retry(r), ~Commit(r)
        PROVE  UNCHANGED supervisor
    BY <1>4 DEF Statement, Interrupt, Retry, Refuse, LockStudent, GetSupervision, LockSupervisors,
                DeleteSupervision, DecrementSupervised, IncrementSupervised, AddToCount,
                InsertSupervision, UpdateQuota, ExplainQuota, tables
  <1>5. UNCHANGED vars => UNCHANGED supervisor
    BY DEF vars, tables
  <1> QED BY <1>1, <1>2, <1>3, <1>4, <1>5 DEF Next, AllAnswered

\* Theorem: a student who has a supervisor keeps one at every step of every
\* request, whatever fails (property SupervisorKept).
THEOREM SupervisorAlwaysKept == Spec => SupervisorKept
  <1>1. IInv /\ [Next]_vars => [\A s \in students' : supervisor[s] # None => supervisor'[s] # None]_vars
    BY StepKeepsSupervisor
  <1> QED BY <1>1, InvariantHolds, PTL DEF Spec, SupervisorKept

-----------------------------------------------------------------------------
(* The refinement of Placements.                                            *)

\* Only Commit, UpdateQuota and DeleteStudent change what Placements sees.
LEMMA TablesStay ==
    ASSUME NEW r \in Requests, Statement(r) \/ Interrupt(r) \/ Retry(r),
           ~ Commit(r), ~ UpdateQuota(r)
    PROVE  UNCHANGED tables
  BY DEF Statement, Interrupt, Retry, Refuse, LockStudent, GetSupervision, LockSupervisors,
         DeleteSupervision, DecrementSupervised, IncrementSupervised, AddToCount,
         InsertSupervision, ExplainQuota, tables

LEMMA IInvTypes == IInv => TypeOK
  BY DEF IInv

\* Whoever holds the lock of a student keeps the account from being deleted.
LEMMA AccountsStay == IInv /\ AccountsKept /\ [Next]_vars => AccountsKept'
  <1> SUFFICES ASSUME IInv, AccountsKept, [Next]_vars, NEW r \in Requests, HoldsStudent(r)'
               PROVE  Student(r)' \in students'
    BY DEF AccountsKept
  <1>1. TypeOK /\ HoldsStudent(r) => studentLock[Student(r)] = r
    BY DEF IInv, LocksHeld
  <1>2. req' = req
    BY DEF Next, Statement, Interrupt, Retry, Refuse, LockStudent, GetSupervision,
           LockSupervisors, DeleteSupervision, DecrementSupervised, IncrementSupervised,
           AddToCount, InsertSupervision, Commit, UpdateQuota, ExplainQuota, DeleteStudent,
           AllAnswered, vars
  <1>3. Student(r)' = Student(r) /\ Op(r)' = Op(r)
    BY <1>2 DEF Student, Op
  <1>4. ASSUME NEW q \in Requests, Statement(q) \/ Interrupt(q) \/ Retry(q)
        PROVE  students' = students /\ (pc'[r] # pc[r] => r = q)
    <2>1. students' = students
      BY <1>4, TablesStay DEF Commit, UpdateQuota, tables
    <2>2. \/ pc' = pc
          \/ \E statement : pc' = [pc EXCEPT ![q] = statement]
      BY <1>4
      DEF Statement, Interrupt, Retry, Refuse, Answer, Proceed, LockStudent, GetSupervision,
          LockSupervisors, DeleteSupervision, DecrementSupervised, IncrementSupervised,
          AddToCount, InsertSupervision, Commit, UpdateQuota, ExplainQuota
    <2>3. pc \in [Requests -> Statements \cup {"Done"}]
      BY IInvTypes DEF TypeOK
    <2> QED BY <2>1, <2>2, <2>3
  <1>5. CASE HoldsStudent(r)
    <2>1. Student(r) \in students /\ Student(r) \in Students
      BY <1>5, IInvTypes DEF AccountsKept, TypeOK
    <2>2. \A s \in Students : DeleteStudent(s) => s # Student(r) /\ students' = students \ {s}
      BY <1>1, <1>5, NoneIsFresh DEF DeleteStudent, IInv, LocksHeld
    <2> QED BY <1>3, <1>4, <2>1, <2>2 DEF Next, AllAnswered, vars, tables
  <1>6. CASE ~ HoldsStudent(r)
    <2>1. pc[r] \in {"LockStudent", "Done"} /\ pc'[r] # pc[r] /\ Op(r) # "quota"
      BY <1>3, <1>6 DEF HoldsStudent
    <2>2. PICK q \in Requests : Statement(q) \/ Interrupt(q) \/ Retry(q)
      BY <2>1 DEF Next, AllAnswered, DeleteStudent, vars
    <2>3. r = q
      BY <1>4, <2>1, <2>2
    <2>4. CASE LockStudent(r)
      BY <1>3, <2>4, IInvTypes DEF LockStudent, Refuse, Answer, HoldsStudent, TypeOK, tables
    <2>5. CASE ~ LockStudent(r)
      <3>1. pc'[r] \in {"LockStudent", "Done"}
        BY <2>1, <2>2, <2>3, <2>5, IInvTypes
        DEF Statement, Interrupt, Retry, Refuse, Answer, GetSupervision, LockSupervisors,
            DeleteSupervision, DecrementSupervised, IncrementSupervised, AddToCount,
            InsertSupervision, Commit, UpdateQuota, ExplainQuota, At, Running, TypeOK,
            FirstStatement, Op
      <3> QED BY <3>1 DEF HoldsStudent
    <2> QED BY <2>4, <2>5
  <1> QED BY <1>5, <1>6

\* Placements counts the students of a supervisor as the code does.
LEMMA SameGroups ==
    ASSUME NEW p
    PROVE  Abstract!Cardinality(Abstract!Group(p)) = Cardinality(Group(p))
  <1>1. Abstract!Group(p) = Group(p)
    BY DEF Abstract!Group, Group
  <1>2. Abstract!Cardinality(Group(p)) = Cardinality(Group(p))
    BY DEF Abstract!Cardinality, Cardinality
  <1> QED BY <1>1, <1>2

LEMMA InitRefines == Init => Abstract!Init
  <1> SUFFICES ASSUME Init PROVE Abstract!Init
    OBVIOUS
  <1>1. [p \in Supervisors |-> row[p].quota] = SeedQuota
    BY SeedPositive DEF Init
  <1>2. [p \in Supervisors |-> row[p].version] = [p \in Supervisors |-> 1]
    BY DEF Init
  <1>3. \A p \in Supervisors : Abstract!Cardinality(Abstract!Group(p)) <= SeedQuota[p]
    BY SameGroups DEF Init
  <1>4. students = Students /\ supervisor \in [Students -> Supervisors \cup {None}]
    BY DEF Init
  <1> QED BY <1>1, <1>2, <1>3, <1>4 DEF Abstract!Init

\* A committed request is one placement: the student still has an account, and
\* the supervisor still has room.
LEMMA CommitRefines ==
    ASSUME IInv, AccountsKept, NEW r \in Requests, Commit(r)
    PROVE  Abstract!Next
  <1> DEFINE quotas == [p \in Supervisors |-> row[p].quota]
             versions == [p \in Supervisors |-> row[p].version]
  <1>1. PICK s \in Students, p \in Supervisors : s = Student(r) /\ p = To(r)
    BY CommitMoves
  <1>2. /\ supervisor' = [supervisor EXCEPT ![s] = p] /\ students' = students
        /\ pc[r] = "Commit" /\ Op(r) \in {"assign", "switch"}
    BY <1>1, CommitMoves DEF Commit
  <1>3. s \in students
    BY <1>1, <1>2 DEF AccountsKept, HoldsStudent
  <1>4. quotas' = quotas /\ versions' = versions
    BY CommitEffect
  <1>5. HasIncremented(r) /\ (Op(r) = "switch" => HasRead(r))
    BY <1>2 DEF HasIncremented, HasRead
  <1>6. Cardinality(Group(p)) < quotas[p]
    <2>1. row[p].count < row[p].quota
      BY <1>1, <1>5 DEF IInv, Effects
    <2>2. row[p].count = Cardinality(Group(p)) + vacated[p]
      BY DEF IInv, CountsExact
    <2>3. /\ row[p].quota \in Nat /\ row[p].count \in Nat /\ vacated[p] \in Nat
          /\ Cardinality(Group(p)) \in Nat
      BY CommitEffect, IInvTypes DEF TypeOK
    <2> QED BY <2>1, <2>2, <2>3
  <1>7. Abstract!HasRoom(p)
    BY <1>6, SameGroups DEF Abstract!HasRoom
  <1>8. CASE Op(r) = "assign"
    <2>1. supervisor[s] = None
      BY <1>1, <1>2, <1>8 DEF IInv, Effects
    <2>2. Abstract!Assign(s, p)
      BY <1>2, <1>3, <1>4, <1>7, <2>1 DEF Abstract!Assign
    <2> QED BY <2>2 DEF Abstract!Next
  <1>9. CASE Op(r) = "switch"
    <2>1. supervisor[s] \notin {None, p}
      BY <1>1, <1>5, <1>9, NoneIsFresh DEF IInv, Effects
    <2>2. Abstract!Switch(s, p)
      BY <1>2, <1>3, <1>4, <1>7, <2>1 DEF Abstract!Switch
    <2> QED BY <2>2 DEF Abstract!Next
  <1> QED BY <1>2, <1>8, <1>9

\* UpdateQuota compares and changes the committed row in one statement.
LEMMA UpdateQuotaRefines ==
    ASSUME IInv, NEW r \in Requests, UpdateQuota(r)
    PROVE  Abstract!Next \/ UNCHANGED tables
  <1>1. CASE UNCHANGED tables
    BY <1>1
  <1>2. CASE /\ QuotaMatches(r)
             /\ row' = [row EXCEPT ![To(r)].quota = req[r].quota, ![To(r)].version = @ + 1]
             /\ UNCHANGED <<students, supervisor>>
    <2>1. Op(r) = "quota"
      BY InputFacts, ScriptFacts DEF IInv, OnScript, UpdateQuota, At
    <2>2. req[r].quota \in Quotas
      BY <2>1, IInvTypes DEF Quotas, TypeOK, Op
    <2>3. PICK p \in Supervisors, q \in Quotas : p = To(r) /\ q = req[r].quota
      BY <1>2, <2>2 DEF QuotaMatches
    <2>4. row[p].count <= q
      BY <1>2, <2>3 DEF QuotaMatches
    <2>5. Cardinality(Group(p)) <= q
      <3>1. row[p].count = Cardinality(Group(p)) + vacated[p]
        BY DEF IInv, CountsExact
      <3>2. row[p].count \in Nat /\ vacated[p] \in Nat
        BY IInvTypes DEF TypeOK
      <3>3. Cardinality(Group(p)) \in Nat
        BY StudentsFinite, FS_Subset, FS_CardinalityType DEF Group
      <3>4. q \in Nat
        BY <2>1, <2>3, IInvTypes, InputFacts
      <3> QED BY <2>4, <3>1, <3>2, <3>3, <3>4
    <2>6. \A x \in Supervisors :
            /\ row'[x].quota = IF x = p THEN q ELSE row[x].quota
            /\ row'[x].version = IF x = p THEN row[x].version + 1 ELSE row[x].version
      BY <1>2, <2>3, IInvTypes DEF TypeOK
    <2>7. /\ [x \in Supervisors |-> row'[x].quota] =
               [[x \in Supervisors |-> row[x].quota] EXCEPT ![p] = q]
          /\ [x \in Supervisors |-> row'[x].version] =
               [[x \in Supervisors |-> row[x].version] EXCEPT ![p] = @ + 1]
      BY <2>6
    <2>8. Abstract!ChangeQuota(p, q)
      BY <1>2, <2>5, <2>7, SameGroups DEF Abstract!ChangeQuota
    <2> QED BY <2>8 DEF Abstract!Next
  <1> QED BY <1>1, <1>2 DEF UpdateQuota, tables

LEMMA DeleteStudentRefines ==
    ASSUME NEW s \in Students, DeleteStudent(s)
    PROVE  Abstract!Next
  <1>1. Abstract!CloseAccount(s)
    BY DEF DeleteStudent, Abstract!CloseAccount
  <1> QED BY <1>1 DEF Abstract!Next

\* Theorem: whatever Assign, Switch and UpdateQuota interleave, fail or retry,
\* the tables change by whole placements only (property ImplementsPlacements).
THEOREM Refinement == Spec => ImplementsPlacements
  <1>1. Init => AccountsKept
    BY DEF Init, AccountsKept, HoldsStudent, FirstStatement, Op
  <1>2. IInv /\ AccountsKept /\ [Next]_vars => [Abstract!Next]_(Abstract!vars)
    <2> SUFFICES ASSUME IInv, AccountsKept, [Next]_vars
                 PROVE  [Abstract!Next]_(Abstract!vars)
      OBVIOUS
    <2>1. ASSUME UNCHANGED tables
          PROVE  UNCHANGED Abstract!vars
      BY <2>1 DEF tables, Abstract!vars
    <2>2. ASSUME NEW r \in Requests, Statement(r) \/ Interrupt(r) \/ Retry(r)
          PROVE  [Abstract!Next]_(Abstract!vars)
      BY <2>1, <2>2, CommitRefines, UpdateQuotaRefines, TablesStay
    <2>3. ASSUME UNCHANGED vars
          PROVE  UNCHANGED tables
      BY <2>3 DEF vars, tables
    <2> QED BY <2>1, <2>2, <2>3, DeleteStudentRefines DEF Next, AllAnswered
  <1> QED BY <1>1, <1>2, AccountsStay, InitRefines, InvariantHolds, PTL
          DEF Spec, ImplementsPlacements, Abstract!Spec
=============================================================================
