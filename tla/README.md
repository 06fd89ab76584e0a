# Verification of Tugas-Go

This directory models the repository *Tugas-Go* (the course project
`src/api-students`, a student information API in Go on PostgreSQL, MongoDB and
Redis, and the smaller exercises beside it) in TLA+. TLC checks the models on
small instances, and TLAPS proves the most important properties for every value
of the constants. `PROJECT.json` links every definition to the lines it models
and lists runs, theorems, findings and the hazards of the code.

## 1. The system

| Component | State | Operations | What is hard about it |
|---|---|---|---|
| Course registration (KRS): `course_service.go`, `course_repository.go` | tables `users`, `courses` (quota, `enrolled_count`, `version`), `enrollments`; row locks | `Enroll`, `Drop`, `Swap`, `UpdateQuota` | concurrent transactions, counter and rows in different tables, decisions on values read earlier, deadlocks |
| `TxManager` (`tx.go`) | attempts of a transaction | `WithTx`, `WithTxOnce` | retry after deadlock, lost reply to COMMIT |
| Outbox relay (`outbox_relay.go`, `outbox_repository.go`) | table `outbox`, locks of its rows | `RelayOnce` | several relays, a crash between queue and database, enqueue errors in the middle of a batch |
| Task queue (asynq on Redis) | tasks, retry counters | enqueue, take, retry, archive, recover, forget | at-least-once delivery, timeouts |
| Notification worker (`notification_worker.go`, `notification_repository.go`, `mailer.go`) | table `notifications`, claims not yet committed, mails | `HandleSend`, `handleQuotaChanged` | idempotence under duplicates, mail inside a transaction, stale list of receivers |
| Redelivery tool (`tools/redeliver`) | copies of a task | enqueue copies | duplicates past the task id |
| Supervision (`supervisor_service.go`) | `supervisors`, `supervisions` | `Assign`, `Switch`, `UpdateQuota` | as KRS, with two locked supervisors and one of them read before it is locked |
| Login and tokens (`auth_service.go`, `middleware/auth.go`) | `refresh_tokens`, access tokens in the hands of clients | `Register`, `Login`, `Refresh`, `Logout`, `Me` | rotation without a transaction, access tokens that outlive a change |
| Users, roles (`user_service.go`, `authz_rules.go`) | `users` | `Create`, `Get`, `Replace`, `Patch`, `AssignRole`, `Delete` | read-modify-write, stale role in a token, the last administrator |
| Students (`student_service.go`) | `students` | `List` by cursor, `Get`, `Create`, `Replace`, `Patch`, `Delete` | ownership, page boundaries |
| Reviews (`review_service.go`, MongoDB) | one document per review | create, list, get, update, delete, reply, vote | check in one database, act in another; limits; explanation by a second query |
| Portfolios (`portfolio_service.go`, MongoDB) | one document per student | get, upsert, add, delete project | limit of projects, second query |
| UTS / SIAKAD Mini (`latihan-fiber/UTS`) | `users`, `students`, `enrollments`, login attempts in memory | `Login`, `Me`, students (create, get, update, soft delete), `Enroll`, `Delete` | a lock on the class but none on the student, sliding window, soft delete |

The components meet in four places. KRS writes a row of `outbox` in the
transaction of every change; the relay moves these rows to Redis; the worker
takes them from there and writes `notifications`. The deletion of a user
cascades to `enrollments`, `notifications` and `refresh_tokens`. A review asks
PostgreSQL whether the author is registered. API, relay and worker may run in
one process or in many (`main.go`, `-role`).

What makes each part correct:

- KRS: no class holds more students than its quota, the counter is the number
  of rows, no student exceeds the credits, every accepted request is one atomic
  change with exactly one event, a refused one is no change, nobody waits in a
  circle, no quota change is lost.
- Notifications: an event in the outbox is not lost, and reaches everybody it
  is about; once a mail is recorded no handler claims it again, and only one
  whose session was lost while it was sending may still send a second.
- Supervision: the same as KRS for supervisors.
- Accounts: a refresh token has one successor or one logout, a refused refresh
  takes no session away, no access token is issued to a deleted user, and an
  administrator remains. The last one holds up to stale tokens only, and a
  PATCH may write back an old value: the properties say exactly when.
- Documents: reviews are by participants, one per author and class; counters
  equal what they count and limits hold; a client is told the true reason for a
  refusal; a list that is read page by page is complete and has no repetition.
- SIAKAD Mini: no class is overfull, guessing passwords is limited, who was
  soft-deleted stays out. The limit of credits holds for requests one after the
  other; `CreditExcessOnlyByOverlap` says when it does not.

## 2. The modules

```
Krs  <----- refines -----  Enrollment   <-- MCEnrollment         (krs*.cfg)
                                        <-- EnrollmentProofs     (TLAPS)
                             EnrollmentProofs, Sums <-- EnrollmentRefinement (TLAPS)
Notices <-- refines -----  OutboxDelivery <-- MCOutboxDelivery   (delivery*.cfg)
   ^                                    <-- OutboxDeliveryProofs (TLAPS)
   +------- feeds (proved in EnrollmentRefinement) --------- Enrollment
Placements <- refines ---  Supervision  <-- MCSupervision        (supervision.cfg)
                                        <-- SupervisionProofs    (TLAPS)
Sessions <- refines -----  Accounts     <-- MCAccounts           (accounts.cfg)
                                        <-- AccountsProofs       (TLAPS)
Service <-- Students <-- Portfolios <-+
        <-- Reviews <-----------------+- Documents <-- MCDocuments (documents.cfg)
                                                   <-- DocumentsProofs (TLAPS)
                           Siakad       <-- MCSiakad             (siakad.cfg)
                                        <-- SiakadProofs         (TLAPS)
```

### Krs
The promise: registrations change by `Enroll`, `Drop`, `Swap`, `ChangeQuota`
and `CloseAccount`, each in one step, each with its event (`Announce`). There
are no counters, locks, transactions or retries. The ids of events of one
student increase in the order in which things happened, those of different
students need not; `FeedTells` says what that is good for: the event with the
greatest id about a student and a class tells whether the student is registered.

### Enrollment
One action per SQL statement: `LockStudent`, `LockCourses`, `SumCredits`,
`IncrementEnrolled`, `DecrementEnrolled`, `DeleteEnrollment`,
`InsertEnrollment`, `InsertOutbox`, `UpdateQuota`, `ExplainQuota`, `Commit`. The
order of the statements of a handler is its script (`EnrollScript`, ...). A
request sees the committed tables and its own writes (`row`, `added`,
`removed`, `staged`), as READ COMMITTED does; locks last until the transaction
ends (`Release`). Every error of a statement is the answer after a rollback
(`Refuse`). `Interrupt` ends a request at any statement (deadline of
`helper/request.go`, lost connection, crash), `Commit` may lose its reply,
`DeadlockVictim` runs the closure again as `WithTx` does, `DeleteUser` is the
administrator's DELETE with its cascade.

Two points deserve care. An `UPDATE ... WHERE` whose condition fails on the
committed row returns without waiting for the lock, so `IncrementEnrolled` and
`UpdateQuota` can refuse while another request holds the row. And when
`UpdateQuota` finds no row, a later, separate read decides which error is
reported (`ExplainQuota`).

### Notices
The promise of the pipeline: a mail about an announced event may go to a member
until it is recorded (`Due`), and only a mail that was sent is recorded. A sender
that the database cuts off while the mail is due (`CutOff`) may finish it even
after it has been recorded, once (`MailAstray`), or give it up (`GiveUp`): the
promise has to allow this, since a mail that is on its way cannot be called back.

### OutboxDelivery
Relays (`FetchUnpublished`, `Publish`, `PublishFails`, `MarkPublished`,
`RelayRollback`, `LoseRound`, `MarkRefused`), the queue as it is configured (`Take`, `TakeBack`, `Recover`,
`Expire`, `Redeliver`) and handlers (`Lookup`, `SkipDeleted`, `Claim`,
`ClaimOfDeleted`, `Send`, `SendImpossible`, `CommitClaim`, `CommitRefused`,
`Finish`). A claim is a row of `notifications` that is not committed yet
(`HoldsClaim`): another handler that inserts the same pair waits (`Claimants`),
and so does the deletion of the user. Failures are `HandlerFails` (an error is
returned), `Crash`, `Timeout` and `Shutdown` (the task goes back to the queue
while its handler runs on) with `Abandon`, and `DropClaim` says what they do to a
claim: rolled back before the mail, rolled back after the mail, or committed with
the reply lost. A claim can also go while its handler stays: the server ends its
session (`LoseSession`: PostgreSQL restarts, the backend is killed, the
connection drops). The handler is then in `cut` and does not know it. Another one
may claim the pair, send the mail and record it, and the first still sends
(`notification_worker.go:107` and `165`); it finds out at `tx.Commit`
(`tx.go:80`, `CommitRefused`), and its task is retried. `lost` counts the mails
whose claim was dropped in one way or the other. The round of a relay may lose its
session in the same way (`LoseRound`): its rows are free for another relay while
it still publishes, and it cannot mark them (`MarkRefused`).
asynq is outside the repository and modelled from its configuration: retries
are counted to `MaxRetry` and then the task is archived; the lease of a dead
worker expires; a completed task is forgotten after the retention time.
`Record` and `Move` stand for KRS, as far as the pipeline can see it.

### Placements
The promise of supervision: `Assign`, `Switch`, `ChangeQuota`, `CloseAccount`,
each in one step. There are no counters: room is counted from the students
themselves, against the quota in force.

### Supervision
As Enrollment, one action per SQL statement (`LockStudent`, `GetSupervision`,
`LockSupervisors`, `DeleteSupervision`, `DecrementSupervised`,
`IncrementSupervised`, `InsertSupervision`, `Commit`) along the scripts of
`Assign` and `Switch`; `UpdateQuota` is one statement on the pool that commits
by itself, followed by `ExplainQuota` if it found no row. A transaction's
uncommitted writes are a change of every counter (`delta`) and whether it has
deleted and inserted the student's row (`deleted`, `inserted`). Two details
decide whether this code is right: `Switch` reads the old supervisor before it
locks the supervisors, which is safe only because the student is locked first,
and `LockSupervisors` sorts by id. `Wants` says which row the next statement
locks; an `UPDATE` whose condition fails on the committed row does not wait.
`DeleteStudent` is the administrator's DELETE, which waits for the lock on the
student and takes the supervision by cascade; `vacated` counts what it took, so
that `CountsExact` can say exactly how far counter and rows may differ.

### Sessions
The promise of login and rotation: a session is one refresh token, which is
handed on (`Exchange`, then `Renew` or `GiveUp`) or ends (`SignOut`,
`CloseAccount`). A successor belongs to the user of the token it replaces, and
only a user with an account gets tokens. Between `Exchange` and `Renew` the
session has no token at all, which is what the two statements of `Refresh`
without a transaction amount to.

### Accounts
Login, tokens and users are one module, since they meet in table `users`: every
request is a script of statements without a transaction around them
(`LoginScript`, `RefreshScript`, `PatchScript`, ...). `claims` is what the
access token of a request says; the client may use any token it was ever given
(`access`), so the role in it may be out of date, while `Enter` and `Admitted`
decide by it as the middleware and `ValidateAssignRole` do. `seen` is what the
request has read: the user of a login, the token of a refresh, the row a PATCH
writes back. `Revoke` is one statement with the condition that the token is not
revoked yet, and that is all that keeps two refreshes apart. Rows are named
after the request that inserts them. `Expire` lets a refresh token pass its
time, `Interrupt` fails any statement, and `Reply` loses the reply of one that
was executed. Three details of the code are kept: a login does not ask for
`is_active`, whatever goes wrong when a refresh looks up its user is answered
401, and the loser of a race between two refreshes of one token gets 500.

### Service, Students, Portfolios, Reviews, Documents
`Service` holds what handlers share: the next statement of a request (`pc`), its
answer, permissions (`Can`), and lists that are read by cursor. `Begin` is the
request for the first page; `ReadPage` executes the query for one page and
`Show` sends it without the extra row and remembers the cursor, with which the
client asks for the next one. `Students`, `Portfolios` and `Reviews` have one
action per statement, in the order of the handlers; a statement that matched
nothing is followed by the one that finds the reason (`ExplainAdd`,
`ExplainDelete`, `WhyNoMatch`, `ExplainReply`, `ExplainVote`). Nothing spans two
statements, and nothing spans the two databases: between `IsEnrolled` in
PostgreSQL and `InsertReview` in MongoDB anything may happen. `Documents` puts
them together with registrations that come and go (`Registration`) and users
that are removed (`RemoveUser`). `found` and `attended` record, for the
properties only, what a statement that matched nothing met and who has ever
been registered.

A project is named after the request that added it, a reply is counted, the
text of both is left out, and so are name and grade of a student, which the
code treats as it treats `active`. `created_at` of a new student is any value,
since NOW() is taken when a statement begins and rows become visible in any
order. Ids of reviews are drawn just before they are inserted and are taken to
follow that order. A client knows the ids it sends from earlier answers.

### Siakad
SIAKAD Mini, statement by statement: login with its limiter in memory
(`IsRateLimited`, `RecordFailure`, `Reset`, and `Slide` when a failure gets
older than a minute), students with their accounts (`CreateUser` and
`CreateStudent` in one transaction that others do not see before
`CommitStudent`), and registration, whose transaction locks the row of the
class (`FindForUpdate`, `HoldsClass`) from the count of its seats to the commit.
`seen` holds the IPK and the registrations on which the limit of credits was
decided. Every access is checked first against the live student
(`Authenticate`). `deletedAt` is the set of requests that had arrived when the
student was deleted, so that a property can tell those from later ones. An
enrollment is named after the request that inserted it. The soft delete keeps
NIM, account and enrollments, and the seats of a class are counted over all
years, as in the code.

## 3. The runs

| Run | Instance | What it shows |
|---|---|---|
| `krs` | 2 requests of any kind of 2 students, 3 classes of one seat, the third with twice the credits, a limit of 2 | `NeverOversold`, `CountMatchesRows`, `CreditLimitHolds`, `ConstraintNeverFires`, `NoWaitCycle`, `OutboxTells`, and that Enrollment implements Krs (`ImplementsKrs`) |
| `krs_admin` | 3 requests including quota changes with two versions, one class, one class id that does not exist, a user who is deleted | `NoLostQuotaUpdate`, the proved invariant `IInv` (types and `NeverOversold` are in it), and Krs again |
| `krs_live` | 2 requests, 2 classes, fair statements | `EveryRequestAnswered`, with no help of deadlines or of deadlock detection |
| `krs_drift` | as `krs_admin` | *violated*: `CountMatchesRows` when a registered user is deleted |
| `delivery` | one event of one user, who may be deleted; 2 relays, 2 handlers, one redelivered copy, one retry, 3 failures | `ExtraMailsWereLost`, `NoEventLost`, the proved invariant `IInv`, and that the pipeline implements Notices, also when a handler sends after another one has recorded the mail |
| `delivery_quota` | a quota event of a class of three: user 1 cannot be reached and is the subject of a second event, user 2 comes and goes and may be deleted, user 3 stays; batches of two, 2 relays, 2 handlers, 2 failures | `NoEventLost` and `IInv` when one event has several receivers: user 3 is served whatever happens to those before |
| `delivery_live` | 2 events, 2 relays, 2 handlers, no more failures than retries, fair | `EveryEventServed` |
| `delivery_dup` | one quota event, one failure | *violated*: `ExactlyOneMail` |
| `supervision` | 2 requests of any kind of 2 students, supervisors 1 and 2 with that many places, an unknown supervisor 3, quota changes with two versions, a student who is deleted, fair statements | `CountsExact`, `WithinQuota`, `SupervisorKept`, `NoLostQuotaUpdate`, `WaitsLeadUp`, the proved invariant `IInv` (with the types), `EveryRequestAnswered`, and that Supervision implements Placements |
| `accounts` | 3 requests of any kind, two administrators with a session each, three names, a session that may expire | `TokenSpentOnce`, `SessionLostOnlyByError`, `NoAccessAfterDelete`, `AdminRemainsUnlessStale`, `ColumnsChangeAsAsked`, and that Accounts implements Sessions |
| `documents` | 3 requests of any kind of two users and an administrator; two students with equal timestamps, pages of one row, a portfolio with room for one more project and a student without one, a review with room for one more reply; one registration that comes and goes, one user who is removed | `CountsAddUp`, `ReviewsByParticipants`, `RefusalsTrue`, `ListedOnce` |
| `siakad` | 3 requests of any kind, two students with 18 and 24 credits to take, two classes of 12 credits with one and two seats, two years, one failed login allowed | `QuotaHolds`, `RefusalsWithinLimit`, `DeletedStudentsStayOut`, `CreditExcessOnlyByOverlap` |

**Bounds.** Two requests are enough for every pairwise conflict: last seat,
double registration, opposite swaps, the same student twice. A third one is in
`krs_admin`, where a change, a conflicting change and a registration meet.
Initial states are all legal registrations, so a short behaviour reaches what a
long one would. `MaxAttempts` is 2 or 1 instead of 3 and `EventIds` bounds the
sequence (ids of rolled back transactions are skipped). In the pipeline two
relays and two handlers give every race for a row, a task and a claim; one
retry with three failures reaches the archive, and a handler that is cut off,
overtaken by another one and late besides; `MaxFaults` bounds failures and
nothing else. `Batch`, 100 in the code, is 1 or 2: the first event of a batch
and the rest. Credits, quotas and names are as small as the comparisons allow.
Accounts, Documents and Siakad run three requests: two that conflict and one
that changes what both have read. Limits are 2 instead of 20 projects and 50
replies, a page has one row instead of ten, and one failed login is allowed
instead of five; each limit can be reached, met from below and missed. There
are no counters to bound: every request runs once.

**Deadlock** is checked in every run; requests that are all answered and a
pipeline at rest stutter explicitly (`AllAnswered`, `Rest`); requests that are
never sent, because the review, project or token they are about never came to
be, may stay so.

**Fairness.** `krs_live` and `supervision` assume that a handler issues its
next statement and the server grants a free row lock (weak fairness of
`Statement(r)`). No failure and no deadlock retry is fair: every wait ends
because its holder goes on. `delivery_live` assumes that `Run` loops (weak
fairness of a relay's steps), that asynq runs its handlers and its recoverer
(weak fairness; a COMMIT that is refused is such a step, not another failure), and that a waiting task is not passed over for ever (strong
fairness of taking it, since asynq serves a queue in turn while both workers
may be busy again and again). The other runs need no fairness: their properties
are about what may never happen.

## 4. What is proved

`EnrollmentProofs`, for any number of requests, students and classes and any
credits and quotas (the assumptions are those of module Enrollment: finitely
many students and classes, positive credits and quotas, valid inputs):

- `TypeCorrect`, `Capacity` (`NeverOversold`), `CountersExact`
  (`CountMatchesRows` as long as no user can be deleted), `ConstraintSilent`
  and `QuotaUpdatesKept`, all from `InvariantHolds`.
- `Inductive`: none of these is inductive alone, `TransactionInv` is. What the committed tables say
  at a commit depends on what the transaction did before: that its private copy
  of a class is the committed row plus its own effect (`RowEffect`), that the
  rows it deleted are still there and those it inserted are not (`Effects`),
  and that this cannot change underneath it because it holds the locks
  (`LocksHeld`). `TransactionInv` says this for every statement of every script.
- The argument has two halves. `OthersKeep` shows that a step that changes no
  row a request has written, and no registration of a student it has locked,
  leaves its part of the invariant alone; two requests cannot hold one lock, so
  every statement of another request is such a step. For the acting request
  there is one lemma per statement, and `CommitEffect` sums up what a commit
  does to one class: one more student and one more seat, one less of both, a
  new quota, or nothing. A deleted user only makes a class smaller, which is
  why `NeverOversold` survives it and `CountMatchesRows` does not.

`EnrollmentRefinement`, under the same assumptions, goes on from there:

- `Refinement` (`ImplementsKrs`): every commit is one step of Krs and every other
  statement none. Krs asks at the commit for what the handler has checked
  earlier, so one must know that it is still true. `IInv` adds that to
  `TransactionInv`: the account of a locked student stays (`AccountKept`), the
  credits that were counted still fit (`LimitKept`, because nobody else can
  register that student), the staged event is the request's and its id is above
  all committed ones about the same student (`EventStaged`), and no id is drawn
  twice (`IdsDrawn`). `DecisionsHold` is `Spec => []IInv`.
- `CreditLimit` (`CreditLimitHolds`), from the same invariant and module `Sums`.
  The sum of credits is a fold of the community modules over a set of classes;
  that adding one class adds its credits (`SumAdd`) depends on neither the order
  of the fold nor the number of classes. It needs an induction over sets, which
  is done without an induction theorem: a least set for which the claim fails
  would have a smaller one (`LeastSubset`, `GreatestNatural`).
- `NoDeadlock` (`NoWaitCycle`): `OwnsOnly` says that a transaction holds no lock
  but those it took, the classes in increasing order. Of the classes that the
  requests of a set hold while they wait for each other there is a greatest one,
  and its holder would have to wait for a greater one still.
- `OutboxIsHistory` (`OutboxTells`): the ids are drawn by a sequence, before the
  commit and in no order between students, and still the last event of a
  student and a class is the truth, since its id is drawn while the student is
  locked.
- `FeedsNotices`: what registration does to the outbox and to the accounts is
  what Notices lets happen to them. Notices is thus the interface between the
  two halves: registration is proved to feed it, and the pipeline, with `Record`
  in the place of registration, to implement it.

`OutboxDeliveryProofs`, for any events, users, relays, handlers and copies, any
batch size and any number of retries and failures (the assumptions: ids are
numbers, every event that is not a quota event has an owner, a copy is not named
like an event):

- `OneMailUnlessLost` (`ExtraMailsWereLost`), `NothingLost` (`NoEventLost`) and
  `Implements` (the pipeline implements Notices), all from `InvariantHolds`.
- `Inductive`: a bound on the mails is not inductive, since nothing in it says
  why a second handler cannot send. `IInv` keeps an account (`Accounts`): the
  mails of a pair are the lost ones, plus one exactly if it is recorded or an
  open claim awaits the commit (`AwaitsCommit`). This survives a step only because
  no two handlers hold open claims of one pair (`Claims`), which the unique key
  gives; handlers in `cut` may be as many as there are, and each of their mails is
  entered as lost. For
  `NoEventLost` one must know what a handler has done by the time it returns:
  everyone it no longer has on its list is recorded or needs no mail
  (`Handlers`); a handler that is on time is alone with its task, so what it
  reports is what becomes of the task; and what a relay is about to mark is in
  the queue or done with (`Progress`).
- `Implements`: the handlers in `cut` that have not sent yet are the stray senders
  of Notices (`Stray`). `Claims` is needed where a claim is open: at `Send`, whose
  pair is then not recorded, and at `LoseSession`, after which the handler is
  stray. What others record between that and the stray mail does not matter.
- Frames carry the proof: `QuietKeeps` for steps in which no handler moves,
  `LeaveKeeps` for a handler that returns or dies, `GoingOnKeeps` for one that
  keeps its task, each resting on one lemma per conjunct of the invariant.

`SupervisionProofs`, for any requests, students, supervisors, quotas and retries
(the assumptions: finitely many students, ids are numbers, positive quotas,
inputs that pass validation):

- `CountsAlwaysExact` (`CountsExact`), `NeverOverbooked` (`WithinQuota`),
  `NoQuotaUpdateIsLost` (`NoLostQuotaUpdate`), `WaitsAlwaysLeadUp`
  (`WaitsLeadUp`) and the action property `SupervisorAlwaysKept`
  (`SupervisorKept`), all from `InvariantHolds`.
- `Inductive`: `IInv` says which locks a request holds at each statement
  (`LocksHeld`) and that its uncommitted writes are those of the statements it
  has run (`Effects`); in particular the supervisor that `Switch` has read is
  still the student's. `OthersKeep` shows that the locks protect this from
  every other request, `CommitEffect` that a commit changes a counter by as
  much as it changes the number of rows. `WaitsLeadUp` needs no invariant of
  its own: it follows from which locks are held at which statement. An order in
  which every wait leads to a greater row has no cycles, so no deadlock of
  these requests among themselves is possible.
- `Refinement` (`ImplementsPlacements`): a counter that is exact and below the
  quota at the locked row gives room in terms of students at the commit.
  `vacated` stands in the way of an equality: the counter may be above the
  number of students, never below. Only one thing had to be added to `IInv`, that
  the account of a locked student stays (`AccountsKept`).

`AccountsProofs`, for any requests, users, names and inputs (the assumptions:
`None` is nothing else, requests and seeded users are named differently, inputs
are well formed):

- `SpentOnce`, `SessionsKept`, `AccessNeedsUser`, `AdminRemains` and
  `ColumnsKept`, one for each property of the run, from `InvariantHolds`.
- `TokenSpentOnce` compares two requests, so the invariant ties each of them to
  the token: whoever has succeeded or stored a successor is the request by which
  that token was revoked (`Spends`), and a token is revoked once. The action
  properties follow from what a request must have shown to reach its statement
  (`OnScript`, `HasSeen`): only the statements of `AssignRole` and `Delete` can
  take an administrator away, their caller was admitted by claims that say
  "admin" and is not the user concerned, so if he still is one he remains.
- `Refinement` (`ImplementsSessions`). Two facts had to be added to the
  invariant (`SessionInv`): no token and no handler names a user whose row is not
  there yet (`IdsFresh`), so that opening an account opens no session, and the
  user a refresh has looked up is the owner of its token (`SeenOwner`), so that
  the session goes to nobody else. `ExchangesOnce` says that no two requests wait
  for the successor of one token: each of them would be the one that revoked it.

`DocumentsProofs`, for any requests, users, roles, courses, students and seeded
documents, any page size and any limits (the assumptions: finitely many users,
requests and seeds, seeds that satisfy the constraints):

- `CountsHold`, `ParticipantsHold`, `RefusalsHold` and `ListingHolds`, from
  `InvariantHolds`.
- `Learnt` says what a request knows before its last statement and why it stays
  true: an author never changes, votes and replies are never taken back, ids are
  not issued twice; so whatever is still there gives the reason found, and if it
  is not there the second query says so. For projects there is no such argument,
  since they can be removed, and the property says no more than what holds.
- `Paging` is the invariant of a cursor: it splits the rows into those not yet
  shown and those that are on a page or were not there at the beginning.
  `PageMove` shows that one page moves the cursor and keeps this, from the
  order of the keys alone; `KeysMove` and `PagingKept` that inserts and deletes
  between two pages do so too.

`SiakadProofs`, for any requests, students, classes, quotas, credits and limits
(the assumptions: finitely many requests, seeded students with addresses of
their own who are not deleted, well formed inputs):

- `Quota`, `Refusals`, `DeletedOut` and `CreditExcess`, from `InvariantHolds`.
- `Room` says that whoever is past the count has locked the class and still
  finds a seat, since nobody else can insert into it; `StaysOut` that a request
  that arrived after the deletion gets no further than `Arrive`; `Limiter` that
  a failure recorded as the i-th was answered with that number in view.

Every invariant and action property of the passing runs, and each of the four
refinements, is the subject of a theorem. Only model-checked are the liveness
properties, `EveryRequestAnswered` (Enrollment and Supervision) and
`EveryEventServed`: they rest on fairness and so on ENABLED, which TLAPS does
not handle. That the runs deadlock nowhere is TLC's result, too. The theorems
are about the specifications without fairness, of which the fair ones are
special cases.

What the proofs do not show: that a fold is evaluated as its definition says
(TLC evaluates it), and anything about classes or users without end. Finitely
many classes are assumed where a sum or a longest wait is needed.

## 5. Findings

- **A deleted user keeps the seat.** `DELETE FROM users` cascades to
  `enrollments` (`migrations/007_courses.sql`), and nothing decrements
  `enrolled_count`; the check of `tools/loadtest` would call the class
  inconsistent. Run `krs_drift`.
  The deletion of a student does the same to `supervised_count`
  (`migrations/009_supervisors.sql`, `tools/loadtest_supervisors`): there the
  difference is counted by `vacated`, and `CountsExact` shows that nothing else
  contributes to it.
- **A mail may arrive twice.** Migration 012 promises exactly one notification
  per student and event. The mail leaves before the commit of its claim; if
  that commit fails, the retry sends it again (run `delivery_dup`). And if the
  session of the claim ends during `Send`, another delivery of the task may mail
  and record the pair before the first handler sends. What does hold is
  `ExtraMailsWereLost`: of the mails about an event, all but one had a claim that
  the database dropped.

Beside these two, for which there is a run, the models show where the code does
less than one may expect; the properties are stated so that they say exactly
how much holds.

- **PROJECT_LIMIT for an almost empty portfolio.** `AddProject` misses a
  portfolio that does not exist; if it is created before the second query, the
  client is told that there are 20 projects (`portfolio_service.go:175`).
  `RefusalsTrue`.
- **The last administrator.** An administrator who was demoted or deleted can
  still demote or delete others until his access token expires, and so the last
  one. `AdminRemainsUnlessStale`.
- **A PATCH writes back what it read.** Of two overlapping changes of one column
  the PATCH that does not name it restores the older value.
  `ColumnsChangeAsAsked`.
- **A session lost to an error.** If the new token cannot be stored after the
  old one was revoked, the client has to log in again.
  `SessionLostOnlyByError`.
- **Credits in SIAKAD Mini.** Two overlapping registrations for different
  classes may together exceed the limit of `UTS/README.md:24-27`, since only the
  row of the class is locked (`enrollment_service.go:81-112`).
  `CreditExcessOnlyByOverlap`.
- Seen while reading, not part of a model: the CSV lists contain the extra row
  that only tells whether there is another page (`user_service.go:98`,
  `student_service.go:65`; `user_repository.go:161-162` says it is not sent),
  and the comment on the login route promises 5 attempts a minute
  (`auth_service.go:122`) where `middleware/rate_limiter.go:14` allows 100.

## 6. Not modelled

- Parsing, validation messages, response formats (JSON and CSV), logging, the
  wording of mails. A malformed request is refused before it changes anything.
  A payload of a task that cannot be parsed does not occur, since the relay
  writes it.
- Listings and statistics that only read: classes, notifications, supervisions,
  the summary of reviews, the statistics of technologies, and the filters
  (`search`, `is_active`, `tag`) of the lists that are modelled. The list of
  users is paged by the same query as that of students.
- Gaps in sequences, and two upserts of one portfolio at once of which MongoDB
  refuses one as a duplicate: it is answered like any failed statement
  (`Interrupt`).
- The connection pool (a session that ends while a handler holds a claim, or a
  relay its rows, is modelled: `LoseSession`, `LoseRound`) and the limiter of the login route, both libraries.
- The generated API documentation, the load test drivers and the language
  exercises (`latihan-sintaks`, `tugas-2` to `tugas-4`, the root app of
  `latihan-fiber`), which have no concurrency rules of their own.

## 7. Plan

1. The row of a user is locked by KRS and, as long as a mail is being sent, by a
   claim of the worker: a module that composes the two, and with it the
   connection pool.
2. Abstract specifications of Documents and Siakad (rolls and reviews in one
   step each), and the refinements, as for the other parts.
3. Tag normalisation and the summary of reviews, as pure functions.
