--------------------------- MODULE OutboxDelivery ---------------------------
(***************************************************************************)
(* The notification pipeline of api-students: relays move rows of table    *)
(* outbox into the Redis task queue (asynq), workers take the tasks, claim *)
(* <<outbox_id, user_id>> in table notifications and send the mail while   *)
(* the claim is not yet committed.                                         *)
(*                                                                         *)
(* The queue delivers at least once: a task that fails, times out or loses *)
(* its worker comes back, a completed task is forgotten after a day, and   *)
(* an operator may enqueue copies of a task.  A worker is a goroutine that *)
(* runs the handler, which may outlive the timeout of its task and the     *)
(* PostgreSQL session of its claim: neither stops a mail on its way.       *)
(***************************************************************************)
EXTENDS Integers, FiniteSets

CONSTANTS
    Ids,          \* outbox.id of the events of a behaviour
    QuotaIds,     \* those with event type course.quota_changed
    Owner,        \* the student each other event is about
    Users,        \* users, numbered by users.id
    Unreachable,  \* users whose mail address does not exist
    Movers,       \* users that may enter and leave the class of the quota events
    Deletable,    \* users an administrator may delete
    Relays,
    Workers,
    Copies,       \* tasks an operator may enqueue besides the relay's
    CopyOf,       \* the event of each copy
    Batch,        \* RELAY_BATCH
    MaxRetry,     \* asynq.MaxRetry
    MaxFaults,    \* bound on failures in a behaviour
    None          \* no relay, no task

ASSUME IdsOrdered == Ids \subseteq Nat /\ Users \subseteq Nat /\ QuotaIds \subseteq Ids
ASSUME OwnersAreUsers == Owner \in [Ids \ QuotaIds -> Users]
ASSUME CopiesOfIds == CopyOf \in [Copies -> Ids] /\ Copies \cap Ids = {}
ASSUME BoundsPositive == Batch \in Nat \ {0} /\ MaxRetry \in Nat /\ MaxFaults \in Nat
ASSUME NoneIsFresh == None \notin Relays \cup Ids \cup Copies
ASSUME DeliveryFinite == IsFiniteSet(Ids) /\ IsFiniteSet(Users)

Tasks == Ids \cup Copies
IdOf(t) == IF t \in Ids THEN t ELSE CopyOf[t]
Pairs == Ids \X Users

VARIABLES
    accounts,     \* table users
    class,        \* students registered for the class of the quota events
    outbox,       \* outbox row of every id: none, unpublished, published
    rowLock,      \* relay that holds the lock of an outbox row, or None
    batch,        \* rows a relay has fetched and not yet handed to the queue
    enqueued,     \* rows it has handed to the queue in this round
    relayPc,      \* Idle or Publishing
    queue,        \* state of every task in Redis
    retried,      \* asynq's retry counter of every task
    task,         \* task a worker executes, or None
    todo,         \* users it has still to notify
    pc,           \* next step of the worker
    late,         \* workers whose task has timed out and was taken away
    cut,          \* workers whose claim the server has ended, without their knowing
    notified,     \* committed rows of notifications
    mails,        \* mails sent, for every pair
    lost,         \* of these, mails whose claim is gone uncommitted
    faults        \* failures so far

relayVars == <<outbox, rowLock, batch, enqueued, relayPc>>
queueVars == <<queue, retried>>
workerVars == <<task, todo, pc, late, cut>>
userVars == <<accounts, class>>
mailVars == <<notified, mails, lost>>
vars == <<relayVars, queueVars, workerVars, userVars, mailVars, faults>>

Init ==
    /\ accounts = Users
    /\ class \in {S \in SUBSET Users : Users \ Movers \subseteq S}
    /\ outbox = [id \in Ids |-> "none"]
    /\ rowLock = [id \in Ids |-> None]
    /\ batch = [r \in Relays |-> {}]
    /\ enqueued = [r \in Relays |-> {}]
    /\ relayPc = [r \in Relays |-> "Idle"]
    /\ queue = [t \in Tasks |-> "none"]
    /\ retried = [t \in Tasks |-> 0]
    /\ task = [w \in Workers |-> None]
    /\ todo = [w \in Workers |-> {}]
    /\ pc = [w \in Workers |-> "Idle"]
    /\ late = {}
    /\ cut = {}
    /\ notified = {}
    /\ mails = [p \in Pairs |-> 0]
    /\ lost = [p \in Pairs |-> 0]
    /\ faults = 0

\* A failure of Redis, PostgreSQL, the mail server or a process.
Fault == faults < MaxFaults /\ faults' = faults + 1

-----------------------------------------------------------------------------
(* The KRS side: committed transactions leave rows in the outbox.           *)

\* Rows need not become visible in the order of their ids.
Record(id) ==
    /\ outbox[id] = "none"
    /\ outbox' = [outbox EXCEPT ![id] = "unpublished"]
    /\ UNCHANGED <<rowLock, batch, enqueued, relayPc, queueVars, workerVars,
                   userVars, mailVars, faults>>

\* The audience of quota events enters or leaves the class.
Move(u) ==
    /\ u \in Movers \cap accounts
    /\ class' = IF u \in class THEN class \ {u} ELSE class \cup {u}
    /\ UNCHANGED <<accounts, relayVars, queueVars, workerVars, mailVars, faults>>

-----------------------------------------------------------------------------
(* OutboxRelay.                                                             *)

\* ORDER BY id LIMIT n
Lowest(n, S) == {a \in S : Cardinality({b \in S : b < a}) < n}

IsFirst(a, S) == a \in S /\ \A b \in S : a <= b
First(S) == CHOOSE a \in S : IsFirst(a, S)

Open == {id \in Ids : outbox[id] = "unpublished" /\ rowLock[id] = None}

\* FOR UPDATE SKIP LOCKED: rows another relay holds are passed over.
FetchUnpublished(r) ==
    /\ relayPc[r] = "Idle"
    /\ Open # {}
    /\ batch' = [batch EXCEPT ![r] = Lowest(Batch, Open)]
    /\ rowLock' = [id \in Ids |-> IF id \in Lowest(Batch, Open) THEN r ELSE rowLock[id]]
    /\ relayPc' = [relayPc EXCEPT ![r] = "Publishing"]
    /\ UNCHANGED <<outbox, enqueued, queueVars, workerVars, userVars, mailVars, faults>>

\* The task id is derived from the outbox id: a known task is not added twice.
Enqueue(id) ==
    queue' = [queue EXCEPT ![id] = IF @ = "none" THEN "pending" ELSE @]

Publish(r, id) ==
    /\ IsFirst(id, batch[r])
    /\ Enqueue(id)
    /\ enqueued' = [enqueued EXCEPT ![r] = @ \cup {id}]
    /\ batch' = [batch EXCEPT ![r] = @ \ {id}]
    /\ UNCHANGED <<outbox, rowLock, relayPc, retried, workerVars, userVars,
                   mailVars, faults>>

\* Mutant: the id is collected although the task was not accepted.
PublishFailsCounted(r, id) ==
    /\ IsFirst(id, batch[r])
    /\ Fault
    /\ enqueued' = [enqueued EXCEPT ![r] = @ \cup {id}]
    /\ batch' = [batch EXCEPT ![r] = {}]
    /\ UNCHANGED <<outbox, rowLock, relayPc, queueVars, workerVars, userVars, mailVars>>

\* The first error ends the round; the task may have been accepted all the same.
PublishFails(r, id) ==
    /\ IsFirst(id, batch[r])
    /\ Fault
    /\ Enqueue(id) \/ UNCHANGED queue
    /\ batch' = [batch EXCEPT ![r] = {}]
    /\ UNCHANGED <<outbox, rowLock, enqueued, relayPc, retried, workerVars,
                   userVars, mailVars>>

\* Mutant: the rows stay locked, as by a transaction that is never ended.
EndRoundKeepsLocks(r) ==
    /\ relayPc' = [relayPc EXCEPT ![r] = "Idle"]
    /\ batch' = [batch EXCEPT ![r] = {}]
    /\ enqueued' = [enqueued EXCEPT ![r] = {}]
    /\ UNCHANGED <<rowLock, queueVars, workerVars, userVars, mailVars>>

EndRound(r) ==
    /\ relayPc' = [relayPc EXCEPT ![r] = "Idle"]
    /\ batch' = [batch EXCEPT ![r] = {}]
    /\ enqueued' = [enqueued EXCEPT ![r] = {}]
    /\ rowLock' = [id \in Ids |-> IF rowLock[id] = r THEN None ELSE rowLock[id]]
    /\ UNCHANGED <<queueVars, workerVars, userVars, mailVars>>

\* The locks of a round go with the session of its transaction.
HasSession(r) == \E id \in Ids : rowLock[id] = r

\* MarkPublished and commit.
MarkPublished(r) ==
    /\ relayPc[r] = "Publishing"
    /\ HasSession(r)
    /\ batch[r] = {}
    /\ outbox' = [id \in Ids |-> IF id \in enqueued[r] THEN "published" ELSE outbox[id]]
    /\ EndRound(r)
    /\ UNCHANGED faults

\* The relay's transaction is rolled back: tasks are queued, no row is marked.
RelayRollback(r) ==
    /\ relayPc[r] = "Publishing"
    /\ Fault
    /\ EndRound(r)
    /\ UNCHANGED outbox

\* The server ends the session of a round (it restarts, or the connection
\* drops): the rows are free for other relays while this one still publishes.
LoseRound(r) ==
    /\ HasSession(r)
    /\ Fault
    /\ rowLock' = [id \in Ids |-> IF rowLock[id] = r THEN None ELSE rowLock[id]]
    /\ UNCHANGED <<outbox, batch, enqueued, relayPc, queueVars, workerVars,
                   userVars, mailVars>>

\* The relay finds out when it marks the rows.
MarkRefused(r) ==
    /\ relayPc[r] = "Publishing"
    /\ ~HasSession(r)
    /\ batch[r] = {}
    /\ EndRound(r)
    /\ UNCHANGED <<outbox, faults>>

-----------------------------------------------------------------------------
(* The queue, as the code configures and uses asynq.                        *)

\* Where a failed task goes: back to the queue, or to the archive.
TakeBack(t) ==
    IF retried[t] < MaxRetry
    THEN /\ queue' = [queue EXCEPT ![t] = "retry"]
         /\ retried' = [retried EXCEPT ![t] = @ + 1]
    ELSE /\ queue' = [queue EXCEPT ![t] = "archived"]
         /\ UNCHANGED retried

Holders(t) == {w \in Workers \ late : task[w] = t}

\* The lease of a task whose worker died expires.
Recover(t) ==
    /\ queue[t] = "active"
    /\ Holders(t) = {}
    /\ TakeBack(t)
    /\ UNCHANGED <<relayVars, workerVars, userVars, mailVars, faults>>

\* A day after completion the queue forgets the task and its id.
Expire(t) ==
    /\ queue[t] = "completed"
    /\ queue' = [queue EXCEPT ![t] = "none"]
    /\ retried' = [retried EXCEPT ![t] = 0]
    /\ UNCHANGED <<relayVars, workerVars, userVars, mailVars, faults>>

\* tools/redeliver: a task with an id of its own and the outbox id of an event.
Redeliver(t) ==
    /\ t \in Copies
    /\ queue[t] = "none"
    /\ outbox[CopyOf[t]] # "none"
    /\ queue' = [queue EXCEPT ![t] = "pending"]
    /\ UNCHANGED <<retried, relayVars, workerVars, userVars, mailVars, faults>>

Take(w, t) ==
    /\ pc[w] = "Idle"
    /\ queue[t] \in {"pending", "retry"}
    /\ queue' = [queue EXCEPT ![t] = "active"]
    /\ task' = [task EXCEPT ![w] = t]
    /\ pc' = [pc EXCEPT ![w] = "Lookup"]
    /\ UNCHANGED <<retried, todo, late, cut, relayVars, userVars, mailVars, faults>>

-----------------------------------------------------------------------------
(* NotificationWorker.HandleSend and handleQuotaChanged.                    *)

Id(w) == IdOf(task[w])
\* ORDER BY u.id: the user of the round, and the pair it claims.
User(w) == First(todo[w])
Pair(w) == <<Id(w), User(w)>>
OnTime(w) == w \notin late

\* The worker holds an uncommitted claim, and has sent the mail it covers.
HoldsClaim(w) == pc[w] \in {"Send", "Commit"} /\ w \notin cut
AwaitsCommit(w) == pc[w] = "Commit" /\ w \notin cut

Claimants(p) == {w \in Workers : HoldsClaim(w) /\ Pair(w) = p}

\* The handler returns.
Leave(w) ==
    /\ task' = [task EXCEPT ![w] = None]
    /\ todo' = [todo EXCEPT ![w] = {}]
    /\ pc' = [pc EXCEPT ![w] = "Idle"]
    /\ late' = late \ {w}
    /\ cut' = cut \ {w}

\* The handler goes on with the next user, in a transaction of its own.
Advance(w) ==
    /\ todo' = [todo EXCEPT ![w] = @ \ {User(w)}]
    /\ pc' = [pc EXCEPT ![w] = "Claim"]
    /\ cut' = cut \ {w}
    /\ UNCHANGED <<task, late>>

Audience(id) == IF id \in QuotaIds THEN class ELSE {Owner[id]} \cap accounts

\* FindByID, or FindEnrolledUsers for a quota event.
Lookup(w) ==
    /\ pc[w] = "Lookup" /\ OnTime(w)
    /\ Audience(Id(w)) # {} \/ Id(w) \in QuotaIds
    /\ todo' = [todo EXCEPT ![w] = Audience(Id(w))]
    /\ pc' = [pc EXCEPT ![w] = "Claim"]
    /\ UNCHANGED <<task, late, cut, relayVars, queueVars, userVars, mailVars, faults>>

\* SkipRetry: the account is gone, the task is archived at once.
SkipDeleted(w) ==
    /\ pc[w] = "Lookup" /\ OnTime(w)
    /\ Audience(Id(w)) = {} /\ Id(w) \notin QuotaIds
    /\ queue' = [queue EXCEPT ![task[w]] = "archived"]
    /\ Leave(w)
    /\ UNCHANGED <<retried, relayVars, userVars, mailVars, faults>>

\* Mutant: the claim is checked with a SELECT that does not see the claims of others.
ClaimBySelect(w) ==
    /\ pc[w] = "Claim" /\ OnTime(w) /\ todo[w] # {}
    /\ \/ Pair(w) \in notified /\ Advance(w)
       \/ /\ Pair(w) \notin notified
          /\ User(w) \in accounts
          /\ pc' = [pc EXCEPT ![w] = "Send"]
          /\ UNCHANGED <<task, todo, late, cut>>
    /\ UNCHANGED <<relayVars, queueVars, userVars, mailVars, faults>>

\* Mutant: the claim is not part of the transaction that sends the mail.
ClaimOutsideTx(w) ==
    /\ pc[w] = "Claim" /\ OnTime(w) /\ todo[w] # {}
    /\ Claimants(Pair(w)) = {}
    /\ \/ Pair(w) \in notified /\ Advance(w) /\ UNCHANGED notified
       \/ /\ Pair(w) \notin notified
          /\ User(w) \in accounts
          /\ pc' = [pc EXCEPT ![w] = "Send"]
          /\ notified' = notified \cup {Pair(w)}
          /\ UNCHANGED <<task, todo, late, cut>>
    /\ UNCHANGED <<relayVars, queueVars, userVars, mails, lost, faults>>

\* Mutant: one notification per event, the key before migration 012.
ClaimPerEvent(w) ==
    /\ pc[w] = "Claim" /\ OnTime(w) /\ todo[w] # {}
    /\ Claimants(Pair(w)) = {}
    /\ \/ Id(w) \in {p[1] : p \in notified} /\ Advance(w)
       \/ /\ Id(w) \notin {p[1] : p \in notified}
          /\ User(w) \in accounts
          /\ pc' = [pc EXCEPT ![w] = "Send"]
          /\ UNCHANGED <<task, todo, late, cut>>
    /\ UNCHANGED <<relayVars, queueVars, userVars, mailVars, faults>>

\* INSERT ... ON CONFLICT DO NOTHING: waits for the claim of another worker,
\* and passes over a user who has been notified.
Claim(w) ==
    /\ pc[w] = "Claim" /\ OnTime(w) /\ todo[w] # {}
    /\ Claimants(Pair(w)) = {}
    /\ \/ Pair(w) \in notified /\ Advance(w)
       \/ /\ Pair(w) \notin notified
          /\ User(w) \in accounts
          /\ pc' = [pc EXCEPT ![w] = "Send"]
          /\ UNCHANGED <<task, todo, late, cut>>
    /\ UNCHANGED <<relayVars, queueVars, userVars, mailVars, faults>>

\* Foreign key: the user was deleted after the lookup.  The task is retried.
ClaimOfDeleted(w) ==
    /\ pc[w] = "Claim" /\ OnTime(w) /\ todo[w] # {}
    /\ User(w) \notin accounts
    /\ TakeBack(task[w])
    /\ Leave(w)
    /\ UNCHANGED <<relayVars, userVars, mailVars, faults>>

\* Mailer.Send succeeds; a handler that is late may be past its last check,
\* and one that has lost its claim does not know.
Send(w) ==
    /\ pc[w] = "Send"
    /\ User(w) \notin Unreachable
    /\ mails' = [mails EXCEPT ![Pair(w)] = @ + 1]
    /\ lost' = IF w \in cut THEN [lost EXCEPT ![Pair(w)] = @ + 1] ELSE lost
    /\ pc' = [pc EXCEPT ![w] = "Commit"]
    /\ UNCHANGED <<task, todo, late, cut, notified, relayVars, queueVars,
                   userVars, faults>>

\* ErrPermanentDelivery: the claim is rolled back; the one receiver of an
\* event is given up, of a quota event the next user follows.
SendImpossible(w) ==
    /\ pc[w] = "Send" /\ OnTime(w)
    /\ User(w) \in Unreachable
    /\ IF Id(w) \in QuotaIds
       THEN Advance(w) /\ UNCHANGED queue
       ELSE queue' = [queue EXCEPT ![task[w]] = "archived"] /\ Leave(w)
    /\ UNCHANGED <<retried, relayVars, userVars, mailVars, faults>>

\* The claim is committed and the handler goes on.
CommitClaim(w) ==
    /\ AwaitsCommit(w) /\ OnTime(w)
    /\ notified' = notified \cup {Pair(w)}
    /\ Advance(w)
    /\ UNCHANGED <<mails, lost, relayVars, queueVars, userVars, faults>>

\* The server ends the session of a claim (it restarts, the backend is killed,
\* or the connection drops) and rolls the claim back: others may claim the
\* pair, while this handler is still in Send or about to commit.
LoseSession(w) ==
    /\ HoldsClaim(w)
    /\ Fault
    /\ cut' = cut \cup {w}
    /\ lost' = IF AwaitsCommit(w) THEN [lost EXCEPT ![Pair(w)] = @ + 1] ELSE lost
    /\ UNCHANGED <<task, todo, pc, late, notified, mails, relayVars, queueVars, userVars>>

\* Only COMMIT tells the handler; its task is retried.
CommitRefused(w) ==
    /\ pc[w] = "Commit" /\ OnTime(w) /\ w \in cut
    /\ TakeBack(task[w])
    /\ Leave(w)
    /\ UNCHANGED <<relayVars, userVars, mailVars, faults>>

\* The handler returns nil.
Finish(w) ==
    /\ pc[w] = "Claim" /\ OnTime(w) /\ todo[w] = {}
    /\ queue' = [queue EXCEPT ![task[w]] = "completed"]
    /\ Leave(w)
    /\ UNCHANGED <<retried, relayVars, userVars, mailVars, faults>>

\* What becomes of the claim, if the handler still has one, when it does not go
\* on: it is rolled back, with its mail already out or not; or the COMMIT has
\* reached the database and only the reply is lost.
DropClaim(w) ==
    /\ UNCHANGED mails
    /\ \/ ~AwaitsCommit(w) /\ UNCHANGED <<notified, lost>>
       \/ /\ AwaitsCommit(w)
          /\ lost' = [lost EXCEPT ![Pair(w)] = @ + 1]
          /\ UNCHANGED notified
       \/ /\ AwaitsCommit(w)
          /\ notified' = notified \cup {Pair(w)}
          /\ UNCHANGED lost

\* An error the handler returns: the database or the mail server.
HandlerFails(w) ==
    /\ pc[w] # "Idle" /\ OnTime(w)
    /\ Fault
    /\ DropClaim(w)
    /\ TakeBack(task[w])
    /\ Leave(w)
    /\ UNCHANGED <<relayVars, userVars>>

\* The process dies: the task stays active until it is recovered.
Crash(w) ==
    /\ pc[w] # "Idle"
    /\ Fault
    /\ DropClaim(w)
    /\ Leave(w)
    /\ UNCHANGED <<relayVars, queueVars, userVars>>

\* asynq.Timeout: the queue takes the task back while the handler still runs.
Timeout(w) ==
    /\ pc[w] # "Idle" /\ OnTime(w)
    /\ Fault
    /\ TakeBack(task[w])
    /\ late' = late \cup {w}
    /\ UNCHANGED <<task, todo, pc, cut, relayVars, userVars, mailVars>>

\* A server that is stopped hands its tasks back after ten seconds, while their
\* handlers still run.
Shutdown(w) ==
    /\ pc[w] # "Idle" /\ OnTime(w)
    /\ Fault
    /\ queue' = [queue EXCEPT ![task[w]] = "pending"]
    /\ late' = late \cup {w}
    /\ UNCHANGED <<retried, task, todo, pc, cut, relayVars, userVars, mailVars>>

\* A late handler meets its cancelled context; nobody waits for its answer.
Abandon(w) ==
    /\ w \in late
    /\ DropClaim(w)
    /\ Leave(w)
    /\ UNCHANGED <<relayVars, queueVars, userVars, faults>>

\* DELETE FROM users waits for the key share lock of an uncommitted claim; the
\* rows of notifications and enrollments go with the user.
DeleteUser(u) ==
    /\ u \in Deletable \cap accounts
    /\ \A id \in Ids : Claimants(<<id, u>>) = {}
    /\ accounts' = accounts \ {u}
    /\ class' = class \ {u}
    /\ notified' = {p \in notified : p[2] # u}
    /\ UNCHANGED <<mails, lost, relayVars, queueVars, workerVars, faults>>

\* Nothing to relay and nothing to run: the ticker and the queue are polled.
Rest ==
    /\ \A r \in Relays : relayPc[r] = "Idle"
    /\ Open = {}
    /\ \A w \in Workers : pc[w] = "Idle"
    /\ \A t \in Tasks : queue[t] \notin {"pending", "retry", "active"}
    /\ UNCHANGED vars

-----------------------------------------------------------------------------
RelayStep(r) ==
    \/ FetchUnpublished(r) \/ MarkPublished(r) \/ MarkRefused(r)
    \/ \E id \in Ids : Publish(r, id)

WorkerStep(w) ==
    \/ Lookup(w) \/ SkipDeleted(w) \/ Claim(w) \/ ClaimOfDeleted(w) \/ Send(w)
    \/ SendImpossible(w) \/ CommitClaim(w) \/ CommitRefused(w) \/ Finish(w)
    \/ Abandon(w)

Next ==
    \/ \E id \in Ids : Record(id)
    \/ \E u \in Users : Move(u) \/ DeleteUser(u)
    \/ \E r \in Relays : RelayStep(r) \/ RelayRollback(r) \/ LoseRound(r)
    \/ \E r \in Relays, id \in Ids : PublishFails(r, id)
    \/ \E t \in Tasks : Recover(t) \/ Expire(t) \/ Redeliver(t)
    \/ \E w \in Workers, t \in Tasks : Take(w, t)
    \/ \E w \in Workers : WorkerStep(w) \/ HandlerFails(w)
    \/ \E w \in Workers : Crash(w) \/ Timeout(w) \/ Shutdown(w) \/ LoseSession(w)
    \/ Rest

Spec == Init /\ [][Next]_vars

\* Relay.Run loops for ever, asynq runs its handlers and its recoverer, and
\* serves the tasks of a queue in turn.
Fairness ==
    /\ \A r \in Relays : WF_vars(RelayStep(r))
    /\ \A w \in Workers : WF_vars(WorkerStep(w))
    /\ \A t \in Tasks : WF_vars(Recover(t)) /\ SF_vars(\E w \in Workers : Take(w, t))
LiveSpec == Spec /\ Fairness

-----------------------------------------------------------------------------
(* Properties.                                                              *)

\* Type invariant of the tables, the queue and the workers.
TypeOK ==
    /\ accounts \subseteq Users /\ class \subseteq accounts
    /\ outbox \in [Ids -> {"none", "unpublished", "published"}]
    /\ rowLock \in [Ids -> Relays \cup {None}]
    /\ batch \in [Relays -> SUBSET Ids]
    /\ enqueued \in [Relays -> SUBSET Ids]
    /\ relayPc \in [Relays -> {"Idle", "Publishing"}]
    /\ queue \in [Tasks -> {"none", "pending", "active", "retry", "completed", "archived"}]
    /\ retried \in [Tasks -> 0..MaxRetry]
    /\ task \in [Workers -> Tasks \cup {None}]
    /\ todo \in [Workers -> SUBSET Users]
    /\ pc \in [Workers -> {"Idle", "Lookup", "Claim", "Send", "Commit"}]
    /\ late \subseteq Workers /\ cut \subseteq Workers
    /\ notified \subseteq Pairs
    /\ mails \in [Pairs -> Nat]
    /\ lost \in [Pairs -> Nat]
    /\ faults \in 0..MaxFaults

\* However often a task is delivered, copied, retried or taken over from a late
\* or disconnected worker, of the mails a user gets about an event at most one
\* was sent under a claim that is committed or still open: each of the others
\* needs a claim of its own that the database has dropped (Claim before Send,
\* in one transaction).
ExtraMailsWereLost == \A p \in Pairs : mails[p] <= 1 + lost[p]

\* Users a completed event must have reached: they exist, they have an address,
\* and the event is about them, or they never left the class.
Receivers(id) ==
    {u \in accounts \ Unreachable :
        IF id \in QuotaIds THEN u \notin Movers ELSE u = Owner[id]}

Served(id) == \A u \in Receivers(id) : <<id, u>> \in notified

\* No event disappears: a published event is in the queue, or archived after
\* its last retry, or everybody has been notified; "completed" is never a lie
\* (RelayOnce marks only what the queue has accepted).
NoEventLost ==
    /\ \A id \in Ids :
          outbox[id] = "published" =>
              Served(id) \/ queue[id] \in {"pending", "retry", "active", "archived"}
    /\ \A t \in Tasks :
          /\ queue[t] = "completed" => Served(IdOf(t))
          /\ queue[t] = "archived" => Served(IdOf(t)) \/ retried[t] = MaxRetry

\* What migration 012 promises of every student and event: exactly one mail, so
\* never two, in spite of failures and retries of the worker.
ExactlyOneMail == \A p \in Pairs : mails[p] <= 1

-----------------------------------------------------------------------------
(* The inductive invariant: what a handler has done by the time it reaches  *)
(* a step, and what the tables and the queue know about an event.           *)

Running(w) == pc[w] # "Idle"
Mailed(id) == {u \in Users : <<id, u>> \in notified}

\* A claim is of an existing user and not committed, and no two handlers hold
\* claims of one pair.  Whoever has lost a claim is still in Send or Commit.
Claims ==
    /\ \A w \in cut : pc[w] \in {"Send", "Commit"}
    /\ \A w \in Workers : pc[w] \in {"Send", "Commit"} => todo[w] # {} /\ User(w) \in Users
    /\ \A w \in Workers : HoldsClaim(w) => User(w) \in accounts /\ Pair(w) \notin notified
    /\ \A v, w \in Workers : HoldsClaim(v) /\ HoldsClaim(w) /\ Pair(v) = Pair(w) => v = w

\* One mail beyond the lost ones if and only if it is recorded or an open claim
\* of it is about to be committed.
Accounts ==
    \A p \in Pairs :
        /\ mails[p] <= 1 + lost[p]
        /\ p \in notified => mails[p] = 1 + lost[p]
        /\ \A w \in Workers : AwaitsCommit(w) /\ Pair(w) = p => mails[p] = 1 + lost[p]
        /\ p[2] \in accounts /\ p \notin notified
           /\ (\A w \in Workers : AwaitsCommit(w) => Pair(w) # p) => mails[p] = lost[p]

\* Only events of the outbox are relayed, queued or handled.
Known(id) == outbox[id] # "none"
Sources ==
    /\ \A r \in Relays : \A id \in batch[r] \cup enqueued[r] : Known(id)
    /\ \A t \in Tasks : queue[t] # "none" => Known(IdOf(t))
    /\ \A w \in Workers : Running(w) => task[w] \in Tasks /\ Known(Id(w))

\* A handler on time owns its active task, and whom it has passed over needs no mail.
Handlers ==
    /\ \A w \in Workers : Running(w) /\ OnTime(w) => queue[task[w]] = "active"
    /\ \A v, w \in Workers :
          Running(v) /\ OnTime(v) /\ Running(w) /\ OnTime(w) /\ task[v] = task[w] => v = w
    /\ \A w \in Workers : pc[w] \in {"Claim", "Send", "Commit"} =>
          /\ Receivers(Id(w)) \subseteq todo[w] \cup Mailed(Id(w))
          /\ Id(w) \notin QuotaIds => todo[w] \subseteq {Owner[Id(w)]}

\* An event that a relay has handed over is in the queue until it is served.
Handed(id) == outbox[id] = "published" \/ \E r \in Relays : id \in enqueued[r]
Progress ==
    /\ accounts \ Movers \subseteq class
    /\ \A id \in Ids : Handed(id) => Served(id) \/ queue[id] # "none"
    /\ \A t \in Tasks : queue[t] = "completed" => Served(IdOf(t))
    /\ \A t \in Tasks : queue[t] = "archived" => Served(IdOf(t)) \/ retried[t] = MaxRetry

\* The inductive invariant behind the theorems of OutboxDeliveryProofs: claims
\* are exclusive, mails are accounted for, and no step of a handler, a relay or
\* the queue loses track of an event.
IInv == TypeOK /\ Claims /\ Accounts /\ Sources /\ Handlers /\ Progress

-----------------------------------------------------------------------------
(* Refinement and liveness.                                                 *)

\* Handlers in Send whose claim is gone, with the pair they are sending.
Stray == {<<w, Pair(w)>> : w \in {v \in cut : pc[v] = "Send"}}

\* The pipeline, seen from the tables and the mail server: once a mail is
\* recorded, only handlers that had been cut off before may still send it, each
\* once; and no mail is recorded that was not sent.
Promise == INSTANCE Notices WITH
    Senders <- Workers,
    stray <- Stray,
    announced <- {id \in Ids : outbox[id] # "none"},
    members <- accounts,
    recorded <- notified

ImplementsNotices == Promise!Spec

\* With fewer failures than retries, every event reaches everybody it is about.
EveryEventServed == \A id \in Ids : outbox[id] = "unpublished" ~> Served(id)
=============================================================================
