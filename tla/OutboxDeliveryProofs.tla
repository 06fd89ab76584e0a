------------------------ MODULE OutboxDeliveryProofs ------------------------
(***************************************************************************)
(* Proofs about OutboxDelivery, for every set of events, users, relays,    *)
(* handlers and copies: IInv is inductive, hence of the mails about an     *)
(* event at most one has a claim the database has not dropped, no event is *)
(* lost, and the pipeline implements Notices.                              *)
(***************************************************************************)
EXTENDS OutboxDelivery, TLAPS

-----------------------------------------------------------------------------
(* Handlers a step does not touch, and what a handler's state means.        *)

Same(v) == /\ task'[v] = task[v] /\ todo'[v] = todo[v] /\ pc'[v] = pc[v]
           /\ v \in late' <=> v \in late
           /\ v \in cut' <=> v \in cut

\* The event and the pair of a handler depend on its own state only.
LEMMA SameHandler ==
    ASSUME NEW v \in Workers, Same(v)
    PROVE  /\ Id(v)' = Id(v) /\ User(v)' = User(v) /\ Pair(v)' = Pair(v)
           /\ Running(v)' = Running(v) /\ OnTime(v)' = OnTime(v)
           /\ HoldsClaim(v)' = HoldsClaim(v) /\ AwaitsCommit(v)' = AwaitsCommit(v)
  <1>1. Id(v)' = Id(v)
    BY DEF Same, Id
  <1>2. User(v)' = User(v)
    BY DEF Same, User
  <1>3. Pair(v)' = Pair(v)
    BY <1>1, <1>2 DEF Pair
  <1>4. /\ Running(v)' = Running(v) /\ OnTime(v)' = OnTime(v)
        /\ HoldsClaim(v)' = HoldsClaim(v) /\ AwaitsCommit(v)' = AwaitsCommit(v)
    BY DEF Same, Running, OnTime, HoldsClaim, AwaitsCommit
  <1> QED BY <1>1, <1>2, <1>3, <1>4

\* What Claims says of one handler.
ClaimInOrder(w) ==
    /\ w \in cut => pc[w] \in {"Send", "Commit"}
    /\ pc[w] \in {"Send", "Commit"} => todo[w] # {} /\ User(w) \in Users
    /\ HoldsClaim(w) => User(w) \in accounts /\ Pair(w) \notin notified

\* Tasks are those of the relay, named by the event, and the copies.
LEMMA TaskFacts ==
    /\ \A t \in Tasks : IdOf(t) \in Ids
    /\ \A id \in Ids : id \in Tasks /\ IdOf(id) = id
  BY CopiesOfIds DEF Tasks, IdOf

\* A handler that runs is about an event, and its claim is a pair.
LEMMA HandlerFacts ==
    ASSUME IInv, NEW w \in Workers, Running(w)
    PROVE  /\ task[w] \in Tasks /\ Id(w) \in Ids
           /\ User(w) \in Users => Pair(w) \in Pairs
           /\ pc[w] \in {"Send", "Commit"} => User(w) \in Users /\ Pair(w) \in Pairs
           /\ HoldsClaim(w) => User(w) \in accounts /\ User(w) \in Users
                               /\ Pair(w) \in Pairs \ notified
  <1>1. task[w] \in Tasks
    BY DEF IInv, Sources
  <1>2. Id(w) \in Ids
    BY <1>1, TaskFacts DEF Id
  <1>3. User(w) \in Users => Pair(w) \in Pairs
    BY <1>2 DEF Pair, Pairs
  <1>4. HoldsClaim(w) => User(w) \in accounts /\ Pair(w) \notin notified
    BY DEF IInv, Claims
  <1>5. pc[w] \in {"Send", "Commit"} => User(w) \in Users
    BY DEF IInv, Claims
  <1> QED BY <1>1, <1>2, <1>3, <1>4, <1>5 DEF IInv, TypeOK

\* As long as accounts only disappear, and with them their rows, who has been
\* served stays served.
LEMMA ServedStays ==
    ASSUME accounts' \subseteq accounts, NEW id \in Ids,
           \A u \in accounts' : <<id, u>> \in notified => <<id, u>> \in notified'
    PROVE  /\ Receivers(id)' \subseteq Receivers(id)
           /\ Served(id) => Served(id)'
  <1>1. Receivers(id)' \subseteq Receivers(id)
    BY DEF Receivers
  <1>2. \A u \in Receivers(id)' : u \in accounts'
    BY DEF Receivers
  <1> QED BY <1>1, <1>2 DEF Served

-----------------------------------------------------------------------------
(* Each conjunct of the invariant under the changes that matter to it.      *)

\* w is the handler that acts, if any.
LEMMA ClaimsKeep ==
    ASSUME IInv, cut' \subseteq Workers, NEW w, \A v \in Workers \ {w} : Same(v),
           \A v \in Workers \ {w} : HoldsClaim(v) =>
               User(v) \in accounts' /\ Pair(v) \notin notified',
           w \in Workers => ClaimInOrder(w)',
           w \in Workers /\ HoldsClaim(w)' =>
               \A v \in Workers \ {w} : HoldsClaim(v) => Pair(v) # Pair(w)'
    PROVE  Claims'
  <1>1. \A v \in Workers \ {w} : /\ HoldsClaim(v)' = HoldsClaim(v) /\ Pair(v)' = Pair(v)
                                 /\ User(v)' = User(v) /\ todo'[v] = todo[v]
    BY SameHandler DEF Same
  <1>2. \A v \in Workers \ {w} : ClaimInOrder(v)'
    BY <1>1 DEF IInv, Claims, ClaimInOrder, Same
  <1>3. \A v, x \in Workers :
            HoldsClaim(v)' /\ HoldsClaim(x)' /\ Pair(v)' = Pair(x)' => v = x
    BY <1>1 DEF IInv, Claims
  <1>4. \A v \in Workers : ClaimInOrder(v)'
    BY <1>2
  <1> QED BY <1>3, <1>4 DEF Claims, ClaimInOrder

\* No mail is sent, recorded or lost, and no claim starts or ceases to wait
\* for its commit.
LEMMA AccountsKeep ==
    ASSUME IInv, UNCHANGED <<accounts, mailVars>>,
           \A v \in Workers : AwaitsCommit(v)' <=> AwaitsCommit(v),
           \A v \in Workers : AwaitsCommit(v) => Pair(v)' = Pair(v)
    PROVE  Accounts'
  BY DEF IInv, Accounts, mailVars

LEMMA SourcesKeep ==
    ASSUME IInv, \A id \in Ids : Known(id) => Known(id)',
           \A r \in Relays : \A id \in (batch[r] \cup enqueued[r])' :
               id \in Ids /\ (id \in batch[r] \cup enqueued[r] \/ Known(id)'),
           \A t \in Tasks : queue'[t] # "none" => queue[t] # "none" \/ Known(IdOf(t))',
           NEW w, \A v \in Workers \ {w} : Same(v),
           w \in Workers /\ Running(w)' => task'[w] \in Tasks /\ Known(Id(w))'
    PROVE  Sources'
  <1>1. \A r \in Relays : \A id \in (batch[r] \cup enqueued[r])' : Known(id)'
    BY DEF IInv, Sources
  <1>2. \A t \in Tasks : queue'[t] # "none" => Known(IdOf(t))'
    BY TaskFacts DEF IInv, Sources
  <1>3. \A v \in Workers \ {w} : Running(v)' => task'[v] \in Tasks /\ Known(Id(v))'
    BY SameHandler, HandlerFacts DEF IInv, Sources, Same
  <1> QED BY <1>1, <1>2, <1>3 DEF Sources

\* The handlers that do not act keep their tasks.
LEMMA HandlersKeep ==
    ASSUME IInv, accounts' \subseteq accounts,
           \A id \in Ids : \A u \in accounts' : <<id, u>> \in notified => <<id, u>> \in notified',
           notified' \subseteq Pairs,
           NEW w, \A v \in Workers \ {w} : Same(v),
           \A v \in Workers \ {w} : Running(v) /\ OnTime(v) => queue'[task[v]] = "active",
           w \in Workers /\ Running(w)' /\ OnTime(w)' =>
               /\ queue'[task'[w]] = "active"
               /\ \A v \in Workers \ {w} : Running(v) /\ OnTime(v) => task[v] # task'[w],
           w \in Workers /\ pc'[w] \in {"Claim", "Send", "Commit"} =>
               /\ Receivers(Id(w))' \subseteq todo'[w] \cup Mailed(Id(w))'
               /\ Id(w)' \notin QuotaIds => todo'[w] \subseteq {Owner[Id(w)]'}
    PROVE  Handlers'
  <1>1. \A v \in Workers \ {w} : /\ Running(v)' = Running(v) /\ OnTime(v)' = OnTime(v)
                                 /\ task'[v] = task[v] /\ Id(v)' = Id(v)
                                 /\ todo'[v] = todo[v] /\ pc'[v] = pc[v]
    BY SameHandler DEF Same
  <1>2. \A v \in Workers : Running(v)' /\ OnTime(v)' => queue'[task'[v]] = "active"
    BY <1>1
  <1>3. \A v, x \in Workers :
            Running(v)' /\ OnTime(v)' /\ Running(x)' /\ OnTime(x)' /\ task'[v] = task'[x] => v = x
    BY <1>1 DEF IInv, Handlers
  <1>4. ASSUME NEW v \in Workers \ {w}, pc'[v] \in {"Claim", "Send", "Commit"}
        PROVE  /\ Receivers(Id(v))' \subseteq todo'[v] \cup Mailed(Id(v))'
               /\ Id(v)' \notin QuotaIds => todo'[v] \subseteq {Owner[Id(v)]'}
    <2>1. Running(v) /\ Id(v) \in Ids
      BY <1>1, <1>4, HandlerFacts DEF Running
    <2>2. /\ Receivers(Id(v)) \subseteq todo[v] \cup Mailed(Id(v))
          /\ Id(v) \notin QuotaIds => todo[v] \subseteq {Owner[Id(v)]}
      BY <1>1, <1>4 DEF IInv, Handlers
    <2>3. PICK i \in Ids : i = Id(v)
      BY <2>1
    <2>4. Receivers(i)' \subseteq Receivers(i)
      BY ServedStays
    <2>5. \A u \in Receivers(i)' : u \in Users /\ u \in accounts'
      BY DEF Receivers, IInv, TypeOK
    <2>6. Receivers(i)' \subseteq todo'[v] \cup Mailed(i)'
      BY <1>1, <2>2, <2>3, <2>4, <2>5 DEF Mailed
    <2>7. i = Id(v)' /\ Receivers(Id(v))' = Receivers(i)' /\ Mailed(Id(v))' = Mailed(i)'
      BY <1>1, <2>3 DEF Receivers, Mailed
    <2> QED BY <1>1, <2>2, <2>3, <2>6, <2>7
  <1> QED BY <1>2, <1>3, <1>4 DEF Handlers

LEMMA ProgressKeeps ==
    ASSUME IInv, accounts' \subseteq accounts, accounts' \ Movers \subseteq class',
           \A id \in Ids : \A u \in accounts' : <<id, u>> \in notified => <<id, u>> \in notified',
           \A id \in Ids : Handed(id)' => Handed(id) \/ queue'[id] # "none",
           \A t \in Tasks : queue'[t] = "none" => queue[t] \in {"none", "completed"},
           \A t \in Tasks : queue'[t] = "completed" => queue[t] = "completed" \/ Served(IdOf(t))',
           \A t \in Tasks : queue'[t] = "archived" =>
               \/ queue[t] = "archived" /\ retried'[t] = retried[t]
               \/ retried'[t] = MaxRetry
               \/ Served(IdOf(t))'
    PROVE  Progress'
  <1>1. \A id \in Ids : Served(id) => Served(id)'
    BY ServedStays
  <1>2. \A id \in Ids : Handed(id)' => Served(id)' \/ queue'[id] # "none"
    BY <1>1, TaskFacts DEF IInv, Progress
  <1>3. \A t \in Tasks : queue'[t] = "completed" => Served(IdOf(t))'
    BY <1>1, TaskFacts DEF IInv, Progress
  <1>4. \A t \in Tasks : queue'[t] = "archived" => Served(IdOf(t))' \/ retried'[t] = MaxRetry
    BY <1>1, TaskFacts DEF IInv, Progress
  <1> QED BY <1>2, <1>3, <1>4 DEF Progress

-----------------------------------------------------------------------------
(* Steps of KRS, of the relays and of the queue: no handler moves.          *)

LEMMA QuietKeeps ==
    ASSUME IInv, TypeOK', UNCHANGED <<workerVars, accounts, mailVars>>,
           accounts \ Movers \subseteq class',
           \A id \in Ids : Known(id) => Known(id)',
           \A r \in Relays : \A id \in (batch[r] \cup enqueued[r])' :
               id \in batch[r] \cup enqueued[r] \/ Known(id)',
           \A t \in Tasks : queue'[t] # "none" => queue[t] # "none" \/ Known(IdOf(t))',
           \A t \in Tasks : queue[t] = "active" /\ Holders(t) # {} => queue'[t] = "active",
           \A id \in Ids : Handed(id)' => Handed(id) \/ queue'[id] # "none",
           \A t \in Tasks : queue'[t] = "none" => queue[t] \in {"none", "completed"},
           \A t \in Tasks : queue'[t] = "completed" => queue[t] = "completed",
           \A t \in Tasks : queue'[t] = "archived" =>
               (queue[t] = "archived" /\ retried'[t] = retried[t]) \/ retried'[t] = MaxRetry
    PROVE  IInv'
  <1>1. PICK w : w \notin Workers
    BY NoSetContainsEverything
  <1>2. \A v \in Workers : Same(v)
    BY DEF Same, workerVars
  <1>3. Claims'
    BY <1>1, <1>2, ClaimsKeep DEF mailVars, IInv, Claims, TypeOK
  <1>4. Accounts'
    BY <1>2, AccountsKeep, SameHandler
  <1>5. \A r \in Relays : \A id \in (batch[r] \cup enqueued[r])' : id \in Ids
    BY DEF TypeOK
  <1>6. Sources'
    BY <1>1, <1>2, <1>5, SourcesKeep
  <1>7. \A v \in Workers : Running(v) /\ OnTime(v) => queue'[task[v]] = "active"
    BY DEF IInv, Handlers, Sources, Holders, OnTime
  <1>8. notified' \subseteq Pairs
    BY DEF TypeOK
  <1>9. Handlers'
    BY <1>1, <1>2, <1>7, <1>8, HandlersKeep DEF mailVars
  <1>10. Progress'
    BY ProgressKeeps DEF mailVars
  <1> QED BY <1>3, <1>4, <1>6, <1>9, <1>10 DEF IInv

LEMMA RecordKeeps ==
    ASSUME IInv, NEW id \in Ids, Record(id)
    PROVE  IInv'
  <1> USE DEF Record
  <1>1. TypeOK'
    BY DEF IInv, TypeOK, queueVars, workerVars, userVars, mailVars
  <1>2. UNCHANGED <<workerVars, accounts, class, mailVars, batch, enqueued, queue, retried>>
    BY DEF userVars, queueVars
  <1>3. /\ \A i \in Ids : Known(i) => Known(i)'
        /\ \A i \in Ids : Handed(i)' => Handed(i)
    BY <1>2 DEF Known, Handed, IInv, TypeOK
  <1> QED BY <1>1, <1>2, <1>3, QuietKeeps DEF IInv, Progress

LEMMA MoveKeeps ==
    ASSUME IInv, NEW u \in Users, Move(u)
    PROVE  IInv'
  <1> USE DEF Move
  <1>1. TypeOK'
    BY DEF IInv, TypeOK, relayVars, queueVars, workerVars, mailVars
  <1>2. UNCHANGED <<workerVars, accounts, mailVars, outbox, batch, enqueued, queue, retried>>
    BY DEF relayVars, queueVars
  <1>3. accounts \ Movers \subseteq class'
    BY DEF IInv, Progress
  <1>4. \A i \in Ids : Known(i)' = Known(i) /\ Handed(i)' = Handed(i)
    BY <1>2 DEF Known, Handed
  <1> QED BY <1>1, <1>2, <1>3, <1>4, QuietKeeps DEF IInv

\* A round of a relay: rows are fetched, handed to the queue and marked.
LEMMA RelayStepKeeps ==
    ASSUME IInv, NEW r \in Relays,
           \/ RelayStep(r) \/ RelayRollback(r) \/ LoseRound(r)
           \/ \E id \in Ids : PublishFails(r, id)
    PROVE  IInv'
  <1> USE DEF IInv
  <1>1. UNCHANGED <<workerVars, userVars, mailVars, retried>>
    BY DEF RelayStep, FetchUnpublished, Publish, PublishFails, MarkPublished, MarkRefused,
           RelayRollback, LoseRound, EndRound, queueVars
  <1>2. UNCHANGED <<accounts, class>> /\ accounts \ Movers \subseteq class'
    BY <1>1 DEF userVars, Progress
  <1>3. CASE FetchUnpublished(r)
    <2>1. Lowest(Batch, Open) \subseteq {i \in Ids : Known(i)}
      BY DEF Lowest, Open, Known
    <2>2. TypeOK'
      BY <1>3, <2>1 DEF FetchUnpublished, TypeOK, queueVars, workerVars, userVars, mailVars
    <2>3. UNCHANGED <<outbox, enqueued, queue>>
      BY <1>3 DEF FetchUnpublished, queueVars
    <2>4. \A q \in Relays : \A i \in (batch[q] \cup enqueued[q])' :
              i \in batch[q] \cup enqueued[q] \/ Known(i)
      BY <1>3, <2>1, <2>3 DEF FetchUnpublished, TypeOK
    <2>5. \A i \in Ids : Known(i)' = Known(i) /\ Handed(i)' = Handed(i)
      BY <2>3 DEF Known, Handed
    <2> QED BY <1>1, <1>2, <2>2, <2>3, <2>4, <2>5, QuietKeeps DEF TypeOK
  <1>4. CASE \E id \in Ids : Publish(r, id) \/ PublishFails(r, id)
    <2>1. PICK id \in Ids : Publish(r, id) \/ PublishFails(r, id)
      BY <1>4
    <2>2. id \in batch[r] /\ Known(id) /\ id \in Tasks /\ IdOf(id) = id
      BY <2>1, TaskFacts DEF Publish, PublishFails, IsFirst, Sources
    <2>3. queue' = queue \/ queue' = [queue EXCEPT ![id] = IF @ = "none" THEN "pending" ELSE @]
      BY <2>1 DEF Publish, PublishFails, Enqueue
    <2>4. /\ \A t \in Tasks \ {id} : queue'[t] = queue[t]
          /\ queue'[id] = queue[id] \/ (queue[id] = "none" /\ queue'[id] = "pending")
      BY <2>2, <2>3 DEF TypeOK
    <2>5. UNCHANGED <<outbox, rowLock, relayPc>>
      BY <2>1 DEF Publish, PublishFails
    <2>6. /\ batch' \in [Relays -> SUBSET Ids] /\ enqueued' \in [Relays -> SUBSET Ids]
          /\ faults' \in 0..MaxFaults
      BY <2>1, BoundsPositive DEF Publish, PublishFails, Fault, TypeOK
    <2>7. TypeOK'
      BY <1>1, <2>2, <2>3, <2>5, <2>6 DEF TypeOK, workerVars, userVars, mailVars
    <2>8. \A q \in Relays : \A i \in (batch[q] \cup enqueued[q])' :
              i \in batch[q] \cup enqueued[q]
      BY <2>1, <2>2 DEF Publish, PublishFails, TypeOK
    <2>9. \A i \in Ids : Known(i)' = Known(i)
      BY <2>5 DEF Known
    <2>10. \A q \in Relays : \A i \in enqueued'[q] : i \in enqueued[q] \/ (i = id /\ Publish(r, id))
      BY <2>1, <2>2 DEF Publish, PublishFails, TypeOK
    <2>11. Publish(r, id) => queue'[id] # "none"
      BY <2>2 DEF Publish, Enqueue, TypeOK
    <2>12. \A i \in Ids : Handed(i)' => Handed(i) \/ queue'[i] # "none"
      BY <2>5, <2>10, <2>11 DEF Handed
    <2> QED BY <1>1, <1>2, <2>2, <2>4, <2>7, <2>8, <2>9, <2>12, QuietKeeps DEF TypeOK
  <1>5. CASE MarkPublished(r) \/ MarkRefused(r) \/ RelayRollback(r)
    <2>1. EndRound(r) /\ queue' = queue
      BY <1>5 DEF MarkPublished, MarkRefused, RelayRollback, EndRound, queueVars
    <2>2. \A i \in Ids : outbox'[i] = outbox[i] \/ (i \in enqueued[r] /\ outbox'[i] = "published")
      BY <1>5 DEF MarkPublished, MarkRefused, RelayRollback
    <2>3. outbox' \in [Ids -> {"none", "unpublished", "published"}] /\ faults' \in 0..MaxFaults
      BY <1>5, BoundsPositive DEF MarkPublished, MarkRefused, RelayRollback, Fault, TypeOK
    <2>4. TypeOK'
      BY <1>1, <2>1, <2>3 DEF TypeOK, EndRound, workerVars, userVars, mailVars
    <2>5. \A q \in Relays : \A i \in (batch[q] \cup enqueued[q])' :
              i \in batch[q] \cup enqueued[q]
      BY <2>1 DEF EndRound, TypeOK
    <2>6. \A q \in Relays : enqueued'[q] \subseteq enqueued[q]
      BY <2>1 DEF EndRound, TypeOK
    <2>7. \A i \in Ids : Known(i) => Known(i)'
      BY <2>2 DEF Known
    <2>8. \A i \in Ids : Handed(i)' => Handed(i)
      BY <2>2, <2>6 DEF Handed
    <2> QED BY <1>1, <1>2, <2>1, <2>4, <2>5, <2>7, <2>8, QuietKeeps DEF TypeOK
  <1>6. CASE LoseRound(r)
    <2>1. UNCHANGED <<outbox, batch, enqueued, queue>>
      BY <1>6 DEF LoseRound, queueVars
    <2>2. TypeOK'
      BY <1>1, <1>6, <2>1, BoundsPositive
         DEF LoseRound, Fault, TypeOK, workerVars, userVars, mailVars
    <2>3. \A i \in Ids : Known(i)' = Known(i) /\ Handed(i)' = Handed(i)
      BY <2>1 DEF Known, Handed
    <2> QED BY <1>1, <1>2, <2>1, <2>2, <2>3, QuietKeeps DEF TypeOK
  <1> QED BY <1>3, <1>4, <1>5, <1>6 DEF RelayStep

\* What TakeBack and the other moves of the queue leave behind.
LEMMA TakeBackFacts ==
    ASSUME IInv, NEW t \in Tasks, TakeBack(t)
    PROVE  /\ queue' \in [Tasks -> {"none", "pending", "active", "retry", "completed", "archived"}]
           /\ retried' \in [Tasks -> 0..MaxRetry]
           /\ \A x \in Tasks \ {t} : queue'[x] = queue[x] /\ retried'[x] = retried[x]
           /\ \/ queue'[t] = "retry"
              \/ queue'[t] = "archived" /\ retried'[t] = MaxRetry
  BY BoundsPositive DEF IInv, TypeOK, TakeBack

LEMMA QueueStepKeeps ==
    ASSUME IInv, NEW t \in Tasks, Recover(t) \/ Expire(t) \/ Redeliver(t)
    PROVE  IInv'
  <1> USE DEF IInv
  <1>1. UNCHANGED <<relayVars, workerVars, userVars, mailVars, faults>>
    BY DEF Recover, Expire, Redeliver
  <1>2. UNCHANGED <<outbox, batch, enqueued, accounts, class>> /\ accounts \ Movers \subseteq class'
    BY <1>1 DEF relayVars, userVars, Progress
  <1>3. \A i \in Ids : Known(i)' = Known(i) /\ Handed(i)' = Handed(i)
    BY <1>2 DEF Known, Handed
  <1>4. /\ queue' \in [Tasks -> {"none", "pending", "active", "retry", "completed", "archived"}]
        /\ retried' \in [Tasks -> 0..MaxRetry]
        /\ \A x \in Tasks \ {t} : queue'[x] = queue[x] /\ retried'[x] = retried[x]
    BY TakeBackFacts, BoundsPositive DEF Recover, Expire, Redeliver, TypeOK
  <1>5. TypeOK'
    BY <1>1, <1>4 DEF TypeOK, relayVars, workerVars, userVars, mailVars
  <1>6. CASE Recover(t)
    <2>1. queue[t] = "active" /\ Holders(t) = {} /\ TakeBack(t)
      BY <1>6 DEF Recover
    <2> QED BY <1>1, <1>2, <1>3, <1>4, <1>5, <2>1, TakeBackFacts, QuietKeeps
  <1>7. CASE Expire(t)
    <2>1. queue[t] = "completed" /\ queue'[t] = "none"
      BY <1>7 DEF Expire, TypeOK
    <2> QED BY <1>1, <1>2, <1>3, <1>4, <1>5, <2>1, QuietKeeps
  <1>8. CASE Redeliver(t)
    <2>1. queue[t] = "none" /\ queue'[t] = "pending" /\ Known(IdOf(t)) /\ t \notin Ids
      BY <1>8, CopiesOfIds DEF Redeliver, TypeOK, Known, IdOf
    <2> QED BY <1>1, <1>2, <1>3, <1>4, <1>5, <2>1, TaskFacts, QuietKeeps
  <1> QED BY <1>6, <1>7, <1>8

-----------------------------------------------------------------------------
(* Steps of one handler w on its task t.                                    *)

WorkerFrame(w, t) ==
    /\ UNCHANGED <<relayVars, userVars>>
    /\ \A v \in Workers \ {w} : Same(v)
    /\ \A x \in Tasks \ {t} : queue'[x] = queue[x] /\ retried'[x] = retried[x]
    /\ Running(w)' => task'[w] = t /\ Known(IdOf(t))
    /\ notified \subseteq notified'
    /\ \A v \in Workers \ {w} : HoldsClaim(v) => Pair(v) \notin notified'

\* What the step does to t in the queue, with the handlers that own it.
QueueFrame(w, t) ==
    /\ queue'[t] # "none" /\ (queue[t] = "none" => queue'[t] = "none")
    /\ \A v \in Workers \ {w} : Running(v) /\ OnTime(v) /\ task[v] = t => queue'[t] = "active"
    /\ Running(w)' /\ OnTime(w)' =>
          /\ queue'[t] = "active"
          /\ \A v \in Workers \ {w} : Running(v) /\ OnTime(v) => task[v] # t
    /\ queue'[t] = "completed" => queue[t] = "completed" \/ Served(IdOf(t))'
    /\ queue'[t] = "archived" =>
          \/ queue[t] = "archived" /\ retried'[t] = retried[t]
          \/ retried'[t] = MaxRetry
          \/ Served(IdOf(t))'

LEMMA WorkerKeeps ==
    ASSUME IInv, TypeOK', NEW w \in Workers, NEW t \in Tasks, WorkerFrame(w, t),
           QueueFrame(w, t) \/ (/\ UNCHANGED queueVars
                                /\ Running(w)' /\ OnTime(w)' => Running(w) /\ OnTime(w) /\ task[w] = t),
           Accounts',
           ClaimInOrder(w)',
           HoldsClaim(w)' => \A v \in Workers \ {w} : HoldsClaim(v) => Pair(v) # Pair(w)',
           pc'[w] \in {"Claim", "Send", "Commit"} =>
               /\ Receivers(IdOf(t))' \subseteq todo'[w] \cup Mailed(IdOf(t))'
               /\ IdOf(t) \notin QuotaIds => todo'[w] \subseteq {Owner[IdOf(t)]}
    PROVE  IInv'
  <1>1. UNCHANGED <<accounts, class, outbox, batch, enqueued>> /\ accounts \ Movers \subseteq class'
    BY DEF WorkerFrame, relayVars, userVars, IInv, Progress
  <1>2. \A v \in Workers \ {w} : Same(v)
    BY DEF WorkerFrame
  <1>3. Running(w)' => task'[w] = t /\ Id(w)' = IdOf(t) /\ Known(Id(w))'
    <2>1. \A i : Known(i)' = Known(i)
      BY <1>1 DEF Known
    <2>2. Running(w)' => task'[w] = t /\ Known(IdOf(t))
      BY DEF WorkerFrame
    <2>3. Running(w)' => Id(w)' = IdOf(t)
      BY <2>2 DEF Id, IdOf
    <2> QED BY <1>1, <2>2, <2>3 DEF Known
  <1>4. Claims'
    <2>1. \A v \in Workers \ {w} : HoldsClaim(v) =>
              User(v) \in accounts' /\ Pair(v) \notin notified'
      BY <1>1 DEF IInv, Claims, WorkerFrame
    <2> QED BY <1>2, <2>1, ClaimsKeep DEF TypeOK
  <1>5. Sources'
    <2>1. \A t2 \in Tasks : queue'[t2] # "none" => queue[t2] # "none"
      BY DEF WorkerFrame, QueueFrame, queueVars
    <2>2. \A id \in Ids : Known(id) => Known(id)'
      BY <1>1 DEF Known
    <2>3. \A r \in Relays : \A id \in (batch[r] \cup enqueued[r])' :
              id \in Ids /\ id \in batch[r] \cup enqueued[r]
      BY <1>1 DEF IInv, TypeOK
    <2> QED BY <1>2, <1>3, <2>1, <2>2, <2>3, SourcesKeep
  <1>6. \A id \in Ids : \A u \in accounts' : <<id, u>> \in notified => <<id, u>> \in notified'
    BY DEF WorkerFrame
  <1>7. Handlers'
    <2>1. \A v \in Workers \ {w} : Running(v) /\ OnTime(v) => queue'[task[v]] = "active"
      <3> SUFFICES ASSUME NEW v \in Workers \ {w}, Running(v), OnTime(v)
                   PROVE  queue'[task[v]] = "active"
        OBVIOUS
      <3>1. queue[task[v]] = "active" /\ task[v] \in Tasks
        BY DEF IInv, Handlers, Sources
      <3> QED BY <3>1 DEF WorkerFrame, QueueFrame, queueVars
    <2>2. Running(w)' /\ OnTime(w)' =>
              /\ queue'[task'[w]] = "active"
              /\ \A v \in Workers \ {w} : Running(v) /\ OnTime(v) => task[v] # task'[w]
      BY <1>3 DEF QueueFrame, queueVars, IInv, Handlers
    <2>3. pc'[w] \in {"Claim", "Send", "Commit"} => Running(w)'
      BY DEF Running
    <2>4. notified' \subseteq Pairs
      BY DEF TypeOK
    <2>5. pc'[w] \in {"Claim", "Send", "Commit"} =>
              /\ Receivers(Id(w))' \subseteq todo'[w] \cup Mailed(Id(w))'
              /\ Id(w)' \notin QuotaIds => todo'[w] \subseteq {Owner[Id(w)]'}
      <3> SUFFICES ASSUME pc'[w] \in {"Claim", "Send", "Commit"}
                   PROVE  /\ Receivers(Id(w))' \subseteq todo'[w] \cup Mailed(Id(w))'
                          /\ Id(w)' \notin QuotaIds => todo'[w] \subseteq {Owner[Id(w)]'}
        OBVIOUS
      <3>1. PICK i : i = IdOf(t)
        OBVIOUS
      <3>2. Id(w)' = i
        BY <1>3, <2>3, <3>1
      <3>3. Receivers(Id(w))' = Receivers(i)' /\ Mailed(Id(w))' = Mailed(i)' /\ Owner[Id(w)]' = Owner[i]
        BY <3>2 DEF Receivers, Mailed
      <3>4. Receivers(IdOf(t))' = Receivers(i)' /\ Mailed(IdOf(t))' = Mailed(i)'
        BY <3>1 DEF Receivers, Mailed, IdOf
      <3> QED BY <3>1, <3>2, <3>3, <3>4
    <2> QED BY <1>1, <1>2, <1>6, <2>1, <2>2, <2>4, <2>5, HandlersKeep
  <1>8. Progress'
    <2>1. \A id \in Ids : Handed(id)' = Handed(id)
      BY <1>1 DEF Handed
    <2>2. \A x \in Tasks : queue'[x] = "none" => queue[x] \in {"none", "completed"}
      BY DEF WorkerFrame, QueueFrame, queueVars
    <2>3. \A x \in Tasks : queue'[x] = "completed" => queue[x] = "completed" \/ Served(IdOf(x))'
      <3>1. t \in Tasks /\ (queue'[t] = "completed" => queue[t] = "completed" \/ Served(IdOf(t))')
        BY DEF QueueFrame, queueVars
      <3> QED BY <3>1 DEF WorkerFrame
    <2>4. \A x \in Tasks : queue'[x] = "archived" =>
               \/ queue[x] = "archived" /\ retried'[x] = retried[x]
               \/ retried'[x] = MaxRetry
               \/ Served(IdOf(x))'
      <3>1. queue'[t] = "archived" =>
               \/ queue[t] = "archived" /\ retried'[t] = retried[t]
               \/ retried'[t] = MaxRetry
               \/ Served(IdOf(t))'
        BY DEF QueueFrame, queueVars
      <3> QED BY <3>1 DEF WorkerFrame
    <2> QED BY <1>1, <1>6, <2>1, <2>2, <2>3, <2>4, ProgressKeeps
  <1> QED BY <1>4, <1>5, <1>7, <1>8 DEF IInv

-----------------------------------------------------------------------------
(* The handler returns, or its process dies.                                *)

\* The claim of a handler that leaves or goes on: rolled back, its mail lost or never
\* sent, or committed all the same.
LEMMA DropKeepsAccounts ==
    ASSUME IInv, NEW w \in Workers, Running(w), DropClaim(w), UNCHANGED accounts,
           ~AwaitsCommit(w)', \A v \in Workers \ {w} : Same(v)
    PROVE  /\ Accounts'
           /\ notified \subseteq notified' /\ notified' \subseteq Pairs
           /\ lost' \in [Pairs -> Nat]
           /\ \A v \in Workers \ {w} : HoldsClaim(v) => Pair(v) \notin notified'
  <1>1. \A v \in Workers \ {w} : AwaitsCommit(v)' = AwaitsCommit(v) /\ Pair(v)' = Pair(v)
    BY SameHandler
  <1>2. ~AwaitsCommit(w)'
    OBVIOUS
  <1>3. mails' = mails
    BY DEF DropClaim
  <1>4. CASE ~AwaitsCommit(w)
    <2>1. UNCHANGED mailVars
      BY <1>4 DEF DropClaim, mailVars
    <2>2. Accounts'
      BY <1>1, <1>2, <1>4, <2>1, AccountsKeep
    <2> QED BY <2>1, <2>2 DEF mailVars, IInv, TypeOK, Claims
  <1>5. CASE AwaitsCommit(w)
    <2>1. PICK c : c = Pair(w)
      OBVIOUS
    <2>2. c \in Pairs \ notified /\ mails[c] = 1 + lost[c]
      BY <1>5, <2>1, HandlerFacts DEF HoldsClaim, AwaitsCommit, IInv, Accounts
    <2>3. \A v \in Workers \ {w} : HoldsClaim(v) => Pair(v) # c /\ Pair(v) \notin notified
      BY <1>5, <2>1 DEF HoldsClaim, AwaitsCommit, IInv, Claims
    <2>4. \A v \in Workers : AwaitsCommit(v)' => AwaitsCommit(v) /\ Pair(v)' = Pair(v) /\ Pair(v) # c
      BY <1>1, <1>2, <2>3 DEF HoldsClaim, AwaitsCommit
    <2>5. \A x \in Pairs \ {c} : \A v \in Workers : AwaitsCommit(v) /\ Pair(v) = x =>
              AwaitsCommit(v)' /\ Pair(v)' = x
      BY <1>1, <2>1
    <2>6. CASE lost' = [lost EXCEPT ![c] = @ + 1] /\ notified' = notified
      <3>1. /\ lost' \in [Pairs -> Nat] /\ lost'[c] = 1 + lost[c]
            /\ \A x \in Pairs \ {c} : lost'[x] = lost[x]
        BY <2>2, <2>6 DEF IInv, TypeOK
      <3>2. mails[c] = lost'[c] /\ lost'[c] \in Nat
        BY <2>2, <3>1 DEF IInv, TypeOK
      <3>3. Accounts'
        <4> SUFFICES ASSUME NEW x \in Pairs
                     PROVE  /\ mails'[x] <= 1 + lost'[x]
                            /\ x \in notified' => mails'[x] = 1 + lost'[x]
                            /\ \A v \in Workers : AwaitsCommit(v)' /\ Pair(v)' = x =>
                                   mails'[x] = 1 + lost'[x]
                            /\ x[2] \in accounts' /\ x \notin notified'
                               /\ (\A v \in Workers : AwaitsCommit(v)' => Pair(v)' # x) =>
                                   mails'[x] = lost'[x]
          BY DEF Accounts
        <4>1. CASE x = c
          BY <1>3, <2>2, <2>4, <2>6, <3>2, <4>1
        <4>2. CASE x # c
          BY <1>3, <2>4, <2>5, <2>6, <3>1, <4>2 DEF IInv, Accounts
        <4> QED BY <4>1, <4>2
      <3> QED BY <2>3, <2>6, <3>1, <3>3 DEF IInv, TypeOK
    <2>7. CASE notified' = notified \cup {c} /\ lost' = lost
      <3>1. Accounts'
        <4> SUFFICES ASSUME NEW x \in Pairs
                     PROVE  /\ mails'[x] <= 1 + lost'[x]
                            /\ x \in notified' => mails'[x] = 1 + lost'[x]
                            /\ \A v \in Workers : AwaitsCommit(v)' /\ Pair(v)' = x =>
                                   mails'[x] = 1 + lost'[x]
                            /\ x[2] \in accounts' /\ x \notin notified'
                               /\ (\A v \in Workers : AwaitsCommit(v)' => Pair(v)' # x) =>
                                   mails'[x] = lost'[x]
          BY DEF Accounts
        <4>1. CASE x = c
          BY <1>3, <2>2, <2>4, <2>7, <4>1 DEF IInv, Accounts
        <4>2. CASE x # c
          BY <1>3, <2>4, <2>5, <2>7, <4>2 DEF IInv, Accounts
        <4> QED BY <4>1, <4>2
      <3> QED BY <2>2, <2>3, <2>7, <3>1 DEF IInv, TypeOK
    <2> QED BY <1>5, <2>1, <2>6, <2>7 DEF DropClaim
  <1> QED BY <1>4, <1>5

LEMMA LeaveKeeps ==
    ASSUME IInv, NEW w \in Workers, NEW t \in Tasks, Running(w), task[w] = t,
           DropClaim(w), Leave(w), UNCHANGED <<relayVars, userVars>>,
           faults' \in 0..MaxFaults,
           \/ UNCHANGED queueVars
           \/ /\ OnTime(w)
              /\ queue' \in [Tasks -> {"none", "pending", "active", "retry", "completed", "archived"}]
              /\ retried' \in [Tasks -> 0..MaxRetry]
              /\ \A x \in Tasks \ {t} : queue'[x] = queue[x] /\ retried'[x] = retried[x]
              /\ \/ queue'[t] = "retry"
                 \/ queue'[t] = "archived" /\ (retried'[t] = MaxRetry \/ Served(IdOf(t))')
                 \/ queue'[t] = "completed" /\ Served(IdOf(t))'
    PROVE  IInv'
  <1>1. accounts' = accounts
    BY DEF userVars
  <1>2. pc'[w] = "Idle" /\ w \notin cut' /\ \A v \in Workers \ {w} : Same(v)
    BY DEF Leave, Same, IInv, TypeOK
  <1>3. /\ Accounts'
        /\ notified \subseteq notified' /\ notified' \subseteq Pairs
        /\ lost' \in [Pairs -> Nat] /\ mails' = mails
        /\ \A v \in Workers \ {w} : HoldsClaim(v) => Pair(v) \notin notified'
    BY <1>1, <1>2, DropKeepsAccounts DEF DropClaim, AwaitsCommit
  <1>4. TypeOK'
    <2>1. /\ queue' \in [Tasks -> {"none", "pending", "active", "retry", "completed", "archived"}]
          /\ retried' \in [Tasks -> 0..MaxRetry]
      BY DEF IInv, TypeOK, queueVars
    <2>2. /\ task' \in [Workers -> Tasks \cup {None}] /\ todo' \in [Workers -> SUBSET Users]
          /\ pc' \in [Workers -> {"Idle", "Lookup", "Claim", "Send", "Commit"}]
          /\ late' \subseteq Workers /\ cut' \subseteq Workers
      BY DEF IInv, TypeOK, Leave
    <2> QED BY <1>3, <2>1, <2>2 DEF IInv, TypeOK, relayVars, userVars
  <1>5. ~Running(w)' /\ ~HoldsClaim(w)' /\ ClaimInOrder(w)'
    BY <1>2 DEF Running, HoldsClaim, ClaimInOrder
  <1>6. WorkerFrame(w, t)
    BY <1>2, <1>3, <1>5 DEF WorkerFrame, queueVars
  <1>7. CASE UNCHANGED queueVars
    BY <1>2, <1>3, <1>4, <1>5, <1>6, <1>7, WorkerKeeps
  <1>8. CASE ~UNCHANGED queueVars
    <2>1. queue[t] = "active" /\ \A v \in Workers \ {w} : Running(v) /\ OnTime(v) => task[v] # t
      BY <1>8 DEF IInv, Handlers
    <2>2. QueueFrame(w, t)
      BY <1>5, <1>8, <2>1 DEF QueueFrame
    <2> QED BY <1>2, <1>3, <1>4, <1>5, <1>6, <2>2, WorkerKeeps
  <1> QED BY <1>7, <1>8

\* The first of one user.
LEMMA FirstOfOne ==
    ASSUME NEW u \in Users
    PROVE  First({u}) = u
  BY IdsOrdered DEF First, IsFirst

\* Mutually exclusive reasons for a handler to return or to die.
LEMMA LeaverKeeps ==
    ASSUME IInv, NEW w \in Workers,
           \/ SkipDeleted(w) \/ ClaimOfDeleted(w) \/ Finish(w) \/ HandlerFails(w)
           \/ Crash(w) \/ CommitRefused(w) \/ (Abandon(w) /\ Running(w))
           \/ (SendImpossible(w) /\ Id(w) \notin QuotaIds)
    PROVE  IInv'
  <1> USE DEF IInv
  <1>1. Running(w) /\ Leave(w) /\ DropClaim(w)
    BY DEF SkipDeleted, ClaimOfDeleted, Finish, HandlerFails, Crash, CommitRefused, Abandon,
           SendImpossible, Running, DropClaim, AwaitsCommit, mailVars
  <1>2. UNCHANGED <<relayVars, userVars>>
    BY DEF SkipDeleted, ClaimOfDeleted, Finish, HandlerFails, Crash, CommitRefused, Abandon,
           SendImpossible
  <1>3. faults' \in 0..MaxFaults
    BY BoundsPositive DEF SkipDeleted, ClaimOfDeleted, Finish, HandlerFails, Crash,
           CommitRefused, Abandon, SendImpossible, Fault, TypeOK
  <1>4. PICK t \in Tasks : t = task[w]
    BY <1>1, HandlerFacts
  <1>5. PICK i \in Ids : i = IdOf(t)
    BY TaskFacts
  <1>6. i = Id(w)
    BY <1>4, <1>5 DEF Id
  <1>7. \A id : Receivers(id)' = Receivers(id)
    BY <1>2 DEF Receivers, userVars
  <1>8. Receivers(i) \subseteq Mailed(i) /\ UNCHANGED notified => Served(IdOf(t))'
    BY <1>5, <1>7 DEF Served, Mailed
  <1>9. CASE Crash(w) \/ Abandon(w)
    BY <1>1, <1>2, <1>3, <1>4, <1>9, LeaveKeeps DEF Crash, Abandon
  <1>10. CASE ClaimOfDeleted(w) \/ HandlerFails(w) \/ CommitRefused(w)
    <2>1. OnTime(w) /\ TakeBack(t)
      BY <1>4, <1>10 DEF ClaimOfDeleted, HandlerFails, CommitRefused
    <2> QED BY <1>1, <1>2, <1>3, <1>4, <2>1, TakeBackFacts, LeaveKeeps
  <1>11. CASE Finish(w)
    <2>1. OnTime(w) /\ queue' = [queue EXCEPT ![t] = "completed"] /\ retried' = retried
      BY <1>4, <1>11 DEF Finish
    <2>2. Receivers(i) \subseteq Mailed(i) /\ UNCHANGED notified
      BY <1>6, <1>11 DEF Finish, mailVars, Handlers
    <2>3. /\ queue' \in [Tasks -> {"none", "pending", "active", "retry", "completed", "archived"}]
          /\ retried' \in [Tasks -> 0..MaxRetry] /\ queue'[t] = "completed"
          /\ \A x \in Tasks \ {t} : queue'[x] = queue[x] /\ retried'[x] = retried[x]
      BY <2>1 DEF TypeOK
    <2> QED BY <1>1, <1>2, <1>3, <1>4, <1>8, <2>1, <2>2, <2>3, LeaveKeeps
  <1>12. CASE SkipDeleted(w) \/ (SendImpossible(w) /\ Id(w) \notin QuotaIds)
    <2>1. /\ OnTime(w) /\ queue' = [queue EXCEPT ![t] = "archived"] /\ retried' = retried
          /\ UNCHANGED notified /\ i \notin QuotaIds
      BY <1>4, <1>6, <1>12 DEF SkipDeleted, SendImpossible, mailVars
    <2>2. Receivers(i) = {}
      <3>1. CASE SkipDeleted(w)
        BY <1>6, <2>1, <3>1 DEF SkipDeleted, Audience, Receivers
      <3>2. CASE SendImpossible(w)
        <4>1. todo[w] # {} /\ todo[w] \subseteq {Owner[i]} /\ Owner[i] \in Users
          BY <1>6, <2>1, <3>2, OwnersAreUsers DEF SendImpossible, Claims, Handlers
        <4>2. User(w) = Owner[i]
          <5>1. todo[w] = {Owner[i]}
            BY <4>1
          <5> QED BY <4>1, <5>1, FirstOfOne DEF User
        <4> QED BY <2>1, <3>2, <4>2 DEF SendImpossible, Receivers
      <3> QED BY <1>12, <3>1, <3>2
    <2>3. /\ queue' \in [Tasks -> {"none", "pending", "active", "retry", "completed", "archived"}]
          /\ retried' \in [Tasks -> 0..MaxRetry] /\ queue'[t] = "archived"
          /\ \A x \in Tasks \ {t} : queue'[x] = queue[x] /\ retried'[x] = retried[x]
      BY <2>1 DEF TypeOK
    <2> QED BY <1>1, <1>2, <1>3, <1>4, <1>8, <2>1, <2>2, <2>3, LeaveKeeps
  <1> QED BY <1>9, <1>10, <1>11, <1>12

\* Nothing is left of a handler that is late without running.
LEMMA IdleAbandonKeeps ==
    ASSUME IInv, NEW w \in Workers, Abandon(w), ~Running(w)
    PROVE  IInv'
  <1>1. Leave(w) /\ UNCHANGED <<relayVars, queueVars, userVars, mailVars, faults>>
    BY DEF Abandon, Running, DropClaim, AwaitsCommit, mailVars
  <1>2. UNCHANGED <<accounts, class, outbox, batch, enqueued, queue, retried, notified, mails, lost>>
    BY <1>1 DEF relayVars, queueVars, userVars, mailVars
  <1>3. TypeOK'
    BY <1>1 DEF IInv, TypeOK, Leave, relayVars, queueVars, userVars, mailVars
  <1>4. pc[w] = "Idle" /\ pc'[w] = "Idle" /\ w \notin cut' /\ \A v \in Workers \ {w} : Same(v)
    BY <1>1 DEF Running, Leave, Same, IInv, TypeOK
  <1>5. ~Running(w)' /\ ~HoldsClaim(w)' /\ ~AwaitsCommit(w)' /\ ~AwaitsCommit(w) /\ ClaimInOrder(w)'
    BY <1>4 DEF Running, HoldsClaim, AwaitsCommit, ClaimInOrder
  <1>6. \A id \in Ids : Known(id)' = Known(id) /\ Handed(id)' = Handed(id)
    BY <1>2 DEF Known, Handed
  <1>7. Claims'
    BY <1>2, <1>3, <1>4, <1>5, ClaimsKeep DEF IInv, Claims, TypeOK
  <1>8. Accounts'
    BY <1>1, <1>2, <1>4, <1>5, AccountsKeep, SameHandler
  <1>9. Sources'
    BY <1>2, <1>4, <1>5, <1>6, SourcesKeep DEF IInv, TypeOK
  <1>10. Handlers'
    BY <1>2, <1>4, <1>5, HandlersKeep DEF IInv, TypeOK, Handlers
  <1>11. Progress'
    BY <1>2, <1>6, ProgressKeeps DEF IInv, Progress
  <1> QED BY <1>3, <1>7, <1>8, <1>9, <1>10, <1>11 DEF IInv

-----------------------------------------------------------------------------
(* The handler starts, goes on, or loses its task.                          *)

LEMMA TakeKeeps ==
    ASSUME IInv, NEW w \in Workers, NEW t \in Tasks, Take(w, t)
    PROVE  IInv'
  <1> USE DEF IInv
  <1>1. /\ pc[w] = "Idle" /\ queue[t] \in {"pending", "retry"}
        /\ UNCHANGED <<retried, todo, late, cut, relayVars, userVars, mailVars, faults>>
    BY DEF Take
  <1>2. /\ pc'[w] = "Lookup" /\ task'[w] = t /\ queue'[t] = "active"
        /\ \A v \in Workers \ {w} : Same(v)
        /\ \A x \in Tasks \ {t} : queue'[x] = queue[x] /\ retried'[x] = retried[x]
    BY DEF Take, Same, TypeOK
  <1>3. TypeOK'
    BY DEF Take, TypeOK, relayVars, userVars, mailVars
  <1>4. /\ ~HoldsClaim(w)' /\ ~AwaitsCommit(w)' /\ ~AwaitsCommit(w)
        /\ pc'[w] \notin {"Claim", "Send", "Commit"}
        /\ ClaimInOrder(w)'
    BY <1>1, <1>2 DEF HoldsClaim, AwaitsCommit, ClaimInOrder, Claims
  <1>5. Accounts'
    BY <1>1, <1>2, <1>4, AccountsKeep, SameHandler DEF userVars
  <1>6. WorkerFrame(w, t)
    BY <1>1, <1>2 DEF WorkerFrame, Sources, Claims, mailVars
  <1>7. QueueFrame(w, t)
    BY <1>1, <1>2 DEF QueueFrame, Handlers
  <1> QED BY <1>3, <1>4, <1>5, <1>6, <1>7, WorkerKeeps

\* The task is taken back; the handler still runs, but is late.
LEMMA TimeoutKeeps ==
    ASSUME IInv, NEW w \in Workers, Timeout(w) \/ Shutdown(w)
    PROVE  IInv'
  <1> USE DEF IInv
  <1>1. /\ Running(w) /\ OnTime(w) /\ late' = late \cup {w}
        /\ UNCHANGED <<task, todo, pc, cut, relayVars, userVars, mailVars>>
    BY DEF Timeout, Shutdown, Running
  <1>2. PICK t \in Tasks : t = task[w]
    BY <1>1, HandlerFacts
  <1>3. /\ queue' \in [Tasks -> {"none", "pending", "active", "retry", "completed", "archived"}]
        /\ retried' \in [Tasks -> 0..MaxRetry]
        /\ \A x \in Tasks \ {t} : queue'[x] = queue[x] /\ retried'[x] = retried[x]
        /\ \/ queue'[t] \in {"pending", "retry"}
           \/ queue'[t] = "archived" /\ retried'[t] = MaxRetry
    <2>1. CASE Timeout(w)
      BY <1>2, <2>1, TakeBackFacts DEF Timeout
    <2>2. CASE Shutdown(w)
      BY <1>2, <2>2 DEF Shutdown, TypeOK
    <2> QED BY <2>1, <2>2
  <1>4. faults' \in 0..MaxFaults
    BY BoundsPositive DEF Timeout, Shutdown, Fault, TypeOK
  <1>5. TypeOK'
    BY <1>1, <1>3, <1>4 DEF TypeOK, relayVars, userVars, mailVars
  <1>6. /\ \A v \in Workers \ {w} : Same(v)
        /\ \A v \in Workers : /\ Pair(v)' = Pair(v) /\ User(v)' = User(v) /\ pc'[v] = pc[v]
                               /\ HoldsClaim(v)' = HoldsClaim(v)
                               /\ AwaitsCommit(v)' = AwaitsCommit(v)
    BY <1>1 DEF Same, Pair, Id, User, HoldsClaim, AwaitsCommit
  <1>7. Accounts'
    BY <1>1, <1>6, AccountsKeep DEF userVars
  <1>8. WorkerFrame(w, t)
    BY <1>1, <1>2, <1>3, <1>6 DEF WorkerFrame, Sources, Claims, mailVars, Running, Id
  <1>9. queue[t] = "active" /\ \A v \in Workers \ {w} : Running(v) /\ OnTime(v) => task[v] # t
    BY <1>1, <1>2 DEF Handlers
  <1>10. QueueFrame(w, t)
    BY <1>1, <1>3, <1>9 DEF QueueFrame, OnTime
  <1>11. /\ ClaimInOrder(w)'
         /\ HoldsClaim(w)' => \A v \in Workers \ {w} : HoldsClaim(v) => Pair(v) # Pair(w)'
    BY <1>1, <1>6 DEF Claims, ClaimInOrder, userVars, mailVars
  <1>12. pc'[w] \in {"Claim", "Send", "Commit"} =>
             /\ Receivers(IdOf(t))' \subseteq todo'[w] \cup Mailed(IdOf(t))'
             /\ IdOf(t) \notin QuotaIds => todo'[w] \subseteq {Owner[IdOf(t)]}
    <2>1. Receivers(IdOf(t))' = Receivers(IdOf(t)) /\ Mailed(IdOf(t))' = Mailed(IdOf(t))
      BY <1>1 DEF Receivers, Mailed, IdOf, userVars, mailVars
    <2>2. Id(w) = IdOf(t)
      BY <1>2 DEF Id
    <2> QED BY <1>1, <2>1, <2>2 DEF Handlers
  <1> QED BY <1>5, <1>7, <1>8, <1>10, <1>11, <1>12, WorkerKeeps

\* A handler that keeps its task.
LEMMA GoingOnKeeps ==
    ASSUME IInv, NEW w \in Workers, Running(w),
           UNCHANGED <<task, late, relayVars, queueVars, userVars>>, faults' \in 0..MaxFaults,
           cut' \subseteq Workers, w \in cut' => pc'[w] \in {"Send", "Commit"},
           pc' \in [Workers -> {"Idle", "Lookup", "Claim", "Send", "Commit"}],
           todo' \in [Workers -> SUBSET Users],
           notified' \subseteq Pairs, mails' \in [Pairs -> Nat], lost' \in [Pairs -> Nat],
           \A v \in Workers \ {w} :
               todo'[v] = todo[v] /\ pc'[v] = pc[v] /\ (v \in cut' <=> v \in cut),
           Accounts', notified \subseteq notified',
           \A v \in Workers \ {w} : HoldsClaim(v) => Pair(v) \notin notified',
           pc'[w] \in {"Send", "Commit"} =>
               todo'[w] = todo[w] /\ todo[w] # {} /\ User(w) \in Users,
           HoldsClaim(w)' =>
               /\ User(w) \in accounts /\ Pair(w) \notin notified'
               /\ \A v \in Workers \ {w} : HoldsClaim(v) => Pair(v) # Pair(w),
           /\ \A u \in Receivers(Id(w)) : u \in todo'[w] \/ <<Id(w), u>> \in notified'
           /\ Id(w) \notin QuotaIds => todo'[w] \subseteq {Owner[Id(w)]}
    PROVE  IInv'
  <1>1. PICK t \in Tasks : t = task[w]
    BY HandlerFacts
  <1>2. \A v \in Workers \ {w} : Same(v)
    BY DEF Same
  <1>3. TypeOK'
    BY DEF IInv, TypeOK, relayVars, queueVars, userVars
  <1>4. WorkerFrame(w, t)
    BY <1>1, <1>2 DEF WorkerFrame, queueVars, IInv, Sources, Id
  <1>5. UNCHANGED queueVars /\ (Running(w)' /\ OnTime(w)' => Running(w) /\ OnTime(w) /\ task[w] = t)
    BY <1>1 DEF OnTime
  <1>6. /\ ClaimInOrder(w)'
        /\ HoldsClaim(w)' => \A v \in Workers \ {w} : HoldsClaim(v) => Pair(v) # Pair(w)'
    <2>1. CASE pc'[w] \notin {"Send", "Commit"}
      BY <2>1 DEF ClaimInOrder, HoldsClaim
    <2>2. CASE pc'[w] \in {"Send", "Commit"}
      <3>1. todo'[w] = todo[w] /\ task'[w] = task[w]
        BY <2>2
      <3>2. User(w)' = User(w) /\ Id(w)' = Id(w)
        BY <3>1 DEF User, Id
      <3>3. Pair(w)' = Pair(w)
        BY <3>2 DEF Pair
      <3> QED BY <2>2, <3>1, <3>2, <3>3 DEF ClaimInOrder, userVars
    <2> QED BY <2>1, <2>2
  <1>7. pc'[w] \in {"Claim", "Send", "Commit"} =>
            /\ Receivers(IdOf(t))' \subseteq todo'[w] \cup Mailed(IdOf(t))'
            /\ IdOf(t) \notin QuotaIds => todo'[w] \subseteq {Owner[IdOf(t)]}
    <2>1. Id(w) = IdOf(t) /\ IdOf(t) \in Ids
      BY <1>1, TaskFacts DEF Id
    <2>2. PICK i \in Ids : i = IdOf(t)
      BY <2>1
    <2>3. Receivers(i)' = Receivers(i) /\ Receivers(i) \subseteq Users
      BY DEF Receivers, userVars, IInv, TypeOK
    <2>4. Receivers(i)' \subseteq todo'[w] \cup Mailed(i)'
      BY <2>1, <2>2, <2>3 DEF Mailed
    <2>5. Receivers(IdOf(t))' = Receivers(i)' /\ Mailed(IdOf(t))' = Mailed(i)'
      BY <2>2 DEF Receivers, Mailed, IdOf
    <2> QED BY <2>1, <2>2, <2>4, <2>5
  <1> QED BY <1>3, <1>4, <1>5, <1>6, <1>7, WorkerKeeps

LEMMA LookupKeeps ==
    ASSUME IInv, NEW w \in Workers, Lookup(w)
    PROVE  IInv'
  <1> USE DEF IInv
  <1>1. /\ pc[w] = "Lookup" /\ Running(w)
        /\ UNCHANGED <<task, late, cut, relayVars, queueVars, userVars, faults>>
        /\ UNCHANGED <<notified, mails, lost, accounts, mailVars>>
        /\ w \notin cut
    BY DEF Lookup, Running, mailVars, userVars, Claims
  <1>2. /\ \A u \in Receivers(Id(w)) : u \in Audience(Id(w))
        /\ Audience(Id(w)) \subseteq Users
        /\ Id(w) \notin QuotaIds => Audience(Id(w)) \subseteq {Owner[Id(w)]}
    BY DEF Receivers, Audience, Progress, TypeOK
  <1>3. /\ pc' \in [Workers -> {"Idle", "Lookup", "Claim", "Send", "Commit"}]
        /\ todo' \in [Workers -> SUBSET Users]
        /\ pc'[w] = "Claim" /\ todo'[w] = Audience(Id(w))
        /\ \A v \in Workers \ {w} : todo'[v] = todo[v] /\ pc'[v] = pc[v]
    BY <1>2 DEF Lookup, TypeOK
  <1>4. \A v \in Workers \ {w} : Same(v)
    BY <1>1, <1>3 DEF Same
  <1>5. Accounts'
    <2>1. ~AwaitsCommit(w)' /\ ~AwaitsCommit(w)
      BY <1>1, <1>3 DEF AwaitsCommit
    <2> QED BY <1>1, <1>4, <2>1, AccountsKeep, SameHandler
  <1>6. ~HoldsClaim(w)'
    BY <1>3 DEF HoldsClaim
  <1>7. /\ faults' \in 0..MaxFaults /\ cut' \subseteq Workers /\ notified \subseteq notified'
        /\ notified' \subseteq Pairs /\ mails' \in [Pairs -> Nat] /\ lost' \in [Pairs -> Nat]
        /\ \A v \in Workers \ {w} : v \in cut' <=> v \in cut
    BY <1>1 DEF TypeOK
  <1>8. \A v \in Workers : HoldsClaim(v) => Pair(v) \notin notified'
    BY <1>1 DEF Claims
  <1> QED BY <1>1, <1>2, <1>3, <1>5, <1>6, <1>7, <1>8, GoingOnKeeps

\* A handler that is done with the user of its round.
LEMMA AdvanceKeeps ==
    ASSUME IInv, NEW w \in Workers, Running(w), pc[w] # "Lookup", DropClaim(w), Advance(w),
           UNCHANGED <<relayVars, queueVars, userVars, faults>>,
           User(w) \in Receivers(Id(w)) => Pair(w) \in notified'
    PROVE  IInv'
  <1> USE DEF IInv
  <1>1. /\ pc' \in [Workers -> {"Idle", "Lookup", "Claim", "Send", "Commit"}]
        /\ todo' \in [Workers -> SUBSET Users]
        /\ pc'[w] = "Claim" /\ todo'[w] = todo[w] \ {User(w)}
        /\ \A v \in Workers \ {w} : todo'[v] = todo[v] /\ pc'[v] = pc[v]
        /\ cut' = cut \ {w}
        /\ UNCHANGED <<task, late>>
    BY DEF Advance, TypeOK
  <1>2. \A v \in Workers \ {w} : Same(v)
    BY <1>1 DEF Same
  <1>3. /\ Accounts'
        /\ notified \subseteq notified' /\ notified' \subseteq Pairs
        /\ lost' \in [Pairs -> Nat] /\ mails' \in [Pairs -> Nat]
        /\ \A v \in Workers \ {w} : HoldsClaim(v) => Pair(v) \notin notified'
    <2>1. accounts' = accounts
      BY DEF userVars
    <2> QED BY <1>1, <1>2, <2>1, DropKeepsAccounts DEF DropClaim, AwaitsCommit, TypeOK
  <1>4. pc[w] \in {"Claim", "Send", "Commit"}
    BY DEF Running, TypeOK
  <1>5. /\ \A u \in Receivers(Id(w)) : u \in todo'[w] \/ <<Id(w), u>> \in notified'
        /\ Id(w) \notin QuotaIds => todo'[w] \subseteq {Owner[Id(w)]}
    BY <1>1, <1>3, <1>4 DEF Handlers, Mailed, Pair
  <1>6. ~HoldsClaim(w)'
    BY <1>1 DEF HoldsClaim
  <1> QED BY <1>1, <1>3, <1>5, <1>6, GoingOnKeeps DEF TypeOK

LEMMA ClaimKeeps ==
    ASSUME IInv, NEW w \in Workers, Claim(w)
    PROVE  IInv'
  <1> USE DEF IInv
  <1>1. /\ pc[w] = "Claim" /\ Running(w) /\ todo[w] # {} /\ Claimants(Pair(w)) = {}
        /\ UNCHANGED <<relayVars, queueVars, userVars, mailVars, faults>>
    BY DEF Claim, Running
  <1>2. CASE Pair(w) \in notified /\ Advance(w)
    <2>1. DropClaim(w) /\ Pair(w) \in notified'
      BY <1>1, <1>2 DEF DropClaim, AwaitsCommit, mailVars
    <2> QED BY <1>1, <1>2, <2>1, AdvanceKeeps
  <1>3. CASE /\ Pair(w) \notin notified /\ User(w) \in accounts
             /\ pc' = [pc EXCEPT ![w] = "Send"] /\ UNCHANGED <<task, todo, late, cut>>
    <2>1. /\ pc' \in [Workers -> {"Idle", "Lookup", "Claim", "Send", "Commit"}]
          /\ pc'[w] = "Send" /\ \A v \in Workers \ {w} : pc'[v] = pc[v]
      BY <1>3 DEF TypeOK
    <2>2. UNCHANGED <<notified, mails, lost, accounts>>
      BY <1>1 DEF mailVars, userVars
    <2>3. \A v \in Workers : Pair(v)' = Pair(v) /\ AwaitsCommit(v)' = AwaitsCommit(v)
      BY <1>1, <1>3, <2>1 DEF Pair, Id, User, AwaitsCommit
    <2>4. Accounts'
      BY <1>1, <2>1, <2>2, <2>3, AccountsKeep
    <2>5. \A v \in Workers \ {w} : HoldsClaim(v) => Pair(v) # Pair(w) /\ Pair(v) \notin notified
      BY <1>1 DEF Claimants, HoldsClaim, Claims
    <2>6. /\ \A u \in Receivers(Id(w)) : u \in todo[w] \/ <<Id(w), u>> \in notified
          /\ Id(w) \notin QuotaIds => todo[w] \subseteq {Owner[Id(w)]}
      BY <1>1 DEF Handlers, Mailed
    <2> QED BY <1>1, <1>3, <2>1, <2>2, <2>4, <2>5, <2>6, GoingOnKeeps DEF TypeOK
  <1> QED BY <1>1, <1>2, <1>3 DEF Claim

LEMMA SendKeeps ==
    ASSUME IInv, NEW w \in Workers, Send(w)
    PROVE  IInv'
  <1> USE DEF IInv
  <1>1. /\ pc[w] = "Send" /\ Running(w) /\ todo[w] # {} /\ User(w) \in Users
        /\ UNCHANGED <<task, todo, late, cut, notified, relayVars, queueVars, userVars, faults>>
    BY DEF Send, Running, Claims
  <1>2. PICK c : c = Pair(w)
    OBVIOUS
  <1>3. c \in Pairs /\ (HoldsClaim(w) => c \notin notified /\ c[2] \in accounts)
    BY <1>1, <1>2, HandlerFacts DEF Pair
  <1>4. HoldsClaim(w) =>
            \A v \in Workers \ {w} : HoldsClaim(v) => Pair(v) # c /\ Pair(v) \notin notified
    BY <1>1, <1>2 DEF Claims
  <1>5. /\ mails' \in [Pairs -> Nat] /\ mails'[c] = mails[c] + 1
        /\ \A x \in Pairs \ {c} : mails'[x] = mails[x]
    BY <1>2, <1>3 DEF Send, TypeOK
  <1>6. /\ lost' \in [Pairs -> Nat]
        /\ lost'[c] = IF w \in cut THEN lost[c] + 1 ELSE lost[c]
        /\ \A x \in Pairs \ {c} : lost'[x] = lost[x]
    BY <1>2, <1>3 DEF Send, TypeOK
  <1>7. /\ pc' \in [Workers -> {"Idle", "Lookup", "Claim", "Send", "Commit"}]
        /\ pc'[w] = "Commit" /\ \A v \in Workers \ {w} : pc'[v] = pc[v]
    BY DEF Send, TypeOK
  <1>8. \A v \in Workers : Pair(v)' = Pair(v)
    BY <1>1 DEF Pair, Id, User
  <1>9. /\ \A v \in Workers \ {w} : AwaitsCommit(v)' = AwaitsCommit(v)
        /\ AwaitsCommit(w)' = HoldsClaim(w) /\ ~AwaitsCommit(w)
    BY <1>1, <1>7 DEF AwaitsCommit, HoldsClaim
  <1>10. HoldsClaim(w) => mails[c] = lost[c]
    <2> SUFFICES ASSUME HoldsClaim(w) PROVE mails[c] = lost[c]
      OBVIOUS
    <2>1. \A v \in Workers : AwaitsCommit(v) => Pair(v) # c
      BY <1>4, <1>9 DEF HoldsClaim, AwaitsCommit
    <2> QED BY <1>3, <2>1 DEF Accounts
  <1>11. /\ mails[c] \in Nat /\ lost[c] \in Nat
         /\ UNCHANGED <<notified, accounts>> /\ (HoldsClaim(w) <=> w \notin cut)
    BY <1>1, <1>3 DEF TypeOK, HoldsClaim, userVars
  <1>12. Accounts'
    <2> SUFFICES ASSUME NEW x \in Pairs
                 PROVE  /\ mails'[x] <= 1 + lost'[x]
                        /\ x \in notified' => mails'[x] = 1 + lost'[x]
                        /\ \A v \in Workers : AwaitsCommit(v)' /\ Pair(v)' = x =>
                               mails'[x] = 1 + lost'[x]
                        /\ x[2] \in accounts' /\ x \notin notified'
                           /\ (\A v \in Workers : AwaitsCommit(v)' => Pair(v)' # x) =>
                               mails'[x] = lost'[x]
      BY DEF Accounts
    <2>1. CASE x = c /\ HoldsClaim(w)
      <3>1. mails'[x] = 1 + lost'[x] /\ AwaitsCommit(w)' /\ Pair(w)' = x /\ mails'[x] <= 1 + lost'[x]
        BY <1>2, <1>5, <1>6, <1>8, <1>9, <1>10, <1>11, <2>1
      <3> QED BY <1>3, <1>11, <2>1, <3>1
    <2>2. CASE x # c \/ ~HoldsClaim(w)
      <3>1. \A v \in Workers : AwaitsCommit(v)' /\ Pair(v)' = x <=> AwaitsCommit(v) /\ Pair(v) = x
        BY <1>2, <1>8, <1>9, <2>2
      <3>2. \/ mails'[x] = mails[x] /\ lost'[x] = lost[x]
            \/ mails'[x] = mails[x] + 1 /\ lost'[x] = lost[x] + 1
        BY <1>5, <1>6, <1>11, <2>2
      <3>3. mails[x] \in Nat /\ lost[x] \in Nat
        BY DEF TypeOK
      <3>4. /\ mails[x] <= 1 + lost[x] => mails'[x] <= 1 + lost'[x]
            /\ mails[x] = 1 + lost[x] => mails'[x] = 1 + lost'[x]
            /\ mails[x] = lost[x] => mails'[x] = lost'[x]
        BY <3>2, <3>3
      <3> QED BY <1>11, <3>1, <3>4 DEF Accounts
    <2> QED BY <2>1, <2>2
  <1>13. /\ \A u \in Receivers(Id(w)) : u \in todo[w] \/ <<Id(w), u>> \in notified
         /\ Id(w) \notin QuotaIds => todo[w] \subseteq {Owner[Id(w)]}
    BY <1>1 DEF Handlers, Mailed
  <1>14. HoldsClaim(w)' = HoldsClaim(w)
    BY <1>1, <1>7 DEF HoldsClaim
  <1>15. \A v \in Workers \ {w} : HoldsClaim(v) => Pair(v) \notin notified'
    BY <1>11 DEF Claims
  <1>16. HoldsClaim(w)' =>
            /\ User(w) \in accounts /\ Pair(w) \notin notified'
            /\ \A v \in Workers \ {w} : HoldsClaim(v) => Pair(v) # Pair(w)
    BY <1>11, <1>14 DEF Claims
  <1> QED BY <1>1, <1>5, <1>6, <1>7, <1>12, <1>13, <1>15, <1>16, GoingOnKeeps DEF TypeOK

\* The claim goes, and the mail with it if it is out already; the handler stays.
LEMMA LoseSessionKeeps ==
    ASSUME IInv, NEW w \in Workers, LoseSession(w)
    PROVE  IInv'
  <1> USE DEF IInv
  <1>1. /\ HoldsClaim(w) /\ pc[w] \in {"Send", "Commit"} /\ Running(w)
        /\ todo[w] # {} /\ User(w) \in Users /\ cut' = cut \cup {w}
        /\ UNCHANGED <<task, todo, pc, late, notified, mails, relayVars, queueVars, userVars>>
    BY DEF LoseSession, HoldsClaim, Running, Claims
  <1>2. \A v \in Workers \ {w} : Same(v)
    BY <1>1 DEF Same
  <1>3. ~AwaitsCommit(w)' /\ ~HoldsClaim(w)'
    BY <1>1 DEF AwaitsCommit, HoldsClaim
  <1>4. DropClaim(w)
    BY DEF LoseSession, DropClaim
  <1>5. accounts' = accounts
    BY <1>1 DEF userVars
  <1>6. /\ Accounts'
        /\ notified \subseteq notified' /\ notified' \subseteq Pairs
        /\ lost' \in [Pairs -> Nat]
        /\ \A v \in Workers \ {w} : HoldsClaim(v) => Pair(v) \notin notified'
    BY <1>1, <1>2, <1>3, <1>4, <1>5, DropKeepsAccounts
  <1>7. faults' \in 0..MaxFaults
    BY BoundsPositive DEF LoseSession, Fault, TypeOK
  <1>8. /\ \A u \in Receivers(Id(w)) : u \in todo[w] \/ <<Id(w), u>> \in notified
        /\ Id(w) \notin QuotaIds => todo[w] \subseteq {Owner[Id(w)]}
    BY <1>1 DEF Handlers, Mailed
  <1> QED BY <1>1, <1>3, <1>6, <1>7, <1>8, GoingOnKeeps DEF TypeOK

\* Every step of a handler on its way.
LEMMA WorkerStepKeeps ==
    ASSUME IInv, NEW w \in Workers, WorkerStep(w)
    PROVE  IInv'
  <1>1. CASE SkipDeleted(w) \/ ClaimOfDeleted(w) \/ CommitRefused(w) \/ Finish(w)
    BY <1>1, LeaverKeeps
  <1>2. CASE Abandon(w)
    BY <1>2, LeaverKeeps, IdleAbandonKeeps
  <1>3. CASE Lookup(w) \/ Claim(w) \/ Send(w)
    BY <1>3, LookupKeeps, ClaimKeeps, SendKeeps
  <1>4. CASE SendImpossible(w)
    <2>1. CASE Id(w) \notin QuotaIds
      BY <1>4, <2>1, LeaverKeeps
    <2>2. CASE Id(w) \in QuotaIds
      <3>1. /\ pc[w] = "Send" /\ Running(w) /\ Advance(w) /\ DropClaim(w)
            /\ UNCHANGED <<relayVars, queueVars, userVars, faults>>
        BY <1>4, <2>2 DEF SendImpossible, Running, DropClaim, AwaitsCommit, mailVars, queueVars
      <3>2. User(w) \notin Receivers(Id(w))
        BY <1>4 DEF SendImpossible, Receivers
      <3> QED BY <3>1, <3>2, AdvanceKeeps
    <2> QED BY <2>1, <2>2
  <1>5. CASE CommitClaim(w)
    <2>1. /\ pc[w] = "Commit" /\ Running(w) /\ Advance(w) /\ DropClaim(w)
          /\ UNCHANGED <<relayVars, queueVars, userVars, faults>> /\ Pair(w) \in notified'
      BY <1>5 DEF CommitClaim, Running, AwaitsCommit, DropClaim
    <2> QED BY <2>1, AdvanceKeeps
  <1> QED BY <1>1, <1>2, <1>3, <1>4, <1>5 DEF WorkerStep

\* An account and its rows disappear while nobody claims one of them.
LEMMA DeleteUserKeeps ==
    ASSUME IInv, NEW u \in Users, DeleteUser(u)
    PROVE  IInv'
  <1> USE DEF IInv
  <1>1. /\ accounts' = accounts \ {u} /\ class' = class \ {u}
        /\ notified' = {p \in notified : p[2] # u}
        /\ \A id \in Ids : Claimants(<<id, u>>) = {}
        /\ UNCHANGED <<mails, lost, outbox, batch, enqueued, rowLock, relayPc, queue, retried,
                       task, todo, pc, late, cut, faults>>
    BY DEF DeleteUser, relayVars, queueVars, workerVars
  <1>2. PICK w : w \notin Workers
    BY NoSetContainsEverything
  <1>3. \A v \in Workers : Same(v) /\ Pair(v)' = Pair(v) /\ AwaitsCommit(v)' = AwaitsCommit(v)
    BY <1>1, SameHandler DEF Same
  <1>4. TypeOK'
    BY <1>1 DEF TypeOK
  <1>5. \A id \in Ids : \A x \in accounts' : <<id, x>> \in notified => <<id, x>> \in notified'
    BY <1>1
  <1>6. Claims'
    <2>1. \A v \in Workers : HoldsClaim(v) => User(v) \in accounts' /\ Pair(v) \notin notified'
      <3> SUFFICES ASSUME NEW v \in Workers, HoldsClaim(v)
                   PROVE  User(v) \in accounts' /\ Pair(v) \notin notified'
        OBVIOUS
      <3>1. Running(v)
        BY DEF HoldsClaim, Running
      <3>2. Id(v) \in Ids /\ User(v) \in accounts /\ Pair(v) \notin notified
        BY <3>1, HandlerFacts
      <3>3. User(v) # u
        BY <1>1, <3>2 DEF Claimants, HoldsClaim, Pair
      <3> QED BY <1>1, <3>2, <3>3
    <2> QED BY <1>2, <1>3, <1>4, <2>1, ClaimsKeep DEF TypeOK
  <1>7. Accounts'
    BY <1>1, <1>3 DEF Accounts, Pairs
  <1>8. \A id \in Ids : Known(id)' = Known(id) /\ Handed(id)' = Handed(id)
    BY <1>1 DEF Known, Handed
  <1>9. Sources'
    BY <1>1, <1>2, <1>3, <1>8, SourcesKeep DEF TypeOK
  <1>10. Handlers'
    BY <1>1, <1>2, <1>3, <1>4, <1>5, HandlersKeep DEF TypeOK, Handlers
  <1>11. Progress'
    BY <1>1, <1>5, <1>8, ProgressKeeps DEF Progress
  <1> QED BY <1>4, <1>6, <1>7, <1>9, <1>10, <1>11

LEMMA InitIInv == Init => IInv
  <1> SUFFICES ASSUME Init PROVE IInv
    OBVIOUS
  <1> USE DEF Init
  <1>1. TypeOK
    BY BoundsPositive, NoneIsFresh DEF TypeOK
  <1>2. \A w \in Workers : ~Running(w) /\ ~HoldsClaim(w) /\ ~AwaitsCommit(w)
    BY DEF Running, HoldsClaim, AwaitsCommit
  <1>3. Claims /\ Sources /\ Handlers
    BY <1>2, TaskFacts DEF Claims, Sources, Handlers
  <1>4. Accounts
    BY <1>2 DEF Accounts
  <1>5. Progress
    BY TaskFacts DEF Progress, Handed
  <1> QED BY <1>1, <1>3, <1>4, <1>5 DEF IInv

-----------------------------------------------------------------------------
(* The theorems.                                                            *)

\* No step of KRS, a relay, the queue, a handler or an administrator breaks the
\* invariant.
THEOREM Inductive == IInv /\ [Next]_vars => IInv'
  <1> SUFFICES ASSUME IInv, [Next]_vars PROVE IInv'
    OBVIOUS
  <1>1. CASE \E id \in Ids : Record(id)
    BY <1>1, RecordKeeps
  <1>2. CASE \E u \in Users : Move(u) \/ DeleteUser(u)
    BY <1>2, MoveKeeps, DeleteUserKeeps
  <1>3. CASE \/ \E r \in Relays : RelayStep(r) \/ RelayRollback(r) \/ LoseRound(r)
             \/ \E r \in Relays, id \in Ids : PublishFails(r, id)
    BY <1>3, RelayStepKeeps
  <1>4. CASE \E t \in Tasks : Recover(t) \/ Expire(t) \/ Redeliver(t)
    BY <1>4, QueueStepKeeps
  <1>5. CASE \E w \in Workers, t \in Tasks : Take(w, t)
    BY <1>5, TakeKeeps
  <1>6. CASE \E w \in Workers : WorkerStep(w)
    BY <1>6, WorkerStepKeeps
  <1>7. CASE \E w \in Workers : HandlerFails(w) \/ Crash(w)
    BY <1>7, LeaverKeeps
  <1>8. CASE \E w \in Workers : Timeout(w) \/ Shutdown(w) \/ LoseSession(w)
    BY <1>8, TimeoutKeeps, LoseSessionKeeps
  <1>9. CASE Rest \/ UNCHANGED vars
    <2>1. UNCHANGED vars
      BY <1>9 DEF Rest
    <2> QED BY <2>1 DEF vars, relayVars, queueVars, workerVars, userVars, mailVars, IInv,
               TypeOK, Claims, HoldsClaim, AwaitsCommit, User, Pair, Id, Accounts, Sources, Known, Running,
               Handlers, OnTime, Receivers, Mailed, Progress, Handed, Served
  <1> QED BY <1>1, <1>2, <1>3, <1>4, <1>5, <1>6, <1>7, <1>8, <1>9 DEF Next

\* In every reachable state open claims are exclusive, every mail is accounted
\* for and every event has a place.
THEOREM InvariantHolds == Spec => []IInv
  BY InitIInv, Inductive, PTL DEF Spec

\* However often a task is delivered, and whichever sessions the database ends,
\* at most one mail about an event has a claim that is committed or still open.
THEOREM OneMailUnlessLost == Spec => []ExtraMailsWereLost
  <1>1. IInv => ExtraMailsWereLost
    BY DEF IInv, Accounts, ExtraMailsWereLost
  <1> QED BY <1>1, InvariantHolds, PTL

\* A published event is in the queue, archived after its last retry, or everyone
\* it is about has been notified.
THEOREM NothingLost == Spec => []NoEventLost
  <1>1. IInv => NoEventLost
    <2> SUFFICES ASSUME IInv PROVE NoEventLost
      OBVIOUS
    <2>1. ASSUME NEW id \in Ids, outbox[id] = "published"
          PROVE  Served(id) \/ queue[id] \in {"pending", "retry", "active", "archived"}
      <3>1. Served(id) \/ queue[id] # "none"
        BY <2>1 DEF IInv, Progress, Handed
      <3>2. queue[id] = "completed" => Served(id)
        BY TaskFacts DEF IInv, Progress
      <3> QED BY <3>1, <3>2, TaskFacts DEF IInv, TypeOK
    <2> QED BY <2>1 DEF IInv, Progress, NoEventLost
  <1> QED BY <1>1, InvariantHolds, PTL

-----------------------------------------------------------------------------
(* Refinement: the handlers that were cut off in Send are the stray senders *)
(* of Notices.                                                              *)

Astray(w) == w \in cut /\ pc[w] = "Send"

\* w is the handler that acts, if any.
LEMMA StrayStays ==
    ASSUME IInv, IInv', NEW w, \A v \in Workers \ {w} : Same(v),
           w \in Workers => (Astray(w)' <=> Astray(w)),
           w \in Workers /\ Astray(w) => Pair(w)' = Pair(w)
    PROVE  Stray' = Stray
  <1>1. \A v \in Workers \ {w} : (Astray(v)' <=> Astray(v)) /\ Pair(v)' = Pair(v)
    BY SameHandler DEF Same, Astray
  <1>2. \A v \in Workers : Astray(v)' <=> Astray(v)
    BY <1>1
  <1>3. \A v \in Workers : Astray(v) => Pair(v)' = Pair(v)
    BY <1>1
  <1>4. {v \in cut : pc[v] = "Send"}' = {v \in cut : pc[v] = "Send"}
    BY <1>2 DEF Astray, IInv, TypeOK
  <1>5. \A v \in {v \in cut : pc[v] = "Send"} : <<v, Pair(v)>>' = <<v, Pair(v)>>
    BY <1>3 DEF Astray, IInv, TypeOK
  <1> QED BY <1>4, <1>5 DEF Stray

LEMMA StrayLeaves ==
    ASSUME IInv, IInv', NEW w \in Workers, \A v \in Workers \ {w} : Same(v),
           Astray(w), ~Astray(w)'
    PROVE  Stray' = Stray \ {<<w, Pair(w)>>}
  <1>1. \A v \in Workers \ {w} : Astray(v)' = Astray(v) /\ Pair(v)' = Pair(v)
    BY SameHandler DEF Same, Astray
  <1>2. Stray = {<<v, Pair(v)>> : v \in {x \in Workers : Astray(x)}}
    BY DEF Stray, Astray, IInv, TypeOK
  <1>3. Stray' = {<<v, Pair(v)'>> : v \in {x \in Workers : Astray(x)'}}
    BY DEF Stray, Astray, IInv, TypeOK
  <1>4. {x \in Workers : Astray(x)'} = {x \in Workers : Astray(x)} \ {w}
    BY <1>1
  <1> QED BY <1>1, <1>2, <1>3, <1>4

\* A handler that leaves or goes on: its claim is recorded after its mail, or
\* not at all; and if it was cut off in Send, it gives its mail up.
LEMMA DropImplements ==
    ASSUME IInv, IInv', NEW w \in Workers, Running(w), DropClaim(w),
           UNCHANGED <<outbox, accounts>>, \A v \in Workers \ {w} : Same(v), ~Astray(w)'
    PROVE  [Promise!Next]_(Promise!vars)
  <1>1. CASE notified' = notified
    <2>1. UNCHANGED <<outbox, accounts, mails, notified>>
      BY <1>1 DEF DropClaim
    <2>2. CASE ~Astray(w)
      <3>1. Stray' = Stray
        BY <2>2, StrayStays
      <3> QED BY <2>1, <3>1 DEF Promise!vars
    <2>3. CASE Astray(w)
      <3>1. Stray' = Stray \ {<<w, Pair(w)>>} /\ Pair(w) \in Promise!Pairs
        BY <2>3, StrayLeaves, HandlerFacts DEF Astray, Pairs, Promise!Pairs
      <3>2. Promise!GiveUp(w, Pair(w))
        BY <2>1, <3>1 DEF Promise!GiveUp
      <3> QED BY <3>1, <3>2 DEF Promise!Next
    <2> QED BY <2>2, <2>3
  <1>2. CASE AwaitsCommit(w) /\ notified' = notified \cup {Pair(w)}
    <2>1. PICK c : c = Pair(w)
      OBVIOUS
    <2>2. c \in Pairs \ notified /\ c[2] \in accounts /\ mails[c] = 1 + lost[c]
      BY <1>2, <2>1, HandlerFacts DEF HoldsClaim, AwaitsCommit, Pair, IInv, Accounts
    <2>3. c \in Promise!Pairs /\ mails[c] > 0
      BY <2>2 DEF Promise!Pairs, Pairs, IInv, TypeOK
    <2>4. Stray' = Stray
      BY <1>2, StrayStays DEF AwaitsCommit, Astray
    <2>5. Promise!Record(c)
      BY <1>2, <2>1, <2>2, <2>3, <2>4 DEF Promise!Record, DropClaim
    <2> QED BY <2>3, <2>5 DEF Promise!Next
  <1> QED BY <1>1, <1>2 DEF DropClaim

\* Mailer.Send, with a claim and without it.
LEMMA SendImplements ==
    ASSUME IInv, IInv', NEW w \in Workers, Send(w)
    PROVE  Promise!Next
  <1>1. /\ pc[w] = "Send" /\ pc'[w] = "Commit" /\ Running(w)
        /\ \A v \in Workers \ {w} : Same(v)
        /\ UNCHANGED <<outbox, accounts, notified, cut>>
    BY DEF Send, Running, Same, IInv, TypeOK, relayVars, userVars
  <1>2. PICK c : c = Pair(w)
    OBVIOUS
  <1>3. /\ c \in Pairs /\ c \in Promise!Pairs /\ c[1] = Id(w) /\ c[2] = User(w)
        /\ Id(w) \in Ids /\ outbox[Id(w)] # "none"
    BY <1>1, <1>2, HandlerFacts DEF Pair, Pairs, Promise!Pairs, IInv, Sources, Known
  <1>4. mails' = [mails EXCEPT ![c] = @ + 1]
    BY <1>2 DEF Send
  <1>5. CASE w \notin cut
    <2>1. c \notin notified /\ c[2] \in accounts
      BY <1>1, <1>2, <1>3, <1>5, HandlerFacts DEF HoldsClaim
    <2>2. Stray' = Stray
      BY <1>1, <1>5, StrayStays DEF Astray
    <2>3. Promise!Mail(c)
      BY <1>1, <1>3, <1>4, <2>1, <2>2 DEF Promise!Mail, Promise!Due
    <2> QED BY <1>3, <2>3 DEF Promise!Next
  <1>6. CASE w \in cut
    <2>1. Stray' = Stray \ {<<w, c>>}
      BY <1>1, <1>2, <1>6, StrayLeaves DEF Astray
    <2>2. <<w, c>> \in Stray
      BY <1>1, <1>2, <1>6 DEF Stray
    <2>3. Promise!MailAstray(w, c)
      BY <1>1, <1>4, <2>1, <2>2 DEF Promise!MailAstray
    <2> QED BY <1>3, <2>3 DEF Promise!Next
  <1> QED BY <1>5, <1>6

\* A session lost in Send: the pair is not recorded then.
LEMMA LoseSessionImplements ==
    ASSUME IInv, IInv', NEW w \in Workers, LoseSession(w)
    PROVE  [Promise!Next]_(Promise!vars)
  <1>1. /\ HoldsClaim(w) /\ Running(w) /\ cut' = cut \cup {w}
        /\ UNCHANGED <<task, todo, pc, late, outbox, accounts, notified, mails>>
    BY DEF LoseSession, HoldsClaim, Running, relayVars, userVars
  <1>2. \A v \in Workers \ {w} : Same(v)
    BY <1>1 DEF Same
  <1>3. CASE pc[w] = "Commit"
    <2>1. Stray' = Stray
      BY <1>1, <1>2, <1>3, StrayStays DEF Astray
    <2> QED BY <1>1, <2>1 DEF Promise!vars
  <1>4. CASE pc[w] = "Send"
    <2>1. PICK c : c = Pair(w)
      OBVIOUS
    <2>2. /\ c \in Pairs \ notified /\ c \in Promise!Pairs /\ c[1] = Id(w) /\ c[2] \in accounts
          /\ Id(w) \in Ids /\ outbox[Id(w)] # "none"
      BY <1>1, <2>1, HandlerFacts DEF Pair, Pairs, Promise!Pairs, IInv, Sources, Known
    <2>3. \A v \in Workers : Pair(v)' = Pair(v)
      BY <1>1 DEF Pair, Id, User
    <2>4. Stray' = {<<v, Pair(v)>> : v \in {x \in cut \cup {w} : pc[x] = "Send"}}
      BY <1>1, <2>3 DEF Stray, IInv, TypeOK
    <2>5. Stray' = Stray \cup {<<w, c>>}
      BY <1>4, <2>1, <2>4 DEF Stray
    <2>6. \A q : <<w, q>> \notin Stray
      BY <1>1 DEF Stray, HoldsClaim
    <2>7. Promise!CutOff(w, c)
      BY <1>1, <2>2, <2>5, <2>6 DEF Promise!CutOff, Promise!Due
    <2> QED BY <2>2, <2>7 DEF Promise!Next
  <1> QED BY <1>1, <1>3, <1>4 DEF HoldsClaim

LEMMA StepImplements ==
    ASSUME IInv, [Next]_vars
    PROVE  [Promise!Next]_(Promise!vars)
  <1> DEFINE Seen == <<outbox, accounts, mails, notified>>
  <1>1. IInv'
    BY Inductive
  <1>2. ASSUME UNCHANGED Seen, Stray' = Stray
        PROVE  [Promise!Next]_(Promise!vars)
    BY <1>2 DEF Promise!vars
  <1>3. UNCHANGED workerVars => Stray' = Stray
    BY DEF workerVars, Stray, Pair, Id, User
  <1>4. ASSUME NEW id \in Ids, Record(id)
        PROVE  [Promise!Next]_(Promise!vars)
    <2>1. outbox[id] = "none" /\ {i \in Ids : outbox'[i] # "none"} = {i \in Ids : outbox[i] # "none"} \cup {id}
      BY <1>4 DEF Record, IInv, TypeOK
    <2>2. UNCHANGED <<accounts, mails, notified>> /\ Stray' = Stray
      BY <1>3, <1>4 DEF Record, userVars, mailVars
    <2>3. Promise!Announce(id)
      BY <2>1, <2>2 DEF Promise!Announce
    <2> QED BY <2>3 DEF Promise!Next
  <1>5. ASSUME NEW u \in Users, DeleteUser(u)
        PROVE  [Promise!Next]_(Promise!vars)
    <2>1. Stray' = Stray
      BY <1>3, <1>5 DEF DeleteUser
    <2>2. Promise!Forget(u)
      BY <1>5, <2>1 DEF DeleteUser, Promise!Forget, relayVars
    <2> QED BY <2>2 DEF Promise!Next
  <1>6. ASSUME NEW w \in Workers, Send(w) \/ LoseSession(w)
        PROVE  [Promise!Next]_(Promise!vars)
    BY <1>1, <1>6, SendImplements, LoseSessionImplements
  <1>7. ASSUME NEW w \in Workers,
               \/ SkipDeleted(w) \/ (Claim(w) /\ Advance(w)) \/ ClaimOfDeleted(w)
               \/ SendImpossible(w) \/ CommitClaim(w) \/ CommitRefused(w) \/ Finish(w)
               \/ HandlerFails(w) \/ Crash(w) \/ (Abandon(w) /\ Running(w))
        PROVE  [Promise!Next]_(Promise!vars)
    <2>1. Running(w) /\ DropClaim(w)
      BY <1>7 DEF SkipDeleted, Claim, ClaimOfDeleted, SendImpossible, CommitClaim, CommitRefused,
                  Finish, HandlerFails, Crash, Abandon, Running, DropClaim, AwaitsCommit, mailVars
    <2>2. UNCHANGED <<outbox, accounts>>
      BY <1>7 DEF SkipDeleted, Claim, ClaimOfDeleted, SendImpossible, CommitClaim, CommitRefused,
                  Finish, HandlerFails, Crash, Abandon, relayVars, userVars
    <2>3. Leave(w) \/ Advance(w)
      BY <1>7 DEF SkipDeleted, ClaimOfDeleted, SendImpossible, CommitClaim, CommitRefused,
                  Finish, HandlerFails, Crash, Abandon
    <2>4. (\A v \in Workers \ {w} : Same(v)) /\ ~Astray(w)'
      BY <2>3 DEF Leave, Advance, Same, Astray, IInv, TypeOK
    <2> QED BY <1>1, <2>1, <2>2, <2>4, DropImplements
  <1>8. ASSUME NEW w \in Workers,
               \/ Lookup(w) \/ (Claim(w) /\ ~Advance(w)) \/ Timeout(w) \/ Shutdown(w)
               \/ (Abandon(w) /\ ~Running(w))
               \/ \E t \in Tasks : Take(w, t)
        PROVE  UNCHANGED Seen /\ Stray' = Stray
    <2>1. UNCHANGED Seen
      BY <1>8 DEF Lookup, Claim, Timeout, Shutdown, Abandon, Running, DropClaim, AwaitsCommit,
                  Take, relayVars, userVars, mailVars
    <2>2. \A v \in Workers \ {w} : Same(v)
      BY <1>8 DEF Lookup, Claim, Timeout, Shutdown, Abandon, Leave, Take, Same, IInv, TypeOK
    <2>3. CASE Timeout(w) \/ Shutdown(w)
      <3>1. UNCHANGED <<task, todo, pc, cut>>
        BY <2>3 DEF Timeout, Shutdown
      <3>2. (Astray(w)' <=> Astray(w)) /\ Pair(w)' = Pair(w)
        BY <3>1 DEF Astray, Pair, Id, User
      <3> QED BY <1>1, <2>1, <2>2, <3>2, StrayStays
    <2>4. CASE Lookup(w) \/ (Claim(w) /\ ~Advance(w)) \/ (Abandon(w) /\ ~Running(w))
               \/ \E t \in Tasks : Take(w, t)
      <3>1. ~Astray(w)
        BY <2>4 DEF Lookup, Claim, Running, Take, Astray
      <3>2. ~Astray(w)'
        <4>1. CASE Claim(w) /\ ~Advance(w)
          BY <4>1 DEF Claim, Astray, IInv, Claims
        <4>2. CASE Lookup(w) \/ Abandon(w) \/ \E t \in Tasks : Take(w, t)
          BY <4>2 DEF Lookup, Abandon, Leave, Take, Astray, IInv, TypeOK
        <4> QED BY <2>4, <4>1, <4>2
      <3> QED BY <1>1, <2>1, <2>2, <3>1, <3>2, StrayStays
    <2> QED BY <1>8, <2>1, <2>3, <2>4
  <1>9. ASSUME NEW t \in Tasks, Recover(t) \/ Expire(t) \/ Redeliver(t)
        PROVE  UNCHANGED Seen /\ Stray' = Stray
    BY <1>3, <1>9 DEF Recover, Expire, Redeliver, relayVars, userVars, mailVars
  <1>10. ASSUME NEW u \in Users, Move(u)
         PROVE  UNCHANGED Seen /\ Stray' = Stray
    BY <1>3, <1>10 DEF Move, relayVars, mailVars
  <1>11. ASSUME NEW r \in Relays,
               \/ FetchUnpublished(r) \/ RelayRollback(r) \/ LoseRound(r) \/ MarkRefused(r)
               \/ \E id \in Ids : Publish(r, id) \/ PublishFails(r, id)
         PROVE  UNCHANGED Seen /\ Stray' = Stray
    BY <1>3, <1>11 DEF FetchUnpublished, RelayRollback, LoseRound, MarkRefused, EndRound, Publish,
                       PublishFails, userVars, mailVars
  <1>12. ASSUME NEW r \in Relays, MarkPublished(r)
         PROVE  [Promise!Next]_(Promise!vars)
    <2>1. UNCHANGED <<accounts, mails, notified>> /\ Stray' = Stray
      BY <1>3, <1>12 DEF MarkPublished, EndRound, userVars, mailVars
    <2>2. \A i \in Ids : outbox'[i] # "none" <=> outbox[i] # "none"
      BY <1>12 DEF MarkPublished, IInv, Sources, Known
    <2>3. UNCHANGED Promise!vars
      BY <2>1, <2>2 DEF Promise!vars
    <2> QED BY <2>3
  <1>13. CASE Rest \/ UNCHANGED vars
    <2>1. UNCHANGED Seen /\ UNCHANGED workerVars
      BY <1>13 DEF Rest, vars, relayVars, userVars, mailVars
    <2> QED BY <1>2, <1>3, <2>1
  <1> QED BY <1>2, <1>4, <1>5, <1>6, <1>7, <1>8, <1>9, <1>10, <1>11, <1>12, <1>13
          DEF Next, RelayStep, WorkerStep

\* The pipeline implements its promise: whatever the relays, the queue, the
\* handlers and the database do, a mail that is recorded was sent, and it is not
\* sent again, but by handlers that were cut off before it was recorded.
THEOREM Implements == Spec => ImplementsNotices
  <1>1. Init => Promise!Init
    BY DEF Init, Promise!Init, Promise!Pairs, Pairs, Stray
  <1>2. IInv /\ [Next]_vars => [Promise!Next]_(Promise!vars)
    BY StepImplements
  <1> QED BY <1>1, <1>2, InvariantHolds, PTL DEF Spec, ImplementsNotices, Promise!Spec
=============================================================================
