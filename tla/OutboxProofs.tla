---------------------------- MODULE OutboxProofs ----------------------------
(***************************************************************************)
(* Proofs about Outbox, for every set of notifications, channels and       *)
(* workers, every schedule of delays and every bound.                      *)
(***************************************************************************)
EXTENDS Outbox, TLAPS

USE AttemptsAssumption, TimeAssumption, MessagesAssumption, NoDeliveryAssumption

\* What a worker in flight knows of its row.  A worker that lost the row (it was
\* reclaimed) holds a locked_at strictly in the past, so that no later claim,
\* which writes the present time, can be mistaken for its own.
WorkerInv(w) ==
    Busy(w) =>
        /\ task[w] \in Deliveries
        /\ own_lock[w] \in 0 .. now
        /\ Owns(w) => attempts_so_far[w] = attempts[task[w]]
        /\ ~Owns(w) => status[task[w]] = "gone" \/ own_lock[w] < now

\* What a row says of itself.
RowInv(d) ==
    /\ status[d] = "pending" => next_attempt_at[d] <= now
    /\ status[d] = "sending" => next_attempt_at[d] <= locked_at[d]
    /\ status[d] \in Live => attempts[d] < MaxAttempts

\* The inductive invariant: the type invariant needs the attempts to be bounded,
\* which needs the counter a worker carries to be the row's, which needs the
\* worker that writes to be the only owner.
Inv ==
    /\ TypeOK
    /\ \A w \in Workers : WorkerInv(w)
    /\ \A d \in Deliveries : RowInv(d)
    /\ SoleOwner
    /\ job_now <= now

\* The invariant holds when the program starts.
LEMMA InitInv == Init => Inv
  BY DEF Init, Inv, TypeOK, RowsOK, ChannelsOK, QueuesOK, WorkersOK, JobOK, WorkerInv, RowInv,
         SoleOwner, Busy, Statuses, Causes, Results, NoLock, Live

-----------------------------------------------------------------------------
(* Steps that touch neither the rows nor the workers. *)

\* Channel operations, the broker and the bookkeeping of the reconcile job leave
\* what the invariant says of rows and workers as it is.
LEMMA FrameKeepsInv ==
    ASSUME Inv, UNCHANGED <<now, rowVars, workerVars>>,
           ChannelsOK', QueuesOK', JobOK', job_now' <= now
    PROVE  Inv'
  <1>1. RowsOK' /\ WorkersOK'
    BY DEF Inv, TypeOK, RowsOK, WorkersOK, rowVars, workerVars
  <1>2. \A w \in Workers : WorkerInv(w)'
    BY DEF Inv, WorkerInv, Busy, Owns, rowVars, workerVars
  <1>3. \A d \in Deliveries : RowInv(d)'
    BY DEF Inv, RowInv, rowVars
  <1>4. SoleOwner'
    BY DEF Inv, SoleOwner, Busy, Owns, rowVars, workerVars
  <1> QED
    BY <1>1, <1>2, <1>3, <1>4 DEF Inv, TypeOK

\* Creating, changing and deleting channels, and changing the secret key, touch no row.
LEMMA ChannelStepKeepsInv ==
    ASSUME Inv,
           \/ \E c \in Channels, enabled \in BOOLEAN : create_channel(c, enabled)
           \/ \E c \in Channels, enabled, new_url \in BOOLEAN :
                update_channel(c, enabled, new_url)
           \/ change_secret_key
    PROVE  Inv'
  <1>1. UNCHANGED <<now, rowVars, workerVars, channel_error, hooks, broker, jobVars, ghostVars>>
    BY DEF create_channel, update_channel, change_secret_key
  <1>2. ChannelsOK'
    <2>1. /\ channel \in [Channels -> {"none", "on", "off", "gone"}]
          /\ readable \in [Channels -> BOOLEAN] /\ channel_error \subseteq Channels
      BY DEF Inv, TypeOK, ChannelsOK
    <2>2. CASE \E c \in Channels, enabled \in BOOLEAN : create_channel(c, enabled)
      BY ONLY <1>1, <2>1, <2>2 DEF ChannelsOK, create_channel
    <2>3. CASE \E c \in Channels, enabled, new_url \in BOOLEAN :
                  update_channel(c, enabled, new_url)
      BY ONLY <1>1, <2>1, <2>3 DEF ChannelsOK, update_channel
    <2>4. CASE change_secret_key
      BY ONLY <1>1, <2>1, <2>4 DEF ChannelsOK, change_secret_key
    <2> QED
      BY <2>2, <2>3, <2>4
  <1>3. QueuesOK' /\ JobOK' /\ job_now' <= now
    BY <1>1 DEF Inv, TypeOK, QueuesOK, JobOK, jobVars, ghostVars
  <1> QED
    BY <1>1, <1>2, <1>3, FrameKeepsInv

\* Enqueuing and losing messages touches no row.
LEMMA BrokerStepKeepsInv ==
    ASSUME Inv, NEW d \in Deliveries, run_hook(d) \/ lose_message(d)
    PROVE  Inv'
  <1>1. UNCHANGED <<now, rowVars, workerVars, channelVars, jobVars, ghostVars>>
    BY DEF run_hook, lose_message
  <1>2. QueuesOK'
    BY <1>1 DEF Inv, TypeOK, QueuesOK, ghostVars, run_hook, lose_message, enqueue_delivery
  <1>3. ChannelsOK' /\ JobOK' /\ job_now' <= now
    BY <1>1 DEF Inv, TypeOK, ChannelsOK, JobOK, channelVars, jobVars
  <1> QED
    BY <1>1, <1>2, <1>3, FrameKeepsInv

\* The steps of reconcile_deliveries other than the reclaim keep the invariant.
LEMMA JobStepKeepsInv ==
    ASSUME Inv,
           \/ reconcile_select
           \/ \E d \in Deliveries : reconcile_enqueue(d)
           \/ reconcile_done
           \/ crash_reconcile
    PROVE  Inv'
  <1>1. UNCHANGED <<now, rowVars, workerVars, channelVars, hooks, ghostVars>>
    BY DEF reconcile_select, reconcile_enqueue, reconcile_done, crash_reconcile
  <1>2. QueuesOK'
    BY <1>1 DEF Inv, TypeOK, QueuesOK, ghostVars, reconcile_select, reconcile_enqueue,
                reconcile_done, crash_reconcile, enqueue_delivery
  <1>3. ChannelsOK'
    BY <1>1 DEF Inv, TypeOK, ChannelsOK, channelVars
  <1>4. JobOK' /\ job_now' <= now
    BY DEF Inv, TypeOK, JobOK, QueuesOK, reconcile_select, reconcile_enqueue,
           reconcile_done, crash_reconcile
  <1> QED
    BY <1>1, <1>2, <1>3, <1>4, FrameKeepsInv

-----------------------------------------------------------------------------
(* Steps of the API that create, revive and delete rows. *)

\* Deleting rows takes them from their workers, for good.
LEMMA DeleteRowsKeepsInv ==
    ASSUME Inv, NEW rows, delete_rows(rows), ChannelsOK',
           UNCHANGED <<now, hooks, broker, workerVars, jobVars, ghostVars>>
    PROVE  Inv'
  <1>1. RowsOK'
    BY DEF Inv, TypeOK, RowsOK, delete_rows, Statuses, Causes, NoLock
  <1>2. QueuesOK' /\ JobOK' /\ WorkersOK' /\ job_now' <= now'
    BY DEF Inv, TypeOK, QueuesOK, JobOK, WorkersOK, workerVars, jobVars, ghostVars
  <1>3. ASSUME NEW w \in Workers PROVE WorkerInv(w)'
    BY <1>3 DEF Inv, TypeOK, RowsOK, WorkerInv, Busy, Owns, delete_rows, workerVars, NoLock
  <1>4. ASSUME NEW d \in Deliveries PROVE RowInv(d)'
    BY <1>4 DEF Inv, RowInv, delete_rows, Live
  <1>5. SoleOwner'
    BY DEF Inv, TypeOK, WorkersOK, WorkerInv, SoleOwner, Busy, Owns, delete_rows, workerVars
  <1> QED
    BY <1>1, <1>2, <1>3, <1>4, <1>5 DEF Inv, TypeOK

\* Deleting a channel, the sent rows of the purge or a notification with its rows keeps it.
LEMMA DeleteStepKeepsInv ==
    ASSUME Inv,
           \/ \E c \in Channels : delete_channel(c)
           \/ purge_deliveries
           \/ \E n \in Notifications : delete_notification(n)
    PROVE  Inv'
  <1>1. ASSUME NEW c \in Channels, delete_channel(c) PROVE Inv'
    <2>1. ChannelsOK'
      BY <1>1 DEF Inv, TypeOK, ChannelsOK, delete_channel
    <2> QED
      BY <1>1, <2>1, DeleteRowsKeepsInv DEF delete_channel
  <1>2. ASSUME NEW rows, delete_rows(rows),
               UNCHANGED <<now, channelVars, hooks, broker, workerVars, jobVars, ghostVars>>
        PROVE  Inv'
    <2>1. ChannelsOK'
      BY <1>2 DEF Inv, TypeOK, ChannelsOK, channelVars
    <2> QED
      BY <1>2, <2>1, DeleteRowsKeepsInv
  <1> QED
    BY <1>1, <1>2 DEF purge_deliveries, delete_notification

\* New rows, and rows brought back by hand, are due at once.
LEMMA NewRowsKeepInv ==
    ASSUME Inv, NEW n \in Notifications, NEW targets \in SUBSET Channels,
           create_deliveries_for_notification(n, targets)
    PROVE  Inv'
  <1> DEFINE created == {n} \X targets
  <1>1. created \subseteq Deliveries
    BY DEF Deliveries
  <1>2. /\ status' = [d \in Deliveries |->
                        IF d \in created THEN "pending"
                        ELSE IF d[1] = n THEN "gone" ELSE status[d]]
        /\ attempts' = [d \in Deliveries |-> IF d \in created THEN 0 ELSE attempts[d]]
        /\ next_attempt_at' = [d \in Deliveries |->
                                 IF d \in created THEN now ELSE next_attempt_at[d]]
        /\ hooks' = hooks \cup created
        /\ UNCHANGED <<now, locked_at, sent_at, last_error, channelVars, broker, workerVars,
                       jobVars, ghostVars>>
    BY DEF create_deliveries_for_notification
  <1>3. \A d \in Deliveries : d \in created \/ d[1] = n => status[d] \in {"none", "gone"}
    BY DEF create_deliveries_for_notification, DeliveriesOf, Deliveries
  <1>4. \A d \in Deliveries : d \in created => status[d] = "none"
    BY DEF create_deliveries_for_notification
  <1> HIDE DEF created
  <1>5. ChannelsOK' /\ JobOK' /\ WorkersOK' /\ job_now' <= now'
    BY <1>2 DEF Inv, TypeOK, ChannelsOK, JobOK, WorkersOK, channelVars, workerVars, jobVars
  <1>6. RowsOK' /\ QueuesOK'
    BY <1>1, <1>2 DEF Inv, TypeOK, RowsOK, QueuesOK, Statuses, ghostVars
  <1>7. ASSUME NEW w \in Workers PROVE WorkerInv(w)'
    BY <1>2, <1>3, <1>4, <1>7 DEF Inv, TypeOK, RowsOK, WorkersOK, WorkerInv, Busy, Owns, workerVars
  <1>8. ASSUME NEW d \in Deliveries PROVE RowInv(d)'
    BY <1>2, <1>8 DEF Inv, TypeOK, QueuesOK, RowInv, Live
  <1>9. SoleOwner'
    BY <1>2, <1>3 DEF Inv, SoleOwner, WorkerInv, Busy, Owns, workerVars
  <1> QED
    BY <1>5, <1>6, <1>7, <1>8, <1>9 DEF Inv, TypeOK

\* The retry by hand returns a dead row to pending with no attempt counted.
LEMMA RetryKeepsInv ==
    ASSUME Inv, NEW d \in Deliveries, retry_delivery(d)
    PROVE  Inv'
  <1>1. ChannelsOK' /\ JobOK' /\ WorkersOK' /\ job_now' <= now'
    BY DEF Inv, TypeOK, ChannelsOK, JobOK, WorkersOK, channelVars, workerVars, jobVars,
           retry_delivery
  <1>2. RowsOK' /\ QueuesOK'
    <2>1. now \in 0 .. Horizon /\ 0 \in 0 .. MaxAttempts /\ -1 \in -1 .. Horizon
      BY DEF Inv, TypeOK, QueuesOK
    <2>2. RowsOK'
      BY <2>1 DEF Inv, TypeOK, RowsOK, Statuses, Causes, NoLock, retry_delivery
    <2>3. QueuesOK'
      BY DEF Inv, TypeOK, QueuesOK, retry_delivery
    <2> QED
      BY <2>2, <2>3
  <1>3. ASSUME NEW w \in Workers PROVE WorkerInv(w)'
    BY <1>3 DEF Inv, TypeOK, RowsOK, WorkerInv, Busy, Owns, workerVars, retry_delivery
  <1>4. ASSUME NEW e \in Deliveries PROVE RowInv(e)'
    BY <1>4 DEF Inv, TypeOK, RowsOK, QueuesOK, RowInv, Live, retry_delivery
  <1>5. SoleOwner'
    BY DEF Inv, TypeOK, RowsOK, SoleOwner, WorkerInv, Busy, Owns, workerVars, retry_delivery
  <1> QED
    BY <1>1, <1>2, <1>3, <1>4, <1>5 DEF Inv, TypeOK

-----------------------------------------------------------------------------
(* Steps of a worker. *)

\* Phase 1: nobody owned the row, and every worker that still believes so holds
\* a lock older than the one written now.
LEMMA ClaimKeepsInv ==
    ASSUME Inv, NEW w \in Workers, NEW d \in Deliveries, dispatch_phase1(w, d), claim(w, d)
    PROVE  Inv'
  <1>1. /\ pc[w] = "idle" /\ broker[d] > 0
        /\ broker' = [broker EXCEPT ![d] = @ - 1]
        /\ UNCHANGED <<now, channel, readable, hooks, jobVars, ghostVars>>
    BY DEF dispatch_phase1
  <1>2. RowsOK'
    BY <1>1 DEF Inv, TypeOK, RowsOK, QueuesOK, Statuses, claim
  <1>3. ChannelsOK' /\ JobOK' /\ job_now' <= now'
    BY <1>1 DEF Inv, TypeOK, ChannelsOK, JobOK, jobVars, claim
  <1>4. QueuesOK'
    BY <1>1 DEF Inv, TypeOK, QueuesOK, ghostVars
  <1>5. WorkersOK'
    <2>1. /\ pc' \in [Workers -> {"idle", "claimed", "posted"}]
          /\ task' \in [Workers -> Deliveries \cup {NoDelivery}]
          /\ result' \in [Workers -> Results]
      BY DEF Inv, TypeOK, WorkersOK, claim
    <2>2. /\ own_lock' \in [Workers -> -1 .. Horizon]
          /\ attempts_so_far' \in [Workers -> 0 .. MaxAttempts]
      BY DEF Inv, TypeOK, WorkersOK, RowsOK, QueuesOK, claim
    <2> QED
      BY <2>1, <2>2 DEF WorkersOK
  <1>6. \A v \in Workers : Busy(v) /\ task[v] = d => ~Owns(v) /\ own_lock[v] < now
    BY DEF Inv, WorkerInv, Owns, claim, Claimable
  <1>7. ASSUME NEW v \in Workers PROVE WorkerInv(v)'
    <2>1. CASE v = w
      BY <1>1, <2>1 DEF Inv, TypeOK, RowsOK, QueuesOK, WorkersOK, WorkerInv, Busy, Owns, claim
    <2>2. CASE v # w
      <3>1. /\ pc'[v] = pc[v] /\ task'[v] = task[v] /\ own_lock'[v] = own_lock[v]
            /\ attempts_so_far'[v] = attempts_so_far[v] /\ now' = now /\ attempts' = attempts
        BY <1>1, <2>2 DEF Inv, TypeOK, WorkersOK, claim
      <3>2. CASE task[v] = d
        BY <1>6, <3>1, <3>2 DEF Inv, TypeOK, RowsOK, WorkerInv, Busy, Owns, claim
      <3>3. CASE task[v] # d
        BY <3>1, <3>3 DEF Inv, TypeOK, RowsOK, WorkerInv, Busy, Owns, claim
      <3> QED
        BY <3>2, <3>3
    <2> QED
      BY <2>1, <2>2
  <1>8. ASSUME NEW e \in Deliveries PROVE RowInv(e)'
    BY <1>1, <1>8 DEF Inv, TypeOK, RowsOK, QueuesOK, RowInv, Live, claim, Claimable
  <1>9. SoleOwner'
    <2> SUFFICES ASSUME NEW u \in Workers, NEW v \in Workers,
                        (Busy(u) /\ Busy(v) /\ task[u] = task[v] /\ Owns(u) /\ Owns(v))'
                 PROVE  u = v
      BY DEF SoleOwner
    <2>1. \A x \in Workers : x # w =>
            /\ pc'[x] = pc[x] /\ task'[x] = task[x] /\ own_lock'[x] = own_lock[x]
      BY DEF Inv, TypeOK, WorkersOK, claim
    <2>2. task'[w] = d /\ own_lock'[w] = now /\ locked_at'[d] = now
      BY DEF Inv, TypeOK, WorkersOK, RowsOK, claim
    <2>3. \A x \in Workers : x # w /\ Busy(x)' /\ Owns(x)' => task'[x] # d
      BY <1>6, <2>1, <2>2 DEF Inv, TypeOK, QueuesOK, WorkerInv, Busy, Owns
    <2>4. CASE u # w /\ v # w
      <3>1. task[u] # d /\ task[v] # d
        BY <2>1, <2>3, <2>4
      <3> QED
        BY <2>1, <2>4, <3>1 DEF Inv, TypeOK, RowsOK, SoleOwner, WorkerInv, Busy, Owns, claim
    <2> QED
      BY <2>2, <2>3, <2>4
  <1> QED
    BY <1>2, <1>3, <1>4, <1>5, <1>7, <1>8, <1>9 DEF Inv, TypeOK

\* Phase 1 when the row is buried, or when the message is stale.
LEMMA BuryKeepsInv ==
    ASSUME Inv, NEW w \in Workers, NEW d \in Deliveries, dispatch_phase1(w, d),
           \/ bury(d)
           \/ UNCHANGED <<rowVars, channel_error, workerVars>>
    PROVE  Inv'
  <1>1. /\ broker[d] > 0
        /\ broker' = [broker EXCEPT ![d] = @ - 1]
        /\ UNCHANGED <<now, channel, readable, hooks, jobVars, ghostVars>>
    BY DEF dispatch_phase1
  <1>2. QueuesOK' /\ JobOK' /\ job_now' <= now'
    BY <1>1 DEF Inv, TypeOK, QueuesOK, JobOK, jobVars, ghostVars
  <1>3. ChannelsOK'
    BY <1>1 DEF Inv, TypeOK, ChannelsOK, bury, Deliveries, ChannelOf
  <1>4. CASE UNCHANGED <<rowVars, channel_error, workerVars>>
    BY <1>1, <1>2, <1>3, <1>4, FrameKeepsInv
  <1>5. CASE bury(d)
    <2>1. RowsOK'
      BY <1>5 DEF Inv, TypeOK, RowsOK, Statuses, Causes, bury
    <2>2. WorkersOK'
      BY <1>5 DEF Inv, TypeOK, WorkersOK, workerVars, bury
    <2>3. ASSUME NEW v \in Workers PROVE WorkerInv(v)'
      BY <1>1, <1>5, <2>3 DEF Inv, TypeOK, RowsOK, WorkerInv, Busy, Owns, workerVars, bury, Claimable
    <2>4. ASSUME NEW e \in Deliveries PROVE RowInv(e)'
      BY <1>1, <1>5, <2>4 DEF Inv, TypeOK, RowsOK, RowInv, Live, bury
    <2>5. SoleOwner'
      BY <1>5 DEF Inv, TypeOK, RowsOK, SoleOwner, WorkerInv, Busy, Owns, workerVars, bury
    <2> QED
      BY <1>2, <1>3, <2>1, <2>2, <2>3, <2>4, <2>5 DEF Inv, TypeOK
  <1> QED
    BY <1>4, <1>5

\* Phase 2 changes what the worker and the endpoint know, and no row.
LEMMA PostKeepsInv ==
    ASSUME Inv, NEW w \in Workers, send_webhook_sync(w)
    PROVE  Inv'
  <1>1. /\ pc[w] = "claimed" /\ pc' = [pc EXCEPT ![w] = "posted"]
        /\ UNCHANGED <<now, rowVars, channelVars, hooks, broker, task, own_lock,
                       attempts_so_far, jobVars>>
    BY DEF send_webhook_sync
  <1>2. RowsOK' /\ ChannelsOK' /\ JobOK' /\ job_now' <= now'
    BY <1>1 DEF Inv, TypeOK, RowsOK, ChannelsOK, JobOK, rowVars, channelVars, jobVars
  <1>3. task[w] \in Deliveries
    BY <1>1 DEF Inv, WorkerInv, Busy
  <1>4. QueuesOK' /\ WorkersOK'
    BY <1>1, <1>3 DEF Inv, TypeOK, QueuesOK, WorkersOK, send_webhook_sync
  <1>5. \A v \in Workers : (Busy(v) <=> Busy(v)') /\ (Owns(v) <=> Owns(v)')
    BY <1>1 DEF Inv, TypeOK, WorkersOK, Busy, Owns, rowVars
  <1>6. \A v \in Workers : WorkerInv(v)'
    BY <1>1, <1>5 DEF Inv, WorkerInv, rowVars
  <1>7. \A e \in Deliveries : RowInv(e)'
    BY <1>1 DEF Inv, RowInv, rowVars
  <1>8. SoleOwner'
    BY <1>1, <1>5 DEF Inv, SoleOwner
  <1> QED
    BY <1>2, <1>4, <1>6, <1>7, <1>8 DEF Inv, TypeOK

\* A worker that ends its task, whether or not it wrote the outcome of its own
\* row d, keeps the invariant if the row it leaves is well formed.
LEMMA EndTaskKeepsInv ==
    ASSUME Inv, NEW w \in Workers, NEW d, Busy(w), task[w] = d, end_task(w), now' = now,
           RowsOK', ChannelsOK', QueuesOK', UNCHANGED jobVars,
           \/ UNCHANGED <<status, attempts, locked_at, next_attempt_at>>
           \/ /\ Owns(w)
              /\ status'[d] \in {"sent", "dead", "failed"}
              /\ RowInv(d)'
              /\ \A e \in Deliveries \ {d} :
                   /\ status'[e] = status[e] /\ attempts'[e] = attempts[e]
                   /\ next_attempt_at'[e] = next_attempt_at[e]
              /\ UNCHANGED locked_at
    PROVE  Inv'
  <1>1. WorkersOK'
    BY DEF Inv, TypeOK, WorkersOK, end_task, NoLock, Results
  <1>2. JobOK' /\ job_now' <= now'
    BY DEF Inv, TypeOK, JobOK, jobVars
  <1>3. \A v \in Workers : Busy(v)' =>
          /\ v # w /\ Busy(v) /\ task'[v] = task[v] /\ own_lock'[v] = own_lock[v]
          /\ attempts_so_far'[v] = attempts_so_far[v]
    BY DEF Inv, TypeOK, WorkersOK, Busy, end_task
  <1>4. ASSUME NEW v \in Workers, Busy(v)' PROVE WorkerInv(v)'
    <2>1. CASE UNCHANGED <<status, attempts, locked_at, next_attempt_at>>
      BY <1>3, <1>4, <2>1 DEF Inv, WorkerInv, Owns
    <2>2. CASE Owns(w) /\ task[v] = d /\ status'[d] \in {"sent", "dead", "failed"}
      <3>1. ~Owns(v)
        BY <1>3, <1>4, <2>2 DEF Inv, SoleOwner
      <3>2. own_lock[v] < now
        BY <1>3, <1>4, <2>2, <3>1 DEF Inv, WorkerInv, Owns
      <3> QED
        BY <1>3, <1>4, <2>2, <3>2 DEF Inv, WorkerInv, Owns
    <2>3. CASE /\ task[v] # d /\ UNCHANGED locked_at
               /\ \A e \in Deliveries \ {d} :
                    status'[e] = status[e] /\ attempts'[e] = attempts[e]
      BY <1>3, <1>4, <2>3 DEF Inv, WorkerInv, Owns
    <2> QED
      BY <2>1, <2>2, <2>3
  <1>5. ASSUME NEW e \in Deliveries PROVE RowInv(e)'
    <2>1. CASE UNCHANGED <<status, attempts, locked_at, next_attempt_at>>
      BY <1>5, <2>1 DEF Inv, RowInv
    <2>2. CASE e = d /\ RowInv(d)'
      BY <2>2
    <2>3. CASE /\ e # d /\ UNCHANGED locked_at
               /\ \A f \in Deliveries \ {d} :
                    /\ status'[f] = status[f] /\ attempts'[f] = attempts[f]
                    /\ next_attempt_at'[f] = next_attempt_at[f]
      BY <1>5, <2>3 DEF Inv, RowInv
    <2> QED
      BY <2>1, <2>2, <2>3
  <1>6. SoleOwner'
    <2> SUFFICES ASSUME NEW u \in Workers, NEW v \in Workers,
                        (Busy(u) /\ Busy(v) /\ task[u] = task[v] /\ Owns(u) /\ Owns(v))'
                 PROVE  u = v
      BY DEF SoleOwner
    <2>1. task[u] \in Deliveries /\ task[u] = task[v]
      BY <1>3 DEF Inv, WorkerInv
    <2>2. Owns(u) /\ Owns(v)
      BY <1>3, <2>1 DEF Owns
    <2> QED
      BY <1>3, <2>1, <2>2 DEF Inv, SoleOwner
  <1> QED
    BY <1>1, <1>2, <1>4, <1>5, <1>6 DEF Inv, TypeOK, WorkerInv

\* The outcomes of phase 3 that an owner may write.
LEMMA OutcomeKeepsRow ==
    ASSUME Inv, NEW w \in Workers, pc[w] = "posted", NEW d, d = task[w], Owns(w), now' = now,
           UNCHANGED locked_at,
           \/ record_sent(d)
           \/ record_rejected(d)
           \/ result[w] = "limited" /\ record_retry(w, d, RetryAfters)
           \/ /\ result[w] = "unreachable"
              /\ record_retry(w, d, calculate_retry_delay(attempts_so_far[w] + 1))
    PROVE  /\ RowsOK'
           /\ status'[d] \in {"sent", "dead", "failed"}
           /\ RowInv(d)'
           /\ \A e \in Deliveries \ {d} :
                /\ status'[e] = status[e] /\ attempts'[e] = attempts[e]
                /\ next_attempt_at'[e] = next_attempt_at[e]
  <1> DEFINE n == attempts_so_far[w] + 1
  <1>1. /\ d \in Deliveries /\ status[d] = "sending"
        /\ attempts_so_far[w] = attempts[d] /\ attempts[d] < MaxAttempts
    BY DEF Inv, WorkerInv, RowInv, Busy, Owns, Live
  <1>2. n \in 1 .. MaxAttempts
    BY <1>1 DEF Inv, TypeOK, RowsOK
  <1>3. CASE record_sent(d) \/ record_rejected(d)
    <2>a. ASSUME record_sent(d) PROVE RowsOK'
      BY <1>1, <2>a DEF Inv, TypeOK, RowsOK, QueuesOK, Statuses, Causes, record_sent
    <2>b. ASSUME record_rejected(d) PROVE RowsOK'
      BY <1>1, <2>b DEF Inv, TypeOK, RowsOK, Statuses, Causes, record_rejected
    <2>1. RowsOK'
      BY <1>3, <2>a, <2>b
    <2>2. /\ status'[d] \in {"sent", "dead"}
          /\ \A e \in Deliveries \ {d} : status'[e] = status[e]
          /\ UNCHANGED <<attempts, next_attempt_at>>
      BY <1>1, <1>3 DEF Inv, TypeOK, RowsOK, record_sent, record_rejected
    <2> QED
      BY <2>1, <2>2 DEF RowInv, Live
  <1>4. ASSUME NEW delays, delays \subseteq Nat, record_retry(w, d, delays),
               result[w] \in {"limited", "unreachable"}
        PROVE  /\ RowsOK'
               /\ status'[d] \in {"sent", "dead", "failed"}
               /\ RowInv(d)'
               /\ \A e \in Deliveries \ {d} :
                    /\ status'[e] = status[e] /\ attempts'[e] = attempts[e]
                    /\ next_attempt_at'[e] = next_attempt_at[e]
    <2>1. /\ attempts' = [attempts EXCEPT ![d] = n]
          /\ last_error' = [last_error EXCEPT ![d] = result[w]]
          /\ UNCHANGED sent_at
      BY <1>4 DEF record_retry
    <2>2. CASE n >= MaxAttempts /\ status' = [status EXCEPT ![d] = "dead"] /\ UNCHANGED next_attempt_at
      BY <1>1, <1>2, <1>4, <2>1, <2>2
         DEF Inv, TypeOK, RowsOK, Statuses, Causes, RowInv, Live
    <2>3. ASSUME n < MaxAttempts, status' = [status EXCEPT ![d] = "failed"],
                 NEW delay \in delays,
                 next_attempt_at' = [next_attempt_at EXCEPT ![d] = At(now + delay)]
          PROVE  /\ RowsOK'
                 /\ status'[d] = "failed"
                 /\ RowInv(d)'
                 /\ \A e \in Deliveries \ {d} :
                      /\ status'[e] = status[e] /\ attempts'[e] = attempts[e]
                      /\ next_attempt_at'[e] = next_attempt_at[e]
      <3>1. At(now + delay) \in 0 .. Horizon
        BY <1>4, <2>3 DEF At, Inv, TypeOK, QueuesOK
      <3> QED
        BY <1>1, <1>2, <1>4, <2>1, <2>3, <3>1
           DEF Inv, TypeOK, RowsOK, Statuses, Causes, RowInv, Live
    <2> QED
      BY <1>4, <2>2, <2>3 DEF record_retry
  <1>5. calculate_retry_delay(n) \subseteq Nat
    BY <1>2 DEF calculate_retry_delay
  <1> QED
    BY <1>3, <1>4, <1>5

\* Phase 3, whatever the answer of the webhook, keeps the invariant.
LEMMA OutcomeKeepsInv ==
    ASSUME Inv, NEW w \in Workers, dispatch_phase3(w)
    PROVE  Inv'
  <1> DEFINE d == task[w]
  <1>1. /\ pc[w] = "posted" /\ Busy(w) /\ end_task(w)
        /\ UNCHANGED <<now, channel, readable, hooks, broker, jobVars, ghostVars>>
    BY DEF dispatch_phase3, Busy
  <1>2. QueuesOK'
    BY <1>1 DEF Inv, TypeOK, QueuesOK, ghostVars
  <1>3. d \in Deliveries
    BY <1>1 DEF Inv, WorkerInv
  <1>4. ChannelsOK'
    BY <1>1, <1>3 DEF Inv, TypeOK, ChannelsOK, Deliveries, ChannelOf, dispatch_phase3, rowVars,
                      record_sent, record_rejected
  <1>5. CASE UNCHANGED <<rowVars, channel_error>>
    <2>1. RowsOK'
      BY <1>5 DEF Inv, TypeOK, RowsOK, rowVars
    <2> QED
      BY <1>1, <1>2, <1>4, <1>5, <2>1, EndTaskKeepsInv DEF rowVars
  <1>6. CASE /\ Owns(w)
             /\ \/ record_sent(d)
                \/ record_rejected(d)
                \/ result[w] = "limited" /\ record_retry(w, d, RetryAfters)
                \/ /\ result[w] = "unreachable"
                   /\ record_retry(w, d, calculate_retry_delay(attempts_so_far[w] + 1))
             /\ UNCHANGED locked_at
    BY <1>1, <1>2, <1>4, <1>6, OutcomeKeepsRow, EndTaskKeepsInv
  <1> QED
    BY <1>5, <1>6 DEF dispatch_phase3

\* A worker that dies leaves the rows as they were.
LEMMA CrashKeepsInv ==
    ASSUME Inv, NEW w \in Workers, crash_worker(w)
    PROVE  Inv'
  <1>1. RowsOK' /\ ChannelsOK' /\ QueuesOK'
    BY DEF Inv, TypeOK, RowsOK, ChannelsOK, QueuesOK, rowVars, channelVars, ghostVars, crash_worker
  <1> QED
    BY <1>1, EndTaskKeepsInv DEF crash_worker, Busy, rowVars

-----------------------------------------------------------------------------
(* The reclaim, and time. *)

\* A reclaimed row was locked before now - StuckAfter, hence strictly before now.
LEMMA ReclaimKeepsInv ==
    ASSUME Inv, reconcile_reclaim
    PROVE  Inv'
  <1> DEFINE reclaimed == {d \in Deliveries : Reclaimable(d)}
  <1>1. /\ status' = [d \in Deliveries |-> IF d \in reclaimed THEN "failed" ELSE status[d]]
        /\ locked_at' = [d \in Deliveries |-> IF d \in reclaimed THEN NoLock ELSE locked_at[d]]
        /\ UNCHANGED <<now, attempts, next_attempt_at, sent_at, last_error, channelVars, hooks,
                       broker, workerVars, job_now, due, accepted>>
        /\ stuck' = reclaimed /\ job' = "enqueue" /\ excused' = excused \cup reclaimed
    BY DEF reconcile_reclaim
  <1>2. \A d \in reclaimed : d \in Deliveries /\ status[d] = "sending" /\ locked_at[d] < now
    BY DEF Inv, TypeOK, RowsOK, QueuesOK, JobOK, Reclaimable
  <1> HIDE DEF reclaimed
  <1>3. RowsOK' /\ QueuesOK'
    BY <1>1, <1>2 DEF Inv, TypeOK, RowsOK, QueuesOK, Statuses, NoLock
  <1>4. ChannelsOK' /\ WorkersOK' /\ JobOK' /\ job_now' <= now'
    BY <1>1, <1>2 DEF Inv, TypeOK, ChannelsOK, WorkersOK, JobOK, channelVars, workerVars
  <1>5. ASSUME NEW w \in Workers PROVE WorkerInv(w)'
    BY <1>1, <1>2, <1>5 DEF Inv, TypeOK, RowsOK, WorkerInv, Busy, Owns, workerVars
  <1>6. ASSUME NEW d \in Deliveries PROVE RowInv(d)'
    BY <1>1, <1>2, <1>6 DEF Inv, RowInv, Live
  <1>7. SoleOwner'
    BY <1>1, <1>2 DEF Inv, SoleOwner, WorkerInv, Busy, Owns, workerVars
  <1> QED
    BY <1>3, <1>4, <1>5, <1>6, <1>7 DEF Inv, TypeOK

\* Time passes: no lock and no backoff is lost by it.
LEMMA TickKeepsInv ==
    ASSUME Inv, Tick
    PROVE  Inv'
  <1>1. TypeOK' /\ job_now' <= now'
    BY DEF Tick, Inv, TypeOK, RowsOK, ChannelsOK, QueuesOK, WorkersOK, JobOK, rowVars, channelVars,
           workerVars, jobVars, ghostVars
  <1>2. ASSUME NEW w \in Workers PROVE WorkerInv(w)'
    BY <1>2 DEF Tick, Inv, TypeOK, QueuesOK, WorkersOK, WorkerInv, Busy, Owns, rowVars, workerVars
  <1>3. ASSUME NEW d \in Deliveries PROVE RowInv(d)'
    BY <1>3 DEF Tick, Inv, TypeOK, QueuesOK, RowsOK, RowInv, rowVars
  <1>4. SoleOwner'
    BY DEF Tick, Inv, SoleOwner, Busy, Owns, rowVars, workerVars
  <1> QED
    BY <1>1, <1>2, <1>3, <1>4 DEF Inv

-----------------------------------------------------------------------------
(* The invariant, and what follows from it. *)

\* Every step keeps the invariant.
LEMMA NextKeepsInv == Inv /\ [Next]_vars => Inv'
  <1> SUFFICES ASSUME Inv, [Next]_vars PROVE Inv'
    OBVIOUS
  <1>1. CASE UNCHANGED vars
    <2>1. ChannelsOK' /\ QueuesOK' /\ JobOK' /\ job_now' <= now
      BY <1>1 DEF vars, Inv, TypeOK, ChannelsOK, QueuesOK, JobOK, channelVars, jobVars, ghostVars
    <2> QED
      BY <1>1, <2>1, FrameKeepsInv DEF vars
  <1>2. ASSUME NEW w \in Workers, NEW d \in Deliveries, dispatch_phase1(w, d)
        PROVE  Inv'
    BY <1>2, ClaimKeepsInv, BuryKeepsInv DEF dispatch_phase1
  <1> QED
    BY <1>1, <1>2, ChannelStepKeepsInv, BrokerStepKeepsInv, JobStepKeepsInv, DeleteStepKeepsInv,
       NewRowsKeepInv, RetryKeepsInv, PostKeepsInv, OutcomeKeepsInv, CrashKeepsInv,
       ReclaimKeepsInv, TickKeepsInv
       DEF Next

\* The invariant holds in every reachable state.
LEMMA InvHolds == Spec => []Inv
  BY InitInv, NextKeepsInv, PTL DEF Spec

\* Every reachable state of the outbox is well typed: in particular attempts never
\* passes MAX_ATTEMPTS, although phase 3 writes a counter read in phase 1.
THEOREM TypeCorrect == Spec => []TypeOK
  <1>1. Inv => TypeOK
    BY DEF Inv
  <1> QED
    BY <1>1, InvHolds, PTL

\* Two workers never both pass the ownership test of phase 3 for the same row.
THEOREM OwnerIsUnique == Spec => []SoleOwner
  <1>1. Inv => SoleOwner
    BY DEF Inv
  <1> QED
    BY <1>1, InvHolds, PTL

\* A row that can still be sent has attempts left.
THEOREM AttemptsBounded == Spec => []AttemptsLeft
  <1>1. Inv => AttemptsLeft
    BY DEF Inv, RowInv, AttemptsLeft
  <1> QED
    BY <1>1, InvHolds, PTL

\* No row is being sent before its backoff has passed.
THEOREM BackoffIsRespected == Spec => []BackoffRespected
  <1>1. Inv => BackoffRespected
    BY DEF Inv, RowInv, BackoffRespected
  <1> QED
    BY <1>1, InvHolds, PTL

-----------------------------------------------------------------------------
(* The outbox implements the lifecycle of a delivery. *)

\* A step of the specification from a state of the invariant is a step of the
\* lifecycle, or leaves status and attempts as they are.
LEMMA NextRefines == Inv /\ [Next]_vars => [Lifecycle!Next]_(Lifecycle!vars)
  <1> SUFFICES ASSUME Inv, [Next]_vars PROVE [Lifecycle!Next]_(Lifecycle!vars)
    OBVIOUS
  <1> USE DEF Lifecycle!vars
  <1>1. CASE UNCHANGED <<status, attempts>>
    BY <1>1
  <1>2. ASSUME NEW rows, delete_rows(rows) PROVE Lifecycle!Next
    <2>1. Lifecycle!Remove(rows \cap Deliveries)
      BY <1>2 DEF Lifecycle!Remove, delete_rows
    <2> QED
      BY <2>1 DEF Lifecycle!Next
  <1>3. ASSUME NEW n \in Notifications, NEW targets \in SUBSET Channels,
               create_deliveries_for_notification(n, targets)
        PROVE  Lifecycle!Next
    <2> DEFINE created == {n} \X targets
    <2> DEFINE never == {d \in Deliveries : d[1] = n} \ created
    <2>1. created \subseteq Deliveries
      BY DEF Deliveries
    <2>2. \A d \in created : d[1] = n /\ status[d] = "none"
      BY <1>3 DEF create_deliveries_for_notification
    <2>3. \A d \in Deliveries : d[1] = n => status[d] \in {"none", "gone"}
      BY <1>3 DEF create_deliveries_for_notification, DeliveriesOf
    <2>4. /\ status' = [d \in Deliveries |->
                          IF d \in created THEN "pending"
                          ELSE IF d[1] = n THEN "gone" ELSE status[d]]
          /\ attempts' = [d \in Deliveries |-> IF d \in created THEN 0 ELSE attempts[d]]
      BY <1>3 DEF create_deliveries_for_notification
    <2> HIDE DEF created
    <2>5. Lifecycle!Create(created, never)
      BY <2>1, <2>2, <2>3, <2>4 DEF Lifecycle!Create, Inv, TypeOK, RowsOK
    <2> QED
      BY <2>1, <2>5 DEF Lifecycle!Next
  <1>4. ASSUME NEW d \in Deliveries, retry_delivery(d) PROVE Lifecycle!Next
    BY <1>4 DEF retry_delivery, Lifecycle!Next, Lifecycle!Revive
  <1>5. ASSUME NEW w \in Workers, NEW d \in Deliveries, dispatch_phase1(w, d)
        PROVE  Lifecycle!Next \/ UNCHANGED <<status, attempts>>
    <2>1. CASE claim(w, d)
      BY <2>1 DEF claim, Claimable, Lifecycle!Next, Lifecycle!Take
    <2>2. CASE bury(d)
      BY <2>2 DEF bury, Claimable, Lifecycle!Next, Lifecycle!Bury
    <2> QED
      BY <1>5, <2>1, <2>2 DEF dispatch_phase1, rowVars
  <1>6. ASSUME NEW w \in Workers, dispatch_phase3(w)
        PROVE  Lifecycle!Next \/ UNCHANGED <<status, attempts>>
    <2> DEFINE d == task[w]
    <2>1. pc[w] = "posted"
      BY <1>6 DEF dispatch_phase3
    <2>2. CASE Owns(w)
      <3>1. d \in Deliveries /\ status[d] = "sending" /\ attempts_so_far[w] = attempts[d]
        BY <2>1, <2>2 DEF Inv, WorkerInv, Busy, Owns
      <3>2. CASE record_sent(d)
        BY <3>1, <3>2 DEF record_sent, Lifecycle!Next, Lifecycle!Deliver
      <3>3. CASE record_rejected(d)
        BY <3>1, <3>3 DEF record_rejected, Lifecycle!Next, Lifecycle!Refuse
      <3>4. ASSUME NEW delays, record_retry(w, d, delays) PROVE Lifecycle!Next
        <4>1. Lifecycle!Fail(d)
          BY <3>1, <3>4 DEF record_retry, Lifecycle!Fail, Inv, TypeOK, RowsOK
        <4> QED
          BY <3>1, <4>1 DEF Lifecycle!Next
      <3> QED
        BY <1>6, <2>2, <3>2, <3>3, <3>4 DEF dispatch_phase3
    <2>3. CASE ~Owns(w)
      BY <1>6, <2>3 DEF dispatch_phase3, rowVars
    <2> QED
      BY <2>2, <2>3
  <1>7. ASSUME reconcile_reclaim PROVE Lifecycle!Next
    <2>1. Lifecycle!GiveUp({d \in Deliveries : Reclaimable(d)})
      BY <1>7 DEF reconcile_reclaim, Reclaimable, Lifecycle!GiveUp
    <2> QED
      BY <2>1 DEF Lifecycle!Next
  <1>8. ASSUME NEW c \in Channels, delete_channel(c) PROVE Lifecycle!Next
    BY <1>2, <1>8 DEF delete_channel
  <1>9. ASSUME NEW n \in Notifications, delete_notification(n) PROVE Lifecycle!Next
    BY <1>2, <1>9 DEF delete_notification
  <1>10. ASSUME purge_deliveries PROVE Lifecycle!Next
    BY <1>2, <1>10 DEF purge_deliveries
  <1>11. CASE \/ UNCHANGED vars
              \/ Tick \/ change_secret_key \/ reconcile_select \/ reconcile_done \/ crash_reconcile
              \/ \E c \in Channels, enabled \in BOOLEAN : create_channel(c, enabled)
              \/ \E c \in Channels, enabled, new_url \in BOOLEAN :
                   update_channel(c, enabled, new_url)
              \/ \E d \in Deliveries : run_hook(d) \/ lose_message(d) \/ reconcile_enqueue(d)
              \/ \E w \in Workers : send_webhook_sync(w) \/ crash_worker(w)
    BY <1>11 DEF vars, rowVars, Tick, change_secret_key, reconcile_select, reconcile_done,
                 crash_reconcile, create_channel, update_channel, run_hook, lose_message,
                 reconcile_enqueue, send_webhook_sync, crash_worker
  <1> QED
    BY <1>3, <1>4, <1>5, <1>6, <1>7, <1>8, <1>9, <1>10, <1>11 DEF Next

\* Whatever workers, broker and jobs do, a row takes only the transitions of the
\* lifecycle and its failed attempts are counted one by one.
THEOREM OutboxRefinesLifecycle == Spec => ImplementsLifecycle
  <1>1. Init => Lifecycle!Init
    BY DEF Init, Lifecycle!Init
  <1> QED
    BY <1>1, NextRefines, InvHolds, PTL DEF Spec, ImplementsLifecycle, Lifecycle!Spec
-----------------------------------------------------------------------------
(* The webhook is hit twice only where at-least-once delivery allows it. *)

\* A delivery that nothing excuses has at most one worker, which owns its row or
\* whose row is gone, and the webhook took the message only if that worker knows
\* it, or if the row says so.
AloneInv(d) ==
    /\ \A v, w \in Workers : Busy(v) /\ Busy(w) /\ task[v] = d /\ task[w] = d => v = w
    /\ \A w \in Workers : Busy(w) /\ task[w] = d =>
         /\ Owns(w) \/ status[d] = "gone"
         /\ pc[w] = "claimed" \/ result[w] # "ok" => accepted[d] = 0
    /\ accepted[d] \in {0, 1}
    /\ status[d] \in {"none", "pending", "failed", "dead"} => accepted[d] = 0

Unexcused == \A d \in Deliveries : d \notin excused => AloneInv(d)

\* No row has been taken twice when the program starts.
LEMMA InitUnexcused == Init => Unexcused
  BY DEF Init, Unexcused, AloneInv, Busy

\* Steps that leave workers, rows and the endpoint alone.
LEMMA FrameKeepsUnexcused ==
    ASSUME Unexcused, UNCHANGED <<status, locked_at, workerVars, ghostVars>>
    PROVE  Unexcused'
  BY DEF Unexcused, AloneInv, Busy, Owns, workerVars, ghostVars

\* Steps that move rows without owner, or take rows away from their owner for good.
LEMMA RowStepKeepsUnexcused ==
    ASSUME Inv, Unexcused, UNCHANGED workerVars, UNCHANGED accepted, excused \subseteq excused',
           \A d \in Deliveries : d \notin excused' =>
             \/ status'[d] = status[d] /\ locked_at'[d] = locked_at[d]
             \/ status'[d] = "gone"
             \/ /\ status[d] \in {"none", "pending", "failed", "dead"}
                /\ status'[d] \in {"none", "pending", "failed", "dead"}
    PROVE  Unexcused'
  <1> SUFFICES ASSUME NEW d \in Deliveries, d \notin excused' PROVE AloneInv(d)'
    BY DEF Unexcused
  <1>1. AloneInv(d)
    BY DEF Unexcused
  <1>2. CASE status'[d] = status[d] /\ locked_at'[d] = locked_at[d]
    BY <1>1, <1>2 DEF AloneInv, Busy, Owns, workerVars
  <1>3. CASE status'[d] = "gone"
    BY <1>1, <1>3 DEF AloneInv, Busy, Owns, workerVars
  <1>4. CASE /\ status[d] \in {"none", "pending", "failed", "dead"}
             /\ status'[d] \in {"none", "pending", "failed", "dead"}
    BY <1>1, <1>4 DEF AloneInv, Busy, Owns, workerVars
  <1> QED
    BY <1>2, <1>3, <1>4

\* Phase 1 claims a row that was not taken, unless it is excused.
LEMMA ClaimKeepsUnexcused ==
    ASSUME Inv, Unexcused, NEW w \in Workers, NEW d \in Deliveries,
           dispatch_phase1(w, d), claim(w, d)
    PROVE  Unexcused'
  <1> SUFFICES ASSUME NEW e \in Deliveries, e \notin excused' PROVE AloneInv(e)'
    BY DEF Unexcused
  <1>1. pc[w] = "idle" /\ UNCHANGED ghostVars
    BY DEF dispatch_phase1
  <1>2. AloneInv(e)
    BY <1>1 DEF Unexcused, ghostVars
  <1>3. \A v \in Workers : v # w =>
          pc'[v] = pc[v] /\ task'[v] = task[v] /\ own_lock'[v] = own_lock[v] /\ result'[v] = result[v]
    BY DEF Inv, TypeOK, WorkersOK, claim
  <1>4. /\ pc'[w] = "claimed" /\ task'[w] = d /\ own_lock'[w] = now
        /\ status'[d] = "sending" /\ locked_at'[d] = now
    BY DEF Inv, TypeOK, WorkersOK, RowsOK, claim
  <1>5. CASE e = d
    <2>1. \A v \in Workers : Busy(v) => task[v] # d
      BY <1>2, <1>5 DEF AloneInv, Owns, claim, Claimable
    <2>2. accepted[d] = 0
      BY <1>2, <1>5 DEF AloneInv, claim, Claimable
    <2>3. \A v \in Workers : Busy(v)' /\ task'[v] = d => v = w
      BY <1>3, <2>1 DEF Busy
    <2> QED
      BY <1>1, <1>4, <1>5, <2>2, <2>3 DEF AloneInv, Busy, Owns, ghostVars
  <1>6. CASE e # d
    <2>1. status'[e] = status[e] /\ locked_at'[e] = locked_at[e]
      BY <1>6 DEF Inv, TypeOK, RowsOK, claim
    <2>2. \A v \in Workers : Busy(v)' /\ task'[v] = e => v # w /\ Busy(v) /\ task[v] = e
      BY <1>3, <1>4, <1>6 DEF Busy
    <2> QED
      BY <1>1, <1>2, <1>3, <2>1, <2>2 DEF AloneInv, Busy, Owns, ghostVars
  <1> QED
    BY <1>5, <1>6

\* The webhook takes a row at most once from the one worker that is busy with it.
LEMMA PostKeepsUnexcused ==
    ASSUME Inv, Unexcused, NEW w \in Workers, send_webhook_sync(w)
    PROVE  Unexcused'
  <1> SUFFICES ASSUME NEW e \in Deliveries, e \notin excused' PROVE AloneInv(e)'
    BY DEF Unexcused
  <1>1. /\ pc[w] = "claimed" /\ pc' = [pc EXCEPT ![w] = "posted"]
        /\ UNCHANGED <<status, locked_at, task, own_lock>>
    BY DEF send_webhook_sync, rowVars
  <1>2. PICK r \in Results, taken \in BOOLEAN :
          /\ r = "ok" => taken
          /\ result' = [result EXCEPT ![w] = r]
          /\ accepted' = [accepted EXCEPT ![task[w]] = IF taken /\ @ < 2 THEN @ + 1 ELSE @]
          /\ excused' = IF taken /\ r # "ok" THEN excused \cup {task[w]} ELSE excused
    BY DEF send_webhook_sync
  <1>3. AloneInv(e)
    BY <1>2 DEF Unexcused
  <1>4. task[w] \in Deliveries /\ Busy(w)
    BY <1>1 DEF Inv, WorkerInv, Busy
  <1>5. \A v \in Workers : Busy(v)' <=> Busy(v)
    BY <1>1 DEF Inv, TypeOK, WorkersOK, Busy
  <1>6. \A v \in Workers : v # w => pc'[v] = pc[v] /\ result'[v] = result[v]
    BY <1>1, <1>2 DEF Inv, TypeOK, WorkersOK
  <1>7. CASE e = task[w]
    <2>1. accepted[e] = 0 /\ \A v \in Workers : Busy(v) /\ task[v] = e => v = w
      BY <1>1, <1>3, <1>4, <1>7 DEF AloneInv
    <2>2. Owns(w) \/ status[e] = "gone"
      BY <1>3, <1>4, <1>7 DEF AloneInv
    <2>3. CASE taken
      <3>1. r = "ok" /\ accepted'[e] = 1 /\ pc'[w] = "posted" /\ result'[w] = "ok"
        BY <1>1, <1>2, <1>4, <1>7, <2>1, <2>3 DEF Inv, TypeOK, QueuesOK, WorkersOK
      <3>2. status[e] \in {"sending", "gone"}
        BY <1>7, <2>2 DEF Owns
      <3> QED
        BY <1>1, <1>5, <1>7, <2>1, <2>2, <3>1, <3>2 DEF AloneInv, Owns
    <2>4. CASE ~taken
      <3>1. accepted'[e] = 0
        BY <1>2, <1>4, <1>7, <2>1, <2>4 DEF Inv, TypeOK, QueuesOK
      <3> QED
        BY <1>1, <1>5, <1>7, <2>1, <2>2, <3>1 DEF AloneInv, Owns
    <2> QED
      BY <2>3, <2>4
  <1>8. CASE e # task[w]
    <2>1. accepted'[e] = accepted[e]
      BY <1>2, <1>4, <1>8 DEF Inv, TypeOK, QueuesOK
    <2>2. \A v \in Workers : task[v] = e => v # w
      BY <1>8
    <2> QED
      BY <1>1, <1>3, <1>5, <1>6, <2>1, <2>2 DEF AloneInv, Owns
  <1> QED
    BY <1>7, <1>8

\* A worker ends: the message it posted is recorded as taken only if it was, and
\* a row it leaves open was not taken.
LEMMA EndTaskKeepsUnexcused ==
    ASSUME Inv, Unexcused, NEW w \in Workers, NEW d, Busy(w), task[w] = d, end_task(w),
           UNCHANGED <<locked_at, ghostVars>>,
           \/ UNCHANGED status
           \/ /\ Owns(w)
              /\ \/ status'[d] = "sent"
                 \/ status'[d] \in {"dead", "failed"} /\ result[w] # "ok"
              /\ \A e \in Deliveries \ {d} : status'[e] = status[e]
    PROVE  Unexcused'
  <1> SUFFICES ASSUME NEW e \in Deliveries, e \notin excused' PROVE AloneInv(e)'
    BY DEF Unexcused
  <1>1. AloneInv(e) /\ accepted' = accepted
    BY DEF Unexcused, ghostVars
  <1>2. \A v \in Workers : Busy(v)' =>
          /\ v # w /\ Busy(v) /\ task'[v] = task[v] /\ own_lock'[v] = own_lock[v]
          /\ pc'[v] = pc[v] /\ result'[v] = result[v]
    BY DEF Inv, TypeOK, WorkersOK, Busy, end_task
  <1>3. CASE UNCHANGED status \/ e # d
    <2>1. status'[e] = status[e]
      BY <1>3
    <2> QED
      BY <1>1, <1>2, <2>1 DEF AloneInv, Owns
  <1>4. CASE e = d /\ Owns(w) /\ (\/ status'[d] = "sent"
                                  \/ status'[d] \in {"dead", "failed"} /\ result[w] # "ok")
    <2>1. \A v \in Workers : Busy(v)' => task'[v] # e
      BY <1>1, <1>2, <1>4 DEF AloneInv
    <2>2. result[w] # "ok" => accepted[e] = 0
      BY <1>1, <1>4 DEF AloneInv
    <2> QED
      BY <1>1, <1>4, <2>1, <2>2 DEF AloneInv
  <1> QED
    BY <1>3, <1>4

\* Phase 3 closes a row that was taken, or leaves it open untaken.
LEMMA OutcomeKeepsUnexcused ==
    ASSUME Inv, Unexcused, NEW w \in Workers, dispatch_phase3(w)
    PROVE  Unexcused'
  <1> DEFINE d == task[w]
  <1>1. pc[w] = "posted" /\ Busy(w) /\ end_task(w) /\ UNCHANGED ghostVars
    BY DEF dispatch_phase3, Busy
  <1>2. d \in Deliveries
    BY <1>1 DEF Inv, WorkerInv
  <1>3. CASE UNCHANGED rowVars
    BY <1>1, <1>3, EndTaskKeepsUnexcused DEF rowVars
  <1>4. CASE Owns(w) /\ UNCHANGED locked_at /\ record_sent(d)
    <2>1. status'[d] = "sent" /\ \A e \in Deliveries \ {d} : status'[e] = status[e]
      BY <1>2, <1>4 DEF Inv, TypeOK, RowsOK, record_sent
    <2> QED
      BY <1>1, <1>4, <2>1, EndTaskKeepsUnexcused
  <1>5. CASE /\ Owns(w) /\ UNCHANGED locked_at /\ result[w] # "ok"
             /\ record_rejected(d) \/ \E delays \in SUBSET Nat : record_retry(w, d, delays)
    <2>1. status'[d] \in {"dead", "failed"} /\ \A e \in Deliveries \ {d} : status'[e] = status[e]
      BY <1>2, <1>5 DEF Inv, TypeOK, RowsOK, record_rejected, record_retry
    <2> QED
      BY <1>1, <1>5, <2>1, EndTaskKeepsUnexcused
  <1>6. calculate_retry_delay(attempts_so_far[w] + 1) \in SUBSET Nat
    BY DEF calculate_retry_delay
  <1> QED
    BY <1>3, <1>4, <1>5, <1>6 DEF dispatch_phase3

\* Every step keeps unexcused rows taken at most once.
LEMMA NextKeepsUnexcused == Inv /\ Unexcused /\ [Next]_vars => Unexcused'
  <1> SUFFICES ASSUME Inv, Unexcused, [Next]_vars PROVE Unexcused'
    OBVIOUS
  <1>1. CASE \/ UNCHANGED vars
             \/ Tick \/ change_secret_key \/ reconcile_select \/ reconcile_done \/ crash_reconcile
             \/ \E c \in Channels, enabled \in BOOLEAN : create_channel(c, enabled)
             \/ \E c \in Channels, enabled, new_url \in BOOLEAN :
                  update_channel(c, enabled, new_url)
             \/ \E d \in Deliveries : run_hook(d) \/ lose_message(d) \/ reconcile_enqueue(d)
    BY <1>1, FrameKeepsUnexcused
       DEF vars, rowVars, Tick, change_secret_key, reconcile_select, reconcile_done,
           crash_reconcile, create_channel, update_channel, run_hook, lose_message,
           reconcile_enqueue
  <1>2. ASSUME NEW rows, delete_rows(rows), UNCHANGED <<workerVars, ghostVars>>
        PROVE  Unexcused'
    BY <1>2, RowStepKeepsUnexcused DEF delete_rows, ghostVars
  <1>3. CASE \/ \E c \in Channels : delete_channel(c)
             \/ purge_deliveries
             \/ \E n \in Notifications : delete_notification(n)
    BY <1>2, <1>3 DEF delete_channel, purge_deliveries, delete_notification
  <1>4. ASSUME NEW n \in Notifications, NEW targets \in SUBSET Channels,
               create_deliveries_for_notification(n, targets)
        PROVE  Unexcused'
    <2>1. \A d \in {n} \X targets : status[d] = "none"
      BY <1>4 DEF create_deliveries_for_notification
    <2>2. \A d \in Deliveries :
            \/ status'[d] = status[d] /\ locked_at'[d] = locked_at[d]
            \/ status'[d] = "gone"
            \/ status[d] = "none" /\ status'[d] = "pending"
      BY <1>4, <2>1 DEF create_deliveries_for_notification
    <2> QED
      BY <1>4, <2>2, RowStepKeepsUnexcused DEF create_deliveries_for_notification, ghostVars
  <1>5. ASSUME NEW d \in Deliveries, retry_delivery(d) PROVE Unexcused'
    BY <1>5, RowStepKeepsUnexcused DEF retry_delivery, Inv, TypeOK, RowsOK
  <1>6. ASSUME reconcile_reclaim PROVE Unexcused'
    BY <1>6, RowStepKeepsUnexcused DEF reconcile_reclaim
  <1>7. ASSUME NEW w \in Workers, NEW d \in Deliveries, dispatch_phase1(w, d) PROVE Unexcused'
    <2>1. UNCHANGED ghostVars
      BY <1>7 DEF dispatch_phase1
    <2>2. CASE bury(d)
      BY <2>1, <2>2, RowStepKeepsUnexcused DEF bury, Claimable, Inv, TypeOK, RowsOK, ghostVars
    <2>3. CASE UNCHANGED <<rowVars, channel_error, workerVars>>
      BY <2>1, <2>3, FrameKeepsUnexcused DEF rowVars
    <2> QED
      BY <1>7, <2>2, <2>3, ClaimKeepsUnexcused DEF dispatch_phase1
  <1>8. ASSUME NEW w \in Workers, crash_worker(w) PROVE Unexcused'
    BY <1>8, EndTaskKeepsUnexcused DEF crash_worker, Busy, rowVars
  <1> QED
    BY <1>1, <1>3, <1>4, <1>5, <1>6, <1>7, <1>8, PostKeepsUnexcused, OutcomeKeepsUnexcused DEF Next

\* The webhook takes a delivery twice only after a reclaim, after an attempt that
\* failed although it was taken, or after a retry by hand.
THEOREM DuplicatesAreExcused == Spec => []NoSpuriousDuplicate
  <1>1. Spec => []Unexcused
    BY InitUnexcused, NextKeepsUnexcused, InvHolds, PTL DEF Spec
  <1>2. Unexcused => NoSpuriousDuplicate
    BY DEF Unexcused, AloneInv, NoSpuriousDuplicate
  <1> QED
    BY <1>1, <1>2, PTL

-----------------------------------------------------------------------------

\* Sent and dead rows are final: what follows from the ownership test of phase 3
\* and from the conditional UPDATE of the reclaim, step by step.
THEOREM OutcomesAreFinal == Spec => OutcomeIsFinal
  <1>1. Inv /\ [Next]_vars =>
          [\A d \in Deliveries :
             /\ status[d] = "sent" => status'[d] \in {"sent", "gone"}
             /\ status[d] = "dead" =>
                  \/ status'[d] \in {"dead", "gone"} /\ attempts'[d] \in {attempts[d], 0}
                  \/ status'[d] = "pending" /\ attempts'[d] = 0]_vars
    <2> SUFFICES ASSUME Inv, [Next]_vars, NEW d \in Deliveries
                 PROVE  /\ status[d] = "sent" => status'[d] \in {"sent", "gone"}
                        /\ status[d] = "dead" =>
                             \/ /\ status'[d] \in {"dead", "gone"}
                                /\ attempts'[d] \in {attempts[d], 0}
                             \/ status'[d] = "pending" /\ attempts'[d] = 0
      OBVIOUS
    <2>1. [Lifecycle!Next]_(Lifecycle!vars)
      BY NextRefines
    <2>2. status \in [Deliveries -> Statuses] /\ attempts \in [Deliveries -> 0 .. MaxAttempts]
      BY DEF Inv, TypeOK, RowsOK
    <2> QED
      BY <2>1, <2>2
         DEF Lifecycle!Next, Lifecycle!vars, Lifecycle!Create, Lifecycle!Take, Lifecycle!Bury,
             Lifecycle!Deliver, Lifecycle!Refuse, Lifecycle!Fail, Lifecycle!GiveUp,
             Lifecycle!Revive, Lifecycle!Remove
  <1> QED
    BY <1>1, InvHolds, PTL DEF Spec, OutcomeIsFinal
=============================================================================
