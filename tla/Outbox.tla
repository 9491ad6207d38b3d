------------------------------- MODULE Outbox -------------------------------
(***************************************************************************)
(* The delivery outbox of NotifyHub: the rows of table deliveries, the     *)
(* Celery broker that carries their ids, the workers that run              *)
(* dispatch_delivery in its three phases, the reconcile_deliveries job     *)
(* that is the delivery guarantee, and the operations of the API that      *)
(* create, retry and remove rows.                                          *)
(*                                                                         *)
(* Every transaction that holds the row lock from its first read to its    *)
(* commit is one step.  What the code does outside a transaction (the POST *)
(* to the webhook, the enqueue after a commit) is a step of its own, so    *)
(* that crashes and other actors fall between the two.                     *)
(***************************************************************************)
EXTENDS Integers, FiniteSets

CONSTANTS
    Notifications,   \* notifications that get routed to channels
    Channels,        \* delivery channels
    Workers,         \* Celery worker slots running dispatch_delivery
    MaxAttempts,     \* MAX_ATTEMPTS
    Backoff,         \* _BACKOFF_SCHEDULE_SECONDS, in ticks
    RetryAfters,     \* values parse_retry_after may return, in ticks
    StuckAfter,      \* the 10 minutes of reconcile_deliveries, in ticks
    SentRetention,   \* the 30 days of purge_deliveries, in ticks
    Horizon,         \* bound on the clock: at Horizon every retry is due
    FaultsUntil,     \* crashes and lost messages happen before this tick
    MaxMessages,     \* bound on the copies of one message in the broker
    NoDelivery       \* the task of an idle worker

ASSUME AttemptsAssumption ==
    /\ MaxAttempts \in Nat \ {0}
    /\ Backoff \in [1 .. MaxAttempts -> Nat \ {0}]
    /\ RetryAfters \subseteq Nat \ {0}
    /\ RetryAfters # {}

ASSUME TimeAssumption ==
    /\ StuckAfter \in Nat
    /\ SentRetention \in Nat
    /\ Horizon \in Nat
    /\ FaultsUntil \in Nat

ASSUME MessagesAssumption == MaxMessages \in Nat \ {0}

ASSUME NoDeliveryAssumption == NoDelivery \notin Notifications \X Channels

VARIABLES
    now,               \* the clock every process reads
    status,            \* deliveries.status, with "none" and "gone" for no row
    attempts,          \* deliveries.attempts
    next_attempt_at,   \* deliveries.next_attempt_at
    locked_at,         \* deliveries.locked_at, NoLock for NULL
    sent_at,           \* deliveries.sent_at, 0 until it is set
    last_error,        \* deliveries.last_error, reduced to its cause
    channel,           \* does the channel exist, and is it enabled
    readable,          \* can the channel's webhook_url be decrypted
    channel_error,     \* channels with a last_error
    hooks,             \* after_commit hooks that have yet to enqueue
    broker,            \* copies of the message of a delivery in the broker
    pc,                \* what each worker is doing
    task,              \* the delivery each worker is dispatching
    own_lock,          \* the locked_at the worker wrote in phase 1
    attempts_so_far,   \* the attempts the worker read in phase 1
    result,            \* the WebhookResult of phase 2
    job,               \* what reconcile_deliveries is doing
    job_now,           \* the `now` reconcile_deliveries started from
    due,               \* its ids of due rows
    stuck,             \* its ids of stuck rows, then of the reclaimed ones
    accepted,          \* posts the webhook endpoint really took, up to 2
    excused            \* deliveries for which a second post is legitimate

rowVars == <<status, attempts, next_attempt_at, locked_at, sent_at, last_error>>
channelVars == <<channel, readable, channel_error>>
workerVars == <<pc, task, own_lock, attempts_so_far, result>>
jobVars == <<job, job_now, due, stuck>>
ghostVars == <<accepted, excused>>
vars == <<now, rowVars, channelVars, hooks, broker, workerVars, jobVars, ghostVars>>

-----------------------------------------------------------------------------
\* UNIQUE (notification_id, channel_id): a delivery is identified by the pair.
Deliveries == Notifications \X Channels
ChannelOf(d) == d[2]
DeliveriesOf(n) == {d \in Deliveries : d[1] = n}
DeliveriesTo(c) == {d \in Deliveries : d[2] = c}

NoLock == -1
Statuses == {"none", "pending", "sending", "sent", "failed", "dead", "gone"}
Live == {"pending", "failed", "sending"}
Causes == {"none", "disabled", "decrypt", "limited", "rejected", "unreachable"}
Results == {"ok", "limited", "rejected", "unreachable"}

\* Crashes, lost messages and broker errors stop at some point of time.
Faulty == now < FaultsUntil

\* The clock is bounded: what falls beyond the horizon falls on it.
At(t) == IF t > Horizon THEN Horizon ELSE t

\* Delays between an attempt that failed and the next one: base plus at most
\* a fifth of it, 0 for a number out of the schedule.
calculate_retry_delay(n) ==
    IF n \in 1 .. MaxAttempts
    THEN Backoff[n] .. (Backoff[n] + Backoff[n] \div 5)
    ELSE {0}

\* enqueue_delivery, with the copies beyond the bound dropped.
enqueue_delivery(d) ==
    [broker EXCEPT ![d] = IF @ < MaxMessages THEN @ + 1 ELSE @]

Init ==
    /\ now = 0
    /\ status = [d \in Deliveries |-> "none"]
    /\ attempts = [d \in Deliveries |-> 0]
    /\ next_attempt_at = [d \in Deliveries |-> 0]
    /\ locked_at = [d \in Deliveries |-> NoLock]
    /\ sent_at = [d \in Deliveries |-> 0]
    /\ last_error = [d \in Deliveries |-> "none"]
    /\ channel = [c \in Channels |-> "none"]
    /\ readable = [c \in Channels |-> FALSE]
    /\ channel_error = {}
    /\ hooks = {}
    /\ broker = [d \in Deliveries |-> 0]
    /\ pc = [w \in Workers |-> "idle"]
    /\ task = [w \in Workers |-> NoDelivery]
    /\ own_lock = [w \in Workers |-> NoLock]
    /\ attempts_so_far = [w \in Workers |-> 0]
    /\ result = [w \in Workers |-> "ok"]
    /\ job = "idle"
    /\ job_now = 0
    /\ due = {}
    /\ stuck = {}
    /\ accepted = [d \in Deliveries |-> 0]
    /\ excused = {}

-----------------------------------------------------------------------------
\* The rows of a set are deleted.
delete_rows(rows) ==
    /\ status' = [d \in Deliveries |-> IF d \in rows THEN "gone" ELSE status[d]]
    /\ attempts' = [d \in Deliveries |-> IF d \in rows THEN 0 ELSE attempts[d]]
    /\ next_attempt_at' = [d \in Deliveries |-> IF d \in rows THEN 0 ELSE next_attempt_at[d]]
    /\ locked_at' = [d \in Deliveries |-> IF d \in rows THEN NoLock ELSE locked_at[d]]
    /\ sent_at' = [d \in Deliveries |-> IF d \in rows THEN 0 ELSE sent_at[d]]
    /\ last_error' = [d \in Deliveries |-> IF d \in rows THEN "none" ELSE last_error[d]]

(* The API's channel operations. *)

create_channel(c, enabled) ==
    /\ channel[c] = "none"
    /\ channel' = [channel EXCEPT ![c] = IF enabled THEN "on" ELSE "off"]
    /\ readable' = [readable EXCEPT ![c] = TRUE]
    /\ UNCHANGED <<now, rowVars, channel_error, hooks, broker, workerVars, jobVars, ghostVars>>

\* PATCH: enabled and webhook_url are optional, a new webhook_url is encrypted
\* with the current key.
update_channel(c, enabled, new_url) ==
    /\ channel[c] \in {"on", "off"}
    /\ channel' = [channel EXCEPT ![c] = IF enabled THEN "on" ELSE "off"]
    /\ readable' = [readable EXCEPT ![c] = @ \/ new_url]
    /\ UNCHANGED <<now, rowVars, channel_error, hooks, broker, workerVars, jobVars, ghostVars>>

\* The rows of the channel go first, in the same transaction.
delete_channel(c) ==
    /\ channel[c] \in {"on", "off"}
    /\ channel' = [channel EXCEPT ![c] = "gone"]
    /\ delete_rows(DeliveriesTo(c))
    /\ readable' = [readable EXCEPT ![c] = FALSE]
    /\ channel_error' = channel_error \ {c}
    /\ UNCHANGED <<now, hooks, broker, workerVars, jobVars, ghostVars>>

\* NOTIFYHUB_SECRET_KEY is replaced: there is no rotation, what was encrypted
\* with the old key cannot be decrypted any more.
change_secret_key ==
    /\ \E c \in Channels : readable[c]
    /\ readable' = [c \in Channels |-> FALSE]
    /\ UNCHANGED <<now, rowVars, channel, channel_error, hooks, broker, workerVars, jobVars,
                   ghostVars>>

-----------------------------------------------------------------------------
(* The rows: creation with the notification, retry by hand, removal. *)

\* Ingestion, or the surveillance job, commits the notification n with one
\* pending row for every target channel (all of them enabled) and leaves the
\* enqueue to the after_commit hook.
create_deliveries_for_notification(n, targets) ==
    /\ \A d \in DeliveriesOf(n) : status[d] \in {"none", "gone"}
    /\ \A c \in targets : channel[c] = "on" /\ status[<<n, c>>] = "none"
    /\ targets # {}
    /\ LET created == {n} \X targets IN
       /\ status' = [d \in Deliveries |->
                       IF d \in created THEN "pending"
                       ELSE IF d[1] = n THEN "gone" ELSE status[d]]
       /\ attempts' = [d \in Deliveries |-> IF d \in created THEN 0 ELSE attempts[d]]
       /\ next_attempt_at' = [d \in Deliveries |->
                                IF d \in created THEN now ELSE next_attempt_at[d]]
       /\ hooks' = hooks \cup created
    /\ UNCHANGED <<now, locked_at, sent_at, last_error, channelVars, broker, workerVars, jobVars,
                   ghostVars>>

\* dead -> pending, with a fresh budget of attempts.
retry_delivery(d) ==
    /\ status[d] = "dead"
    /\ status' = [status EXCEPT ![d] = "pending"]
    /\ attempts' = [attempts EXCEPT ![d] = 0]
    /\ last_error' = [last_error EXCEPT ![d] = "none"]
    /\ locked_at' = [locked_at EXCEPT ![d] = NoLock]
    /\ next_attempt_at' = [next_attempt_at EXCEPT ![d] = now]
    /\ hooks' = hooks \cup {d}
    /\ excused' = excused \cup {d}
    /\ UNCHANGED <<now, sent_at, channelVars, broker, workerVars, jobVars, accepted>>

\* Sent rows older than the retention are removed; dead ones stay.
purge_deliveries ==
    LET old == {d \in Deliveries : status[d] = "sent" /\ sent_at[d] < now - SentRetention} IN
    /\ old # {}
    /\ delete_rows(old)
    /\ UNCHANGED <<now, channelVars, hooks, broker, workerVars, jobVars, ghostVars>>

\* The notification is deleted, by its retention or by a user: ON DELETE CASCADE.
delete_notification(n) ==
    /\ \E d \in DeliveriesOf(n) : status[d] \notin {"none", "gone"}
    /\ delete_rows(DeliveriesOf(n))
    /\ UNCHANGED <<now, channelVars, hooks, broker, workerVars, jobVars, ghostVars>>

-----------------------------------------------------------------------------
(* The hook and the broker. *)

\* The hook enqueues; a broker error is swallowed, and a process that dies
\* between the commit and the hook enqueues nothing.
run_hook(d) ==
    /\ d \in hooks
    /\ hooks' = hooks \ {d}
    /\ \/ broker' = enqueue_delivery(d)
       \/ Faulty /\ broker' = broker
    /\ UNCHANGED <<now, rowVars, channelVars, workerVars, jobVars, ghostVars>>

\* A message is lost: by the broker, by a worker that dies in phase 1 (the
\* message is acknowledged before the task runs), or because another
\* transaction holds the row and SKIP LOCKED passes over it.
lose_message(d) ==
    /\ Faulty
    /\ broker[d] > 0
    /\ broker' = [broker EXCEPT ![d] = @ - 1]
    /\ UNCHANGED <<now, rowVars, channelVars, hooks, workerVars, jobVars, ghostVars>>

-----------------------------------------------------------------------------
(* dispatch_delivery. *)

\* Mistake: the WHERE of phase 1 takes a row that is being sent.
Claimable_sending(d) ==
    \/ status[d] \in {"pending", "sending"}
    \/ status[d] = "failed" /\ next_attempt_at[d] <= now

\* The WHERE of phase 1.
Claimable(d) ==
    \/ status[d] = "pending"
    \/ status[d] = "failed" /\ next_attempt_at[d] <= now

\* Phase 1, the row is claimed and locked_at says by whom.
claim(w, d) ==
    /\ Claimable(d)
    /\ channel[ChannelOf(d)] = "on"
    /\ readable[ChannelOf(d)]
    /\ status' = [status EXCEPT ![d] = "sending"]
    /\ locked_at' = [locked_at EXCEPT ![d] = now]
    /\ pc' = [pc EXCEPT ![w] = "claimed"]
    /\ task' = [task EXCEPT ![w] = d]
    /\ own_lock' = [own_lock EXCEPT ![w] = now]
    /\ attempts_so_far' = [attempts_so_far EXCEPT ![w] = attempts[d]]
    /\ UNCHANGED <<attempts, next_attempt_at, sent_at, last_error, channel_error, result>>

\* Phase 1, no attempt can succeed: the channel is disabled, or its webhook_url
\* cannot be decrypted, which is also written on the channel.
bury(d) ==
    /\ Claimable(d)
    /\ status' = [status EXCEPT ![d] = "dead"]
    /\ \/ /\ channel[ChannelOf(d)] # "on"
          /\ last_error' = [last_error EXCEPT ![d] = "disabled"]
          /\ UNCHANGED channel_error
       \/ /\ channel[ChannelOf(d)] = "on"
          /\ ~readable[ChannelOf(d)]
          /\ last_error' = [last_error EXCEPT ![d] = "decrypt"]
          /\ channel_error' = channel_error \cup {ChannelOf(d)}
    /\ UNCHANGED <<attempts, next_attempt_at, locked_at, sent_at, workerVars>>

\* Phase 1: a worker takes a message of d.
dispatch_phase1(w, d) ==
    /\ pc[w] = "idle"
    /\ broker[d] > 0
    /\ broker' = [broker EXCEPT ![d] = @ - 1]
    /\ \/ claim(w, d)
       \/ bury(d)
       \/ ~Claimable(d) /\ UNCHANGED <<rowVars, channel_error, workerVars>>
    /\ UNCHANGED <<now, channel, readable, hooks, jobVars, ghostVars>>

\* Phase 2: the POST, outside any transaction.  The endpoint takes the message
\* and says so, or refuses it, or (a timeout, a 5xx) fails, and then it may
\* have taken it all the same.
send_webhook_sync(w) ==
    /\ pc[w] = "claimed"
    /\ pc' = [pc EXCEPT ![w] = "posted"]
    /\ \E r \in Results, taken \in BOOLEAN :
         /\ r = "ok" => taken
         /\ r \in {"limited", "rejected"} => ~taken
         /\ result' = [result EXCEPT ![w] = r]
         /\ accepted' = [accepted EXCEPT ![task[w]] =
                           IF taken /\ @ < 2 THEN @ + 1 ELSE @]
         /\ excused' = IF taken /\ r # "ok" THEN excused \cup {task[w]} ELSE excused
    /\ UNCHANGED <<now, rowVars, channelVars, hooks, broker, task, own_lock, attempts_so_far,
                   jobVars>>

\* Mistake: phase 3 tests the status and not who locked the row.
Owns_if_sending(w) == status[task[w]] = "sending"

\* The test of phase 3: the row is still the one this worker locked.
Owns(w) ==
    /\ status[task[w]] = "sending"
    /\ locked_at[task[w]] = own_lock[w]

\* Mistake: the outcome is written to last_error on success too.
record_sent_with_error(d) ==
    /\ status' = [status EXCEPT ![d] = "sent"]
    /\ sent_at' = [sent_at EXCEPT ![d] = now]
    /\ last_error' = [last_error EXCEPT ![d] = "ok"]
    /\ UNCHANGED <<attempts, next_attempt_at, channel_error>>

\* Phase 3 when the webhook took the message.
record_sent(d) ==
    /\ status' = [status EXCEPT ![d] = "sent"]
    /\ sent_at' = [sent_at EXCEPT ![d] = now]
    /\ last_error' = [last_error EXCEPT ![d] = "none"]
    /\ UNCHANGED <<attempts, next_attempt_at, channel_error>>

\* Phase 3 when an attempt failed and may be repeated after a delay.
record_retry(w, d, delays) ==
    LET n == attempts_so_far[w] + 1 IN
    /\ attempts' = [attempts EXCEPT ![d] = n]
    /\ last_error' = [last_error EXCEPT ![d] = result[w]]
    /\ \/ /\ n >= MaxAttempts
          /\ status' = [status EXCEPT ![d] = "dead"]
          /\ UNCHANGED next_attempt_at
       \/ /\ n < MaxAttempts
          /\ status' = [status EXCEPT ![d] = "failed"]
          /\ \E delay \in delays :
               next_attempt_at' = [next_attempt_at EXCEPT ![d] = At(now + delay)]
    /\ UNCHANGED sent_at

\* Phase 3 on a 4xx: dead at once, the attempt is not counted.
record_rejected(d) ==
    /\ status' = [status EXCEPT ![d] = "dead"]
    /\ last_error' = [last_error EXCEPT ![d] = "rejected"]
    /\ channel_error' = channel_error \cup {ChannelOf(d)}
    /\ UNCHANGED <<attempts, next_attempt_at, sent_at>>

\* The task ends, and with it the worker's local variables.
end_task(w) ==
    /\ pc' = [pc EXCEPT ![w] = "idle"]
    /\ task' = [task EXCEPT ![w] = NoDelivery]
    /\ own_lock' = [own_lock EXCEPT ![w] = NoLock]
    /\ attempts_so_far' = [attempts_so_far EXCEPT ![w] = 0]
    /\ result' = [result EXCEPT ![w] = "ok"]

\* Phase 3: the outcome is written, or discarded when the row changed hands.
dispatch_phase3(w) ==
    LET d == task[w] IN
    /\ pc[w] = "posted"
    /\ end_task(w)
    /\ \/ /\ ~Owns(w)
          /\ UNCHANGED <<rowVars, channel_error>>
       \/ /\ Owns(w)
          /\ \/ result[w] = "ok" /\ record_sent(d)
             \/ /\ result[w] = "limited"
                /\ record_retry(w, d, RetryAfters)
                /\ UNCHANGED channel_error
             \/ result[w] = "rejected" /\ record_rejected(d)
             \/ /\ result[w] = "unreachable"
                /\ record_retry(w, d, calculate_retry_delay(attempts_so_far[w] + 1))
                /\ channel_error' = channel_error \cup {ChannelOf(d)}
          /\ UNCHANGED locked_at
    /\ UNCHANGED <<now, channel, readable, hooks, broker, jobVars, ghostVars>>

\* The worker is killed while the row is `sending`.
crash_worker(w) ==
    /\ Faulty
    /\ pc[w] # "idle"
    /\ end_task(w)
    /\ UNCHANGED <<now, rowVars, channelVars, hooks, broker, jobVars, ghostVars>>

-----------------------------------------------------------------------------
(* reconcile_deliveries. *)

\* Mistake: rows of disabled channels are left out of the due ones, so that the
\* ones whose first message was lost stay pending for ever.
reconcile_select_enabled_only ==
    /\ job = "idle"
    /\ job' = "selected"
    /\ job_now' = now
    /\ due' = {d \in Deliveries :
                 /\ status[d] \in {"pending", "failed"}
                 /\ next_attempt_at[d] <= now
                 /\ channel[ChannelOf(d)] = "on"}
    /\ stuck' = {d \in Deliveries :
                   status[d] = "sending" /\ locked_at[d] < now - StuckAfter}
    /\ UNCHANGED <<now, rowVars, channelVars, hooks, broker, workerVars, ghostVars>>

\* The two SELECTs, against the `now` the job took at its start.
reconcile_select ==
    /\ job = "idle"
    /\ job' = "selected"
    /\ job_now' = now
    /\ due' = {d \in Deliveries :
                 status[d] \in {"pending", "failed"} /\ next_attempt_at[d] <= now}
    /\ stuck' = {d \in Deliveries :
                   status[d] = "sending" /\ locked_at[d] < now - StuckAfter}
    /\ UNCHANGED <<now, rowVars, channelVars, hooks, broker, workerVars, ghostVars>>

\* Mistake: the UPDATE trusts the SELECT and does not look at locked_at again.
Reclaimable_unchecked(d) ==
    /\ d \in stuck
    /\ status[d] = "sending"

\* The WHERE of the conditional UPDATE, evaluated on the row as it is now.
Reclaimable(d) ==
    /\ d \in stuck
    /\ status[d] = "sending"
    /\ locked_at[d] < job_now - StuckAfter

reconcile_reclaim ==
    LET reclaimed == {d \in Deliveries : Reclaimable(d)} IN
    /\ job = "selected"
    /\ job' = "enqueue"
    /\ status' = [d \in Deliveries |-> IF d \in reclaimed THEN "failed" ELSE status[d]]
    /\ locked_at' = [d \in Deliveries |-> IF d \in reclaimed THEN NoLock ELSE locked_at[d]]
    /\ stuck' = reclaimed
    /\ excused' = excused \cup reclaimed
    /\ UNCHANGED <<now, attempts, next_attempt_at, sent_at, last_error, channelVars, hooks,
                   broker, workerVars, job_now, due, accepted>>

\* After the commit, one enqueue per id; a broker error is swallowed.
reconcile_enqueue(d) ==
    /\ job = "enqueue"
    /\ d \in due \cup stuck
    /\ due' = due \ {d}
    /\ stuck' = stuck \ {d}
    /\ \/ broker' = enqueue_delivery(d)
       \/ Faulty /\ broker' = broker
    /\ UNCHANGED <<now, rowVars, channelVars, hooks, workerVars, job, job_now, ghostVars>>

reconcile_done ==
    /\ job = "enqueue"
    /\ due \cup stuck = {}
    /\ job' = "idle"
    /\ job_now' = 0
    /\ UNCHANGED <<now, rowVars, channelVars, hooks, broker, workerVars, due, stuck, ghostVars>>

\* The job's process dies: before the commit nothing happened, after it the
\* ids that were not enqueued are forgotten.
crash_reconcile ==
    /\ Faulty
    /\ job # "idle"
    /\ job' = "idle"
    /\ due' = {}
    /\ stuck' = {}
    /\ job_now' = 0
    /\ UNCHANGED <<now, rowVars, channelVars, hooks, broker, workerVars, ghostVars>>

-----------------------------------------------------------------------------
Tick ==
    /\ now < Horizon
    /\ now' = now + 1
    /\ UNCHANGED <<rowVars, channelVars, hooks, broker, workerVars, jobVars, ghostVars>>

Next ==
    \/ \E c \in Channels, enabled \in BOOLEAN : create_channel(c, enabled)
    \/ \E c \in Channels, enabled, new_url \in BOOLEAN : update_channel(c, enabled, new_url)
    \/ \E c \in Channels : delete_channel(c)
    \/ change_secret_key
    \/ \E n \in Notifications, targets \in SUBSET Channels :
         create_deliveries_for_notification(n, targets)
    \/ \E d \in Deliveries : retry_delivery(d)
    \/ purge_deliveries
    \/ \E n \in Notifications : delete_notification(n)
    \/ \E d \in Deliveries : run_hook(d)
    \/ \E d \in Deliveries : lose_message(d)
    \/ \E w \in Workers, d \in Deliveries : dispatch_phase1(w, d)
    \/ \E w \in Workers : send_webhook_sync(w)
    \/ \E w \in Workers : dispatch_phase3(w)
    \/ \E w \in Workers : crash_worker(w)
    \/ reconcile_select
    \/ reconcile_reclaim
    \/ \E d \in Deliveries : reconcile_enqueue(d)
    \/ reconcile_done
    \/ crash_reconcile
    \/ Tick

Spec == Init /\ [][Next]_vars

\* What the deployment schedules: the processes that are not killed go on, the
\* broker is a FIFO and hands out every message, Beat starts reconcile_deliveries
\* again and again, and time passes.  Nothing is assumed of users or of faults.
Fairness ==
    /\ WF_vars(Tick)
    /\ \A d \in Deliveries : WF_vars(run_hook(d))
    /\ \A d \in Deliveries : SF_vars(\E w \in Workers : dispatch_phase1(w, d))
    /\ \A w \in Workers : WF_vars(send_webhook_sync(w)) /\ WF_vars(dispatch_phase3(w))
    /\ WF_vars(reconcile_select) /\ WF_vars(reconcile_reclaim) /\ WF_vars(reconcile_done)
    /\ \A d \in Deliveries : WF_vars(reconcile_enqueue(d))

FairSpec == Spec /\ Fairness

-----------------------------------------------------------------------------
(* Properties. *)

RowsOK ==
    /\ status \in [Deliveries -> Statuses]
    /\ attempts \in [Deliveries -> 0 .. MaxAttempts]
    /\ next_attempt_at \in [Deliveries -> 0 .. Horizon]
    /\ locked_at \in [Deliveries -> -1 .. Horizon]
    /\ sent_at \in [Deliveries -> 0 .. Horizon]
    /\ last_error \in [Deliveries -> Causes]

ChannelsOK ==
    /\ channel \in [Channels -> {"none", "on", "off", "gone"}]
    /\ readable \in [Channels -> BOOLEAN]
    /\ channel_error \subseteq Channels

QueuesOK ==
    /\ now \in 0 .. Horizon
    /\ hooks \subseteq Deliveries
    /\ broker \in [Deliveries -> 0 .. MaxMessages]
    /\ accepted \in [Deliveries -> 0 .. 2]
    /\ excused \subseteq Deliveries

WorkersOK ==
    /\ pc \in [Workers -> {"idle", "claimed", "posted"}]
    /\ task \in [Workers -> Deliveries \cup {NoDelivery}]
    /\ own_lock \in [Workers -> -1 .. Horizon]
    /\ attempts_so_far \in [Workers -> 0 .. MaxAttempts]
    /\ result \in [Workers -> Results]

JobOK ==
    /\ job \in {"idle", "selected", "enqueue"}
    /\ job_now \in 0 .. Horizon
    /\ due \subseteq Deliveries
    /\ stuck \subseteq Deliveries

\* Type invariant of the outbox: the rows, the channels, the queues, the workers
\* and the reconcile job hold values of the types of their columns and variables.
TypeOK == RowsOK /\ ChannelsOK /\ QueuesOK /\ WorkersOK /\ JobOK

Busy(w) == pc[w] # "idle"

\* The comparison of locked_at in phase 3 identifies one worker: two workers in
\* flight for the same row, one of them reclaimed by reconcile_deliveries, never
\* both pass it, whatever the interleaving of claims, reclaims and retries.
SoleOwner ==
    \A v, w \in Workers :
        Busy(v) /\ Busy(w) /\ task[v] = task[w] /\ Owns(v) /\ Owns(w) => v = w

\* A row that can still be sent has attempts left: the counter read in phase 1
\* and written back in phase 3 loses no update and never runs past MAX_ATTEMPTS.
AttemptsLeft ==
    \A d \in Deliveries : status[d] \in Live => attempts[d] < MaxAttempts

\* A row is never being sent before its backoff or Retry-After has passed, even
\* though reconcile_deliveries and the hooks put duplicate messages in the broker.
BackoffRespected ==
    \A d \in Deliveries : status[d] = "sending" => next_attempt_at[d] <= locked_at[d]

\* The webhook takes a delivery twice only where at-least-once delivery must allow
\* it: after a reclaim, after an attempt that failed although it was taken, or
\* after a retry by hand.  Duplicate messages and concurrent workers never do it.
NoSpuriousDuplicate ==
    \A d \in Deliveries : accepted[d] > 1 => d \in excused

\* An outcome is final: sent and dead rows are never overwritten by a stale worker
\* or by reconcile; a dead row comes back only through retry_delivery, with no
\* attempts used.
OutcomeIsFinal ==
    [][\A d \in Deliveries :
         /\ status[d] = "sent" => status'[d] \in {"sent", "gone"}
         /\ status[d] = "dead" =>
              \/ status'[d] \in {"dead", "gone"} /\ attempts'[d] \in {attempts[d], 0}
              \/ status'[d] = "pending" /\ attempts'[d] = 0]_vars

\* Once faults stop, every delivery reaches an outcome (or its row is removed):
\* lost messages, dead workers and disabled channels strand no row.
EveryDeliverySettles ==
    \A d \in Deliveries : status[d] \in Live ~> status[d] \in {"sent", "dead", "gone"}

-----------------------------------------------------------------------------
Lifecycle == INSTANCE DeliveryLifecycle WITH Rows <- Deliveries

\* The outbox implements the state machine of a delivery: whatever the workers,
\* the broker and reconcile_deliveries do, a row takes only the transitions of
\* the lifecycle, and every failed attempt that is written is counted once.
ImplementsLifecycle == Lifecycle!Spec
=============================================================================
