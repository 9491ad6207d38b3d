---------------------------- MODULE Surveillance ----------------------------
(***************************************************************************)
(* The dead man's switch: receivers under an expected schedule, the sends  *)
(* that are their heartbeat, the PATCHes that turn the surveillance on and *)
(* off, and the check_expected_schedules job, which writes one alarm per   *)
(* absence and arms itself again when a send comes back.                   *)
(*                                                                         *)
(* A send takes received_at in one step and commits in another; a PATCH    *)
(* reads the receiver without a lock and later writes the columns it       *)
(* changed; a run of the job takes `now` once and then opens one           *)
(* transaction per tenant.                                                 *)
(***************************************************************************)
EXTENDS Integers, FiniteSets

CONSTANTS
    Receivers,      \* receivers
    Tenants,        \* active tenants
    TenantOf,       \* the tenant of each receiver
    Policies,       \* expected schedules: every or cron, and grace
    NoPolicy,       \* missing_severity IS NULL
    NoEdit,         \* a PATCH that has read nothing
    Sends,          \* ingestions, each of them happens once
    Editors,        \* concurrent PATCHes
    Runs,           \* concurrent runs of check_expected_schedules
    MaxEdits,       \* bound on the PATCHes
    MaxFaults,      \* bound on the transactions and runs of the job that fail
    Horizon         \* bound on the clock

\* A policy is an interval, or (every = 0) the instants a cron fires at.
ASSUME PoliciesAssumption ==
    /\ NoPolicy \notin Policies
    /\ \A p \in Policies : p.every \in Nat /\ p.cron \subseteq Nat /\ p.grace \in Nat
ASSUME TenantsAssumption == TenantOf \in [Receivers -> Tenants]
ASSUME BoundsAssumption == MaxEdits \in Nat /\ MaxFaults \in Nat /\ Horizon \in Nat

VARIABLES
    clock,
    active,                 \* receivers.status = active
    policy,                 \* expected_*, missing_severity
    expected_since,         \* since when the surveillance watches
    missing_alerted_at,     \* the instant of the open alarm
    last_notification_at,   \* the last send but for start pings
    last_start_at,          \* the last start ping
    send,                   \* where each send is: idle, received, committed
    send_to,                \* its receiver
    is_start,               \* is it a start ping
    received_at,            \* its received_at
    edit,                   \* what each PATCH read, or NoEdit
    edits,                  \* PATCHes so far
    run,                    \* is each run of the job under way
    job_now,                \* its `now`
    to_check,               \* tenants it has yet to check
    faults,                 \* failures of the job so far
    last_alarm,             \* the last alarm since the watch was last restarted
    owed                    \* receivers that had a send under an open alarm

receiverVars == <<active, policy, expected_since, missing_alerted_at>>
heartbeatVars == <<last_notification_at, last_start_at>>
sendVars == <<send, send_to, is_start, received_at>>
editVars == <<edit, edits>>
jobVars == <<run, job_now, to_check, faults>>
ghostVars == <<last_alarm, owed>>
vars == <<clock, receiverVars, heartbeatVars, sendVars, editVars, jobVars, ghostVars>>

-----------------------------------------------------------------------------
Null == -1
Instants == 0 .. Horizon
MaybeInstants == Null .. Horizon
MaybePolicies == Policies \cup {NoPolicy}

\* What a PATCH knows of its receiver.
Edits == [receiver : Receivers, at : Instants, active : BOOLEAN, policy : MaybePolicies,
          expected_since : MaybeInstants, missing_alerted_at : MaybeInstants]
ASSUME NoEditAssumption == NoEdit \notin Edits

\* SQL's GREATEST, which ignores NULL.
greatest(s, t) == IF s > t THEN s ELSE t

\* The first occurrence of the cron after an instant; InvalidScheduleError when
\* there is none, or when the cron or its timezone cannot be read.
Computable(p, t) == p.every > 0 \/ \E f \in p.cron : f > t
next_fire_after(p, t) ==
    CHOOSE f \in p.cron : f > t /\ \A g \in p.cron : g > t => f <= g

\* The instant after which silence is an alarm, counted from the reference.
alert_deadline(p, reference) ==
    (IF p.every > 0 THEN reference + p.every ELSE next_fire_after(p, reference)) + p.grace

reference_instant(r) == greatest(last_notification_at[r], expected_since[r])

\* The SELECT of the job.
Watched(r) == active[r] /\ policy[r] # NoPolicy

\* Receivers start as create_receiver writes them.
Init ==
    /\ clock = 0
    /\ active = [r \in Receivers |-> TRUE]
    /\ policy \in [Receivers -> MaybePolicies]
    /\ expected_since = [r \in Receivers |-> IF policy[r] = NoPolicy THEN Null ELSE 0]
    /\ missing_alerted_at = [r \in Receivers |-> Null]
    /\ last_notification_at = [r \in Receivers |-> Null]
    /\ last_start_at = [r \in Receivers |-> Null]
    /\ send = [s \in Sends |-> "idle"]
    /\ send_to \in [Sends -> Receivers]
    /\ is_start \in [Sends -> BOOLEAN]
    /\ received_at = [s \in Sends |-> 0]
    /\ edit = [e \in Editors |-> NoEdit]
    /\ edits = 0
    /\ run = [j \in Runs |-> "idle"]
    /\ job_now = [j \in Runs |-> 0]
    /\ to_check = [j \in Runs |-> {}]
    /\ faults = 0
    /\ last_alarm = [r \in Receivers |-> Null]
    /\ owed = {}

-----------------------------------------------------------------------------
(* Ingestion. *)

\* Mistake: the instant is the sender's, whose clock may run ahead.
receive_sender_clock(s) ==
    /\ send[s] = "idle"
    /\ active[send_to[s]]
    /\ send' = [send EXCEPT ![s] = "received"]
    /\ \E ahead \in 0 .. 1 : received_at' = [received_at EXCEPT ![s] = clock + ahead]
    /\ UNCHANGED <<clock, receiverVars, heartbeatVars, send_to, is_start, editVars, jobVars,
                   ghostVars>>

\* An active receiver takes the send, and received_at is read from the clock.
receive(s) ==
    /\ send[s] = "idle"
    /\ active[send_to[s]]
    /\ send' = [send EXCEPT ![s] = "received"]
    /\ received_at' = [received_at EXCEPT ![s] = clock]
    /\ UNCHANGED <<clock, receiverVars, heartbeatVars, send_to, is_start, editVars, jobVars,
                   ghostVars>>

\* Mistake: the heartbeat is written as it is, and may go back.
heartbeat_overwrites(s) ==
    LET r == send_to[s] IN
    IF is_start[s]
    THEN /\ last_start_at' = [last_start_at EXCEPT ![r] = received_at[s]]
         /\ UNCHANGED last_notification_at
    ELSE /\ last_notification_at' = [last_notification_at EXCEPT ![r] = received_at[s]]
         /\ UNCHANGED last_start_at

\* The UPDATE of the receiver that goes with the insert of the notification: a
\* start ping has an instant of its own.
heartbeat(s) ==
    LET r == send_to[s] IN
    IF is_start[s]
    THEN /\ last_start_at' = [last_start_at EXCEPT ![r] = greatest(@, received_at[s])]
         /\ UNCHANGED last_notification_at
    ELSE /\ last_notification_at' =
              [last_notification_at EXCEPT ![r] = greatest(@, received_at[s])]
         /\ UNCHANGED last_start_at

\* The rest of persist_notification and the commit: one step, since from the
\* insert on the row of the receiver is locked.
persist_notification(s) ==
    LET r == send_to[s] IN
    /\ send[s] = "received"
    /\ send' = [send EXCEPT ![s] = "committed"]
    /\ heartbeat(s)
    /\ owed' = IF ~is_start[s] /\ missing_alerted_at[r] \notin {Null, received_at[s]}
               THEN owed \cup {r} ELSE owed
    /\ UNCHANGED <<clock, receiverVars, send_to, is_start, received_at, editVars, jobVars,
                   last_alarm>>

-----------------------------------------------------------------------------
(* PATCH of a receiver. *)

\* The receiver is read, without a lock.
read_receiver(e, r) ==
    /\ edit[e] = NoEdit
    /\ edits < MaxEdits
    /\ edits' = edits + 1
    /\ edit' = [edit EXCEPT ![e] =
                  [receiver |-> r, at |-> clock, active |-> active[r], policy |-> policy[r],
                   expected_since |-> expected_since[r],
                   missing_alerted_at |-> missing_alerted_at[r]]]
    /\ UNCHANGED <<clock, receiverVars, heartbeatVars, sendVars, jobVars, ghostVars>>

\* Only the columns whose value differs from the one read are in the UPDATE.
write(column, r, read, new) == [column EXCEPT ![r] = IF new = read THEN @ ELSE new]

\* Mistake: activating a disabled receiver does not restart the watch.
Restarts_ignores_status(x, new_active, new_policy) ==
    new_policy # NoPolicy /\ x.policy = NoPolicy

\* The watch starts again: the surveillance is turned on, or the receiver is.
Restarts(x, new_active, new_policy) ==
    /\ new_policy # NoPolicy
    /\ x.policy = NoPolicy \/ (~x.active /\ new_active)

\* The fields of the body are applied to what was read, and written: the status,
\* and the policy if the body has it.  `now` is read some time between the two.
update_receiver(e, new_active, has_policy, new_policy, now) ==
    LET x == edit[e]
        r == x.receiver
        restarts == Restarts(x, new_active, new_policy)
        clears == restarts \/ (has_policy /\ new_policy = NoPolicy)
    IN
    /\ edit[e] # NoEdit
    /\ has_policy \/ new_policy = x.policy
    /\ now \in x.at .. clock
    /\ active' = write(active, r, x.active, new_active)
    /\ policy' = write(policy, r, x.policy, new_policy)
    /\ expected_since' = write(expected_since, r, x.expected_since,
                           IF restarts THEN now ELSE IF clears THEN Null ELSE x.expected_since)
    /\ missing_alerted_at' = write(missing_alerted_at, r, x.missing_alerted_at,
                               IF clears THEN Null ELSE x.missing_alerted_at)
    /\ edit' = [edit EXCEPT ![e] = NoEdit]
    /\ last_alarm' = IF clears THEN [last_alarm EXCEPT ![r] = Null] ELSE last_alarm
    /\ owed' = IF clears THEN owed \ {r} ELSE owed
    /\ UNCHANGED <<clock, heartbeatVars, sendVars, edits, jobVars>>

-----------------------------------------------------------------------------
(* check_expected_schedules. *)

start_run(j) ==
    /\ run[j] = "idle"
    /\ run' = [run EXCEPT ![j] = "running"]
    /\ job_now' = [job_now EXCEPT ![j] = clock]
    /\ to_check' = [to_check EXCEPT ![j] = Tenants]
    /\ UNCHANGED <<clock, receiverVars, heartbeatVars, sendVars, editVars, faults, ghostVars>>

\* A send or a PATCH may hold the row of the receiver: SKIP LOCKED passes over it.
Contended(r) ==
    \/ \E s \in Sends : send[s] = "received" /\ send_to[s] = r
    \/ \E e \in Editors : edit[e] # NoEdit /\ edit[e].receiver = r

\* A true send came after the alarm.
Returned(r) == missing_alerted_at[r] # Null /\ last_notification_at[r] > missing_alerted_at[r]

\* Mistake: an absence that was reported is reported again.
Missing_again(r, now) ==
    /\ reference_instant(r) # Null
    /\ Computable(policy[r], reference_instant(r))
    /\ now > alert_deadline(policy[r], reference_instant(r))

\* An absence nobody reported yet.
Missing(r, now) ==
    /\ missing_alerted_at[r] = Null
    /\ reference_instant(r) # Null
    /\ Computable(policy[r], reference_instant(r))
    /\ now > alert_deadline(policy[r], reference_instant(r))

\* The receivers that get a `recovered` notification.
recovered_among(seen) == {r \in seen : Returned(r)}

\* Mistake: one schedule that cannot be computed ends the transaction.
missing_among_aborts(seen, now) ==
    IF \E r \in seen : ~Computable(policy[r], reference_instant(r)) THEN {}
    ELSE {r \in seen : ~Returned(r) /\ Missing(r, now)}

\* The receivers that get a `missing` notification: return is looked at before
\* absence, and a schedule that cannot be computed concerns its receiver only.
missing_among(seen, now) == {r \in seen : ~Returned(r) /\ Missing(r, now)}

\* The transaction of one tenant: the receivers it locks, the ones that came back,
\* the ones that are missing.  The notifications it writes are not sends.
check_tenant(j, t) ==
    /\ t \in to_check[j]
    /\ to_check' = [to_check EXCEPT ![j] = @ \ {t}]
    /\ \E skipped \in SUBSET {r \in Receivers : Contended(r)} :
         LET seen == {r \in Receivers : TenantOf[r] = t /\ Watched(r)} \ skipped
             recovered == recovered_among(seen)
             missing == missing_among(seen, job_now[j])
         IN /\ missing_alerted_at' = [r \in Receivers |->
                 IF r \in recovered THEN Null
                 ELSE IF r \in missing THEN job_now[j] ELSE missing_alerted_at[r]]
            /\ last_alarm' = [r \in Receivers |->
                 IF r \in missing THEN job_now[j] ELSE last_alarm[r]]
            /\ owed' = owed \ recovered
    /\ UNCHANGED <<clock, active, policy, expected_since, heartbeatVars, sendVars, editVars, run,
                   job_now, faults>>

\* The transaction of a tenant fails and is rolled back; the run goes on.
tenant_failed(j, t) ==
    /\ t \in to_check[j]
    /\ to_check' = [to_check EXCEPT ![j] = @ \ {t}]
    /\ faults < MaxFaults
    /\ faults' = faults + 1
    /\ UNCHANGED <<clock, receiverVars, heartbeatVars, sendVars, editVars, run, job_now, ghostVars>>

end_run(j) ==
    /\ run' = [run EXCEPT ![j] = "idle"]
    /\ job_now' = [job_now EXCEPT ![j] = 0]
    /\ to_check' = [to_check EXCEPT ![j] = {}]
    /\ UNCHANGED <<clock, receiverVars, heartbeatVars, sendVars, editVars, ghostVars>>

run_done(j) ==
    /\ run[j] = "running"
    /\ to_check[j] = {}
    /\ end_run(j)
    /\ UNCHANGED faults

\* The worker dies: what it committed stays.
run_crash(j) ==
    /\ run[j] = "running"
    /\ end_run(j)
    /\ faults < MaxFaults
    /\ faults' = faults + 1

-----------------------------------------------------------------------------
Tick ==
    /\ clock < Horizon
    /\ clock' = clock + 1
    /\ UNCHANGED <<receiverVars, heartbeatVars, sendVars, editVars, jobVars, ghostVars>>

RunStep(j) == start_run(j) \/ (\E t \in Tenants : check_tenant(j, t)) \/ run_done(j)

EditStep(e) ==
    \E new_active, has_policy \in BOOLEAN, new_policy \in MaybePolicies, now \in Instants :
        update_receiver(e, new_active, has_policy, new_policy, now)

Next ==
    \/ \E s \in Sends : receive(s)
    \/ \E s \in Sends : persist_notification(s)
    \/ \E e \in Editors, r \in Receivers : read_receiver(e, r)
    \/ \E e \in Editors : EditStep(e)
    \/ \E j \in Runs : RunStep(j)
    \/ \E j \in Runs, t \in Tenants : tenant_failed(j, t)
    \/ \E j \in Runs : run_crash(j)
    \/ Tick

Spec == Init /\ [][Next]_vars

\* Beat starts the job again and again, requests that were received end, and time
\* passes.  Nothing is assumed of senders and users.
Fairness ==
    /\ WF_vars(Tick)
    /\ \A j \in Runs : WF_vars(RunStep(j))
    /\ \A s \in Sends : WF_vars(persist_notification(s))
    /\ \A e \in Editors : WF_vars(EditStep(e))

FairSpec == Spec /\ Fairness

-----------------------------------------------------------------------------
(* Properties. *)

\* Type invariant of receivers, sends, PATCHes and runs of the job.
TypeOK ==
    /\ clock \in Instants
    /\ active \in [Receivers -> BOOLEAN]
    /\ policy \in [Receivers -> MaybePolicies]
    /\ expected_since \in [Receivers -> MaybeInstants]
    /\ missing_alerted_at \in [Receivers -> MaybeInstants]
    /\ last_notification_at \in [Receivers -> MaybeInstants]
    /\ last_start_at \in [Receivers -> MaybeInstants]
    /\ send \in [Sends -> {"idle", "received", "committed"}]
    /\ send_to \in [Sends -> Receivers]
    /\ is_start \in [Sends -> BOOLEAN]
    /\ received_at \in [Sends -> Instants]
    /\ edit \in [Editors -> Edits \cup {NoEdit}]
    /\ edits \in 0 .. MaxEdits
    /\ run \in [Runs -> {"idle", "running"}]
    /\ job_now \in [Runs -> Instants]
    /\ to_check \in [Runs -> SUBSET Tenants]
    /\ faults \in 0 .. MaxFaults
    /\ last_alarm \in [Receivers -> MaybeInstants]
    /\ owed \subseteq Receivers

Heard(r, started) == {s \in Sends : /\ send[s] = "committed"
                                    /\ send_to[s] = r
                                    /\ is_start[s] = started}

IsLatest(t, sends) ==
    /\ \A s \in sends : received_at[s] <= t
    /\ t # Null => \E s \in sends : received_at[s] = t

\* The heartbeats of a receiver are those of its latest send and of its latest start
\* ping, in whatever order the ingestions committed.
HeartbeatIsLatest ==
    \A r \in Receivers :
        /\ IsLatest(last_notification_at[r], Heard(r, FALSE))
        /\ IsLatest(last_start_at[r], Heard(r, TRUE))

Alarmed(r) == missing_alerted_at'[r] \notin {Null, missing_alerted_at[r]}

\* One alarm per absence: from an alarm to the next one of the same watch there was
\* a true send later than the first, whatever runs of the job overlap.
OneAlarmPerAbsence ==
    [][\A r \in Receivers : Alarmed(r) =>
         \/ last_alarm[r] = Null
         \/ \E s \in Heard(r, FALSE) : received_at[s] > last_alarm[r]]_vars

\* The row is still as a PATCH has read it.
AsRead(e) ==
    LET x == edit[e]
        r == x.receiver
    IN  /\ active[r] = x.active /\ policy[r] = x.policy
        /\ expected_since[r] = x.expected_since /\ missing_alerted_at[r] = x.missing_alerted_at

\* The PATCH that turns the surveillance on, or the receiver, starts a whole window
\* without an open alarm: the silence before it is no absence.  Only one that another
\* PATCH of the receiver has overtaken may not: it writes no column that it has read
\* with the new value.
WatchStartsFresh ==
    [][\A r \in Receivers : Watched(r)' /\ ~Watched(r) =>
         \E e \in Editors :
             /\ edit[e] # NoEdit /\ edit'[e] = NoEdit /\ edit[e].receiver = r
             /\ AsRead(e) => /\ missing_alerted_at'[r] = Null
                             /\ expected_since'[r] >= edit[e].at]_vars

\* An absence is reported whatever happens to other receivers, to other tenants and to
\* single runs of the job, and so is the return of a receiver whose absence was, which
\* arms it again: neither lasts.
Overdue(r) == Watched(r) /\ Missing(r, clock)

AbsencesAndReturnsAreReported ==
    \A r \in Receivers :
        /\ Overdue(r) ~> ~Overdue(r)
        /\ Watched(r) /\ Returned(r) ~> ~(Watched(r) /\ Returned(r))

\* What notifyhub-spec says of missing_alerted_at, "riarmata al primo invio vero":
\* a send that commits while the alarm is open closes it.
SendRearms == \A r \in Receivers : r \in owed /\ Watched(r) ~> ~(r \in owed /\ Watched(r))
=============================================================================
