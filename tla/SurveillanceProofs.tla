------------------------- MODULE SurveillanceProofs -------------------------
(***************************************************************************)
(* Theorems about the dead man's switch, for every number of receivers,    *)
(* tenants, sends, PATCHes and overlapping runs of the job.                *)
(***************************************************************************)
EXTENDS Surveillance, TLAPS

USE BoundsAssumption, TenantsAssumption, NoEditAssumption DEF Null, Instants, MaybeInstants

\* The row of the receiver and the alarms written so far: an open alarm is the last
\* one, and one that was closed within a watch was closed by a later send.
AlarmsLinked ==
    \A r \in Receivers : last_alarm[r] # Null =>
        \/ missing_alerted_at[r] = last_alarm[r]
        \/ /\ missing_alerted_at[r] = Null
           /\ \E s \in Heard(r, FALSE) : received_at[s] > last_alarm[r]

-----------------------------------------------------------------------------
(* Types. *)

\* A PATCH that was read has the fields of Edits.
LEMMA EditFields ==
    ASSUME TypeOK, NEW e \in Editors, edit[e] # NoEdit
    PROVE  /\ edit[e].receiver \in Receivers
           /\ edit[e].at \in Instants
           /\ edit[e].active \in BOOLEAN
           /\ edit[e].policy \in MaybePolicies
           /\ edit[e].expected_since \in MaybeInstants
           /\ edit[e].missing_alerted_at \in MaybeInstants
  <1>1. edit[e] \in Edits
    BY DEF TypeOK
  <1> QED
    BY <1>1 DEF Edits

\* The types hold at the start.
LEMMA InitTypes == Init => TypeOK
  BY DEF Init, TypeOK, MaybePolicies

\* A send keeps the types.
LEMMA SendKeepsTypes ==
    ASSUME TypeOK, NEW s \in Sends, receive(s) \/ persist_notification(s)
    PROVE  TypeOK'
  <1>1. CASE receive(s)
    BY <1>1 DEF TypeOK, receive, receiverVars, heartbeatVars, editVars, jobVars, ghostVars
  <1>2. CASE persist_notification(s)
    <2>1. send_to[s] \in Receivers /\ received_at[s] \in Instants
      BY DEF TypeOK
    <2>2. last_start_at' \in [Receivers -> MaybeInstants]
      BY <1>2, <2>1 DEF TypeOK, persist_notification, heartbeat, greatest
    <2>3. last_notification_at' \in [Receivers -> MaybeInstants]
      BY <1>2, <2>1 DEF TypeOK, persist_notification, heartbeat, greatest
    <2>4. owed' \subseteq Receivers
      BY <1>2, <2>1 DEF TypeOK, persist_notification
    <2>5. send' \in [Sends -> {"idle", "received", "committed"}]
      BY <1>2 DEF TypeOK, persist_notification
    <2> QED
      BY <1>2, <2>2, <2>3, <2>4, <2>5
      DEF TypeOK, persist_notification, receiverVars, editVars, jobVars
  <1> QED
    BY <1>1, <1>2

\* A PATCH keeps the types.
LEMMA PatchKeepsTypes ==
    ASSUME TypeOK, NEW e \in Editors,
           \/ \E r \in Receivers : read_receiver(e, r)
           \/ EditStep(e)
    PROVE  TypeOK'
  <1>1. ASSUME NEW r \in Receivers, read_receiver(e, r)
        PROVE  TypeOK'
    <2> DEFINE x == [receiver |-> r, at |-> clock, active |-> active[r], policy |-> policy[r],
                     expected_since |-> expected_since[r],
                     missing_alerted_at |-> missing_alerted_at[r]]
    <2>1. x \in Edits
      BY DEF TypeOK, Edits
    <2> HIDE DEF x
    <2>2. edit' = [edit EXCEPT ![e] = x]
      BY <1>1 DEF read_receiver, x
    <2>3. edit' \in [Editors -> Edits \cup {NoEdit}]
      BY <2>1, <2>2 DEF TypeOK
    <2>4. edits' \in 0 .. MaxEdits
      BY <1>1 DEF TypeOK, read_receiver
    <2> QED
      BY <1>1, <2>3, <2>4 DEF TypeOK, read_receiver, receiverVars, heartbeatVars, sendVars, jobVars,
                              ghostVars
  <1>2. ASSUME NEW new_active \in BOOLEAN, NEW has_policy \in BOOLEAN,
               NEW new_policy \in MaybePolicies, NEW now \in Instants,
               update_receiver(e, new_active, has_policy, new_policy, now)
        PROVE  TypeOK'
    <2>1. edit[e] # NoEdit
      BY <1>2 DEF update_receiver
    <2> USE EditFields, <2>1
    <2>2. active' \in [Receivers -> BOOLEAN]
      BY <1>2 DEF TypeOK, update_receiver, write
    <2>3. policy' \in [Receivers -> MaybePolicies]
      BY <1>2 DEF TypeOK, update_receiver, write
    <2>4. expected_since' \in [Receivers -> MaybeInstants]
      BY <1>2 DEF TypeOK, update_receiver, write
    <2>5. missing_alerted_at' \in [Receivers -> MaybeInstants]
      BY <1>2 DEF TypeOK, update_receiver, write
    <2>6. edit' \in [Editors -> Edits \cup {NoEdit}]
      BY <1>2 DEF TypeOK, update_receiver
    <2>7. last_alarm' \in [Receivers -> MaybeInstants] /\ owed' \subseteq Receivers
      BY <1>2 DEF TypeOK, update_receiver
    <2> QED
      BY <1>2, <2>2, <2>3, <2>4, <2>5, <2>6, <2>7
      DEF TypeOK, update_receiver, heartbeatVars, sendVars, jobVars
  <1> QED
    BY <1>1, <1>2 DEF EditStep

\* A run of the job keeps the types.
LEMMA JobKeepsTypes ==
    ASSUME TypeOK, NEW j \in Runs,
           \/ RunStep(j)
           \/ \E t \in Tenants : tenant_failed(j, t)
           \/ run_crash(j)
    PROVE  TypeOK'
  <1>1. CASE start_run(j)
    BY <1>1 DEF TypeOK, start_run, receiverVars, heartbeatVars, sendVars, editVars, ghostVars
  <1>2. ASSUME NEW t \in Tenants, check_tenant(j, t)
        PROVE  TypeOK'
    <2>1. job_now[j] \in Instants
      BY DEF TypeOK
    <2>2. missing_alerted_at' \in [Receivers -> MaybeInstants]
      BY <1>2, <2>1 DEF TypeOK, check_tenant
    <2>3. last_alarm' \in [Receivers -> MaybeInstants]
      BY <1>2, <2>1 DEF TypeOK, check_tenant
    <2>4. owed' \subseteq Receivers /\ to_check' \in [Runs -> SUBSET Tenants]
      BY <1>2 DEF TypeOK, check_tenant
    <2> QED
      BY <1>2, <2>2, <2>3, <2>4 DEF TypeOK, check_tenant, heartbeatVars, sendVars, editVars
  <1>3. CASE run_done(j)
    BY <1>3 DEF TypeOK, run_done, end_run, receiverVars, heartbeatVars, sendVars, editVars,
                ghostVars
  <1>4. ASSUME NEW t \in Tenants, tenant_failed(j, t)
        PROVE  TypeOK'
    BY <1>4 DEF TypeOK, tenant_failed, receiverVars, heartbeatVars, sendVars, editVars, ghostVars
  <1>5. CASE run_crash(j)
    BY <1>5 DEF TypeOK, run_crash, end_run, receiverVars, heartbeatVars, sendVars, editVars,
                ghostVars
  <1> QED
    BY <1>1, <1>2, <1>3, <1>4, <1>5 DEF RunStep

\* Every step keeps the types.
LEMMA NextKeepsTypes == TypeOK /\ [Next]_vars => TypeOK'
  <1> SUFFICES ASSUME TypeOK, [Next]_vars PROVE TypeOK'
    OBVIOUS
  <1>1. CASE UNCHANGED vars
    BY <1>1 DEF TypeOK, vars, receiverVars, heartbeatVars, sendVars, editVars, jobVars, ghostVars
  <1>2. CASE Tick
    BY <1>2 DEF TypeOK, Tick, receiverVars, heartbeatVars, sendVars, editVars, jobVars, ghostVars
  <1> QED
    BY <1>1, <1>2, SendKeepsTypes, PatchKeepsTypes, JobKeepsTypes DEF Next

\* Type correctness of receivers, sends, PATCHes and runs.
THEOREM SurveillanceTypes == Spec => []TypeOK
  <1>1. Init => TypeOK
    BY InitTypes
  <1>2. TypeOK /\ [Next]_vars => TypeOK'
    BY NextKeepsTypes
  <1> QED
    BY <1>1, <1>2, PTL DEF Spec

-----------------------------------------------------------------------------
(* The heartbeat. *)

\* What the heartbeats depend on.
heardVars == <<heartbeatVars, sendVars>>

\* A step that leaves sends and heartbeats alone keeps the invariant.
LEMMA UntouchedHeartbeats ==
    HeartbeatIsLatest /\ UNCHANGED heardVars => HeartbeatIsLatest'
  BY DEF HeartbeatIsLatest, IsLatest, Heard, heardVars, heartbeatVars, sendVars

\* GREATEST: adding one send to a set of which t is the latest.
LEMMA GreatestIsLatest ==
    ASSUME TypeOK, NEW S \in SUBSET Sends, NEW s \in Sends, NEW t \in MaybeInstants,
           IsLatest(t, S)
    PROVE  IsLatest(greatest(t, received_at[s]), S \cup {s})
  BY DEF TypeOK, IsLatest, greatest

\* The commit of a send keeps the heartbeats up to date.
LEMMA CommitKeepsHeartbeat ==
    ASSUME TypeOK, HeartbeatIsLatest, NEW s \in Sends, persist_notification(s)
    PROVE  HeartbeatIsLatest'
  <1> SUFFICES ASSUME NEW r \in Receivers
               PROVE  /\ IsLatest(last_notification_at[r], Heard(r, FALSE))'
                      /\ IsLatest(last_start_at[r], Heard(r, TRUE))'
    BY DEF HeartbeatIsLatest
  <1>1. send_to' = send_to /\ is_start' = is_start /\ received_at' = received_at
    BY DEF persist_notification
  <1>2. send[s] = "received" /\ send' = [send EXCEPT ![s] = "committed"]
    BY DEF persist_notification
  <1>3. ASSUME NEW b \in BOOLEAN
        PROVE  Heard(r, b)' = IF send_to[s] = r /\ is_start[s] = b
                              THEN Heard(r, b) \cup {s} ELSE Heard(r, b)
    BY <1>1, <1>2 DEF TypeOK, Heard
  <1>4. Heard(r, FALSE) \in SUBSET Sends /\ Heard(r, TRUE) \in SUBSET Sends
    BY DEF Heard
  <1>5. /\ IsLatest(last_notification_at[r], Heard(r, FALSE))
        /\ IsLatest(last_start_at[r], Heard(r, TRUE))
    BY DEF HeartbeatIsLatest
  <1>6. last_notification_at[r] \in MaybeInstants /\ last_start_at[r] \in MaybeInstants
    BY DEF TypeOK
  <1>7. is_start[s] \in BOOLEAN
    BY DEF TypeOK
  <1>8. CASE send_to[s] = r /\ is_start[s]
    <2>1. last_start_at'[r] = greatest(last_start_at[r], received_at[s])
      BY <1>8 DEF TypeOK, persist_notification, heartbeat
    <2>2. last_notification_at'[r] = last_notification_at[r]
      BY <1>8 DEF persist_notification, heartbeat
    <2>3. Heard(r, TRUE)' = Heard(r, TRUE) \cup {s} /\ Heard(r, FALSE)' = Heard(r, FALSE)
      BY <1>3, <1>8
    <2>4. IsLatest(greatest(last_start_at[r], received_at[s]), Heard(r, TRUE) \cup {s})
      BY <1>4, <1>5, <1>6, GreatestIsLatest
    <2> QED
      BY <1>1, <1>5, <2>1, <2>2, <2>3, <2>4 DEF IsLatest
  <1>9. CASE send_to[s] = r /\ ~is_start[s]
    <2>1. last_notification_at'[r] = greatest(last_notification_at[r], received_at[s])
      BY <1>9 DEF TypeOK, persist_notification, heartbeat
    <2>2. last_start_at'[r] = last_start_at[r]
      BY <1>9 DEF persist_notification, heartbeat
    <2>3. Heard(r, FALSE)' = Heard(r, FALSE) \cup {s} /\ Heard(r, TRUE)' = Heard(r, TRUE)
      BY <1>3, <1>7, <1>9
    <2>4. IsLatest(greatest(last_notification_at[r], received_at[s]), Heard(r, FALSE) \cup {s})
      BY <1>4, <1>5, <1>6, GreatestIsLatest
    <2> QED
      BY <1>1, <1>5, <2>1, <2>2, <2>3, <2>4 DEF IsLatest
  <1>10. CASE send_to[s] # r
    <2>1. last_notification_at'[r] = last_notification_at[r]
      BY <1>10 DEF TypeOK, persist_notification, heartbeat
    <2>2. last_start_at'[r] = last_start_at[r]
      BY <1>10 DEF TypeOK, persist_notification, heartbeat
    <2>3. Heard(r, FALSE)' = Heard(r, FALSE) /\ Heard(r, TRUE)' = Heard(r, TRUE)
      BY <1>3, <1>10
    <2> QED
      BY <1>1, <1>5, <2>1, <2>2, <2>3 DEF IsLatest
  <1> QED
    BY <1>8, <1>9, <1>10

\* The receipt of a send, which is not committed yet, changes no heartbeat.
LEMMA ReceiveKeepsHeartbeat ==
    ASSUME TypeOK, HeartbeatIsLatest, NEW s \in Sends, receive(s)
    PROVE  HeartbeatIsLatest'
  <1>1. ASSUME NEW r \in Receivers, NEW b \in BOOLEAN
        PROVE  Heard(r, b)' = Heard(r, b) /\ s \notin Heard(r, b)
    BY DEF TypeOK, Heard, receive
  <1>2. \A q \in Sends : q # s => received_at'[q] = received_at[q]
    BY DEF TypeOK, receive
  <1>3. last_notification_at' = last_notification_at /\ last_start_at' = last_start_at
    BY DEF receive, heartbeatVars
  <1>4. ASSUME NEW r \in Receivers, NEW b \in BOOLEAN
        PROVE  Heard(r, b) \subseteq Sends
    BY DEF Heard
  <1> QED
    BY <1>1, <1>2, <1>3, <1>4 DEF HeartbeatIsLatest, IsLatest

\* The heartbeats are those of the latest sends.
THEOREM HeartbeatsAreLatest == Spec => []HeartbeatIsLatest
  <1>1. Init => HeartbeatIsLatest
    BY DEF Init, HeartbeatIsLatest, IsLatest, Heard
  <1>2. TypeOK /\ HeartbeatIsLatest /\ [Next]_vars => HeartbeatIsLatest'
    <2> SUFFICES ASSUME TypeOK, HeartbeatIsLatest, [Next]_vars PROVE HeartbeatIsLatest'
      OBVIOUS
    <2>1. CASE \E e \in Editors : EditStep(e) \/ \E r \in Receivers : read_receiver(e, r)
      BY <2>1, UntouchedHeartbeats DEF EditStep, update_receiver, read_receiver, heardVars
    <2>2. CASE \E j \in Runs : \/ RunStep(j) \/ run_crash(j)
                               \/ \E t \in Tenants : tenant_failed(j, t)
      BY <2>2, UntouchedHeartbeats DEF RunStep, start_run, check_tenant, run_done, run_crash,
                                       end_run, tenant_failed, heardVars
    <2>3. CASE Tick \/ UNCHANGED vars
      BY <2>3, UntouchedHeartbeats DEF Tick, vars, heardVars
    <2> QED
      BY <2>1, <2>2, <2>3, CommitKeepsHeartbeat, ReceiveKeepsHeartbeat DEF Next
  <1> QED
    BY <1>1, <1>2, SurveillanceTypes, PTL DEF Spec

-----------------------------------------------------------------------------
(* One alarm per absence. *)

\* A step that leaves the alarms alone and forgets no send keeps them linked.
LEMMA UntouchedAlarms ==
    ASSUME AlarmsLinked, UNCHANGED <<missing_alerted_at, last_alarm>>,
           \A r \in Receivers : \A s \in Heard(r, FALSE) :
               s \in Heard(r, FALSE)' /\ received_at'[s] = received_at[s]
    PROVE  AlarmsLinked'
  <1> SUFFICES ASSUME NEW r \in Receivers, last_alarm'[r] # Null
               PROVE  \/ missing_alerted_at'[r] = last_alarm'[r]
                      \/ /\ missing_alerted_at'[r] = Null
                         /\ \E s \in Heard(r, FALSE)' : received_at'[s] > last_alarm'[r]
    BY DEF AlarmsLinked
  <1> QED
    BY DEF AlarmsLinked

\* Sends keep the alarms linked.
LEMMA SendKeepsAlarms ==
    ASSUME TypeOK, AlarmsLinked, NEW s \in Sends, receive(s) \/ persist_notification(s)
    PROVE  AlarmsLinked'
  <1>1. UNCHANGED <<missing_alerted_at, last_alarm>>
    BY DEF receive, persist_notification, receiverVars, ghostVars
  <1>2. ASSUME NEW r \in Receivers, NEW q \in Heard(r, FALSE)
        PROVE  q \in Heard(r, FALSE)' /\ received_at'[q] = received_at[q]
    BY DEF TypeOK, Heard, receive, persist_notification
  <1> QED
    BY <1>1, <1>2, UntouchedAlarms

\* A PATCH keeps the alarms linked: where it closes an alarm it restarts the watch.
LEMMA PatchKeepsAlarms ==
    ASSUME TypeOK, AlarmsLinked, NEW e \in Editors, EditStep(e)
    PROVE  AlarmsLinked'
  <1> PICK new_active \in BOOLEAN, has_policy \in BOOLEAN, new_policy \in MaybePolicies,
           now \in Instants : update_receiver(e, new_active, has_policy, new_policy, now)
    BY DEF EditStep
  <1> DEFINE x == edit[e]
             clears == \/ Restarts(x, new_active, new_policy)
                       \/ has_policy /\ new_policy = NoPolicy
  <1>1. edit[e] # NoEdit
    BY DEF update_receiver
  <1>2. x.receiver \in Receivers
    BY <1>1, EditFields
  <1>3. \A r \in Receivers : Heard(r, FALSE)' = Heard(r, FALSE)
    BY DEF update_receiver, sendVars, Heard
  <1>4. received_at' = received_at
    BY DEF update_receiver, sendVars
  <1>5. CASE ~clears
    <2>1. last_alarm' = last_alarm /\ missing_alerted_at' = missing_alerted_at
      BY <1>5, <1>2 DEF TypeOK, update_receiver, write
    <2> QED
      BY <1>3, <1>4, <2>1, UntouchedAlarms
  <1>6. CASE clears
    <2>1. last_alarm' = [last_alarm EXCEPT ![x.receiver] = Null]
      BY <1>6 DEF update_receiver
    <2>2. \A r \in Receivers : r # x.receiver => missing_alerted_at'[r] = missing_alerted_at[r]
      BY <1>2 DEF TypeOK, update_receiver, write
    <2>3. \A r \in Receivers : last_alarm'[r] # Null =>
            r # x.receiver /\ last_alarm'[r] = last_alarm[r]
      BY <2>1, <1>2 DEF TypeOK
    <2> SUFFICES ASSUME NEW r \in Receivers, last_alarm'[r] # Null
                 PROVE  \/ missing_alerted_at'[r] = last_alarm'[r]
                        \/ /\ missing_alerted_at'[r] = Null
                           /\ \E s \in Heard(r, FALSE)' : received_at'[s] > last_alarm'[r]
      BY DEF AlarmsLinked
    <2>4. last_alarm'[r] = last_alarm[r] /\ missing_alerted_at'[r] = missing_alerted_at[r]
      BY <2>2, <2>3
    <2>5. UNCHANGED <<send, send_to, is_start, received_at>>
      BY DEF update_receiver, sendVars
    <2> QED
      BY <2>4, <2>5 DEF AlarmsLinked, Heard
  <1> QED
    BY <1>5, <1>6

\* A transaction of the job keeps the alarms linked, and writes an alarm only where
\* the last one was closed by a later send.
LEMMA CheckKeepsAlarms ==
    ASSUME TypeOK, HeartbeatIsLatest, AlarmsLinked, NEW j \in Runs, NEW t \in Tenants,
           check_tenant(j, t)
    PROVE  /\ AlarmsLinked'
           /\ \A r \in Receivers : Alarmed(r) =>
                \/ last_alarm[r] = Null
                \/ \E s \in Heard(r, FALSE) : received_at[s] > last_alarm[r]
  <1> PICK recovered \in SUBSET Receivers, missing \in SUBSET Receivers :
        /\ \A r \in recovered : Returned(r)
        /\ \A r \in missing : Missing(r, job_now[j]) /\ ~Returned(r)
        /\ missing_alerted_at' = [r \in Receivers |->
             IF r \in recovered THEN Null
             ELSE IF r \in missing THEN job_now[j] ELSE missing_alerted_at[r]]
        /\ last_alarm' = [r \in Receivers |-> IF r \in missing THEN job_now[j] ELSE last_alarm[r]]
    <2> PICK skipped \in SUBSET {r \in Receivers : Contended(r)} :
          LET seen == {r \in Receivers : TenantOf[r] = t /\ Watched(r)} \ skipped
              recovered == recovered_among(seen)
              missing == missing_among(seen, job_now[j])
          IN /\ missing_alerted_at' = [r \in Receivers |->
                  IF r \in recovered THEN Null
                  ELSE IF r \in missing THEN job_now[j] ELSE missing_alerted_at[r]]
             /\ last_alarm' = [r \in Receivers |->
                  IF r \in missing THEN job_now[j] ELSE last_alarm[r]]
      BY ONLY check_tenant(j, t) DEF check_tenant
    <2> DEFINE seen == {r \in Receivers : TenantOf[r] = t /\ Watched(r)} \ skipped
               recovered == recovered_among(seen)
               missing == missing_among(seen, job_now[j])
    <2>1. recovered \in SUBSET Receivers /\ missing \in SUBSET Receivers
      BY DEF recovered_among, missing_among
    <2>2. \A r \in recovered : Returned(r)
      BY DEF recovered_among
    <2>3. \A r \in missing : Missing(r, job_now[j]) /\ ~Returned(r)
      BY DEF missing_among
    <2>4. /\ missing_alerted_at' = [r \in Receivers |->
               IF r \in recovered THEN Null
               ELSE IF r \in missing THEN job_now[j] ELSE missing_alerted_at[r]]
          /\ last_alarm' = [r \in Receivers |->
               IF r \in missing THEN job_now[j] ELSE last_alarm[r]]
      OBVIOUS
    <2> HIDE DEF seen, recovered, missing
    <2> QED
      BY <2>1, <2>2, <2>3, <2>4
  <1>1. UNCHANGED <<send, send_to, is_start, received_at>>
    BY DEF check_tenant, sendVars
  <1> SUFFICES ASSUME NEW r \in Receivers
               PROVE  /\ last_alarm'[r] # Null =>
                           \/ missing_alerted_at'[r] = last_alarm'[r]
                           \/ /\ missing_alerted_at'[r] = Null
                              /\ \E s \in Heard(r, FALSE) : received_at[s] > last_alarm'[r]
                      /\ Alarmed(r) =>
                           \/ last_alarm[r] = Null
                           \/ \E s \in Heard(r, FALSE) : received_at[s] > last_alarm[r]
    BY <1>1 DEF AlarmsLinked, Heard
  <1>3. last_alarm[r] # Null =>
          \/ missing_alerted_at[r] = last_alarm[r]
          \/ /\ missing_alerted_at[r] = Null
             /\ \E s \in Heard(r, FALSE) : received_at[s] > last_alarm[r]
    BY DEF AlarmsLinked
  <1>4. CASE r \in recovered
    <2>1. missing_alerted_at[r] # Null /\ last_notification_at[r] > missing_alerted_at[r]
      BY <1>4 DEF Returned
    <2>2. last_notification_at[r] # Null
      BY <2>1 DEF TypeOK
    <2>3. \E s \in Heard(r, FALSE) : received_at[s] = last_notification_at[r]
      BY <2>2 DEF HeartbeatIsLatest, IsLatest
    <2>4. r \notin missing
      BY <1>4
    <2>5. missing_alerted_at'[r] = Null /\ last_alarm'[r] = last_alarm[r]
      BY <1>4, <2>4
    <2> QED
      BY <1>3, <2>1, <2>3, <2>5 DEF Alarmed
  <1>5. CASE r \in missing
    <2>1. missing_alerted_at[r] = Null
      BY <1>5 DEF Missing
    <2>2. missing_alerted_at'[r] = job_now[j] /\ last_alarm'[r] = job_now[j]
      BY <1>5
    <2> QED
      BY <1>3, <2>1, <2>2
  <1>6. CASE r \notin recovered /\ r \notin missing
    <2>1. missing_alerted_at'[r] = missing_alerted_at[r] /\ last_alarm'[r] = last_alarm[r]
      BY <1>6
    <2> QED
      BY <1>3, <2>1 DEF Alarmed
  <1> QED
    BY <1>4, <1>5, <1>6

\* Only the job writes an alarm.
LEMMA OnlyTheJobAlarms ==
    ASSUME TypeOK, [Next]_vars, NEW r \in Receivers, Alarmed(r)
    PROVE  \E j \in Runs, t \in Tenants : check_tenant(j, t)
  <1>1. ASSUME NEW e \in Editors, EditStep(e)
        PROVE  FALSE
    <2> PICK new_active \in BOOLEAN, has_policy \in BOOLEAN, new_policy \in MaybePolicies,
             now \in Instants : update_receiver(e, new_active, has_policy, new_policy, now)
      BY <1>1 DEF EditStep
    <2>1. edit[e] # NoEdit
      BY DEF update_receiver
    <2>2. edit[e].receiver \in Receivers
      BY <2>1, EditFields
    <2>3. missing_alerted_at'[r] \in {Null, missing_alerted_at[r]}
      BY <2>2 DEF TypeOK, update_receiver, write
    <2> QED
      BY <2>3 DEF Alarmed
  <1>2. ASSUME UNCHANGED missing_alerted_at
        PROVE  FALSE
    BY <1>2 DEF Alarmed
  <1> QED
    BY <1>1, <1>2 DEF Next, vars, receiverVars, receive, persist_notification, read_receiver,
                      RunStep, start_run, run_done, run_crash, end_run, tenant_failed, Tick

\* The alarms stay linked.
LEMMA AlarmsStayLinked == Spec => []AlarmsLinked
  <1>1. Init => AlarmsLinked
    BY DEF Init, AlarmsLinked
  <1>2. TypeOK /\ HeartbeatIsLatest /\ AlarmsLinked /\ [Next]_vars => AlarmsLinked'
    <2> SUFFICES ASSUME TypeOK, HeartbeatIsLatest, AlarmsLinked, [Next]_vars PROVE AlarmsLinked'
      OBVIOUS
    <2>1. ASSUME UNCHANGED <<missing_alerted_at, last_alarm, sendVars>>
          PROVE  AlarmsLinked'
      BY <2>1, UntouchedAlarms DEF sendVars, Heard
    <2>2. CASE \E e \in Editors, r \in Receivers : read_receiver(e, r)
      BY <2>1, <2>2 DEF read_receiver, receiverVars, ghostVars
    <2>3. CASE \E j \in Runs : \/ start_run(j) \/ run_done(j) \/ run_crash(j)
                               \/ \E t \in Tenants : tenant_failed(j, t)
      BY <2>1, <2>3 DEF start_run, run_done, run_crash, end_run, tenant_failed, receiverVars,
                        ghostVars
    <2>4. CASE Tick \/ UNCHANGED vars
      BY <2>1, <2>4 DEF Tick, vars, receiverVars, ghostVars
    <2> QED
      BY <2>2, <2>3, <2>4, SendKeepsAlarms, PatchKeepsAlarms, CheckKeepsAlarms DEF Next, RunStep
  <1> QED
    BY <1>1, <1>2, SurveillanceTypes, HeartbeatsAreLatest, PTL DEF Spec

\* One alarm per absence, for any number of overlapping runs of the job.
THEOREM AlarmsAreOnePerAbsence == Spec => OneAlarmPerAbsence
  <1>1. TypeOK /\ HeartbeatIsLatest /\ AlarmsLinked /\ [Next]_vars =>
          [\A r \in Receivers : Alarmed(r) =>
             \/ last_alarm[r] = Null
             \/ \E s \in Heard(r, FALSE) : received_at[s] > last_alarm[r]]_vars
    BY OnlyTheJobAlarms, CheckKeepsAlarms
  <1> QED
    BY <1>1, SurveillanceTypes, HeartbeatsAreLatest, AlarmsStayLinked, PTL
    DEF Spec, OneAlarmPerAbsence

-----------------------------------------------------------------------------
(* A new watch. *)

\* Only a PATCH of the receiver begins a watch.
LEMMA OnlyPatchesBegin ==
    ASSUME TypeOK, [Next]_vars, NEW r \in Receivers, Watched(r)', ~Watched(r)
    PROVE  \E e \in Editors : EditStep(e) /\ edit[e].receiver = r
  <1>1. ASSUME UNCHANGED <<active, policy>>
        PROVE  FALSE
    BY <1>1 DEF Watched
  <1>2. ASSUME NEW e \in Editors, EditStep(e), edit[e].receiver # r
        PROVE  FALSE
    <2>1. active'[r] = active[r] /\ policy'[r] = policy[r]
      BY <1>2 DEF TypeOK, EditStep, update_receiver, write
    <2> QED
      BY <2>1 DEF Watched
  <1> QED
    BY <1>1, <1>2 DEF Next, vars, receiverVars, receive, persist_notification, read_receiver,
                      RunStep, start_run, check_tenant, run_done, run_crash, end_run, tenant_failed,
                      Tick

\* A PATCH that nobody has overtaken begins a watch with a whole window and no open alarm.
LEMMA PatchBeginsFresh ==
    ASSUME TypeOK, NEW e \in Editors, EditStep(e), NEW r \in Receivers, edit[e].receiver = r,
           Watched(r)', ~Watched(r), AsRead(e)
    PROVE  missing_alerted_at'[r] = Null /\ expected_since'[r] >= edit[e].at
  <1> PICK new_active \in BOOLEAN, has_policy \in BOOLEAN, new_policy \in MaybePolicies,
           now \in Instants : update_receiver(e, new_active, has_policy, new_policy, now)
    BY DEF EditStep
  <1> DEFINE x == edit[e]
  <1>1. x.at \in Instants /\ now >= x.at
    BY EditFields DEF update_receiver, TypeOK
  <1>2. /\ active'[r] = (IF new_active = x.active THEN active[r] ELSE new_active)
        /\ policy'[r] = IF new_policy = x.policy THEN policy[r] ELSE new_policy
    BY DEF TypeOK, update_receiver, write
  <1>3. /\ active[r] = x.active /\ policy[r] = x.policy
        /\ expected_since[r] = x.expected_since /\ missing_alerted_at[r] = x.missing_alerted_at
    BY DEF AsRead
  <1>4. new_active /\ new_policy # NoPolicy
    BY <1>2, <1>3 DEF Watched
  <1>5. Restarts(x, new_active, new_policy)
    BY <1>3, <1>4 DEF Watched, Restarts
  <1>6. /\ expected_since'[r] = (IF now = x.expected_since THEN expected_since[r] ELSE now)
        /\ missing_alerted_at'[r] = IF Null = x.missing_alerted_at THEN missing_alerted_at[r]
                                    ELSE Null
    BY <1>5 DEF TypeOK, update_receiver, write
  <1> QED
    BY <1>1, <1>3, <1>6

\* Turning the surveillance on, or the receiver, starts a whole window without an open
\* alarm, unless another PATCH of the receiver or the job has come in between.
THEOREM WatchesStartFresh == Spec => WatchStartsFresh
  <1>1. TypeOK /\ [Next]_vars =>
          [\A r \in Receivers : Watched(r)' /\ ~Watched(r) =>
             \E e \in Editors :
               /\ edit[e] # NoEdit /\ edit'[e] = NoEdit /\ edit[e].receiver = r
               /\ AsRead(e) => /\ missing_alerted_at'[r] = Null
                               /\ expected_since'[r] >= edit[e].at]_vars
    <2> SUFFICES ASSUME TypeOK, [Next]_vars, NEW r \in Receivers, Watched(r)', ~Watched(r)
                 PROVE  \E e \in Editors :
                          /\ edit[e] # NoEdit /\ edit'[e] = NoEdit /\ edit[e].receiver = r
                          /\ AsRead(e) => /\ missing_alerted_at'[r] = Null
                                          /\ expected_since'[r] >= edit[e].at
      OBVIOUS
    <2>1. PICK e \in Editors : EditStep(e) /\ edit[e].receiver = r
      BY OnlyPatchesBegin
    <2>2. edit[e] # NoEdit /\ edit'[e] = NoEdit
      BY <2>1 DEF EditStep, update_receiver, TypeOK
    <2> QED
      BY <2>1, <2>2, PatchBeginsFresh
  <1> QED
    BY <1>1, SurveillanceTypes, PTL DEF Spec, WatchStartsFresh
=============================================================================
