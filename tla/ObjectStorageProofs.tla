------------------------ MODULE ObjectStorageProofs -------------------------
(***************************************************************************)
(* ObjectStorage for every number of payloads, tenants and runs: no job    *)
(* deletes a payload that is needed, and no deletion is forgotten.  The    *)
(* invariant says what each job may rely on: a row of the queue belongs to *)
(* a deleted notification, and a key older than the cutoff that no tenant  *)
(* claimed belongs to a request that is over and will never commit.        *)
(***************************************************************************)
EXTENDS ObjectStorage, TLAPS

\* The payload of o is not needed, now or later.
Useless(o) == request[o] = "over" /\ notification[o] # "live"

\* Where the request stands, and what exists because of it.
RequestInv ==
    \A o \in Objects :
        /\ request[o] \in {"idle", "prepared"} => ~object[o]
        /\ request[o] # "over" => notification[o] = "none"
        /\ request[o] = "uploaded" => age[o] <= IngestBound

\* The queue holds keys of deleted notifications.
QueueInv ==
    /\ \A o \in Objects : pending[o] # NoRow => notification[o] = "deleted"
    /\ \A j \in Runs :
         /\ run[j] \in {"locked", "deleted", "failed"} => row[j] \in Objects
         /\ row[j] \in Objects =>
              pending[row[j]] \in 0 .. MaxAttempts - 1
         /\ run[j] = "deleted" => ~object[row[j]]
    /\ \A i, j \in Runs : row[i] = row[j] /\ row[i] \in Objects => i = j

\* What purge_orphan_objects believes of the keys it has collected.
PurgeInv ==
    /\ \A o \in old : request[o] = "over"
    /\ purge = "reading" =>
         \A o \in old : TenantOf[o] \notin to_read /\ o \notin known => Useless(o)
    /\ \A o \in orphans : Useless(o)

Inv == TypeOK /\ PayloadKept /\ DeletionNotForgotten /\ RequestInv /\ QueueInv /\ PurgeInv

-----------------------------------------------------------------------------

\* Nothing exists at the start.
LEMMA InitInv == Init => Inv
  BY ObjectsAssumption, QueueAssumption, GraceAssumption
     DEF Init, Inv, TypeOK, PayloadKept, DeletionNotForgotten, RequestInv, QueueInv, PurgeInv,
         NoRow

\* The steps of a request and the deletion of its notification.
LEMMA RequestKeepsInv ==
  ASSUME Inv, NEW o \in Objects,
         \/ prepare_notification(o) \/ upload_object(o) \/ persist_notification(o)
         \/ delete_notification(o)
  PROVE  Inv'
  <1> USE DEF prepare_notification, upload_object, persist_notification, delete_notification,
              drainVars, purgeVars, s3Vars, NoRow
  <1>1. TypeOK'
    <2>1. object' \in [Objects -> BOOLEAN]
      BY Zenon DEF Inv, TypeOK
    <2> QED
      BY <2>1, QueueAssumption, GraceAssumption DEF Inv, TypeOK
  <1>2. PayloadKept'
    BY DEF Inv, TypeOK, PayloadKept, RequestInv
  <1>3. DeletionNotForgotten'
    BY DEF Inv, TypeOK, DeletionNotForgotten, RequestInv
  <1>4. RequestInv'
    BY GraceAssumption DEF Inv, TypeOK, RequestInv
  <1>5. QueueInv'
    BY QueueAssumption DEF Inv, TypeOK, QueueInv, RequestInv
  <1>6. PurgeInv'
    BY DEF Inv, TypeOK, PurgeInv, Useless, RequestInv
  <1> QED
    BY <1>1, <1>2, <1>3, <1>4, <1>5, <1>6 DEF Inv

\* The steps of a run of the drain.
LEMMA DrainKeepsInv ==
  ASSUME Inv, NEW j \in Runs, DrainStep(j) \/ drain_crash(j)
  PROVE  Inv'
  <1> USE DEF drainVars, purgeVars, s3Vars, NoRow
  <1>1. CASE drain_start(j)
    <2>1. TypeOK'
      BY <1>1 DEF drain_start, Inv, TypeOK
    <2>2. PayloadKept' /\ DeletionNotForgotten' /\ RequestInv' /\ PurgeInv'
      BY <1>1 DEF drain_start, Inv, PayloadKept, DeletionNotForgotten, RequestInv, PurgeInv,
                  Useless
    <2>3. QueueInv'
      BY <1>1 DEF drain_start, Inv, TypeOK, QueueInv
    <2> QED
      BY <2>1, <2>2, <2>3 DEF Inv
  <1>2. ASSUME NEW o \in Objects, drain_lock(j, o) PROVE Inv'
    <2>1. TypeOK'
      BY <1>2 DEF drain_lock, Inv, TypeOK
    <2>2. PayloadKept' /\ DeletionNotForgotten' /\ RequestInv' /\ PurgeInv'
      BY <1>2 DEF drain_lock, Inv, PayloadKept, DeletionNotForgotten, RequestInv, PurgeInv,
                  Useless
    <2>3. pending[o] \in 0 .. MaxAttempts - 1 /\ \A i \in Runs : row[i] # o
      BY <1>2, QueueAssumption DEF drain_lock, Drainable, Inv, TypeOK
    <2>4. QueueInv'
      BY <1>2, <2>3 DEF drain_lock, Inv, TypeOK, QueueInv
    <2> QED
      BY <2>1, <2>2, <2>4 DEF Inv
  <1>3. CASE drain_delete(j)
    <2>1. row[j] \in Objects /\ notification[row[j]] = "deleted" /\ request[row[j]] = "over"
      BY <1>3 DEF drain_delete, Inv, TypeOK, QueueInv, RequestInv
    <2>2. TypeOK'
      BY <1>3 DEF drain_delete, Inv, TypeOK
    <2>3. PayloadKept' /\ DeletionNotForgotten' /\ RequestInv'
      BY <1>3, <2>1
         DEF drain_delete, Inv, TypeOK, PayloadKept, DeletionNotForgotten, RequestInv
    <2>4. QueueInv' /\ PurgeInv'
      BY <1>3, <2>1 DEF drain_delete, Inv, TypeOK, QueueInv, PurgeInv, Useless
    <2> QED
      BY <2>2, <2>3, <2>4 DEF Inv
  <1>4. CASE drain_commit(j)
    <2>1. row[j] \in Objects /\ pending[row[j]] \in 0 .. MaxAttempts - 1
      BY <1>4 DEF drain_commit, Inv, TypeOK, QueueInv
    <2>2. TypeOK'
      BY <1>4, <2>1, QueueAssumption DEF drain_commit, Inv, TypeOK
    <2>3. PayloadKept' /\ DeletionNotForgotten' /\ RequestInv' /\ PurgeInv'
      BY <1>4, <2>1
         DEF drain_commit, Inv, TypeOK, PayloadKept, DeletionNotForgotten, RequestInv, QueueInv,
             PurgeInv, Useless
    <2>4. QueueInv'
      BY <1>4, <2>1, ObjectsAssumption DEF drain_commit, Inv, TypeOK, QueueInv
    <2> QED
      BY <2>2, <2>3, <2>4 DEF Inv
  <1>5. CASE drain_done(j) \/ drain_crash(j)
    BY <1>5, ObjectsAssumption, GraceAssumption
       DEF drain_done, drain_crash, stop_run, Inv, TypeOK, PayloadKept, DeletionNotForgotten,
           RequestInv, QueueInv, PurgeInv, Useless
  <1> QED
    BY <1>1, <1>2, <1>3, <1>4, <1>5 DEF DrainStep

\* The steps of purge_orphan_objects: a key older than the grace period belongs to
\* a request that is over, so what no tenant claims is claimed by nobody.
LEMMA PurgeKeepsInv ==
  ASSUME Inv, PurgeStep \/ purge_crash
  PROVE  Inv'
  <1> USE DEF drainVars, purgeVars, s3Vars
  <1>1. CASE purge_start
    <2>1. \A o \in Objects : object[o] /\ age[o] > Grace => request[o] = "over"
      BY GraceAssumption DEF Inv, TypeOK, RequestInv
    <2> QED
      BY <1>1, <2>1, ObjectsAssumption
         DEF purge_start, Inv, TypeOK, PayloadKept, DeletionNotForgotten, RequestInv, QueueInv,
             PurgeInv, Useless
  <1>2. ASSUME NEW t \in Tenants, purge_read_keys(t) PROVE Inv'
    BY <1>2
       DEF purge_read_keys, Inv, TypeOK, PayloadKept, DeletionNotForgotten, RequestInv, QueueInv,
           PurgeInv, Useless
  <1>3. CASE purge_list
    BY <1>3
       DEF purge_list, Inv, TypeOK, PayloadKept, DeletionNotForgotten, RequestInv, QueueInv,
           PurgeInv, Useless
  <1>4. ASSUME NEW o \in Objects, purge_delete(o) PROVE Inv'
    BY <1>4
       DEF purge_delete, Inv, TypeOK, PayloadKept, DeletionNotForgotten, RequestInv, QueueInv,
           PurgeInv, Useless
  <1>5. CASE purge_done \/ purge_error \/ purge_crash
    BY <1>5, GraceAssumption
       DEF purge_done, purge_error, purge_crash, stop_purge, Inv, TypeOK, PayloadKept,
           DeletionNotForgotten, RequestInv, QueueInv, PurgeInv, Useless
  <1> QED
    BY <1>1, <1>2, <1>3, <1>4, <1>5 DEF PurgeStep

\* Outages, and time.
LEMMA EnvironmentKeepsInv ==
  ASSUME Inv, s3_fails \/ s3_recovers \/ Tick
  PROVE  Inv'
  <1> USE DEF s3_fails, s3_recovers, Tick, drainVars, purgeVars, s3Vars
  <1>1. TypeOK'
    <2>1. age' \in [Objects -> 0 .. Grace + 1]
      BY GraceAssumption DEF Inv, TypeOK
    <2>2. s3_up' \in BOOLEAN /\ object' \in [Objects -> BOOLEAN]
      BY Zenon DEF Inv, TypeOK
    <2>3. faults' \in 0 .. MaxFaults
      BY GraceAssumption DEF Inv, TypeOK
    <2> QED
      BY <2>1, <2>2, <2>3 DEF Inv, TypeOK
  <1>2. PayloadKept' /\ DeletionNotForgotten' /\ QueueInv' /\ PurgeInv'
    BY DEF Inv, PayloadKept, DeletionNotForgotten, QueueInv, PurgeInv, Useless
  <1>3. RequestInv'
    BY GraceAssumption DEF Inv, TypeOK, RequestInv
  <1> QED
    BY <1>1, <1>2, <1>3 DEF Inv

\* Every step keeps the invariant.
LEMMA NextKeepsInv == Inv /\ [Next]_vars => Inv'
  <1> SUFFICES ASSUME Inv, [Next]_vars PROVE Inv'
    OBVIOUS
  <1>1. CASE UNCHANGED vars
    BY <1>1 DEF vars, drainVars, purgeVars, s3Vars, Inv, TypeOK, PayloadKept,
                DeletionNotForgotten, RequestInv, QueueInv, PurgeInv, Useless
  <1>2. CASE Next
    BY <1>2, RequestKeepsInv, DrainKeepsInv, PurgeKeepsInv, EnvironmentKeepsInv DEF Next
  <1> QED
    BY <1>1, <1>2

\* The invariant holds in every reachable state.
LEMMA InvHolds == Spec => []Inv
  BY InitInv, NextKeepsInv, PTL DEF Spec

\* Payloads, queue and jobs are well typed; in particular attempts stop at 10.
THEOREM ObjectStorageTypes == Spec => []TypeOK
  <1>1. Inv => TypeOK
    BY DEF Inv
  <1> QED
    BY <1>1, InvHolds, PTL

\* No job deletes the payload of a notification that exists or is being written.
THEOREM PayloadsAreKept == Spec => []PayloadKept
  <1>1. Inv => PayloadKept
    BY DEF Inv
  <1> QED
    BY <1>1, InvHolds, PTL

\* The object of a deleted notification is gone or still in the queue.
THEOREM DeletionsAreNotForgotten == Spec => []DeletionNotForgotten
  <1>1. Inv => DeletionNotForgotten
    BY DEF Inv
  <1> QED
    BY <1>1, InvHolds, PTL
=============================================================================
