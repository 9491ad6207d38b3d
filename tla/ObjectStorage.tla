--------------------------- MODULE ObjectStorage ----------------------------
(***************************************************************************)
(* Payloads in the bucket: the PUT that comes before the commit of the     *)
(* notification, the queue of deletions the trigger on notifications       *)
(* fills, the drain_object_deletions job that empties it, and the          *)
(* purge_orphan_objects job for what neither of them knows.                *)
(*                                                                         *)
(* The database and the bucket share no transaction: every call to S3 is a *)
(* step of its own, and so is every commit.                                *)
(***************************************************************************)
EXTENDS Integers, FiniteSets

CONSTANTS
    Objects,        \* storage keys, one for each large ingestion
    Tenants,        \* tenants
    TenantOf,       \* the tenant of each key
    Runs,           \* concurrent runs of drain_object_deletions
    Batch,          \* PURGE_BATCH_SIZE: rows a run handles at most
    MaxAttempts,    \* the 10 failures after which a row is left alone
    Grace,          \* the 24 hours of purge_orphan_objects, in ticks
    IngestBound,    \* longest time from the PUT to the end of the request
    MaxFaults,      \* bound on the outages of S3 and the deaths of workers
    NoObject        \* the row of a run that holds none

ASSUME ObjectsAssumption == NoObject \notin Objects /\ TenantOf \in [Objects -> Tenants]
ASSUME QueueAssumption == MaxAttempts \in Nat \ {0} /\ Batch \in Nat \ {0}

\* A request lives far less than the grace period.
ASSUME GraceAssumption ==
    Grace \in Nat /\ IngestBound \in Nat /\ IngestBound <= Grace /\ MaxFaults \in Nat

VARIABLES
    request,        \* the ingestion: idle, prepared, uploaded or over
    notification,   \* its row: none, live or deleted
    object,         \* is the object in the bucket
    age,            \* ticks since its LastModified, Grace + 1 for more than Grace
    pending,        \* attempts of its row in pending_object_deletions, NoRow if none
    run,            \* what each run of the drain is doing
    row,            \* the row each run has locked
    visited,        \* the rows each run is done with
    purge,          \* what purge_orphan_objects is doing
    old,            \* keys older than its cutoff
    to_read,        \* tenants whose keys it has yet to read
    known,          \* keys it knows, then nothing
    orphans,        \* keys it is about to delete
    s3_up,          \* does S3 answer
    faults          \* outages and deaths so far

drainVars == <<run, row, visited>>
purgeVars == <<purge, old, to_read, known, orphans>>
s3Vars == <<s3_up, faults>>
vars == <<request, notification, object, age, pending, drainVars, purgeVars, s3Vars>>

NoRow == -1

Init ==
    /\ request = [o \in Objects |-> "idle"]
    /\ notification = [o \in Objects |-> "none"]
    /\ object = [o \in Objects |-> FALSE]
    /\ age = [o \in Objects |-> 0]
    /\ pending = [o \in Objects |-> NoRow]
    /\ run = [j \in Runs |-> "idle"]
    /\ row = [j \in Runs |-> NoObject]
    /\ visited = [j \in Runs |-> {}]
    /\ purge = "idle"
    /\ old = {}
    /\ to_read = {}
    /\ known = {}
    /\ orphans = {}
    /\ s3_up = TRUE
    /\ faults = 0

-----------------------------------------------------------------------------
(* Ingestion of a large payload, and the removal of its notification. *)

\* The first transaction: quota, then normalisation.  A refusal ends it here.
prepare_notification(o) ==
    /\ request[o] = "idle"
    /\ \E outcome \in {"prepared", "over"} : request' = [request EXCEPT ![o] = outcome]
    /\ UNCHANGED <<notification, object, age, pending, drainVars, purgeVars, s3Vars>>

\* The PUT.  It fails with a 503 when S3 does not answer, and may have left the
\* object there all the same.
upload_object(o) ==
    /\ request[o] = "prepared"
    /\ \/ /\ s3_up
          /\ request' = [request EXCEPT ![o] = "uploaded"]
          /\ object' = [object EXCEPT ![o] = TRUE]
       \/ /\ ~s3_up
          /\ request' = [request EXCEPT ![o] = "over"]
          /\ \E stored \in BOOLEAN : object' = [object EXCEPT ![o] = stored]
    /\ age' = [age EXCEPT ![o] = 0]
    /\ UNCHANGED <<notification, pending, drainVars, purgeVars, s3Vars>>

\* The second transaction: quota again, the row, the commit.  A refusal, an error
\* or a crash leaves the object without a row.
persist_notification(o) ==
    /\ request[o] = "uploaded"
    /\ request' = [request EXCEPT ![o] = "over"]
    /\ \E outcome \in {"live", "none"} :
         notification' = [notification EXCEPT ![o] = outcome]
    /\ UNCHANGED <<object, age, pending, drainVars, purgeVars, s3Vars>>

\* The notification is deleted by a user, by purge_notifications or by a cascade;
\* the trigger enqueues its key in the same transaction.
delete_notification(o) ==
    /\ notification[o] = "live"
    /\ notification' = [notification EXCEPT ![o] = "deleted"]
    /\ pending' = [pending EXCEPT ![o] = 0]
    /\ UNCHANGED <<request, object, age, drainVars, purgeVars, s3Vars>>

-----------------------------------------------------------------------------
(* drain_object_deletions. *)

drain_start(j) ==
    /\ run[j] = "idle"
    /\ run' = [run EXCEPT ![j] = "scanning"]
    /\ UNCHANGED <<request, notification, object, age, pending, row, visited, purgeVars, s3Vars>>

\* Mistake: one attempt too many.
Drainable_off_by_one(j, o) ==
    /\ pending[o] # NoRow
    /\ pending[o] <= MaxAttempts
    /\ o \notin visited[j]
    /\ \A i \in Runs : row[i] # o

\* The SELECT ... FOR UPDATE SKIP LOCKED: rows beyond the cursor, with attempts
\* left and not held by another run.
Drainable(j, o) ==
    /\ pending[o] # NoRow
    /\ pending[o] < MaxAttempts
    /\ o \notin visited[j]
    /\ \A i \in Runs : row[i] # o

drain_lock(j, o) ==
    /\ run[j] = "scanning"
    /\ Cardinality(visited[j]) < Batch
    /\ Drainable(j, o)
    /\ run' = [run EXCEPT ![j] = "locked"]
    /\ row' = [row EXCEPT ![j] = o]
    /\ visited' = [visited EXCEPT ![j] = @ \cup {o}]
    /\ UNCHANGED <<request, notification, object, age, pending, purgeVars, s3Vars>>

\* delete_object: an object that is not there is deleted too; when S3 does not
\* answer the object may be gone all the same.
drain_delete(j) ==
    /\ run[j] = "locked"
    /\ \/ /\ s3_up
          /\ run' = [run EXCEPT ![j] = "deleted"]
          /\ object' = [object EXCEPT ![row[j]] = FALSE]
       \/ /\ ~s3_up
          /\ run' = [run EXCEPT ![j] = "failed"]
          /\ \E lost \in BOOLEAN : object' = [object EXCEPT ![row[j]] = @ /\ ~lost]
    /\ UNCHANGED <<request, notification, age, pending, row, visited, purgeVars, s3Vars>>

\* Mistake: the row goes even if the object could not be deleted.
drain_commit_always(j) ==
    /\ run[j] \in {"deleted", "failed"}
    /\ pending' = [pending EXCEPT ![row[j]] = NoRow]
    /\ run' = [run EXCEPT ![j] = "scanning"]
    /\ row' = [row EXCEPT ![j] = NoObject]
    /\ UNCHANGED <<request, notification, object, age, visited, purgeVars, s3Vars>>

\* One commit per row: the row goes with its object, a failure is counted.
drain_commit(j) ==
    /\ run[j] \in {"deleted", "failed"}
    /\ pending' = [pending EXCEPT ![row[j]] = IF run[j] = "deleted" THEN NoRow ELSE @ + 1]
    /\ run' = [run EXCEPT ![j] = "scanning"]
    /\ row' = [row EXCEPT ![j] = NoObject]
    /\ UNCHANGED <<request, notification, object, age, visited, purgeVars, s3Vars>>

stop_run(j) ==
    /\ run' = [run EXCEPT ![j] = "idle"]
    /\ row' = [row EXCEPT ![j] = NoObject]
    /\ visited' = [visited EXCEPT ![j] = {}]
    /\ UNCHANGED <<request, notification, object, age, pending, purgeVars, s3_up>>

drain_done(j) ==
    /\ run[j] = "scanning"
    /\ Cardinality(visited[j]) >= Batch \/ \A o \in Objects : ~Drainable(j, o)
    /\ stop_run(j)
    /\ UNCHANGED faults

\* The worker is killed: its lock and its open transaction go with it.
drain_crash(j) ==
    /\ run[j] # "idle"
    /\ stop_run(j)
    /\ faults < MaxFaults
    /\ faults' = faults + 1

-----------------------------------------------------------------------------
(* purge_orphan_objects. *)

\* The cutoff is fixed first.
purge_start ==
    /\ purge = "idle"
    /\ purge' = "reading"
    /\ old' = {o \in Objects : object[o] /\ age[o] > Grace}
    /\ to_read' = Tenants
    /\ UNCHANGED <<request, notification, object, age, pending, drainVars, known, orphans, s3Vars>>

\* Mistake: a session without app.tenant_id, to which row level security shows
\* no row at all.
purge_read_keys_without_tenant(t) ==
    /\ purge = "reading"
    /\ t \in to_read
    /\ to_read' = to_read \ {t}
    /\ UNCHANGED known
    /\ UNCHANGED <<request, notification, object, age, pending, drainVars, purge, old, orphans,
                   s3Vars>>

\* Mistake: the keys in pending_object_deletions are left to the drain.
purge_read_keys_and_pending(t) ==
    /\ purge = "reading"
    /\ t \in to_read
    /\ to_read' = to_read \ {t}
    /\ known' = known \cup {o \in Objects : TenantOf[o] = t /\ notification[o] = "live"}
                      \cup {o \in Objects : pending[o] # NoRow}
    /\ UNCHANGED <<request, notification, object, age, pending, drainVars, purge, old, orphans,
                   s3Vars>>

\* The keys of the notifications of one tenant, in a session of that tenant.
purge_read_keys(t) ==
    /\ purge = "reading"
    /\ t \in to_read
    /\ to_read' = to_read \ {t}
    /\ known' = known \cup {o \in Objects : TenantOf[o] = t /\ notification[o] = "live"}
    /\ UNCHANGED <<request, notification, object, age, pending, drainVars, purge, old, orphans,
                   s3Vars>>

\* The listing: what is older than the cutoff and not known is an orphan.
purge_list ==
    /\ purge = "reading"
    /\ to_read = {}
    /\ s3_up
    /\ purge' = "deleting"
    /\ orphans' = {o \in old : object[o] /\ o \notin known}
    /\ old' = {}
    /\ known' = {}
    /\ UNCHANGED <<request, notification, object, age, pending, drainVars, to_read, s3Vars>>

purge_delete(o) ==
    /\ purge = "deleting"
    /\ o \in orphans
    /\ s3_up
    /\ object' = [object EXCEPT ![o] = FALSE]
    /\ orphans' = orphans \ {o}
    /\ UNCHANGED <<request, notification, age, pending, drainVars, purge, old, to_read, known,
                   s3Vars>>

stop_purge ==
    /\ purge' = "idle"
    /\ old' = {}
    /\ to_read' = {}
    /\ known' = {}
    /\ orphans' = {}
    /\ UNCHANGED <<request, notification, object, age, pending, drainVars, s3_up>>

purge_done ==
    /\ purge = "deleting"
    /\ orphans = {}
    /\ stop_purge
    /\ UNCHANGED faults

\* The first call to S3 that fails ends the job.
purge_error ==
    /\ purge = "deleting" \/ (purge = "reading" /\ to_read = {})
    /\ ~s3_up
    /\ stop_purge
    /\ UNCHANGED faults

\* The worker is killed.
purge_crash ==
    /\ purge # "idle"
    /\ stop_purge
    /\ faults < MaxFaults
    /\ faults' = faults + 1

-----------------------------------------------------------------------------
(* The environment. *)

s3_fails ==
    /\ s3_up
    /\ faults < MaxFaults
    /\ s3_up' = FALSE
    /\ faults' = faults + 1
    /\ UNCHANGED <<request, notification, object, age, pending, drainVars, purgeVars>>

s3_recovers ==
    /\ ~s3_up
    /\ s3_up' = TRUE
    /\ UNCHANGED <<request, notification, object, age, pending, drainVars, purgeVars, faults>>

\* Time passes; a request that has uploaded ends before IngestBound.
Tick ==
    /\ \A o \in Objects : request[o] = "uploaded" => age[o] < IngestBound
    /\ age' = [o \in Objects |-> IF object[o] /\ age[o] <= Grace THEN age[o] + 1 ELSE age[o]]
    /\ UNCHANGED <<request, notification, object, pending, drainVars, purgeVars, s3Vars>>

DrainStep(j) ==
    \/ drain_start(j)
    \/ \E o \in Objects : drain_lock(j, o)
    \/ drain_delete(j) \/ drain_commit(j) \/ drain_done(j)

PurgeStep ==
    \/ purge_start
    \/ \E t \in Tenants : purge_read_keys(t)
    \/ purge_list
    \/ \E o \in Objects : purge_delete(o)
    \/ purge_done \/ purge_error

Next ==
    \/ \E o \in Objects : prepare_notification(o)
    \/ \E o \in Objects : upload_object(o)
    \/ \E o \in Objects : persist_notification(o)
    \/ \E o \in Objects : delete_notification(o)
    \/ \E j \in Runs : DrainStep(j) \/ drain_crash(j)
    \/ PurgeStep
    \/ purge_crash
    \/ s3_fails \/ s3_recovers
    \/ Tick

Spec == Init /\ [][Next]_vars

\* Beat starts the jobs again and again, S3 comes back from its outages, requests
\* end, and time passes.  Nothing is assumed of users.
Fairness ==
    /\ WF_vars(Tick)
    /\ WF_vars(s3_recovers)
    /\ WF_vars(PurgeStep)
    /\ \A j \in Runs : WF_vars(DrainStep(j))
    /\ \A o \in Objects : WF_vars(upload_object(o)) /\ WF_vars(persist_notification(o))

FairSpec == Spec /\ Fairness

-----------------------------------------------------------------------------
(* Properties. *)

\* Type invariant of the payloads, the queue of deletions and the two jobs.
TypeOK ==
    /\ request \in [Objects -> {"idle", "prepared", "uploaded", "over"}]
    /\ notification \in [Objects -> {"none", "live", "deleted"}]
    /\ object \in [Objects -> BOOLEAN]
    /\ age \in [Objects -> 0 .. Grace + 1]
    /\ pending \in [Objects -> NoRow .. MaxAttempts]
    /\ run \in [Runs -> {"idle", "scanning", "locked", "deleted", "failed"}]
    /\ row \in [Runs -> Objects \cup {NoObject}]
    /\ visited \in [Runs -> SUBSET Objects]
    /\ purge \in {"idle", "reading", "deleting"}
    /\ old \subseteq Objects
    /\ to_read \subseteq Tenants
    /\ known \subseteq Objects
    /\ orphans \subseteq Objects
    /\ s3_up \in BOOLEAN
    /\ faults \in 0 .. MaxFaults

\* A notification that exists has its payload, and a request between its PUT and
\* its commit finds the object it wrote: no job deletes either of them, whenever it
\* read the keys and however long it takes.
PayloadKept ==
    \A o \in Objects :
        notification[o] = "live" \/ request[o] = "uploaded" => object[o]

\* The object of a deleted notification is gone or is still in the queue: crashes
\* and faults between the bucket and the database never lose a deletion.
DeletionNotForgotten ==
    \A o \in Objects : notification[o] = "deleted" /\ object[o] => pending[o] # NoRow

\* An object without notification goes in the end, whether its request failed after
\* the PUT, or its row ran out of attempts.
NoObjectLeaks ==
    \A o \in Objects :
        (object[o] /\ request[o] = "over" /\ notification[o] # "live") ~> ~object[o]
=============================================================================
