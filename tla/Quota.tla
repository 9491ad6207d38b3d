------------------------------- MODULE Quota -------------------------------
(***************************************************************************)
(* The limits of a tenant: how many notifications a day and how many bytes *)
(* it may store, and how large a body its receivers may accept.  They are  *)
(* sums over rows that other transactions are inserting, or a comparison   *)
(* between rows of two tables, so they hold only by the locks that the     *)
(* handlers take on the row of the tenant.                                 *)
(*                                                                         *)
(* A transaction is a list of statements.  Each takes a lock on a row, of  *)
(* the tenant or of a receiver, and keeps it to the end; the insertion of  *)
(* a row locks those it refers to.                                         *)
(***************************************************************************)
EXTENDS Naturals, Sequences, FiniteSets, FiniteSetsExt

CONSTANTS
    Receivers,      \* identities of receivers, those to be created included
    InitialCaps,    \* the cap of each receiver at the start
    InitialTenants, \* the limits of the tenant at the start
    Settings,       \* what a PATCH of the tenant may set
    Caps,           \* bodies a receiver may be asked to accept
    Sizes,          \* sizes of bodies
    Requests,       \* requests in flight
    MaxRequests,    \* requests that ever arrive
    NoRow, NoRequest, Null

Tenant == "tenant"

VARIABLES
    tenant,         \* the limits: max_per_day, max_storage, cap
    caps,           \* the cap of each receiver, or NoRow
    stored,         \* the committed notifications
    locks,          \* the locks of each transaction: rows and modes
    request,        \* the request each transaction serves
    pc,             \* where it stands
    todo,           \* the statements it has yet to execute
    changed,        \* whether the limits have changed since it arrived
    started         \* requests that have arrived

txVars == <<locks, request, pc, todo>>
vars == <<tenant, caps, stored, txVars, changed, started>>

\* Modes of a row lock: FOR KEY SHARE, FOR NO KEY UPDATE, FOR UPDATE.
Conflict(m, n) ==
    \/ m = "update" \/ n = "update"
    \/ m = "no_key_update" /\ n = "no_key_update"

Holders(p, row, mode) ==
    {q \in Requests \ {p} : \E l \in locks[q] : l[1] = row /\ Conflict(l[2], mode)}

WaitsFor(p) ==
    IF todo[p] = <<>> \/ Head(todo[p]).kind # "lock" THEN {}
    ELSE Holders(p, Head(todo[p]).row, Head(todo[p]).mode)

Count == Cardinality({n \in stored : n.recent})
Bytes == MapThenSumSet(LAMBDA n : n.size, stored)

-----------------------------------------------------------------------------
(* Statements. *)

Lock(row, mode) == [kind |-> "lock", row |-> row, mode |-> mode]
Do(kind) == [kind |-> kind, row |-> Null, mode |-> Null]

Go(p, place, statements) ==
    /\ pc' = [pc EXCEPT ![p] = place]
    /\ todo' = [todo EXCEPT ![p] = statements]

Finish(p) ==
    /\ locks' = [locks EXCEPT ![p] = {}]
    /\ request' = [request EXCEPT ![p] = NoRequest]
    /\ Go(p, "idle", <<>>)

Begin(p, new, place, statements) ==
    /\ pc[p] = "idle" /\ started < MaxRequests
    /\ started' = started + 1
    /\ request' = [request EXCEPT ![p] = new]
    /\ changed' = [changed EXCEPT ![p] = FALSE]
    /\ Go(p, place, statements)
    /\ UNCHANGED <<tenant, caps, stored, locks>>

\* value is what the request stores: a size, a cap or settings.
Request(op, r, value) ==
    [op |-> op, receiver |-> r, value |-> value, id |-> started + 1, locked |-> {}]

\* Mistake: the weaker lock of the settings will do.
quota_lock_weak(p) == Lock(Tenant, "no_key_update")

quota_lock(p) == Lock(Tenant, "update")

\* Mistake: the limits are read, and compared, without a lock.
lock_tenant_settings_never(p) == <<>>

lock_tenant_settings(p) == <<Lock(Tenant, "no_key_update")>>

\* The insertion of the notification, and the heartbeat.
persist_notification(r) ==
    <<Lock(Tenant, "key_share"), Lock(r, "key_share"), Lock(r, "no_key_update")>>

\* An event of the audit refers to the tenant.
Audited == Lock(Tenant, "key_share")

-----------------------------------------------------------------------------
(* The requests. *)

\* A body that is not stored inline is first checked, then uploaded, then checked again.
ingest(p, r, size, object) ==
    /\ caps[r] # NoRow /\ size <= caps[r]
    /\ Begin(p, Request(IF object THEN "precheck" ELSE "ingest", r, size), "limits", <<>>)

\* Whether there is a limit is read without the lock.
enforce_tenant_quotas(p) ==
    /\ pc[p] = "limits"
    /\ LET checks == IF tenant.max_per_day = Null /\ tenant.max_storage = Null THEN <<>>
                     ELSE <<quota_lock(p), Do("count"), Do("sum")>>
       IN  Go(p, "running",
              checks \o IF request[p].op = "ingest" THEN persist_notification(request[p].receiver)
                        ELSE <<>>)
    /\ UNCHANGED <<tenant, caps, stored, locks, request, changed, started>>

\* The first transaction is over, and the object is there.
upload_object(p) ==
    /\ pc[p] = "running" /\ todo[p] = <<>> /\ request[p].op = "precheck"
    /\ request' = [request EXCEPT ![p].op = "ingest"]
    /\ locks' = [locks EXCEPT ![p] = {}]
    /\ Go(p, "limits", <<>>)
    /\ UNCHANGED <<tenant, caps, stored, changed, started>>

\* A setting that is not sent stays.
update_tenant(p, settings) ==
    Begin(p, Request("update_tenant", Null, settings), "running",
          lock_tenant_settings(p) \o <<Do("compare"), Audited>>)

\* Without a cap of its own a receiver takes the tenant's.
create_receiver(p, r, cap) ==
    /\ caps[r] = NoRow
    /\ \A q \in Requests : request[q] # NoRequest => request[q].receiver # r
    /\ Begin(p, Request("create_receiver", r, cap), "running",
             lock_tenant_settings(p) \o <<Do("validate"), Audited>>)

\* A new cap is compared under the lock of the tenant, taken before the receiver's.
update_receiver_cap(p, r, cap) ==
    /\ caps[r] # NoRow
    /\ Begin(p, Request("update_receiver", r, cap), "running",
             lock_tenant_settings(p) \o <<Do("validate"), Lock(r, "no_key_update"), Audited>>)

\* What does not change the cap takes no lock beforehand; the row and the event of the
\* audit are written in either order.
Unordered(p, op, r, mode) ==
    /\ caps[r] # NoRow
    /\ \E statements \in {<<Lock(r, mode), Audited>>, <<Audited, Lock(r, mode)>>} :
           Begin(p, Request(op, r, Null), "running", statements)

update_receiver(p, r) == Unordered(p, "edit_receiver", r, "no_key_update")

\* A slug is unique, so its update locks the row as a deletion does.
rotate_slug(p, r) == Unordered(p, "rotate_slug", r, "update")

delete_receiver(p, r) == Unordered(p, "delete_receiver", r, "update")

\* Mistake: the receivers first, then the tenant by their notifications.
job_locks_receivers == <<Do("skip_locked"), Lock(Tenant, "no_key_update")>>

job_locks == <<Lock(Tenant, "no_key_update"), Do("skip_locked")>>

check_expected_schedules(p) ==
    Begin(p, Request("job", Null, Null), "running",
          job_locks \o <<Lock(Tenant, "key_share")>>)

-----------------------------------------------------------------------------
(* The steps of a transaction. *)

\* A receiver that is gone fails what refers to it.
lock(p) ==
    LET s == Head(todo[p])
    IN  /\ pc[p] = "running" /\ todo[p] # <<>> /\ s.kind = "lock"
        /\ WaitsFor(p) = {}
        /\ IF s.row # Tenant /\ caps[s.row] = NoRow THEN Finish(p)
           ELSE /\ locks' = [locks EXCEPT ![p] = @ \cup {<<s.row, s.mode>>}]
                /\ Go(p, "running", Tail(todo[p]))
                /\ UNCHANGED request
        /\ UNCHANGED <<tenant, caps, stored, changed, started>>

Unlocked(p) == {r \in Receivers : caps[r] # NoRow /\ Holders(p, r, "update") = {}}

\* The job passes the receivers that others have locked by.
skip_locked(p) ==
    LET free == Unlocked(p)
    IN  /\ pc[p] = "running" /\ todo[p] # <<>> /\ Head(todo[p]).kind = "skip_locked"
        /\ locks' = [locks EXCEPT ![p] = @ \cup {<<r, "update">> : r \in free}]
        /\ request' = [request EXCEPT ![p].locked = free]
        /\ Go(p, "running", Tail(todo[p]))
        /\ UNCHANGED <<tenant, caps, stored, changed, started>>

\* The limits as they are under the lock.
Within(kind, p) ==
    CASE kind = "count" -> tenant.max_per_day # Null => Count < tenant.max_per_day
      [] kind = "sum" -> tenant.max_storage # Null => Bytes + request[p].value <= tenant.max_storage
      [] kind = "compare" ->
           "cap" \in DOMAIN request[p].value /\ request[p].value.cap < tenant.cap =>
               \A r \in Receivers : caps[r] # NoRow => caps[r] <= request[p].value.cap
      [] kind = "validate" -> request[p].value # Null => request[p].value <= tenant.cap

check(p) ==
    LET s == Head(todo[p])
    IN  /\ pc[p] = "running" /\ todo[p] # <<>> /\ s.kind \in {"count", "sum", "compare", "validate"}
        /\ IF Within(s.kind, p)
           THEN /\ Go(p, "running", Tail(todo[p]))
                /\ request' = [request EXCEPT ![p].value =
                                  IF s.kind = "validate" /\ @ = Null THEN tenant.cap ELSE @]
                /\ UNCHANGED locks
           ELSE Finish(p)
        /\ UNCHANGED <<tenant, caps, stored, changed, started>>

New(r, size, id) == [receiver |-> r, size |-> size, id |-> id, recent |-> TRUE]

\* The job reports any of the receivers it has locked.
commit(p) ==
    LET r == request[p]
    IN  /\ pc[p] = "running" /\ todo[p] = <<>> /\ r.op # "precheck"
        /\ stored' \in
             CASE r.op = "ingest" -> {stored \cup {New(r.receiver, r.value, r.id)}}
               [] r.op = "job" -> {stored \cup {New(x, 1, r.id) : x \in late} : late \in SUBSET r.locked}
               [] r.op = "delete_receiver" -> {{n \in stored : n.receiver # r.receiver}}
               [] OTHER -> {stored}
        /\ tenant' = IF r.op = "update_tenant"
                     THEN [f \in DOMAIN tenant |->
                              IF f \in DOMAIN r.value THEN r.value[f] ELSE tenant[f]]
                     ELSE tenant
        /\ caps' = CASE r.op \in {"create_receiver", "update_receiver"} ->
                          [caps EXCEPT ![r.receiver] = r.value]
                     [] r.op = "delete_receiver" -> [caps EXCEPT ![r.receiver] = NoRow]
                     [] OTHER -> caps
        /\ changed' = [q \in Requests |-> changed[q] \/ (r.op = "update_tenant" /\ pc[q] # "idle")]
        /\ Finish(p)
        /\ UNCHANGED started

\* A client that goes away, a failed upload, the victim of a deadlock.
rollback(p) ==
    /\ pc[p] # "idle"
    /\ Finish(p)
    /\ UNCHANGED <<tenant, caps, stored, changed, started>>

\* A day goes by, or the retention comes.
age(n) ==
    /\ n.recent
    /\ stored' = (stored \ {n}) \cup {[n EXCEPT !.recent = FALSE]}
    /\ UNCHANGED <<tenant, caps, txVars, changed, started>>

purge(n) ==
    /\ ~n.recent
    /\ stored' = stored \ {n}
    /\ UNCHANGED <<tenant, caps, txVars, changed, started>>

-----------------------------------------------------------------------------
Init ==
    /\ tenant \in InitialTenants
    /\ caps = InitialCaps
    /\ stored = {}
    /\ locks = [p \in Requests |-> {}]
    /\ request = [p \in Requests |-> NoRequest]
    /\ pc = [p \in Requests |-> "idle"]
    /\ todo = [p \in Requests |-> <<>>]
    /\ changed = [p \in Requests |-> FALSE]
    /\ started = 0

Arrival(p) ==
    \/ \E r \in Receivers, size \in Sizes, object \in BOOLEAN : ingest(p, r, size, object)
    \/ \E settings \in Settings : update_tenant(p, settings)
    \/ \E r \in Receivers :
          \/ \E cap \in Caps \cup {Null} : create_receiver(p, r, cap)
          \/ \E cap \in Caps : update_receiver_cap(p, r, cap)
          \/ update_receiver(p, r) \/ rotate_slug(p, r) \/ delete_receiver(p, r)
    \/ check_expected_schedules(p)

Step(p) ==
    \/ enforce_tenant_quotas(p) \/ upload_object(p) \/ lock(p) \/ skip_locked(p) \/ check(p)
    \/ commit(p) \/ rollback(p)

Next ==
    \/ \E p \in Requests : Arrival(p) \/ Step(p)
    \/ \E n \in stored : age(n) \/ purge(n)

Spec == Init /\ [][Next]_vars

-----------------------------------------------------------------------------
(* Properties. *)

\* The variables have their types, and no two transactions hold locks that conflict.
TypeOK ==
    /\ \A p, q \in Requests : p # q =>
          \A l \in locks[p], m \in locks[q] : l[1] = m[1] => ~Conflict(l[2], m[2])
    /\ \A p \in Requests : pc[p] \in {"idle", "limits", "running"}
    /\ \A p \in Requests : pc[p] = "idle" <=> request[p] = NoRequest
    /\ \A n \in stored : n.receiver \in Receivers /\ n.size \in Nat /\ n.recent \in BOOLEAN
    /\ started \in 0 .. MaxRequests

Limited(p) == <<Tenant, "update">> \in locks[p]

\* A send that is stored leaves the tenant within its limits, however many are being
\* stored at once: all but those that found no limit, when one has been set since.
StoredWithin ==
    \A p \in Requests :
        /\ request[p] # NoRequest /\ request[p].op = "ingest" /\ commit(p)
        /\ Limited(p) \/ ~changed[p]
        => /\ tenant.max_per_day # Null => Count' <= tenant.max_per_day
           /\ tenant.max_storage # Null => Bytes' <= tenant.max_storage

QuotaHolds == [][StoredWithin]_vars

\* No receiver accepts a body larger than its tenant's cap, whoever lowers the one while
\* another raises the other.
CapHolds == \A r \in Receivers : caps[r] # NoRow => caps[r] <= tenant.cap

\* Sends, the job of the surveillance and the requests that change a limit never wait for
\* one another in a circle.  Those that write a receiver without the lock of its tenant
\* may: the event of their audit comes after the row.
SendsNeverDeadlock ==
    ~ \E circle \in SUBSET {p \in Requests : request[p] # NoRequest} :
          /\ circle # {} /\ \A p \in circle : WaitsFor(p) \cap circle # {}
          /\ \A p \in circle :
                request[p].op \notin {"edit_receiver", "rotate_slug", "delete_receiver"}
=============================================================================
